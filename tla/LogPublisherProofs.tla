------------------------- MODULE LogPublisherProofs -------------------------
(***************************************************************************)
(* Proofs about LogPublisher, for any messages, executions and limits: its *)
(* type invariant, that a message is stored once per delivery at most, and *)
(* that the service implements EventJournal.                               *)
(***************************************************************************)
EXTENDS LogPublisher, FiniteSetTheorems, WellFoundedInduction, TLAPS

USE MessageAssumption, LimitAssumption

-----------------------------------------------------------------------------
(* Induction, from the well-foundedness of <. *)

\* A set of numbers that is not empty has a least one.
LEMMA LeastNumber ==
  ASSUME NEW T \in SUBSET Nat, T # {}
  PROVE  \E x \in T : \A y \in T : x <= y
<1> DEFINE R == OpToRel(<, Nat)
<1>1. IsWellFoundedOn(R, Nat)
  BY NatLessThanWellFounded
<1> HIDE DEF R
<1>2. PICK x \in T : \A y \in T : ~ (<<y, x>> \in R)
  BY <1>1, WFMin
<1>3. \A y \in T : y < x => <<y, x>> \in R
  BY DEF R, OpToRel
<1>4. x \in Nat /\ \A y \in T : y \in Nat /\ ~ (y < x)
  BY <1>2, <1>3
<1> QED BY <1>4

\* A set with 0, and with the successor of each number below n it has, has all up to n.
LEMMA Induction ==
  ASSUME NEW n \in Nat, NEW S, 0 \in S, \A k \in 0..n : k \in S /\ k < n => k + 1 \in S
  PROVE  0..n \subseteq S
<1> SUFFICES ASSUME (0..n) \ S # {} PROVE FALSE
  OBVIOUS
<1>1. PICK x \in (0..n) \ S : \A y \in (0..n) \ S : x <= y
  <2>1. (0..n) \ S \in SUBSET Nat
    OBVIOUS
  <2> QED BY <2>1, LeastNumber
<1>2. x # 0 /\ x - 1 \in 0..n /\ x - 1 < n
  BY <1>1
<1>3. x - 1 \in S
  BY <1>1, <1>2
<1> QED BY <1>1, <1>2, <1>3

-----------------------------------------------------------------------------
(* Sequences. *)

LEMMA RangeSubset ==
  ASSUME NEW S, NEW s \in Seq(S)
  PROVE  Range(s) \subseteq S
  BY DEF Range

LEMMA RangeEmpty == Range(<<>>) = {}
  BY DEF Range

LEMMA RangeAppend ==
  ASSUME NEW S, NEW s \in Seq(S), NEW x \in S
  PROVE  Range(Append(s, x)) = Range(s) \cup {x}
<1>1. \A y \in Range(Append(s, x)) : y \in Range(s) \cup {x}
  BY DEF Range
<1>2. \A y \in Range(s) : y \in Range(Append(s, x))
  <2> SUFFICES ASSUME NEW i \in DOMAIN s PROVE s[i] \in Range(Append(s, x))
    BY DEF Range
  <2>1. i \in DOMAIN Append(s, x) /\ Append(s, x)[i] = s[i]
    OBVIOUS
  <2> QED BY <2>1 DEF Range
<1>3. x \in Range(Append(s, x))
  <2>1. Len(s) + 1 \in DOMAIN Append(s, x) /\ Append(s, x)[Len(s) + 1] = x
    OBVIOUS
  <2> QED BY <2>1 DEF Range
<1> QED BY <1>1, <1>2, <1>3

LEMMA RangeTail ==
  ASSUME NEW S, NEW s \in Seq(S), s # <<>>
  PROVE  Head(s) \in S /\ Tail(s) \in Seq(S) /\ Range(s) = {Head(s)} \cup Range(Tail(s))
<1>1. Head(s) \in S /\ Tail(s) \in Seq(S) /\ Len(s) \in Nat \ {0} /\ Head(s) = s[1]
  OBVIOUS
<1>2. \A y \in Range(Tail(s)) : y \in Range(s)
  <2> SUFFICES ASSUME NEW i \in DOMAIN Tail(s) PROVE Tail(s)[i] \in Range(s)
    BY DEF Range
  <2>1. i + 1 \in DOMAIN s /\ Tail(s)[i] = s[i + 1]
    BY <1>1
  <2> QED BY <2>1 DEF Range
<1>3. Head(s) \in Range(s)
  <2>1. 1 \in DOMAIN s
    BY <1>1
  <2> QED BY <1>1, <2>1 DEF Range
<1>4. \A y \in Range(s) : y \in {Head(s)} \cup Range(Tail(s))
  <2> SUFFICES ASSUME NEW i \in DOMAIN s, i # 1 PROVE s[i] \in Range(Tail(s))
    BY <1>1 DEF Range
  <2>1. i - 1 \in DOMAIN Tail(s) /\ Tail(s)[i - 1] = s[i]
    BY <1>1
  <2> QED BY <2>1 DEF Range
<1> QED BY <1>1, <1>2, <1>3, <1>4

LEMMA RangeConcat ==
  ASSUME NEW S, NEW s \in Seq(S), NEW t \in Seq(S)
  PROVE  s \o t \in Seq(S) /\ Range(s \o t) = Range(s) \cup Range(t)
<1>1. \A y \in Range(s \o t) : y \in Range(s) \cup Range(t)
  <2> SUFFICES ASSUME NEW i \in DOMAIN (s \o t) PROVE (s \o t)[i] \in Range(s) \cup Range(t)
    BY DEF Range
  <2>1. CASE i <= Len(s)
    <3>1. i \in DOMAIN s /\ (s \o t)[i] = s[i]
      BY <2>1
    <3> QED BY <3>1 DEF Range
  <2>2. CASE ~ (i <= Len(s))
    <3>1. i - Len(s) \in DOMAIN t /\ (s \o t)[i] = t[i - Len(s)]
      BY <2>2
    <3> QED BY <3>1 DEF Range
  <2> QED BY <2>1, <2>2
<1>2. \A y \in Range(s) : y \in Range(s \o t)
  <2> SUFFICES ASSUME NEW i \in DOMAIN s PROVE s[i] \in Range(s \o t)
    BY DEF Range
  <2>1. i \in DOMAIN (s \o t) /\ (s \o t)[i] = s[i]
    OBVIOUS
  <2> QED BY <2>1 DEF Range
<1>3. \A y \in Range(t) : y \in Range(s \o t)
  <2> SUFFICES ASSUME NEW i \in DOMAIN t PROVE t[i] \in Range(s \o t)
    BY DEF Range
  <2>1. i + Len(s) \in DOMAIN (s \o t) /\ (s \o t)[i + Len(s)] = t[i]
    OBVIOUS
  <2> QED BY <2>1 DEF Range
<1> QED BY <1>1, <1>2, <1>3

\* A finite set has a sequence of its elements, each of them once.
LEMMA SetToSeqList ==
  ASSUME NEW S, IsFiniteSet(S)
  PROVE  SetToSeq(S) \in Seq(S) /\ Range(SetToSeq(S)) = S /\ IsInjective(SetToSeq(S))
<1> DEFINE n == Cardinality(S)
           f == SetToSeq(S)
<1>1. n \in Nat /\ ExistsBijection(1..n, S)
  BY FS_CardinalityType
<1>2. \E g \in [1..n -> S] : IsInjective(g)
  BY <1>1 DEF ExistsBijection, Bijection, Injection, IsInjective
<1>3. f \in [1..n -> S] /\ IsInjective(f)
  BY <1>2 DEF SetToSeq
<1> HIDE DEF f
<1>4. f \in Seq(S)
  BY <1>1, <1>3
<1>5. f \in Injection(1..n, S)
  BY <1>3 DEF Injection
<1>6. f \in Surjection(1..n, S)
  <2>1. Cardinality(1..n) = n
    BY <1>1, FS_Interval
  <2> QED BY <1>5, <2>1, FS_Injection
<1>7. Range(f) = S
  BY <1>3, <1>6 DEF Surjection, Range
<1> QED BY <1>3, <1>4, <1>7 DEF f

\* _sanitize_cache keeps entries of the cache, in at most as many places, and only those
\* of executions that were found.
KeptUpTo(c, k, n) ==
  IF n = 0 THEN <<>> ELSE IF c[n].row = 0 THEN k[n - 1] ELSE Append(k[n - 1], c[n])

LEMMA SanitizedKeeps ==
  ASSUME NEW c \in Seq(Entry)
  PROVE  /\ Sanitized(c) \in Seq(Entry) /\ Len(Sanitized(c)) <= Len(c)
         /\ \A x \in Range(Sanitized(c)) : x.row # 0
<1> DEFINE N == Len(c)
           IsKept(k, n) == k = [i \in 0..n |-> KeptUpTo(c, k, i)]
           F == CHOOSE k : IsKept(k, N)
<1>1. N \in Nat
  OBVIOUS
<1>2. Sanitized(c) = F[N]
  BY DEF Sanitized, KeptUpTo
<1> DEFINE D == {n \in 0..N : \E k : IsKept(k, n)}
<1>3. 0 \in D
  <2>1. IsKept([i \in 0..0 |-> <<>>], 0)
    BY DEF KeptUpTo
  <2> QED BY <1>1, <2>1
<1>4. ASSUME NEW n \in 0..N, n \in D, n < N PROVE n + 1 \in D
  <2>1. PICK k : IsKept(k, n)
    BY <1>4
  <2> DEFINE g == [i \in 0..(n + 1) |-> IF i = n + 1 THEN KeptUpTo(c, k, i) ELSE k[i]]
  <2>2. \A i \in 0..(n + 1) : g[i] = KeptUpTo(c, g, i)
    <3> SUFFICES ASSUME NEW i \in 0..(n + 1) PROVE g[i] = KeptUpTo(c, g, i)
      OBVIOUS
    <3>1. i # 0 => i - 1 \in 0..n /\ g[i - 1] = k[i - 1]
      BY <1>1, <1>4
    <3>2. KeptUpTo(c, g, i) = KeptUpTo(c, k, i)
      BY <3>1 DEF KeptUpTo
    <3>3. i # n + 1 => i \in 0..n
      BY <1>1, <1>4
    <3>4. \A l \in 0..n : k[l] = KeptUpTo(c, k, l)
      BY <2>1, Zenon
    <3> QED BY <3>2, <3>3, <3>4
  <2>3. IsKept(g, n + 1)
    BY <2>2
  <2> HIDE DEF g
  <2> QED BY <1>1, <1>4, <2>3
<1>5. 0..N \subseteq D
  <2> HIDE DEF D, N
  <2> QED BY <1>1, <1>3, <1>4, Induction
<1>6. IsKept(F, N)
  <2>1. N \in D
    BY <1>1, <1>5
  <2>2. \E k : IsKept(k, N)
    BY <2>1
  <2> HIDE DEF IsKept
  <2> QED BY <2>2
<1> HIDE DEF F
<1> DEFINE G == {n \in 0..N : /\ F[n] \in Seq(Entry) /\ Len(F[n]) <= n
                              /\ \A x \in Range(F[n]) : x.row # 0}
<1>7. \A n \in 0..N : F[n] = KeptUpTo(c, F, n)
  BY <1>6
<1>8. 0 \in G
  <2>1. F[0] = <<>>
    BY <1>1, <1>7 DEF KeptUpTo
  <2>2. <<>> \in Seq(Entry) /\ Len(<<>>) <= 0 /\ \A x \in Range(<<>>) : x.row # 0
    BY RangeEmpty
  <2>3. 0 \in 0..N
    BY <1>1
  <2> QED BY <2>1, <2>2, <2>3
<1>9. ASSUME NEW n \in 0..N, n \in G, n < N PROVE n + 1 \in G
  <2>1. n + 1 \in 0..N /\ n + 1 # 0 /\ (n + 1) - 1 = n /\ c[n + 1] \in Entry
    BY <1>1, <1>9
  <2>2. F[n + 1] = IF c[n + 1].row = 0 THEN F[n] ELSE Append(F[n], c[n + 1])
    BY <1>7, <2>1 DEF KeptUpTo
  <2>3. F[n] \in Seq(Entry) /\ Len(F[n]) <= n /\ \A x \in Range(F[n]) : x.row # 0
    BY <1>9
  <2>4. CASE c[n + 1].row = 0
    BY <2>1, <2>2, <2>3, <2>4
  <2>5. CASE c[n + 1].row # 0
    <3>1. Range(F[n + 1]) = Range(F[n]) \cup {c[n + 1]}
      BY <2>1, <2>2, <2>3, <2>5, RangeAppend
    <3>2. \A x \in Range(F[n + 1]) : x.row # 0
      BY <2>3, <2>5, <3>1
    <3>3. F[n + 1] \in Seq(Entry) /\ Len(F[n + 1]) <= n + 1
      BY <2>1, <2>2, <2>3, <2>5
    <3> QED BY <2>1, <3>2, <3>3
  <2> QED BY <2>4, <2>5
<1>10. 0..N \subseteq G
  <2> HIDE DEF G, N
  <2> QED BY <1>1, <1>8, <1>9, Induction
<1>11. N \in G
  BY <1>1, <1>10
<1> QED BY <1>2, <1>11

-----------------------------------------------------------------------------
(* Types. *)

\* Messages sent that RabbitMQ still has.
Waiting == unacked \cup Range(queue)

\* What the types rest on: what waits was sent, and a row that is inserted on its own
\* is the one of the item at hand.
Coherent ==
  /\ IsFiniteSet(sent) /\ Waiting \subseteq sent
  /\ pc = "insertOne" => /\ next \in DOMAIN items
                         /\ Len(found) = 1 /\ found[1].msg = items[next].msg

Typed == TypeOK /\ Coherent

FoundRow == [msg : Message, row : 1..MaxRow]

LEMMA Types ==
  ASSUME Typed
  PROVE  /\ row \in [Execution -> 0..MaxRow] /\ rows \in [Message -> Nat]
         /\ queue \in Seq(Message) /\ unacked \subseteq Message
         /\ channel \in 1..MaxChannel
         /\ batch \in Seq(Delivery) /\ acks \in Seq(Delivery) /\ items \in Seq(Delivery)
         /\ next \in 1..(Len(items) + 1) /\ Len(items) \in Nat
         /\ found \in Seq(FoundRow)
         /\ cache \in Seq(Entry) /\ Len(cache) <= CacheLimit
         /\ sent \subseteq Message /\ orphans \subseteq Message
         /\ delivered \in [Message -> Nat] /\ changes \in Nat
  BY SMTT(30) DEF Typed, TypeOK, FoundRow

LEMMA RequeuedTypes ==
  ASSUME Typed
  PROVE  Requeued \in Seq(Message) /\ Range(Requeued) = Waiting
<1>1. IsFiniteSet(unacked)
  BY FS_Subset DEF Typed, Coherent, Waiting
<1>2. SetToSeq(unacked) \in Seq(Message) /\ Range(SetToSeq(unacked)) = unacked
  <2>1. SetToSeq(unacked) \in Seq(unacked) /\ Range(SetToSeq(unacked)) = unacked
    BY <1>1, SetToSeqList
  <2>2. \A s \in Seq(unacked) : s \in Seq(Message)
    BY Types
  <2> QED BY <2>1, <2>2
<1> QED BY <1>2, Types, RangeConcat DEF Requeued, Waiting

\* The number of times a message is in a sequence.
LEMMA CountType ==
  ASSUME NEW S, NEW s \in Seq(S), NEW m
  PROVE  Count(s, m) \in Nat
<1>1. IsFiniteSet(1..Len(s))
  BY FS_Interval
<1>2. {i \in DOMAIN s : s[i].msg = m} \in SUBSET (1..Len(s))
  OBVIOUS
<1> QED BY <1>1, <1>2, FS_Subset, FS_CardinalityType DEF Count

LEMMA InsertedType ==
  ASSUME Typed
  PROVE  Inserted(found) \in [Message -> Nat]
<1>1. \A m \in Message : Count(found, m) \in Nat /\ rows[m] \in Nat
  BY Types, CountType
<1> QED BY <1>1 DEF Inserted

\* What a lookup yields.
LEMMA LookupTypes ==
  ASSUME Typed, NEW m \in Message
  PROVE  /\ ExecutionRow(ExecOf[m]) \in 0..MaxRow
         /\ DbItem(m) \in Seq(FoundRow)
         /\ DbItem(m) # <<>> => Len(DbItem(m)) = 1 /\ DbItem(m)[1].msg = m
         /\ CacheWith(ExecOf[m]) \in Seq(Entry) /\ Len(CacheWith(ExecOf[m])) <= CacheLimit
<1> DEFINE e == ExecOf[m]
<1>1. e \in Execution
  OBVIOUS
<1>2. ExecutionRow(e) \in 0..MaxRow
  <2>1. CASE Cached(e)
    <3>1. \E c \in Range(cache) : c.exec = e
      BY <2>1 DEF Cached
    <3>2. PICK c \in Range(cache) : c = CHOOSE d \in Range(cache) : d.exec = e
      BY <3>1
    <3>3. c \in Entry
      BY Types, RangeSubset
    <3> QED BY <2>1, <3>2, <3>3 DEF ExecutionRow, Entry
  <2>2. CASE ~ Cached(e)
    BY <1>1, <2>2, Types DEF ExecutionRow
  <2> QED BY <2>1, <2>2
<1>3. /\ DbItem(m) \in Seq(FoundRow)
      /\ DbItem(m) # <<>> => Len(DbItem(m)) = 1 /\ DbItem(m)[1].msg = m
  <2>1. CASE DbItem(m) = <<>>
    BY <2>1
  <2>2. CASE DbItem(m) # <<>>
    <3>1. ExecutionRow(e) # 0 /\ DbItem(m) = <<[msg |-> m, row |-> ExecutionRow(e)]>>
      BY <2>2 DEF DbItem
    <3>2. ExecutionRow(e) \in 1..MaxRow
      BY <1>2, <3>1
    <3>3. [msg |-> m, row |-> ExecutionRow(e)] \in FoundRow
      BY <3>2 DEF FoundRow
    <3> QED BY <3>1, <3>3
  <2> QED BY <2>1, <2>2
<1>4. CacheWith(e) \in Seq(Entry) /\ Len(CacheWith(e)) <= CacheLimit
  <2>1. CASE Cached(e)
    BY <2>1, Types DEF CacheWith
  <2>2. CASE ~ Cached(e)
    <3> DEFINE x == [exec |-> e, row |-> row[e]]
    <3>1. x \in Entry
      BY <1>1, Types DEF Entry
    <3> HIDE DEF x
    <3>2. CacheWith(e) = IF Len(Append(cache, x)) > CacheLimit THEN Tail(Append(cache, x))
                                                                ELSE Append(cache, x)
      BY <2>2 DEF CacheWith, x
    <3> DEFINE s == Append(cache, x)
    <3>6. cache \in Seq(Entry) /\ Len(cache) <= CacheLimit
      BY Types
    <3>3. s \in Seq(Entry) /\ Len(s) = Len(cache) + 1 /\ Len(cache) \in Nat /\ s # <<>>
      BY <3>1, <3>6
    <3> HIDE DEF s
    <3>4. Tail(s) \in Seq(Entry) /\ Len(Tail(s)) = Len(s) - 1
      BY <3>3
    <3>5. CacheWith(e) = IF Len(s) > CacheLimit THEN Tail(s) ELSE s
      BY <3>2 DEF s
    <3> QED BY <3>3, <3>4, <3>5, <3>6
  <2> QED BY <2>1, <2>2
<1> QED BY <1>2, <1>3, <1>4

\* Each action keeps the types: those of executions and senders,
LEMMA ExecutionTypes ==
  ASSUME Typed, NEW e \in Execution, CreateExecution(e) \/ DeleteExecution(e)
  PROVE  Typed'
<1>1. row' \in [Execution -> 0..MaxRow] /\ changes' \in Nat
  <2>1. PICK r \in 0..MaxRow : row' = [row EXCEPT ![e] = r]
    BY DEF CreateExecution, DeleteExecution
  <2>2. changes' = changes + 1
    BY DEF CreateExecution, DeleteExecution
  <2> QED BY <2>1, <2>2, Types, SMTT(30)
<1>2. orphans' \subseteq Message
  <2>1. Waiting \subseteq Message
    BY Types, RangeSubset DEF Waiting
  <2> QED BY <2>1, Types DEF CreateExecution, DeleteExecution, Waiting
<1>3. UNCHANGED <<rows, brokerVars, batch, acks, pc, storeVars, sent>>
  BY DEF CreateExecution, DeleteExecution
<1> QED BY <1>1, <1>2, <1>3 DEF Typed, TypeOK, Coherent, Waiting, brokerVars, storeVars

LEMMA SendTypes ==
  ASSUME Typed, NEW m \in Message, Send(m)
  PROVE  Typed'
<1>1. queue' \in Seq(Message) /\ Range(queue') = Range(queue) \cup {m}
  BY Types, RangeAppend DEF Send
<1>2. IsFiniteSet(sent')
  BY FS_AddElement DEF Send, Typed, Coherent
<1>3. Waiting' \subseteq sent'
  BY <1>1 DEF Send, Typed, Coherent, Waiting
<1>4. UNCHANGED <<row, changes, rows, unacked, channel, delivered, batch, acks, pc, storeVars,
                  orphans>> /\ sent' \subseteq Message
  BY Types DEF Send
<1> QED BY <1>1, <1>2, <1>3, <1>4 DEF Typed, TypeOK, Coherent, storeVars

\* of the consumer thread,
LEMMA DeliverTypes ==
  ASSUME Typed, Deliver
  PROVE  Typed'
<1> DEFINE m == Head(queue)
<1>1. m \in Message /\ Tail(queue) \in Seq(Message) /\ Range(queue) = {m} \cup Range(Tail(queue))
  BY Types, RangeTail DEF Deliver
<1>2. queue' = Tail(queue) /\ unacked' \subseteq unacked \cup {m}
  BY DEF Deliver
<1>3. delivered' \in [Message -> Nat]
  <2>1. delivered' = [delivered EXCEPT ![m] = @ + 1]
    BY DEF Deliver
  <2>2. delivered \in [Message -> Nat]
    BY Types
  <2>3. m \in Message
    BY <1>1
  <2> HIDE DEF m
  <2> QED BY <2>1, <2>2, <2>3
<1>4. batch' \in Seq(Delivery)
  <2>1. [msg |-> m, ch |-> channel] \in Delivery
    BY <1>1, Types DEF Delivery
  <2> QED BY <2>1, Types DEF Deliver
<1>5. UNCHANGED <<row, changes, rows, channel, acks, pc, storeVars, sent, orphans>>
  BY DEF Deliver
<1>6. Waiting' \subseteq sent'
  BY <1>1, <1>2, <1>5 DEF Typed, Coherent, Waiting
<1>7. unacked' \subseteq Message
  BY <1>1, <1>2, Types
<1> QED BY <1>1, <1>2, <1>3, <1>4, <1>5, <1>6, <1>7 DEF Typed, TypeOK, Coherent, storeVars

LEMMA ReconnectTypes ==
  ASSUME Typed, Reconnect
  PROVE  Typed' /\ Waiting' = Waiting
<1>1. queue' \in Seq(Message) /\ Range(queue') = Waiting /\ unacked' = {}
  BY RequeuedTypes DEF Reconnect
<1>2. channel' \in 1..MaxChannel
  BY Types DEF Reconnect, NewChannel
<1>3. Waiting' = Waiting
  BY <1>1 DEF Waiting
<1> QED BY <1>1, <1>2, <1>3 DEF Reconnect, Typed, TypeOK, Coherent, storeVars

LEMMA RestartTypes ==
  ASSUME Typed, Restart, channel' = channel \/ NewChannel
  PROVE  Typed' /\ Waiting' = Waiting
<1>1. queue' \in Seq(Message) /\ Range(queue') = Waiting /\ unacked' = {}
  BY RequeuedTypes DEF Restart
<1>2. channel' \in 1..MaxChannel
  BY Types DEF NewChannel
<1>3. Waiting' = Waiting
  BY <1>1 DEF Waiting
<1>4. /\ batch' = <<>> /\ acks' = <<>>
      /\ pc' = "take" /\ items' = <<>> /\ next' = 1 /\ found' = <<>> /\ cache' = <<>>
      /\ UNCHANGED <<row, changes, rows, delivered, sent, orphans>>
  BY DEF Restart
<1>5. /\ batch' \in Seq(Delivery) /\ acks' \in Seq(Delivery) /\ items' \in Seq(Delivery)
      /\ next' \in 1..(Len(items') + 1) /\ found' \in Seq(FoundRow)
      /\ cache' \in Seq(Entry) /\ Len(cache') <= CacheLimit
  BY <1>4
<1>6. TypeOK'
  BY <1>1, <1>2, <1>4, <1>5 DEF Typed, TypeOK, FoundRow
<1>7. Coherent'
  BY <1>3, <1>4 DEF Typed, Coherent
<1> QED BY <1>3, <1>6, <1>7 DEF Typed

LEMMA AckTypes ==
  ASSUME Typed, Ack
  PROVE  Typed'
<1>1. acks' \in Seq(Delivery) /\ unacked' \subseteq unacked
  BY Types, RangeTail DEF Ack
<1> QED BY <1>1 DEF Ack, Typed, TypeOK, Coherent, Waiting, storeVars

\* and of the publisher thread.
LEMMA TakeTypes ==
  ASSUME Typed, Take
  PROVE  Typed'
<1>1. Head(batch) \in Delivery /\ batch' \in Seq(Delivery)
  BY Types, RangeTail DEF Take
<1>2. items' \in Seq(Delivery) /\ next' \in 1..(Len(items') + 1)
  BY <1>1, Types DEF Take
<1>3. UNCHANGED <<row, changes, rows, brokerVars, acks, pc, next, found, cache, sent, orphans>>
      /\ pc = "take"
  BY DEF Take
<1> QED BY <1>1, <1>2, <1>3 DEF Typed, TypeOK, Coherent, Waiting, brokerVars

LEMMA StoreTypes ==
  ASSUME Typed, Store
  PROVE  Typed'
<1>1. orphans' \subseteq Message
  <2>1. Waiting \subseteq Message
    BY Types, RangeSubset DEF Waiting
  <2> QED BY <2>1, Types DEF Store, Waiting
<1>2. next' \in 1..(Len(items) + 1) /\ found' \in Seq(FoundRow)
  BY Types DEF Store
<1>3. UNCHANGED <<row, changes, rows, brokerVars, batch, acks, items, cache, sent>>
      /\ pc' = "lookup"
  BY DEF Store
<1> QED BY <1>1, <1>2, <1>3 DEF Typed, TypeOK, Coherent, Waiting, brokerVars, FoundRow

LEMMA LookupStepTypes ==
  ASSUME Typed, Lookup \/ LookupOne
  PROVE  /\ Typed'
         /\ next \in DOMAIN items /\ items[next].msg \in Message
<1> DEFINE m == items[next].msg
<1>1. next \in DOMAIN items /\ m \in Message
  <2>1. next \in DOMAIN items
    BY Types DEF Lookup, LookupOne
  <2>2. items[next] \in Delivery
    BY <2>1, Types
  <2> QED BY <2>1, <2>2 DEF Delivery
<1>2. cache' \in Seq(Entry) /\ Len(cache') <= CacheLimit
  BY <1>1, LookupTypes DEF Lookup, LookupOne
<1>3. found' \in Seq(FoundRow)
  <2>1. DbItem(m) \in Seq(FoundRow)
    BY <1>1, LookupTypes
  <2>2. found \o DbItem(m) \in Seq(FoundRow)
    BY <2>1, Types, RangeConcat
  <2> QED BY <2>1, <2>2 DEF Lookup, LookupOne
<1>4. next' \in 1..(Len(items) + 1)
  BY Types DEF Lookup, LookupOne
<1>5. UNCHANGED <<row, changes, rows, brokerVars, batch, acks, items, sent, orphans>>
      /\ pc' \in {"lookup", "one", "insertOne"}
  BY DEF Lookup, LookupOne
<1>6. pc' = "insertOne" =>
        next' \in DOMAIN items /\ Len(found') = 1 /\ found'[1].msg = items[next'].msg
  <2> SUFFICES ASSUME pc' = "insertOne"
               PROVE  next' \in DOMAIN items /\ Len(found') = 1 /\ found'[1].msg = items[next'].msg
    OBVIOUS
  <2>1. LookupOne /\ found' = DbItem(m) /\ DbItem(m) # <<>> /\ next' = next
    BY DEF Lookup, LookupOne
  <2> QED BY <1>1, <2>1, LookupTypes
<1>7. TypeOK'
  BY <1>2, <1>3, <1>4, <1>5 DEF Typed, TypeOK, brokerVars, FoundRow
<1>8. Coherent'
  BY <1>5, <1>6 DEF Typed, Coherent, Waiting, brokerVars
<1> QED BY <1>1, <1>7, <1>8 DEF Typed

LEMMA StoreCommitTypes ==
  ASSUME Typed, StoreCommit
  PROVE  Typed'
<1>1. rows' \in [Message -> Nat]
  BY InsertedType DEF StoreCommit
<1>2. acks' \in Seq(Delivery)
  BY Types, RangeConcat DEF StoreCommit
<1>3. cache' \in Seq(Entry) /\ Len(cache') <= CacheLimit
  <2>1. Sanitized(cache) \in Seq(Entry) /\ Len(Sanitized(cache)) <= Len(cache)
    BY Types, SanitizedKeeps
  <2> QED BY <2>1, Types DEF StoreCommit
<1>4. /\ items' \in Seq(Delivery) /\ next' \in 1..(Len(items') + 1) /\ found' \in Seq(FoundRow)
      /\ pc' = "take" /\ UNCHANGED <<row, changes, brokerVars, batch, sent, orphans>>
  BY DEF StoreCommit
<1> QED BY <1>1, <1>2, <1>3, <1>4 DEF Typed, TypeOK, Coherent, Waiting, brokerVars, FoundRow

LEMMA StoreFailsTypes ==
  ASSUME Typed, StoreFails
  PROVE  Typed'
<1>1. /\ next' \in 1..(Len(items) + 1) /\ found' \in Seq(FoundRow)
      /\ cache' \in Seq(Entry) /\ Len(cache') <= CacheLimit
  BY Types DEF StoreFails
<1> QED BY <1>1 DEF StoreFails, Typed, TypeOK, Coherent, Waiting, brokerVars, FoundRow

LEMMA InsertOneTypes ==
  ASSUME Typed, InsertOne
  PROVE  Typed'
<1>1. rows' \in [Message -> Nat]
  BY InsertedType, Types DEF InsertOne
<1>2. next' \in 1..(Len(items) + 1) /\ found' \in Seq(FoundRow)
  BY Types DEF InsertOne, Typed, Coherent
<1> QED BY <1>1, <1>2 DEF InsertOne, Typed, TypeOK, Coherent, Waiting, brokerVars, FoundRow

LEMMA StoredOneByOneTypes ==
  ASSUME Typed, StoredOneByOne
  PROVE  Typed'
<1>1. cache' \in Seq(Entry) /\ Len(cache') <= CacheLimit
  <2>1. Sanitized(cache) \in Seq(Entry) /\ Len(Sanitized(cache)) <= Len(cache)
    BY Types, SanitizedKeeps
  <2> QED BY <2>1, Types DEF StoredOneByOne
<1>2. items' \in Seq(Delivery) /\ next' \in 1..(Len(items') + 1) /\ found' \in Seq(FoundRow)
  BY DEF StoredOneByOne
<1> QED BY <1>1, <1>2
        DEF StoredOneByOne, Typed, TypeOK, Coherent, Waiting, brokerVars, FoundRow

LEMMA DiesTypes ==
  ASSUME Typed, ThreadDies \/ DatabaseLostUnseen
  PROVE  Typed'
  BY DEF ThreadDies, DatabaseLostUnseen, Typed, TypeOK, Coherent, Waiting, brokerVars, storeVars

LEMMA InitTypes == Init => Typed
<1> SUFFICES ASSUME Init PROVE Typed
  OBVIOUS
<1>1. row \in [Execution -> 0..MaxRow] /\ channel \in 1..MaxChannel /\ next \in 1..(Len(items) + 1)
  BY DEF Init
<1>2. IsFiniteSet(sent) /\ Waiting \subseteq sent
  BY FS_EmptySet, RangeEmpty DEF Init, Waiting
<1>3. Coherent
  BY <1>2 DEF Init, Coherent
<1>4. /\ rows \in [Message -> Nat] /\ delivered \in [Message -> Nat]
      /\ queue \in Seq(Message) /\ unacked \subseteq Message
      /\ batch \in Seq(Delivery) /\ acks \in Seq(Delivery) /\ items \in Seq(Delivery)
      /\ found \in Seq([msg : Message, row : 1..MaxRow])
      /\ cache \in Seq(Entry) /\ Len(cache) <= CacheLimit
  BY DEF Init
<1>5. TypeOK
  BY <1>1, <1>4 DEF Init, TypeOK
<1> QED BY <1>3, <1>5 DEF Typed

LEMMA TypeStep == Typed /\ [Next]_vars => Typed'
<1> SUFFICES ASSUME Typed, [Next]_vars PROVE Typed'
  OBVIOUS
<1>1. CASE UNCHANGED vars
  BY <1>1 DEF vars, Typed, TypeOK, Coherent, Waiting
<1>2. CASE \E e \in Execution : CreateExecution(e) \/ DeleteExecution(e)
  BY <1>2, ExecutionTypes
<1>3. CASE \E m \in Message : Send(m)
  BY <1>3, SendTypes
<1>4. CASE Deliver \/ Reconnect \/ Ack \/ AckStale \/ DatabaseLost \/ Crash
  BY <1>4, DeliverTypes, ReconnectTypes, AckTypes, RestartTypes DEF AckStale, DatabaseLost, Crash
<1>5. CASE Take \/ Publisher \/ DatabaseLostUnseen
  BY <1>5, TakeTypes, StoreTypes, LookupStepTypes, StoreCommitTypes, StoreFailsTypes,
     InsertOneTypes, StoredOneByOneTypes, DiesTypes DEF Publisher
<1> QED BY <1>1, <1>2, <1>3, <1>4, <1>5 DEF Next

\* The tables, queues and threads of amqp-postgres keep their types; the cache never
\* holds more executions than its limit.
THEOREM TypeCorrect == Spec => []TypeOK
<1>1. Typed => TypeOK
  BY DEF Typed
<1> QED BY <1>1, InitTypes, TypeStep, PTL DEF Spec

-----------------------------------------------------------------------------
(* The deliveries both threads hold. *)

\* One delivery came before another: on an earlier channel, or on the same one with
\* another message.
Precedes(d, e) == d.ch <= e.ch /\ (d.msg = e.msg => d.ch < e.ch)
Sorted(s) == \A i, j \in DOMAIN s : i < j => Precedes(s[i], s[j])
AllPrecede(D, E) == \A d \in D, e \in E : Precedes(d, e)

\* Deliveries are acked, stored and taken in the order in which they came.
InLine ==
  /\ Sorted(acks) /\ Sorted(items) /\ Sorted(batch)
  /\ AllPrecede(Range(acks), Range(items)) /\ AllPrecede(Range(acks), Range(batch))
  /\ AllPrecede(Range(items), Range(batch))

\* A message waits in one place.
Ready == IsInjective(queue) /\ unacked \cap Range(queue) = {}

\* The threads hold messages that RabbitMQ still has; one that came on the current
\* channel is not in the queue again.
Held == Range(acks) \cup Range(items) \cup Range(batch)
Handed ==
  \A d \in Held :
    /\ d.ch <= channel /\ Kind[d.msg] # "hook" /\ d.msg \in Waiting
    /\ d.ch = channel => d.msg \in unacked

Orderly == InLine /\ Ready /\ Handed

LEMMA HeldTypes ==
  ASSUME Typed
  PROVE  /\ Held \subseteq Delivery
         /\ \A d \in Held : d.msg \in Message /\ d.ch \in Nat
<1>1. Held \subseteq Delivery
  BY Types, RangeSubset DEF Held
<1> QED BY <1>1 DEF Delivery

LEMMA SortedAppend ==
  ASSUME NEW s \in Seq(Delivery), NEW x \in Delivery, Sorted(s), AllPrecede(Range(s), {x})
  PROVE  Sorted(Append(s, x))
<1> SUFFICES ASSUME NEW i \in DOMAIN Append(s, x), NEW j \in DOMAIN Append(s, x), i < j
             PROVE  Precedes(Append(s, x)[i], Append(s, x)[j])
  BY DEF Sorted
<1>1. i \in DOMAIN s /\ Append(s, x)[i] = s[i]
  OBVIOUS
<1>2. CASE j = Len(s) + 1
  <2>1. Append(s, x)[j] = x /\ s[i] \in Range(s)
    BY <1>1, <1>2 DEF Range
  <2> QED BY <1>1, <2>1 DEF AllPrecede
<1>3. CASE j # Len(s) + 1
  <2>1. j \in DOMAIN s /\ Append(s, x)[j] = s[j]
    BY <1>3
  <2> QED BY <1>1, <2>1 DEF Sorted
<1> QED BY <1>2, <1>3

LEMMA SortedTail ==
  ASSUME NEW s \in Seq(Delivery), s # <<>>, Sorted(s)
  PROVE  Sorted(Tail(s)) /\ AllPrecede({Head(s)}, Range(Tail(s)))
<1>1. \A i \in DOMAIN Tail(s) : i + 1 \in DOMAIN s /\ Tail(s)[i] = s[i + 1] /\ 1 < i + 1
  OBVIOUS
<1>2. Head(s) = s[1] /\ 1 \in DOMAIN s
  OBVIOUS
<1>3. Sorted(Tail(s))
  <2> SUFFICES ASSUME NEW i \in DOMAIN Tail(s), NEW j \in DOMAIN Tail(s), i < j
               PROVE  Precedes(Tail(s)[i], Tail(s)[j])
    BY DEF Sorted
  <2>1. i + 1 < j + 1
    OBVIOUS
  <2> QED BY <1>1, <2>1 DEF Sorted
<1>4. ASSUME NEW e \in Range(Tail(s)) PROVE Precedes(Head(s), e)
  <2>1. PICK i \in DOMAIN Tail(s) : e = Tail(s)[i]
    BY <1>4 DEF Range
  <2> QED BY <1>1, <1>2, <2>1 DEF Sorted
<1> QED BY <1>3, <1>4 DEF AllPrecede

LEMMA SortedConcat ==
  ASSUME NEW s \in Seq(Delivery), NEW t \in Seq(Delivery), Sorted(s), Sorted(t),
         AllPrecede(Range(s), Range(t))
  PROVE  Sorted(s \o t)
<1> SUFFICES ASSUME NEW i \in DOMAIN (s \o t), NEW j \in DOMAIN (s \o t), i < j
             PROVE  Precedes((s \o t)[i], (s \o t)[j])
  BY DEF Sorted
<1>1. CASE j <= Len(s)
  <2>1. i \in DOMAIN s /\ j \in DOMAIN s /\ (s \o t)[i] = s[i] /\ (s \o t)[j] = s[j]
    BY <1>1
  <2> QED BY <2>1 DEF Sorted
<1>2. CASE i > Len(s)
  <2>1. /\ i - Len(s) \in DOMAIN t /\ j - Len(s) \in DOMAIN t /\ i - Len(s) < j - Len(s)
        /\ (s \o t)[i] = t[i - Len(s)] /\ (s \o t)[j] = t[j - Len(s)]
    BY <1>2
  <2> QED BY <2>1 DEF Sorted
<1>3. CASE i <= Len(s) /\ j > Len(s)
  <2>1. i \in DOMAIN s /\ j - Len(s) \in DOMAIN t
        /\ (s \o t)[i] = s[i] /\ (s \o t)[j] = t[j - Len(s)]
    BY <1>3
  <2> QED BY <2>1 DEF AllPrecede, Range
<1>4. Len(s) \in Nat /\ i \in Nat /\ j \in Nat
  OBVIOUS
<1> QED BY <1>1, <1>2, <1>3, <1>4

LEMMA NoneSorted == Sorted(<<>>) /\ Range(<<>>) = {}
  BY RangeEmpty DEF Sorted

LEMMA InjectiveConcat ==
  ASSUME NEW S, NEW s \in Seq(S), NEW t \in Seq(S), IsInjective(s), IsInjective(t),
         Range(s) \cap Range(t) = {}
  PROVE  IsInjective(s \o t)
<1> DEFINE u == s \o t
<1>1. /\ \A i \in DOMAIN u : i \in Nat
      /\ \A i \in DOMAIN u : i <= Len(s) => i \in DOMAIN s /\ u[i] = s[i]
      /\ \A i \in DOMAIN u : i > Len(s) => i - Len(s) \in DOMAIN t /\ u[i] = t[i - Len(s)]
      /\ Len(s) \in Nat
  OBVIOUS
<1> HIDE DEF u
<1>2. ASSUME NEW i \in DOMAIN u, NEW j \in DOMAIN u, u[i] = u[j] PROVE i = j
  <2>1. CASE i <= Len(s) /\ j <= Len(s)
    BY <1>1, <1>2, <2>1 DEF IsInjective
  <2>2. CASE i > Len(s) /\ j > Len(s)
    <3>1. i - Len(s) = j - Len(s)
      BY <1>1, <1>2, <2>2 DEF IsInjective
    <3> QED BY <1>1, <3>1
  <2>3. CASE i <= Len(s) /\ j > Len(s)
    <3>1. u[i] \in Range(s) /\ u[j] \in Range(t)
      <4>1. i \in DOMAIN s /\ u[i] = s[i] /\ j - Len(s) \in DOMAIN t /\ u[j] = t[j - Len(s)]
        BY <1>1, <2>3
      <4> QED BY <4>1 DEF Range
    <3> QED BY <1>2, <3>1
  <2>4. CASE i > Len(s) /\ j <= Len(s)
    <3>1. u[j] \in Range(s) /\ u[i] \in Range(t)
      <4>1. j \in DOMAIN s /\ u[j] = s[j] /\ i - Len(s) \in DOMAIN t /\ u[i] = t[i - Len(s)]
        BY <1>1, <2>4
      <4> QED BY <4>1 DEF Range
    <3> QED BY <1>2, <3>1
  <2> QED BY <1>1, <2>1, <2>2, <2>3, <2>4
<1>3. IsInjective(u)
  BY <1>2 DEF IsInjective
<1> QED BY <1>3 DEF u

LEMMA InjectiveAppend ==
  ASSUME NEW S, NEW s \in Seq(S), NEW x \in S, IsInjective(s), x \notin Range(s)
  PROVE  IsInjective(Append(s, x))
<1>1. Append(s, x) = s \o <<x>>
  OBVIOUS
<1>2. <<x>> \in Seq(S) /\ IsInjective(<<x>>) /\ Range(<<x>>) = {x}
  BY DEF IsInjective, Range
<1>3. Range(s) \cap Range(<<x>>) = {}
  BY <1>2
<1>4. IsInjective(s \o <<x>>)
  BY <1>2, <1>3, InjectiveConcat
<1> QED BY <1>1, <1>4

\* A step that leaves queue and threads alone keeps the order.
LEMMA SameOrderly ==
  ASSUME Orderly, UNCHANGED <<acks, items, batch, queue, unacked, channel>>
  PROVE  Orderly'
  BY DEF Orderly, InLine, Ready, Handed, Held, Waiting

LEMMA SendOrderly ==
  ASSUME Typed, Orderly, NEW m \in Message, Send(m)
  PROVE  Orderly'
<1>1. queue' = Append(queue, m) /\ Range(queue') = Range(queue) \cup {m} /\ m \notin Waiting
  BY Types, RangeAppend DEF Send, Typed, Coherent
<1>2. UNCHANGED <<acks, items, batch, unacked, channel>>
  BY DEF Send, storeVars
<1>3. IsInjective(queue')
  <2>1. m \notin Range(queue) /\ IsInjective(queue)
    BY <1>1 DEF Waiting, Orderly, Ready
  <2> QED BY <1>1, <2>1, Types, InjectiveAppend
<1>4. Ready'
  BY <1>1, <1>2, <1>3 DEF Orderly, Ready, Waiting
<1>5. Handed' /\ InLine'
  BY <1>1, <1>2 DEF Orderly, InLine, Handed, Held, Waiting
<1> QED BY <1>4, <1>5 DEF Orderly

LEMMA DeliverOrderly ==
  ASSUME Typed, Orderly, Deliver
  PROVE  Orderly'
<1> DEFINE m0 == Head(queue)
<1>1. PICK m : m = m0
  OBVIOUS
<1>2. m \in Message /\ Range(queue) = {m} \cup Range(Tail(queue)) /\ queue' = Tail(queue)
  BY <1>1, Types, RangeTail DEF Deliver
<1>3. unacked' = IF Kind[m] = "hook" THEN unacked ELSE unacked \cup {m}
  BY <1>1 DEF Deliver
<1>4. UNCHANGED <<acks, items, channel>>
  BY DEF Deliver, storeVars
<1>5. m \notin Range(Tail(queue)) /\ IsInjective(queue')
  <2>1. queue \in Seq(Message) /\ queue # <<>> /\ IsInjective(queue)
    BY Types DEF Deliver, Orderly, Ready
  <2>2. \A i \in DOMAIN Tail(queue) : i + 1 \in DOMAIN queue /\ Tail(queue)[i] = queue[i + 1]
    BY <2>1
  <2>3. m = queue[1] /\ 1 \in DOMAIN queue
    BY <1>1, <2>1
  <2>4. \A i \in DOMAIN Tail(queue) : Tail(queue)[i] # m
    BY <2>1, <2>2, <2>3 DEF IsInjective
  <2>5. IsInjective(Tail(queue))
    BY <2>1, <2>2 DEF IsInjective
  <2> QED BY <1>2, <2>4, <2>5 DEF Range
<1>6. Ready'
  BY <1>2, <1>3, <1>5 DEF Orderly, Ready
<1>7. \A d \in Held : d.msg \in Waiting' /\ (d.ch = channel => d.msg \in unacked' /\ d.msg # m)
  BY <1>2, <1>3 DEF Orderly, Handed, Ready, Waiting
<1>8. CASE Kind[m] \in {"hook", "garbage"}
  <2>1. batch' = batch
    BY <1>1, <1>8 DEF Deliver
  <2> QED BY <1>4, <1>6, <1>7, <2>1 DEF Orderly, InLine, Handed, Held
<1>9. CASE Kind[m] \notin {"hook", "garbage"}
  <2>1. PICK x : x = [msg |-> m, ch |-> channel]
    OBVIOUS
  <2>2. batch' = Append(batch, x) /\ x \in Delivery /\ x.msg = m /\ x.ch = channel
    BY <1>1, <1>2, <1>9, <2>1, Types DEF Deliver, Delivery
  <2>3. Range(batch') = Range(batch) \cup {x}
    BY <2>2, Types, RangeAppend
  <2>4. AllPrecede(Held, {x})
    <3> SUFFICES ASSUME NEW d \in Held PROVE Precedes(d, x)
      BY DEF AllPrecede
    <3>1. d.ch \in Nat /\ channel \in Nat /\ d.ch <= channel
      BY HeldTypes, Types DEF Orderly, Handed
    <3> QED BY <1>7, <2>2, <3>1 DEF Precedes
  <2>5. Sorted(batch')
    BY <2>2, <2>4, Types, SortedAppend DEF Orderly, InLine, AllPrecede, Held
  <2>6. InLine'
    BY <1>4, <2>3, <2>4, <2>5 DEF Orderly, InLine, AllPrecede, Held
  <2>7. Held' = Held \cup {x}
    BY <1>4, <2>3 DEF Held
  <2>8. channel <= channel /\ Kind[x.msg] # "hook" /\ x.msg \in unacked'
    BY <1>3, <1>9, <2>2, Types
  <2>9. Handed'
    BY <1>4, <1>7, <2>2, <2>7, <2>8 DEF Orderly, Handed, Waiting
  <2> QED BY <1>6, <2>6, <2>9 DEF Orderly
<1> QED BY <1>8, <1>9

\* What goes back to the queue is there once.
LEMMA RequeuedReady ==
  ASSUME Typed, Orderly, queue' = Requeued, unacked' = {}
  PROVE  Ready'
<1>1. IsFiniteSet(unacked)
  BY FS_Subset DEF Typed, Coherent, Waiting
<1>2. PICK s : s = SetToSeq(unacked)
  OBVIOUS
<1>3. s \in Seq(unacked) /\ Range(s) = unacked /\ IsInjective(s)
  BY <1>1, <1>2, SetToSeqList
<1>4. s \in Seq(Message)
  <2>1. \A t \in Seq(unacked) : t \in Seq(Message)
    BY Types
  <2> QED BY <1>3, <2>1
<1>5. queue' = s \o queue /\ queue \in Seq(Message) /\ IsInjective(queue)
      /\ unacked \cap Range(queue) = {}
  BY <1>2, Types DEF Requeued, Orderly, Ready
<1>6. IsInjective(s \o queue)
  BY <1>3, <1>4, <1>5, InjectiveConcat
<1> QED BY <1>5, <1>6 DEF Ready

LEMMA ReconnectOrderly ==
  ASSUME Typed, Orderly, Reconnect
  PROVE  Orderly'
<1>1. Ready' /\ Waiting' = Waiting
  BY RequeuedReady, ReconnectTypes DEF Reconnect
<1>2. UNCHANGED <<acks, items, batch>> /\ channel' = channel + 1
  BY DEF Reconnect, NewChannel, storeVars
<1>3. \A d \in Held : d.ch <= channel' /\ d.ch # channel'
  <2> SUFFICES ASSUME NEW d \in Held PROVE d.ch <= channel' /\ d.ch # channel'
    OBVIOUS
  <2>1. d.ch \in Nat /\ d.ch <= channel /\ channel \in Nat
    BY HeldTypes, Types DEF Orderly, Handed
  <2> QED BY <1>2, <2>1
<1>4. Held' = Held
  BY <1>2 DEF Held
<1>5. Handed'
  BY <1>1, <1>3, <1>4 DEF Orderly, Handed
<1> QED BY <1>1, <1>2, <1>5 DEF Orderly, InLine

LEMMA RestartOrderly ==
  ASSUME Typed, Orderly, Restart
  PROVE  Orderly'
<1>1. Ready'
  BY RequeuedReady DEF Restart
<1>2. acks' = <<>> /\ items' = <<>> /\ batch' = <<>>
  BY DEF Restart
<1>3. Range(acks') = {} /\ Range(items') = {} /\ Range(batch') = {}
  BY <1>2, RangeEmpty
<1>4. InLine'
  BY <1>2, <1>3, NoneSorted DEF InLine, AllPrecede
<1>5. Handed'
  BY <1>3 DEF Handed, Held
<1> QED BY <1>1, <1>4, <1>5 DEF Orderly

\* An ack on the current channel is of the only delivery of its message.
LEMMA AckOrderly ==
  ASSUME Typed, Orderly, Ack
  PROVE  /\ Orderly'
         /\ Head(acks) \in Range(acks) /\ Head(acks).msg \in unacked \ Range(queue)
<1>1. PICK x : x = Head(acks)
  OBVIOUS
<1>2. /\ x \in Delivery /\ Range(acks) = {x} \cup Range(Tail(acks)) /\ acks' = Tail(acks)
      /\ x.ch = channel /\ unacked' = unacked \ {x.msg}
  BY <1>1, Types, RangeTail DEF Ack
<1>3. Sorted(Tail(acks)) /\ AllPrecede({x}, Range(Tail(acks)))
  BY <1>1, Types, SortedTail DEF Ack, Orderly, InLine
<1>4. UNCHANGED <<items, batch, queue, channel>>
  BY DEF Ack, storeVars
<1>5. Held' \subseteq Held /\ AllPrecede({x}, Held')
  BY <1>2, <1>3, <1>4 DEF Held, AllPrecede, Orderly, InLine
<1>6. \A d \in Held' : d.msg # x.msg
  <2> SUFFICES ASSUME NEW d \in Held', d.msg = x.msg PROVE FALSE
    OBVIOUS
  <2>1. d.ch <= channel /\ d.ch \in Nat /\ channel \in Nat
    BY <1>5, HeldTypes, Types, SMTT(30) DEF Orderly, Handed
  <2>2. x.ch < d.ch
    BY <1>5 DEF AllPrecede, Precedes
  <2> QED BY <1>2, <2>1, <2>2
<1>7. Handed'
  BY <1>2, <1>4, <1>5, <1>6 DEF Orderly, Handed, Waiting
<1>8. InLine'
  BY <1>2, <1>3, <1>4 DEF Orderly, InLine, AllPrecede
<1>9. Ready'
  BY <1>2, <1>4 DEF Orderly, Ready
<1>10. x \in Held /\ x.msg \in unacked \ Range(queue)
  BY <1>2 DEF Held, Orderly, Handed, Ready
<1> QED BY <1>1, <1>2, <1>7, <1>8, <1>9, <1>10 DEF Orderly

LEMMA TakeOrderly ==
  ASSUME Typed, Orderly, Take
  PROVE  Orderly'
<1>1. PICK x : x = Head(batch)
  OBVIOUS
<1>2. /\ x \in Delivery /\ Range(batch) = {x} \cup Range(Tail(batch)) /\ batch' = Tail(batch)
      /\ items' = Append(items, x)
  BY <1>1, Types, RangeTail DEF Take
<1>3. Sorted(Tail(batch)) /\ AllPrecede({x}, Range(Tail(batch)))
  BY <1>1, Types, SortedTail DEF Take, Orderly, InLine
<1>4. Range(items') = Range(items) \cup {x}
  BY <1>2, Types, RangeAppend
<1>5. UNCHANGED <<acks, queue, unacked, channel>>
  BY DEF Take, brokerVars
<1>6. Sorted(items')
  BY <1>2, Types, SortedAppend DEF Orderly, InLine, AllPrecede
<1>7. InLine'
  BY <1>2, <1>3, <1>4, <1>5, <1>6 DEF Orderly, InLine, AllPrecede
<1>8. Held' = Held
  BY <1>2, <1>4, <1>5 DEF Held
<1> QED BY <1>5, <1>7, <1>8 DEF Orderly, Ready, Handed, Waiting

LEMMA StoreCommitOrderly ==
  ASSUME Typed, Orderly, StoreCommit
  PROVE  Orderly'
<1>1. acks' = acks \o items /\ items' = <<>> /\ UNCHANGED <<batch, queue, unacked, channel>>
  BY DEF StoreCommit, brokerVars
<1>2. Range(acks') = Range(acks) \cup Range(items) /\ Range(items') = {}
  BY <1>1, Types, RangeConcat, RangeEmpty
<1>3. Sorted(acks') /\ Sorted(items')
  BY <1>1, Types, SortedConcat, NoneSorted DEF Orderly, InLine
<1>4. InLine'
  BY <1>1, <1>2, <1>3 DEF Orderly, InLine, AllPrecede
<1>5. Held' = Held
  BY <1>1, <1>2 DEF Held
<1> QED BY <1>1, <1>4, <1>5 DEF Orderly, Ready, Handed, Waiting

LEMMA StoredOneByOneOrderly ==
  ASSUME Typed, Orderly, StoredOneByOne
  PROVE  Orderly'
<1>1. items' = <<>> /\ UNCHANGED <<acks, batch, queue, unacked, channel>>
  BY DEF StoredOneByOne, brokerVars
<1>2. Range(items') = {} /\ Sorted(items')
  BY <1>1, NoneSorted
<1>3. InLine'
  BY <1>1, <1>2 DEF Orderly, InLine, AllPrecede
<1>4. Held' \subseteq Held
  BY <1>1, <1>2 DEF Held
<1> QED BY <1>1, <1>3, <1>4 DEF Orderly, Ready, Handed, Waiting

LEMMA OrderlyStep == Typed /\ Orderly /\ [Next]_vars => Orderly'
<1> SUFFICES ASSUME Typed, Orderly, [Next]_vars PROVE Orderly'
  OBVIOUS
<1>1. CASE UNCHANGED vars
  BY <1>1, SameOrderly DEF vars
<1>2. CASE \E e \in Execution : CreateExecution(e) \/ DeleteExecution(e)
  <2>1. UNCHANGED <<acks, items, batch, queue, unacked, channel>>
    BY <1>2 DEF CreateExecution, DeleteExecution, brokerVars, storeVars
  <2> QED BY <2>1, SameOrderly
<1>3. CASE \E m \in Message : Send(m)
  BY <1>3, SendOrderly
<1>4. CASE Deliver \/ Reconnect \/ Ack \/ AckStale \/ DatabaseLost \/ Crash
  BY <1>4, DeliverOrderly, ReconnectOrderly, AckOrderly, RestartOrderly
     DEF AckStale, DatabaseLost, Crash
<1>5. CASE Take \/ StoreCommit \/ StoredOneByOne
  BY <1>5, TakeOrderly, StoreCommitOrderly, StoredOneByOneOrderly
<1>6. CASE Store \/ Lookup \/ StoreFails \/ LookupOne \/ InsertOne \/ ThreadDies
           \/ DatabaseLostUnseen
  <2>1. UNCHANGED <<acks, items, batch, queue, unacked, channel>>
    BY <1>6 DEF Store, Lookup, StoreFails, LookupOne, InsertOne, ThreadDies,
           DatabaseLostUnseen, brokerVars, storeVars
  <2> QED BY <2>1, SameOrderly
<1> QED BY <1>1, <1>2, <1>3, <1>4, <1>5, <1>6 DEF Next, Publisher

-----------------------------------------------------------------------------
(* What is acked. *)

\* A message needs no further look: it is stored, of no use, or known to have no execution.
Settled(m) == rows[m] > 0 \/ Kind[m] \in {"hook", "malformed"} \/ m \in orphans

\* A missing execution is remembered only for the batch that looked for it, and every
\* item of the batch that refers to it is known.
Known ==
  /\ pc = "take" => \A c \in Range(cache) : c.row # 0
  /\ \A m \in Storing :
       /\ row[ExecOf[m]] = 0 => Settled(m)
       /\ \A c \in Range(cache) : c.exec = ExecOf[m] /\ c.row = 0 => Settled(m)

\* A batch loses none of the items it has looked at.
LookedUp ==
  pc = "lookup" =>
    /\ \A i \in 1..(next - 1) : Settled(items[i].msg) \/ items[i].msg \in Messages(found)
    /\ Messages(found) \subseteq Messages(items)

AcksSettled == \A d \in Range(acks) : Settled(d.msg)

Settling == Known /\ LookedUp /\ AcksSettled

LEMMA RangeMessages ==
  ASSUME NEW s
  PROVE  Messages(s) = {d.msg : d \in Range(s)}
  BY DEF Messages, Range

LEMMA CountPositive ==
  ASSUME NEW S, NEW s \in Seq(S), NEW m \in Messages(s)
  PROVE  Count(s, m) > 0
<1> DEFINE P == {i \in DOMAIN s : s[i].msg = m}
<1>1. IsFiniteSet(P)
  <2>1. IsFiniteSet(1..Len(s)) /\ P \in SUBSET (1..Len(s))
    BY FS_Interval
  <2> QED BY <2>1, FS_Subset
<1>2. P # {}
  BY DEF Messages
<1>3. Cardinality(P) \in Nat /\ Cardinality(P) # 0
  <2> HIDE DEF P
  <2> QED BY <1>1, <1>2, FS_CardinalityType, FS_EmptySet
<1> QED BY <1>3 DEF Count

\* Nothing is taken back: rows and missing executions only grow in number,
Grows == (\A m \in Message : rows[m] <= rows'[m]) /\ orphans \subseteq orphans'

LEMMA InsertedGrows ==
  ASSUME Typed, rows' = Inserted(found)
  PROVE  /\ \A m \in Message : rows[m] <= rows'[m]
         /\ \A m \in Messages(found) : m \in Message => rows'[m] > 0
         /\ \A m \in Message : rows'[m] = rows[m] + Count(found, m)
<1>1. found \in Seq(FoundRow) /\ rows \in [Message -> Nat]
  BY Types
<1>2. \A m \in Message : rows'[m] = rows[m] + Count(found, m)
  BY DEF Inserted
<1>3. \A m \in Message : Count(found, m) \in Nat
  BY <1>1, CountType
<1>4. \A m \in Messages(found) : Count(found, m) > 0
  BY <1>1, CountPositive
<1>5. \A m \in Message : rows[m] \in Nat
  BY <1>1
<1> QED BY <1>2, <1>3, <1>4, <1>5

LEMMA StepGrows ==
  ASSUME Typed, [Next]_vars
  PROVE  Grows
<1>0. \A m \in Message : rows[m] <= rows[m]
  BY Types
<1>1. CASE UNCHANGED <<rows, orphans>>
  BY <1>0, <1>1 DEF Grows
<1>2. CASE Store \/ \E e \in Execution : DeleteExecution(e)
  BY <1>0, <1>2 DEF Grows, Store, DeleteExecution
<1>3. CASE StoreCommit \/ InsertOne
  <2>1. (rows' = Inserted(found) \/ rows' = rows) /\ orphans' = orphans
    BY <1>3 DEF StoreCommit, InsertOne
  <2> QED BY <1>0, <2>1, InsertedGrows DEF Grows
<1>4. \/ UNCHANGED <<rows, orphans>>
      \/ Store \/ \E e \in Execution : DeleteExecution(e)
      \/ StoreCommit \/ InsertOne
  BY DEF Next, Publisher, vars, CreateExecution, Send, Deliver, Reconnect, Ack, AckStale, Restart,
         Take, Lookup, StoreFails, LookupOne, StoredOneByOne, ThreadDies, DatabaseLost,
         DatabaseLostUnseen, Crash
<1> QED BY <1>1, <1>2, <1>3, <1>4

\* so that what is settled stays settled.
LEMMA StaysSettled ==
  ASSUME Typed, Typed', Grows, NEW m \in Message, Settled(m)
  PROVE  Settled(m)'
<1>1. rows[m] \in Nat /\ rows'[m] \in Nat
  <2>1. rows \in [Message -> Nat] /\ rows' \in [Message -> Nat]
    BY DEF Typed, TypeOK
  <2> QED BY <2>1
<1> QED BY <1>1 DEF Settled, Grows

\* The messages whose fate the threads decide.
LEMMA HeldMessages ==
  ASSUME Typed
  PROVE  /\ Messages(items) \subseteq Message /\ Storing \subseteq Messages(items)
         /\ \A d \in Range(acks) : d.msg \in Message
         /\ \A i \in 1..Len(items) : items[i].msg \in Messages(items)
         /\ \A d \in Range(items) : d.msg \in Messages(items)
<1>1. Messages(items) \subseteq Message /\ \A d \in Range(acks) : d.msg \in Message
  BY HeldTypes, RangeMessages DEF Held
<1>2. \A i \in 1..Len(items) : items[i].msg \in Messages(items)
  <2>1. DOMAIN items = 1..Len(items)
    BY Types
  <2> QED BY <2>1 DEF Messages
<1> QED BY <1>1, <1>2, RangeMessages DEF Storing

\* A step that leaves the publisher alone, and no execution missing that was there.
LEMMA SameSettling ==
  ASSUME Typed, Typed', Settling, Grows, UNCHANGED <<pc, items, next, found, cache>>,
         Range(acks') \subseteq Range(acks),
         \A e \in Execution : row'[e] = 0 => row[e] = 0
  PROVE  Settling'
<1>1. \A m \in Message : Settled(m) => Settled(m)'
  BY StaysSettled
<1>2. Messages(items) \subseteq Message /\ Storing \subseteq Messages(items) /\ Storing' = Storing
  BY HeldMessages DEF Storing
<1>3. Known'
  <2>1. \A m \in Storing : ExecOf[m] \in Execution
    BY <1>2
  <2> QED BY <1>1, <1>2, <2>1 DEF Settling, Known
<1>4. LookedUp'
  <2> SUFFICES ASSUME pc = "lookup", NEW i \in 1..(next - 1), items[i].msg \notin Messages(found)
               PROVE  Settled(items[i].msg)'
    BY DEF Settling, LookedUp
  <2>0. next \in 1..(Len(items) + 1) /\ Len(items) \in Nat
    BY Types
  <2>1. i \in 1..Len(items) /\ items[i].msg \in Message
    BY <2>0, HeldMessages
  <2> QED BY <1>1, <2>1 DEF Settling, LookedUp
<1>5. AcksSettled'
  BY <1>1, HeldMessages DEF Settling, AcksSettled
<1> QED BY <1>3, <1>4, <1>5 DEF Settling

\* An execution that is deleted is known to be missing for the items being stored.
LEMMA DeleteSettling ==
  ASSUME Typed, Typed', Orderly, Settling, Grows, NEW e \in Execution, DeleteExecution(e)
  PROVE  Settling'
<1>1. \A m \in Message : Settled(m) => Settled(m)'
  BY StaysSettled
<1>2. UNCHANGED <<rows, pc, items, next, found, cache, acks>>
  BY DEF DeleteExecution, storeVars
<1>3. Messages(items) \subseteq Message /\ Storing \subseteq Messages(items) /\ Storing' = Storing
  BY <1>2, HeldMessages DEF Storing
<1>4. \A m \in Storing : m \in unacked \cup Range(queue)
  BY <1>3, RangeMessages DEF Orderly, Handed, Held, Waiting
<1>5. \A m \in Storing : ExecOf[m] = e => Settled(m)'
  BY <1>4 DEF DeleteExecution, Settled
<1>6. \A x \in Execution : x # e => row'[x] = row[x]
  BY Types DEF DeleteExecution
<1>7. Known'
  <2>1. \A m \in Storing : ExecOf[m] \in Execution
    BY <1>3
  <2> QED BY <1>1, <1>2, <1>3, <1>5, <1>6, <2>1 DEF Settling, Known
<1>8. LookedUp'
  <2> SUFFICES ASSUME pc = "lookup", NEW i \in 1..(next - 1), items[i].msg \notin Messages(found)
               PROVE  Settled(items[i].msg)'
    BY <1>2 DEF Settling, LookedUp
  <2>0. next \in 1..(Len(items) + 1) /\ Len(items) \in Nat
    BY Types
  <2>1. i \in 1..Len(items) /\ items[i].msg \in Message
    BY <2>0, HeldMessages
  <2> QED BY <1>1, <1>2, <2>1 DEF Settling, LookedUp
<1>9. AcksSettled'
  BY <1>1, <1>2, HeldMessages DEF Settling, AcksSettled
<1> QED BY <1>7, <1>8, <1>9 DEF Settling

\* With nothing being stored there is nothing to know but the acks and the cache.
LEMMA IdleSettling ==
  ASSUME Typed, Typed', Settling, Grows, pc' \in {"take", "dead"},
         Range(acks') \subseteq Range(acks),
         pc' = "take" => \A c \in Range(cache') : c.row # 0
  PROVE  Settling'
<1>1. \A d \in Range(acks) : d.msg \in Message /\ Settled(d.msg)
  BY HeldMessages DEF Settling, AcksSettled
<1>2. AcksSettled'
  BY <1>1, StaysSettled DEF AcksSettled
<1>3. Known' /\ LookedUp'
  BY DEF Known, LookedUp, Storing
<1> QED BY <1>2, <1>3 DEF Settling

LEMMA RestartSettling ==
  ASSUME Typed, Typed', Settling, Grows, Restart
  PROVE  Settling'
<1>1. pc' = "take" /\ Range(acks') = {} /\ Range(cache') = {}
  BY RangeEmpty DEF Restart
<1> QED BY <1>1, IdleSettling

LEMMA StoreSettling ==
  ASSUME Typed, Typed', Orderly, Settling, Grows, Store
  PROVE  Settling'
<1>1. pc' = "lookup" /\ pc = "take" /\ next' = 1 /\ found' = <<>>
      /\ UNCHANGED <<row, rows, items, cache, acks>>
  BY DEF Store
<1>2. Storing' = Messages(items) /\ Messages(items) \subseteq unacked \cup Range(queue)
  BY <1>1, RangeMessages DEF Storing, Orderly, Handed, Held, Waiting
<1>3. \A m \in Messages(items) : row[ExecOf[m]] = 0 => Settled(m)'
  BY <1>2 DEF Store, Settled
<1>4. Known'
  BY <1>1, <1>2, <1>3 DEF Known, Settling
<1>5. LookedUp'
  BY <1>1 DEF LookedUp, Messages
<1>6. AcksSettled'
  BY <1>1, HeldMessages, StaysSettled DEF AcksSettled, Settling
<1> QED BY <1>4, <1>5, <1>6 DEF Settling

\* A batch that fails, or an item that was inserted: the next item is looked at.
LEMMA NextOneSettling ==
  ASSUME Typed, Typed', Settling, Grows, StoreFails \/ InsertOne
  PROVE  Settling'
<1>1. pc \in {"lookup", "insertOne"} /\ pc' = "one" /\ UNCHANGED <<row, items, acks>>
  BY DEF StoreFails, StoreError, InsertOne
<1>2. Range(cache') \subseteq Range(cache)
  BY RangeEmpty DEF StoreFails, InsertOne
<1>3. Messages(items) \subseteq Message /\ Storing' = Messages(items) /\ Storing = Messages(items)
  BY <1>1, HeldMessages DEF Storing
<1>4. Known'
  BY <1>1, <1>2, <1>3, StaysSettled DEF Known, Settling
<1>5. LookedUp'
  BY <1>1 DEF LookedUp
<1>6. AcksSettled'
  BY <1>1, HeldMessages, StaysSettled DEF AcksSettled, Settling
<1> QED BY <1>4, <1>5, <1>6 DEF Settling

\* The cache after a lookup says of an execution what it did, or what the database says.
LEMMA CacheWithSays ==
  ASSUME Typed, NEW e \in Execution
  PROVE  \A c \in Range(CacheWith(e)) : c \in Range(cache) \/ c = [exec |-> e, row |-> row[e]]
<1>1. CASE Cached(e)
  BY <1>1 DEF CacheWith
<1>2. CASE ~ Cached(e)
  <2>1. PICK x : x = [exec |-> e, row |-> row[e]]
    OBVIOUS
  <2>2. x \in Entry /\ cache \in Seq(Entry)
    BY <2>1, Types DEF Entry
  <2>3. PICK s : s = Append(cache, x)
    OBVIOUS
  <2>4. s \in Seq(Entry) /\ s # <<>> /\ Range(s) = Range(cache) \cup {x}
    BY <2>2, <2>3, RangeAppend
  <2>5. Range(Tail(s)) \subseteq Range(s)
    BY <2>4, RangeTail
  <2>6. CacheWith(e) = IF Len(s) > CacheLimit THEN Tail(s) ELSE s
    BY <1>2, <2>1, <2>3 DEF CacheWith
  <2> QED BY <2>1, <2>4, <2>5, <2>6
<1> QED BY <1>1, <1>2

\* An item without a row is settled.
LEMMA NoItemSettled ==
  ASSUME Typed, Settling, NEW m \in Message, m \in Storing, DbItem(m) = <<>>
  PROVE  Settled(m)
<1>1. CASE Kind[m] = "malformed"
  BY <1>1 DEF Settled
<1>2. CASE Kind[m] # "malformed"
  <2>1. ExecutionRow(ExecOf[m]) = 0
    BY <1>2 DEF DbItem
  <2>2. CASE Cached(ExecOf[m])
    <3>1. \E c \in Range(cache) : c.exec = ExecOf[m]
      BY <2>2 DEF Cached
    <3>2. PICK c \in Range(cache) : c.exec = ExecOf[m] /\ c = CHOOSE d \in Range(cache) : d.exec = ExecOf[m]
      BY <3>1
    <3>3. c.row = 0
      BY <2>1, <2>2, <3>2 DEF ExecutionRow
    <3> QED BY <3>2, <3>3 DEF Settling, Known
  <2>3. CASE ~ Cached(ExecOf[m])
    BY <2>1, <2>3 DEF ExecutionRow, Settling, Known
  <2> QED BY <2>2, <2>3
<1> QED BY <1>1, <1>2

LEMMA LookupKnown ==
  ASSUME Typed, Typed', Settling, Grows, Lookup \/ LookupOne
  PROVE  Known' /\ AcksSettled' /\ items[next].msg \in Storing /\ Storing = Messages(items)
<1>1. PICK m : m = items[next].msg
  OBVIOUS
<1>2. m \in Message /\ m \in Messages(items)
  BY <1>1, LookupStepTypes, HeldMessages, Types DEF Messages
<1>3. /\ pc \in {"lookup", "one"} /\ pc' \in {"lookup", "one", "insertOne"}
      /\ cache' = CacheWith(ExecOf[m])
      /\ UNCHANGED <<row, rows, orphans, items, acks>>
  BY <1>1 DEF Lookup, LookupOne
<1>4. Messages(items) \subseteq Message /\ Storing' = Messages(items) /\ Storing = Messages(items)
  BY <1>3, HeldMessages DEF Storing
<1>5. \A x : Settled(x)' <=> Settled(x)
  BY <1>3 DEF Settled
<1>6. ASSUME NEW x \in Messages(items), NEW c \in Range(cache'), c.exec = ExecOf[x], c.row = 0
      PROVE  Settled(x)
  <2>1. c \in Range(cache) \/ c = [exec |-> ExecOf[m], row |-> row[ExecOf[m]]]
    BY <1>2, <1>3, CacheWithSays
  <2>2. CASE c \in Range(cache)
    BY <1>4, <1>6, <2>2 DEF Settling, Known
  <2>3. CASE c = [exec |-> ExecOf[m], row |-> row[ExecOf[m]]]
    <3>1. row[ExecOf[x]] = 0
      BY <1>6, <2>3
    <3> QED BY <1>4, <3>1 DEF Settling, Known
  <2> QED BY <2>1, <2>2, <2>3
<1>7. Known'
  BY <1>3, <1>4, <1>5, <1>6 DEF Known, Settling
<1>8. AcksSettled'
  BY <1>3, <1>5 DEF AcksSettled, Settling
<1> QED BY <1>1, <1>2, <1>4, <1>7, <1>8

LEMMA LookupSettling ==
  ASSUME Typed, Typed', Settling, Grows, Lookup
  PROVE  Settling'
<1>1. PICK m : m = items[next].msg
  OBVIOUS
<1>2. m \in Message /\ m \in Storing /\ Storing = Messages(items) /\ Known' /\ AcksSettled'
  BY <1>1, LookupStepTypes, LookupKnown
<1>3. /\ pc = "lookup" /\ found' = found \o DbItem(m) /\ next' = next + 1
      /\ UNCHANGED <<rows, orphans, items>>
  BY <1>1 DEF Lookup
<1>4. \A x : Settled(x)' <=> Settled(x)
  BY <1>3 DEF Settled
<1>5. Range(found') = Range(found) \cup Range(DbItem(m))
  BY <1>2, <1>3, Types, LookupTypes, RangeConcat
<1>6. \A d \in Range(DbItem(m)) : d.msg = m
  BY DEF DbItem, Range
<1>7. DbItem(m) = <<>> \/ \E d \in Range(DbItem(m)) : d.msg = m
  BY DEF DbItem, Range
<1>8. Messages(found') \subseteq Messages(items)
  BY <1>2, <1>3, <1>5, <1>6, RangeMessages DEF Settling, LookedUp
<1>9. Messages(found) \subseteq Messages(found')
  BY <1>5, RangeMessages
<1>10. Settled(m) \/ m \in Messages(found')
  BY <1>2, <1>5, <1>7, NoItemSettled, RangeMessages
<1>11. ASSUME NEW i \in 1..(next' - 1)
       PROVE  Settled(items[i].msg) \/ items[i].msg \in Messages(found')
  <2>0. next \in 1..(Len(items) + 1) /\ Len(items) \in Nat
    BY Types
  <2>1. i \in 1..(next - 1) \/ i = next
    BY <1>3, <2>0
  <2> QED BY <1>1, <1>3, <1>9, <1>10, <2>1 DEF Settling, LookedUp
<1>12. LookedUp'
  BY <1>3, <1>4, <1>8, <1>11 DEF LookedUp
<1> QED BY <1>2, <1>12 DEF Settling

LEMMA LookupOneSettling ==
  ASSUME Typed, Typed', Settling, Grows, LookupOne
  PROVE  Settling'
<1>1. Known' /\ AcksSettled'
  BY LookupKnown
<1>2. LookedUp'
  BY DEF LookedUp, LookupOne
<1> QED BY <1>1, <1>2 DEF Settling

\* Every item of a batch that was committed is settled.
LEMMA StoreCommitSettling ==
  ASSUME Typed, Typed', Settling, Grows, StoreCommit
  PROVE  Settling'
<1>1. /\ pc = "lookup" /\ pc' = "take" /\ next > Len(items)
      /\ rows' = Inserted(found) /\ cache' = Sanitized(cache)
      /\ acks' = acks \o items
  BY DEF StoreCommit
<1>2. Range(acks') = Range(acks) \cup Range(items)
  BY <1>1, Types, RangeConcat
<1>3. \A c \in Range(cache') : c.row # 0
  BY <1>1, Types, SanitizedKeeps
<1>4. ASSUME NEW d \in Range(items) PROVE Settled(d.msg)'
  <2>1. PICK i \in DOMAIN items : d = items[i]
    BY <1>4 DEF Range
  <2>0. next \in 1..(Len(items) + 1) /\ Len(items) \in Nat /\ DOMAIN items = 1..Len(items)
    BY Types
  <2>2. i \in 1..(next - 1) /\ d.msg \in Message
    BY <1>1, <2>0, <2>1, HeldMessages
  <2>3. CASE Settled(d.msg)
    BY <2>2, <2>3, StaysSettled
  <2>4. CASE d.msg \in Messages(found)
    <3>1. rows'[d.msg] > 0
      BY <1>1, <2>2, <2>4, InsertedGrows
    <3> QED BY <3>1 DEF Settled
  <2> QED BY <1>1, <2>1, <2>2, <2>3, <2>4 DEF Settling, LookedUp
<1>5. AcksSettled'
  BY <1>2, <1>4, HeldMessages, StaysSettled DEF AcksSettled, Settling
<1>6. Known' /\ LookedUp'
  BY <1>1, <1>3 DEF Known, LookedUp, Storing
<1> QED BY <1>5, <1>6 DEF Settling

LEMMA SettlingStep == Typed /\ Typed' /\ Orderly /\ Settling /\ [Next]_vars => Settling'
<1> SUFFICES ASSUME Typed, Typed', Orderly, Settling, [Next]_vars PROVE Settling'
  OBVIOUS
<1>0. Grows
  BY StepGrows
<1>1. CASE \E e \in Execution : DeleteExecution(e)
  BY <1>0, <1>1, DeleteSettling
<1>2. CASE AckStale \/ DatabaseLost \/ Crash
  BY <1>0, <1>2, RestartSettling DEF AckStale, DatabaseLost, Crash
<1>3. CASE Store \/ StoreFails \/ InsertOne \/ Lookup \/ LookupOne \/ StoreCommit
  BY <1>0, <1>3, StoreSettling, NextOneSettling, LookupSettling, LookupOneSettling,
     StoreCommitSettling
<1>4. CASE Take \/ ThreadDies \/ DatabaseLostUnseen
  <2>1. pc' \in {"take", "dead"} /\ acks' = acks /\ (pc' = "take" => pc = "take" /\ cache' = cache)
    BY <1>4 DEF Take, ThreadDies, DatabaseLostUnseen
  <2> QED BY <1>0, <2>1, IdleSettling DEF Settling, Known
<1>5. CASE StoredOneByOne
  <2>1. pc' = "take" /\ acks' = acks /\ \A c \in Range(cache') : c.row # 0
    BY <1>5, Types, SanitizedKeeps DEF StoredOneByOne
  <2> QED BY <1>0, <2>1, IdleSettling
<1>6. CASE \/ UNCHANGED vars \/ Deliver \/ Reconnect
           \/ \E m \in Message : Send(m)
  <2>1. UNCHANGED <<pc, items, next, found, cache, row, acks>>
    BY <1>6 DEF vars, Deliver, Reconnect, Send, storeVars
  <2> QED BY <1>0, <2>1, SameSettling
<1>7. CASE Ack
  <2>1. UNCHANGED <<pc, items, next, found, cache, row>> /\ acks' = Tail(acks)
    BY <1>7 DEF Ack, storeVars
  <2>2. Range(acks') \subseteq Range(acks)
    BY <1>7, <2>1, Types, RangeTail DEF Ack
  <2> QED BY <1>0, <2>1, <2>2, SameSettling
<1>8. CASE \E e \in Execution : CreateExecution(e)
  <2>1. PICK e \in Execution : CreateExecution(e)
    BY <1>8
  <2>2. PICK r \in 1..MaxRow : row' = [row EXCEPT ![e] = r]
    BY <2>1 DEF CreateExecution
  <2>3. \A x \in Execution : row'[x] = 0 => row[x] = 0
    BY <2>2, Types
  <2>4. UNCHANGED <<pc, items, next, found, cache, acks>>
    BY <2>1 DEF CreateExecution, storeVars
  <2> QED BY <1>0, <2>3, <2>4, SameSettling
<1> QED BY <1>1, <1>2, <1>3, <1>4, <1>5, <1>6, <1>7, <1>8 DEF Next, Publisher

-----------------------------------------------------------------------------
(* The service implements the journal. *)

Existing == {e \in Execution : row[e] # 0}

\* What each step of the service is to the journal: nothing,
LEMMA JournalStutters ==
  ASSUME UNCHANGED <<row, rows, orphans>>, Waiting' = Waiting
  PROVE  UNCHANGED Journal!journal
  BY DEF Journal!journal, Waiting

\* executions that come and go,
LEMMA JournalLooks ==
  ASSUME orphans \subseteq orphans', Waiting' = Waiting, rows' = rows,
         \A m \in orphans' \ orphans : m \in Waiting /\ ExecOf[m] \notin Existing'
  PROVE  Journal!Look
<1>1. Existing' \subseteq Execution
  BY DEF Existing
<1> QED BY <1>1 DEF Journal!Look, Existing, Waiting

\* a message recorded,
LEMMA JournalRecords ==
  ASSUME UNCHANGED <<row, orphans>>, Waiting' = Waiting,
         \A m \in Message : rows'[m] # rows[m] => rows'[m] > rows[m] /\ m \in Waiting
  PROVE  Journal!Record
  BY DEF Journal!Record, Waiting

\* or a message taken off the queue that is settled.
LEMMA JournalSettles ==
  ASSUME UNCHANGED <<row, rows, orphans>>, NEW m \in Message, m \in Waiting,
         Waiting' = Waiting \ {m}, Settled(m)
  PROVE  Journal!Settle(m)
  BY DEF Journal!Settle, Waiting, Settled

LEMMA DeleteLooks ==
  ASSUME Typed, NEW e \in Execution, DeleteExecution(e)
  PROVE  Journal!Look
<1>1. rows' = rows /\ Waiting' = Waiting /\ row' = [row EXCEPT ![e] = 0]
  BY DEF DeleteExecution, brokerVars, Waiting
<1>2. orphans' = orphans \cup {m \in Storing \cap Waiting : ExecOf[m] = e}
  BY DEF DeleteExecution, Waiting
<1>3. e \notin Existing'
  BY <1>1, Types DEF Existing
<1> QED BY <1>1, <1>2, <1>3, JournalLooks

LEMMA StoreLooks ==
  ASSUME Typed, Store
  PROVE  Journal!Look
<1>1. rows' = rows /\ Waiting' = Waiting /\ row' = row
  BY DEF Store, brokerVars, Waiting
<1>2. orphans' = orphans \cup {m \in Messages(items) \cap Waiting : row[ExecOf[m]] = 0}
  BY DEF Store, Waiting
<1>3. \A m \in orphans' \ orphans : ExecOf[m] \notin Existing'
  BY <1>1, <1>2 DEF Existing
<1> QED BY <1>1, <1>2, <1>3, JournalLooks

LEMMA CreateLooks ==
  ASSUME Typed, NEW e \in Execution, CreateExecution(e)
  PROVE  Journal!Look
<1>1. rows' = rows /\ Waiting' = Waiting /\ orphans' = orphans
  BY DEF CreateExecution, brokerVars, Waiting
<1> QED BY <1>1, JournalLooks

LEMMA SendSends ==
  ASSUME Typed, NEW m \in Message, Send(m)
  PROVE  Journal!Send(m)
<1>1. Range(queue') = Range(queue) \cup {m}
  BY Types, RangeAppend DEF Send
<1>2. Waiting' = Waiting \cup {m}
  BY <1>1 DEF Send, Waiting
<1> QED BY <1>2 DEF Send, Journal!Send, Waiting

LEMMA DeliverSettles ==
  ASSUME Typed, Orderly, Deliver
  PROVE  UNCHANGED Journal!journal \/ \E m \in Message : Journal!Settle(m)
<1>1. PICK m : m = Head(queue)
  OBVIOUS
<1>2. m \in Message /\ Range(queue) = {m} \cup Range(Tail(queue)) /\ queue' = Tail(queue)
  BY <1>1, Types, RangeTail DEF Deliver
<1>3. unacked' = IF Kind[m] = "hook" THEN unacked ELSE unacked \cup {m}
  BY <1>1 DEF Deliver
<1>4. UNCHANGED <<row, rows, orphans>>
  BY DEF Deliver
<1>5. m \notin Range(Tail(queue)) /\ m \notin unacked
  <2>1. queue \in Seq(Message) /\ queue # <<>> /\ IsInjective(queue)
    BY Types DEF Deliver, Orderly, Ready
  <2>2. \A i \in DOMAIN Tail(queue) : i + 1 \in DOMAIN queue /\ Tail(queue)[i] = queue[i + 1]
    BY <2>1
  <2>3. m = queue[1] /\ 1 \in DOMAIN queue
    BY <1>1, <2>1
  <2>4. \A i \in DOMAIN Tail(queue) : Tail(queue)[i] # m
    BY <2>1, <2>2, <2>3 DEF IsInjective
  <2> QED BY <1>2, <2>4 DEF Range, Orderly, Ready
<1>6. CASE Kind[m] = "hook"
  <2>1. m \in Waiting /\ Waiting' = Waiting \ {m} /\ Settled(m)
    BY <1>2, <1>3, <1>5, <1>6 DEF Waiting, Settled
  <2> QED BY <1>2, <1>4, <2>1, JournalSettles
<1>7. CASE Kind[m] # "hook"
  <2>1. Waiting' = Waiting
    BY <1>2, <1>3, <1>7 DEF Waiting
  <2> QED BY <1>4, <2>1, JournalStutters
<1> QED BY <1>6, <1>7

LEMMA AckSettles ==
  ASSUME Typed, Orderly, Settling, Ack
  PROVE  \E m \in Message : Journal!Settle(m)
<1>1. PICK m : m = Head(acks).msg
  OBVIOUS
<1>2. Head(acks) \in Range(acks) /\ m \in unacked \ Range(queue)
  BY <1>1, AckOrderly
<1>3. m \in Message /\ Settled(m)
  BY <1>1, <1>2, HeldMessages DEF Settling, AcksSettled
<1>4. UNCHANGED <<row, rows, orphans>> /\ Waiting' = Waiting \ {m} /\ m \in Waiting
  BY <1>1, <1>2 DEF Ack, Waiting
<1> QED BY <1>3, <1>4, JournalSettles

\* Only what was found is inserted.
LEMMA InsertRecords ==
  ASSUME Typed, Orderly, Settling, StoreCommit \/ InsertOne
  PROVE  Journal!Record
<1>1. /\ UNCHANGED <<row, orphans>> /\ Waiting' = Waiting
      /\ rows' = rows \/ rows' = Inserted(found)
  BY DEF StoreCommit, InsertOne, brokerVars, Waiting
<1>2. Messages(found) \subseteq Messages(items)
  <2>1. CASE StoreCommit
    BY <2>1 DEF StoreCommit, Settling, LookedUp
  <2>2. CASE InsertOne
    <3>1. next \in DOMAIN items /\ Len(found) = 1 /\ found[1].msg = items[next].msg
      BY <2>2 DEF InsertOne, Typed, Coherent
    <3>2. DOMAIN found = {1}
      <4>1. found \in Seq(FoundRow)
        BY Types
      <4> QED BY <3>1, <4>1
    <3> QED BY <3>1, <3>2 DEF Messages
  <2> QED BY <2>1, <2>2
<1>3. Messages(found) \subseteq Waiting
  BY <1>2, RangeMessages DEF Orderly, Handed, Held
<1>4. ASSUME NEW m \in Message, rows' = Inserted(found), rows'[m] # rows[m]
      PROVE  rows'[m] > rows[m] /\ m \in Messages(found)
  <2>1. /\ rows'[m] = rows[m] + Count(found, m) /\ rows[m] \in Nat
        /\ Count(found, m) \in Nat
    BY <1>4, InsertedGrows, Types, CountType
  <2>2. Count(found, m) # 0
    BY <1>4, <2>1
  <2>3. {i \in DOMAIN found : found[i].msg = m} # {}
    BY <2>2, FS_EmptySet DEF Count
  <2> QED BY <2>1, <2>2, <2>3 DEF Messages
<1> QED BY <1>1, <1>3, <1>4, JournalRecords

LEMMA JournalStep ==
  Typed /\ Orderly /\ Settling /\ [Next]_vars => [Journal!Next]_(Journal!journal)
<1> SUFFICES ASSUME Typed, Orderly, Settling, [Next]_vars
             PROVE  Journal!Next \/ UNCHANGED Journal!journal
  OBVIOUS
<1>1. CASE \E e \in Execution : CreateExecution(e) \/ DeleteExecution(e)
  BY <1>1, CreateLooks, DeleteLooks DEF Journal!Next
<1>2. CASE Store
  BY <1>2, StoreLooks DEF Journal!Next
<1>3. CASE \E m \in Message : Send(m)
  BY <1>3, SendSends DEF Journal!Next
<1>4. CASE Deliver
  BY <1>4, DeliverSettles DEF Journal!Next
<1>5. CASE Ack
  BY <1>5, AckSettles DEF Journal!Next
<1>6. CASE StoreCommit \/ InsertOne
  BY <1>6, InsertRecords DEF Journal!Next
<1>7. CASE Reconnect
  <2>1. Waiting' = Waiting /\ UNCHANGED <<row, rows, orphans>>
    BY <1>7, ReconnectTypes DEF Reconnect
  <2> QED BY <2>1, JournalStutters
<1>8. CASE AckStale \/ DatabaseLost \/ Crash
  <2>1. Restart /\ (channel' = channel \/ NewChannel)
    BY <1>8 DEF AckStale, DatabaseLost, Crash
  <2>2. Waiting' = Waiting /\ UNCHANGED <<row, rows, orphans>>
    BY <2>1, RestartTypes DEF Restart
  <2> QED BY <2>2, JournalStutters
<1>9. CASE \/ UNCHANGED vars \/ Take \/ Lookup \/ StoreFails \/ LookupOne
           \/ StoredOneByOne \/ ThreadDies \/ DatabaseLostUnseen
  <2>1. UNCHANGED <<row, rows, orphans, unacked, queue>>
    BY <1>9 DEF vars, Take, Lookup, StoreFails, LookupOne, StoredOneByOne, ThreadDies,
           DatabaseLostUnseen, brokerVars
  <2>2. Waiting' = Waiting
    BY <2>1 DEF Waiting
  <2> QED BY <2>1, <2>2, JournalStutters
<1> QED BY <1>1, <1>2, <1>3, <1>4, <1>5, <1>6, <1>7, <1>8, <1>9 DEF Next, Publisher

LEMMA InitJournal == Init => Orderly /\ Settling /\ Journal!Init
<1> SUFFICES ASSUME Init PROVE Orderly /\ Settling /\ Journal!Init
  OBVIOUS
<1>1. /\ acks = <<>> /\ items = <<>> /\ batch = <<>> /\ queue = <<>> /\ unacked = {}
      /\ cache = <<>> /\ pc = "take" /\ orphans = {} /\ rows = [m \in Message |-> 0]
  BY DEF Init
<1>2. Range(acks) = {} /\ Range(items) = {} /\ Range(batch) = {} /\ Range(queue) = {}
      /\ Range(cache) = {}
  BY <1>1, RangeEmpty
<1>3. InLine
  BY <1>1, <1>2, NoneSorted DEF InLine, AllPrecede
<1>4. Ready
  BY <1>1, <1>2 DEF Ready, IsInjective
<1>5. Handed
  BY <1>2 DEF Handed, Held
<1>6. Settling
  BY <1>1, <1>2 DEF Settling, Known, LookedUp, AcksSettled, Storing
<1>7. Journal!Init
  BY <1>1, <1>2 DEF Journal!Init
<1> QED BY <1>3, <1>4, <1>5, <1>6, <1>7 DEF Orderly

\* amqp-postgres implements the journal, whatever is reconnected, restarted or lost and
\* whichever executions come and go: a message is acked only when it is stored, of no
\* use, or its execution was missing while its batch was being stored.
THEOREM JournalImplemented == Spec => ImplementsJournal
<1>1. Init => Typed /\ Orderly /\ Settling /\ Journal!Init
  BY InitTypes, InitJournal
<1>2. Typed /\ Orderly /\ Settling /\ [Next]_vars => (Typed /\ Orderly /\ Settling)'
  BY TypeStep, OrderlyStep, SettlingStep
<1> QED BY <1>1, <1>2, JournalStep, PTL DEF Spec, ImplementsJournal, Journal!Spec

-----------------------------------------------------------------------------
(* A message is stored once per delivery at most. *)

\* How often a message is in a sequence from place n on.
PlacesFrom(s, n, m) == {i \in n..Len(s) : s[i].msg = m}
CountFrom(s, n, m) == Cardinality(PlacesFrom(s, n, m))
One(x, m) == IF x.msg = m THEN 1 ELSE 0

LEMMA CountFromType ==
  ASSUME NEW S, NEW s \in Seq(S), NEW n \in Nat, NEW m
  PROVE  IsFiniteSet(PlacesFrom(s, n, m)) /\ CountFrom(s, n, m) \in Nat
<1>1. IsFiniteSet(n..Len(s)) /\ PlacesFrom(s, n, m) \in SUBSET (n..Len(s))
  BY FS_Interval DEF PlacesFrom
<1> QED BY <1>1, FS_Subset, FS_CardinalityType DEF CountFrom

LEMMA CountIsFromFirst ==
  ASSUME NEW S, NEW s \in Seq(S), NEW m
  PROVE  Count(s, m) = CountFrom(s, 1, m)
<1>1. DOMAIN s = 1..Len(s)
  OBVIOUS
<1>2. {i \in DOMAIN s : s[i].msg = m} = PlacesFrom(s, 1, m)
  BY <1>1 DEF PlacesFrom
<1> QED BY <1>2 DEF Count, CountFrom

LEMMA CountFromNext ==
  ASSUME NEW S, NEW s \in Seq(S), NEW n \in 1..Len(s), NEW m
  PROVE  CountFrom(s, n, m) = CountFrom(s, n + 1, m) + One(s[n], m)
<1>1. IsFiniteSet(PlacesFrom(s, n + 1, m)) /\ CountFrom(s, n + 1, m) \in Nat
  BY CountFromType
<1>2. n \notin PlacesFrom(s, n + 1, m)
  BY DEF PlacesFrom
<1>3. CASE s[n].msg = m
  <2>1. PlacesFrom(s, n, m) = PlacesFrom(s, n + 1, m) \cup {n}
    BY <1>3 DEF PlacesFrom
  <2> QED BY <1>1, <1>2, <1>3, <2>1, FS_AddElement DEF CountFrom, One
<1>4. CASE s[n].msg # m
  <2>1. PlacesFrom(s, n, m) = PlacesFrom(s, n + 1, m)
    BY <1>4 DEF PlacesFrom
  <2> QED BY <1>1, <1>4, <2>1 DEF CountFrom, One
<1> QED BY <1>3, <1>4

LEMMA CountFromEnd ==
  ASSUME NEW S, NEW s \in Seq(S), NEW n \in Nat, n > Len(s), NEW m
  PROVE  CountFrom(s, n, m) = 0
<1>1. PlacesFrom(s, n, m) = {}
  BY DEF PlacesFrom
<1> QED BY <1>1, FS_EmptySet DEF CountFrom

LEMMA CountEmpty == \A m : Count(<<>>, m) = 0
<1>1. \A m : {i \in DOMAIN <<>> : <<>>[i].msg = m} = {}
  OBVIOUS
<1> QED BY <1>1, FS_EmptySet DEF Count

LEMMA CountAppend ==
  ASSUME NEW S, NEW s \in Seq(S), NEW x \in S, NEW m
  PROVE  Count(Append(s, x), m) = Count(s, m) + One(x, m)
<1> DEFINE P == {i \in DOMAIN s : s[i].msg = m}
           Q == {i \in DOMAIN Append(s, x) : Append(s, x)[i].msg = m}
<1>1. IsFiniteSet(P) /\ Cardinality(P) \in Nat
  <2>1. IsFiniteSet(1..Len(s)) /\ P \in SUBSET (1..Len(s))
    BY FS_Interval
  <2> QED BY <2>1, FS_Subset, FS_CardinalityType
<1>2. /\ DOMAIN Append(s, x) = DOMAIN s \cup {Len(s) + 1} /\ Len(s) + 1 \notin DOMAIN s
      /\ \A i \in DOMAIN s : Append(s, x)[i] = s[i]
      /\ Append(s, x)[Len(s) + 1] = x
  OBVIOUS
<1>3. Len(s) + 1 \notin P
  BY <1>2
<1>4. CASE x.msg = m
  <2>1. Q = P \cup {Len(s) + 1}
    BY <1>2, <1>4
  <2> HIDE DEF P, Q
  <2>2. Cardinality(Q) = Cardinality(P) + 1
    BY <1>1, <1>3, <2>1, FS_AddElement
  <2> QED BY <1>4, <2>2 DEF Count, One, P, Q
<1>5. CASE x.msg # m
  <2>1. Q = P
    BY <1>2, <1>5
  <2>2. Count(Append(s, x), m) = Count(s, m) /\ Count(s, m) \in Nat /\ One(x, m) = 0
    BY <1>1, <1>5, <2>1 DEF Count, One
  <2> QED BY <2>2
<1> QED BY <1>4, <1>5

LEMMA CountTail ==
  ASSUME NEW S, NEW s \in Seq(S), s # <<>>, NEW m
  PROVE  Count(s, m) = Count(Tail(s), m) + One(Head(s), m)
<1> DEFINE P == PlacesFrom(s, 2, m)
           Q == {i \in DOMAIN Tail(s) : Tail(s)[i].msg = m}
           f == [i \in P |-> i - 1]
<1>1. IsFiniteSet(P)
  BY CountFromType
<1>2. /\ \A i \in 2..Len(s) : i - 1 \in DOMAIN Tail(s) /\ Tail(s)[i - 1] = s[i]
      /\ \A i \in DOMAIN Tail(s) : i + 1 \in 2..Len(s) /\ Tail(s)[i] = s[i + 1] /\ i \in Nat
      /\ 1 \in 1..Len(s) /\ s[1] = Head(s) /\ 1 + 1 = 2
  OBVIOUS
<1>3. \A i \in P : i \in 2..Len(s) /\ i \in Int /\ s[i].msg = m
  BY DEF PlacesFrom
<1>4. \A i \in P : f[i] \in Q
  BY <1>2, <1>3
<1>5. \A i, j \in P : f[i] = f[j] => i = j
  BY <1>3
<1>6. \A j \in Q : j + 1 \in P /\ f[j + 1] = j
  BY <1>2 DEF PlacesFrom
<1>7. ExistsBijection(P, Q)
  <2>1. f \in [P -> Q]
    BY <1>4
  <2>2. \A j \in Q : \E i \in P : f[i] = j
    BY <1>6
  <2>3. f \in Bijection(P, Q)
    <3> HIDE DEF P, Q, f
    <3> QED BY <1>5, <2>1, <2>2 DEF Bijection, Injection, Surjection, IsInjective
  <2> QED BY <2>3 DEF ExistsBijection
<1>8. Cardinality(Q) = Cardinality(P)
  <2> HIDE DEF P, Q
  <2> QED BY <1>1, <1>7, FS_Bijection
<1>9. CountFrom(s, 1, m) = CountFrom(s, 2, m) + One(Head(s), m)
  BY <1>2, CountFromNext
<1>10. Count(Tail(s), m) = CountFrom(s, 2, m)
  BY <1>8 DEF Count, CountFrom
<1> QED BY <1>9, <1>10, CountIsFromFirst

\* The place from which the items are still to be stored.
ToStoreFrom ==
  IF pc \in {"take", "lookup"} THEN 1 ELSE IF pc = "dead" THEN Len(items) + 1 ELSE next

\* Each row, and each delivery that may still become one, is of a delivery of its own;
\* the rows found are of items that have been looked at.
StoredOnce ==
  /\ \A m \in Message :
       rows[m] + Count(batch, m) + CountFrom(items, ToStoreFrom, m) <= delivered[m]
  /\ pc = "lookup" => \A m \in Message :
       Count(found, m) + CountFrom(items, next, m) <= CountFrom(items, 1, m)

\* The numbers above.
LEMMA Numbers ==
  ASSUME Typed, NEW m \in Message
  PROVE  /\ rows[m] \in Nat /\ delivered[m] \in Nat
         /\ Count(batch, m) \in Nat /\ Count(found, m) \in Nat /\ Count(items, m) \in Nat
         /\ \A n \in Nat : CountFrom(items, n, m) \in Nat
         /\ ToStoreFrom \in Nat /\ next \in Nat
<1>1. rows[m] \in Nat /\ delivered[m] \in Nat
  BY Types
<1>2. batch \in Seq(Delivery) /\ found \in Seq(FoundRow) /\ items \in Seq(Delivery)
  BY Types
<1>3. ToStoreFrom \in Nat /\ next \in Nat
  <2>1. next \in 1..(Len(items) + 1) /\ Len(items) \in Nat
    BY Types
  <2> QED BY <2>1 DEF ToStoreFrom
<1> QED BY <1>1, <1>2, <1>3, CountType, CountFromType

\* A step that stores nothing and takes nothing: fewer items may be left to store.
LEMMA SameStoredOnce ==
  ASSUME Typed, StoredOnce, UNCHANGED <<rows, batch, items, delivered>>, pc' # "lookup",
         \A m \in Message : CountFrom(items, ToStoreFrom', m) <= CountFrom(items, ToStoreFrom, m),
         ToStoreFrom' \in Nat
  PROVE  StoredOnce'
<1> SUFFICES ASSUME NEW m \in Message
             PROVE  rows[m] + Count(batch, m) + CountFrom(items, ToStoreFrom', m) <= delivered[m]
  BY DEF StoredOnce
<1>1. rows[m] + Count(batch, m) + CountFrom(items, ToStoreFrom, m) <= delivered[m]
  BY DEF StoredOnce
<1>2. CountFrom(items, ToStoreFrom', m) <= CountFrom(items, ToStoreFrom, m)
  OBVIOUS
<1>3. CountFrom(items, ToStoreFrom', m) \in Nat /\ CountFrom(items, ToStoreFrom, m) \in Nat
  BY Numbers
<1> QED BY <1>1, <1>2, <1>3, Numbers

\* The items are gone: none are to be stored.
LEMMA NoneStoredOnce ==
  ASSUME Typed', items' = <<>>, pc' = "take",
         \A m \in Message : rows'[m] + Count(batch', m) <= delivered'[m]
  PROVE  StoredOnce'
<1>1. ToStoreFrom' = 1 /\ pc' # "lookup"
  BY DEF ToStoreFrom
<1>2. <<>> \in Seq(Delivery) /\ 1 > Len(<<>>)
  OBVIOUS
<1>3. \A m \in Message : CountFrom(items', ToStoreFrom', m) = 0
  BY <1>1, <1>2, CountFromEnd
<1>4. batch' \in Seq(Delivery) /\ rows' \in [Message -> Nat]
  BY DEF Typed, TypeOK
<1>5. \A m \in Message : rows'[m] \in Nat /\ Count(batch', m) \in Nat
  BY <1>4, CountType
<1>6. \A m \in Message :
        rows'[m] + Count(batch', m) + CountFrom(items', ToStoreFrom', m) <= delivered'[m]
  BY <1>3, <1>5
<1> QED BY <1>1, <1>6 DEF StoredOnce

LEMMA RestartStoredOnce ==
  ASSUME Typed, Typed', StoredOnce, Restart
  PROVE  StoredOnce'
<1>1. items' = <<>> /\ batch' = <<>> /\ pc' = "take" /\ rows' = rows /\ delivered' = delivered
  BY DEF Restart
<1>2. ASSUME NEW m \in Message PROVE rows'[m] + Count(batch', m) <= delivered'[m]
  <2>1. rows[m] + Count(batch, m) + CountFrom(items, ToStoreFrom, m) <= delivered[m]
    BY DEF StoredOnce
  <2>2. CountFrom(items, ToStoreFrom, m) \in Nat
    BY Numbers
  <2>3. Count(batch', m) = 0
    BY <1>1, CountEmpty
  <2>9. rows[m] \in Nat /\ delivered[m] \in Nat /\ Count(batch, m) \in Nat /\ Count(found, m) \in Nat
    BY Numbers
  <2> QED BY <1>1, <2>1, <2>2, <2>3, <2>9
<1> QED BY <1>1, <1>2, NoneStoredOnce

LEMMA DeliverStoredOnce ==
  ASSUME Typed, Typed', StoredOnce, Deliver
  PROVE  StoredOnce'
<1>1. PICK x : x = [msg |-> Head(queue), ch |-> channel]
  OBVIOUS
<1>2. /\ UNCHANGED <<rows, items, pc, next, found>>
      /\ batch' = batch \/ batch' = Append(batch, x)
      /\ delivered' = [delivered EXCEPT ![x.msg] = @ + 1]
  BY <1>1 DEF Deliver, storeVars
<1>3. x \in Delivery /\ x.msg \in Message
  <2>1. Head(queue) \in Message /\ channel \in 1..MaxChannel
    BY Types, RangeTail DEF Deliver
  <2> QED BY <1>1, <2>1 DEF Delivery
<1>4. ToStoreFrom' = ToStoreFrom
  BY <1>2 DEF ToStoreFrom
<1>5. ASSUME NEW m \in Message
      PROVE  rows[m] + Count(batch', m) + CountFrom(items, ToStoreFrom, m) <= delivered'[m]
  <2>1. rows[m] + Count(batch, m) + CountFrom(items, ToStoreFrom, m) <= delivered[m]
    BY DEF StoredOnce
  <2>2. delivered'[m] = delivered[m] + One(x, m)
    <3>1. delivered \in [Message -> Nat]
      BY Types
    <3>2. delivered[m] \in Nat
      BY <3>1
    <3>3. CASE x.msg = m
      BY <1>2, <3>1, <3>3 DEF One
    <3>4. CASE x.msg # m
      BY <1>2, <3>1, <3>2, <3>4 DEF One
    <3> QED BY <3>3, <3>4
  <2>3. Count(batch', m) = Count(batch, m) \/ Count(batch', m) = Count(batch, m) + One(x, m)
    BY <1>2, <1>3, Types, CountAppend, ZenonT(40)
  <2>4. One(x, m) \in Nat /\ CountFrom(items, ToStoreFrom, m) \in Nat
    BY Numbers DEF One
  <2> QED BY <2>1, <2>2, <2>3, <2>4, Numbers
<1> QED BY <1>2, <1>4, <1>5 DEF StoredOnce

LEMMA TakeStoredOnce ==
  ASSUME Typed, Typed', StoredOnce, Take
  PROVE  StoredOnce'
<1>1. PICK x : x = Head(batch)
  OBVIOUS
<1>2. /\ pc = "take" /\ pc' = "take" /\ UNCHANGED <<rows, delivered>>
      /\ batch # <<>> /\ batch' = Tail(batch) /\ items' = Append(items, x)
  BY <1>1 DEF Take, brokerVars
<1>3. batch \in Seq(Delivery) /\ items \in Seq(Delivery) /\ x \in Delivery
  BY <1>1, <1>2, Types, RangeTail
<1>4. items' \in Seq(Delivery)
  BY DEF Typed, TypeOK
<1>5. ToStoreFrom = 1 /\ ToStoreFrom' = 1
  BY <1>2 DEF ToStoreFrom
<1>6. ASSUME NEW m \in Message
      PROVE  rows[m] + Count(batch', m) + CountFrom(items', 1, m) <= delivered[m]
  <2>1. rows[m] + Count(batch, m) + CountFrom(items, 1, m) <= delivered[m]
    BY <1>5 DEF StoredOnce
  <2>2. Count(batch, m) = Count(batch', m) + One(x, m)
    BY <1>1, <1>2, <1>3, CountTail
  <2>3. Count(items', m) = Count(items, m) + One(x, m)
    BY <1>2, <1>3, CountAppend
  <2>4. Count(items', m) = CountFrom(items', 1, m) /\ Count(items, m) = CountFrom(items, 1, m)
    BY <1>3, <1>4, CountIsFromFirst
  <2>5. Count(batch', m) \in Nat /\ One(x, m) \in Nat
    <3>1. batch' \in Seq(Delivery)
      BY DEF Typed, TypeOK
    <3> QED BY <3>1, CountType DEF One
  <2> QED BY <2>1, <2>2, <2>3, <2>4, <2>5, Numbers
<1> QED BY <1>2, <1>5, <1>6 DEF StoredOnce

LEMMA StoreStoredOnce ==
  ASSUME Typed, StoredOnce, Store
  PROVE  StoredOnce'
<1>1. /\ pc = "take" /\ pc' = "lookup" /\ next' = 1 /\ found' = <<>>
      /\ UNCHANGED <<rows, delivered, batch, items>>
  BY DEF Store, brokerVars
<1>2. ToStoreFrom = 1 /\ ToStoreFrom' = 1
  BY <1>1 DEF ToStoreFrom
<1>3. \A m \in Message : Count(found', m) + CountFrom(items', next', m) <= CountFrom(items', 1, m)
  <2> SUFFICES ASSUME NEW m \in Message
               PROVE  Count(found', m) + CountFrom(items, 1, m) <= CountFrom(items, 1, m)
    BY <1>1
  <2>1. Count(found', m) = 0 /\ CountFrom(items, 1, m) \in Nat
    BY <1>1, CountEmpty, Numbers
  <2> QED BY <2>1
<1> QED BY <1>1, <1>2, <1>3 DEF StoredOnce

\* An item that is looked at becomes one row at most.
LEMMA LookupStoredOnce ==
  ASSUME Typed, Typed', StoredOnce, Lookup
  PROVE  StoredOnce'
<1>1. PICK x : x = items[next]
  OBVIOUS
<1>2. /\ pc = "lookup" /\ pc' = "lookup" /\ found' = found \o DbItem(x.msg) /\ next' = next + 1
      /\ UNCHANGED <<rows, delivered, batch, items>>
  BY <1>1 DEF Lookup, brokerVars
<1>3. next \in DOMAIN items /\ x.msg \in Message
  BY <1>1, LookupStepTypes
<1>4. items \in Seq(Delivery) /\ found \in Seq(FoundRow) /\ next \in 1..Len(items)
  BY <1>3, Types
<1>5. ToStoreFrom = 1 /\ ToStoreFrom' = 1
  BY <1>2 DEF ToStoreFrom
<1>6. ASSUME NEW m \in Message
      PROVE  Count(found', m) + CountFrom(items, next + 1, m) <= CountFrom(items, 1, m)
  <2>1. Count(found, m) + CountFrom(items, next, m) <= CountFrom(items, 1, m)
    BY <1>2 DEF StoredOnce
  <2>2. CountFrom(items, next, m) = CountFrom(items, next + 1, m) + One(x, m)
    BY <1>1, <1>4, CountFromNext
  <2>3. Count(found', m) \in Nat /\ Count(found', m) <= Count(found, m) + One(x, m)
    <3>0. One(x, m) \in Nat /\ Count(found, m) \in Nat
      BY Numbers DEF One
    <3>1. CASE DbItem(x.msg) = <<>>
      <4>1. found' = found
        BY <1>2, <1>4, <3>1
      <4> QED BY <3>0, <4>1
    <3>2. CASE DbItem(x.msg) # <<>>
      <4>1. PICK f : f = [msg |-> x.msg, row |-> ExecutionRow(ExecOf[x.msg])]
        OBVIOUS
      <4>2. DbItem(x.msg) = <<f>> /\ f.msg = x.msg
        BY <3>2, <4>1 DEF DbItem
      <4>3. f \in FoundRow /\ found \o <<f>> = Append(found, f)
        <5>1. <<f>> \in Seq(FoundRow)
          BY <1>3, <4>2, LookupTypes
        <5>2. f \in FoundRow
          BY <5>1
        <5> QED BY <1>4, <5>2
      <4>4. Count(found', m) = Count(found, m) + One(f, m)
        BY <1>2, <1>4, <4>2, <4>3, CountAppend, ZenonT(40)
      <4> QED BY <3>0, <4>2, <4>4 DEF One
    <3> QED BY <3>1, <3>2
  <2>4. One(x, m) \in Nat /\ CountFrom(items, next + 1, m) \in Nat
    BY Numbers DEF One
  <2> QED BY <2>1, <2>2, <2>3, <2>4, Numbers
<1> QED BY <1>2, <1>5, <1>6 DEF StoredOnce

LEMMA StoreCommitStoredOnce ==
  ASSUME Typed, Typed', StoredOnce, StoreCommit
  PROVE  StoredOnce'
<1>1. /\ pc = "lookup" /\ pc' = "take" /\ items' = <<>> /\ rows' = Inserted(found)
      /\ UNCHANGED <<batch, delivered>>
  BY DEF StoreCommit, brokerVars
<1>2. ASSUME NEW m \in Message PROVE rows'[m] + Count(batch', m) <= delivered'[m]
  <2>1. rows[m] + Count(batch, m) + CountFrom(items, 1, m) <= delivered[m]
    BY <1>1 DEF StoredOnce, ToStoreFrom
  <2>2. Count(found, m) + CountFrom(items, next, m) <= CountFrom(items, 1, m)
    BY <1>1 DEF StoredOnce
  <2>3. rows'[m] = rows[m] + Count(found, m)
    BY <1>1, InsertedGrows
  <2>4. CountFrom(items, 1, m) \in Nat /\ CountFrom(items, next, m) \in Nat
    BY Numbers
  <2>9. rows[m] \in Nat /\ delivered[m] \in Nat /\ Count(batch, m) \in Nat /\ Count(found, m) \in Nat
    BY Numbers
  <2> QED BY <1>1, <2>1, <2>2, <2>3, <2>4, <2>9
<1> QED BY <1>1, <1>2, NoneStoredOnce

LEMMA StoredOneByOneStoredOnce ==
  ASSUME Typed, Typed', StoredOnce, StoredOneByOne
  PROVE  StoredOnce'
<1>1. pc' = "take" /\ items' = <<>> /\ UNCHANGED <<rows, batch, delivered>>
  BY DEF StoredOneByOne, brokerVars
<1>2. ASSUME NEW m \in Message PROVE rows'[m] + Count(batch', m) <= delivered'[m]
  <2>1. rows[m] + Count(batch, m) + CountFrom(items, ToStoreFrom, m) <= delivered[m]
    BY DEF StoredOnce
  <2>2. CountFrom(items, ToStoreFrom, m) \in Nat
    BY Numbers
  <2>9. rows[m] \in Nat /\ delivered[m] \in Nat /\ Count(batch, m) \in Nat /\ Count(found, m) \in Nat
    BY Numbers
  <2> QED BY <1>1, <2>1, <2>2, <2>9
<1> QED BY <1>1, <1>2, NoneStoredOnce

\* A batch that fails has stored nothing.
LEMMA StoreFailsStoredOnce ==
  ASSUME Typed, StoredOnce, StoreFails
  PROVE  StoredOnce'
<1>1. pc = "lookup" /\ pc' = "one" /\ next' = 1 /\ UNCHANGED <<rows, batch, delivered, items>>
  BY DEF StoreFails, StoreError, brokerVars
<1>2. ToStoreFrom = 1 /\ ToStoreFrom' = 1
  BY <1>1 DEF ToStoreFrom
<1>3. \A m \in Message : CountFrom(items, ToStoreFrom', m) <= CountFrom(items, ToStoreFrom, m)
  BY <1>2, Numbers
<1> QED BY <1>1, <1>2, <1>3, SameStoredOnce

LEMMA LookupOneStoredOnce ==
  ASSUME Typed, StoredOnce, LookupOne
  PROVE  StoredOnce'
<1>1. /\ pc = "one" /\ pc' \in {"one", "insertOne"} /\ next' \in {next, next + 1}
      /\ UNCHANGED <<rows, batch, delivered, items>>
  BY DEF LookupOne, brokerVars
<1>2. next \in 1..Len(items) /\ items \in Seq(Delivery)
  BY LookupStepTypes, Types
<1>3. ToStoreFrom = next /\ ToStoreFrom' = next' /\ next' \in Nat
  BY <1>1, <1>2 DEF ToStoreFrom
<1>4. ASSUME NEW m \in Message PROVE CountFrom(items, next', m) <= CountFrom(items, next, m)
  <2>1. CountFrom(items, next, m) = CountFrom(items, next + 1, m) + One(items[next], m)
    BY <1>2, CountFromNext
  <2>2. CountFrom(items, next + 1, m) \in Nat /\ One(items[next], m) \in Nat
        /\ CountFrom(items, next, m) \in Nat
    <3>1. next + 1 \in Nat /\ next \in Nat
      BY <1>2
    <3>2. One(items[next], m) \in Nat
      BY DEF One
    <3> QED BY <3>1, <3>2, Numbers
  <2> QED BY <1>1, <2>1, <2>2
<1> QED BY <1>1, <1>3, <1>4, SameStoredOnce

LEMMA InsertOneStoredOnce ==
  ASSUME Typed, Typed', StoredOnce, InsertOne
  PROVE  StoredOnce'
<1>1. /\ pc = "insertOne" /\ pc' = "one" /\ next' = next + 1
      /\ rows' = rows \/ rows' = Inserted(found)
      /\ UNCHANGED <<batch, delivered, items>>
  BY DEF InsertOne, brokerVars
<1>2. next \in DOMAIN items /\ Len(found) = 1 /\ found[1].msg = items[next].msg
  BY <1>1 DEF Typed, Coherent
<1>3. items \in Seq(Delivery) /\ next \in 1..Len(items) /\ found \in Seq(FoundRow)
  BY <1>2, Types
<1>4. ToStoreFrom = next /\ ToStoreFrom' = next + 1
  BY <1>1 DEF ToStoreFrom
<1>5. ASSUME NEW m \in Message
      PROVE  rows'[m] + Count(batch, m) + CountFrom(items, next + 1, m) <= delivered[m]
  <2>1. rows[m] + Count(batch, m) + CountFrom(items, next, m) <= delivered[m]
    BY <1>4 DEF StoredOnce
  <2>2. CountFrom(items, next, m) = CountFrom(items, next + 1, m) + One(items[next], m)
    BY <1>3, CountFromNext
  <2>3. Count(found, m) = One(items[next], m)
    <3>1. Count(found, m) = CountFrom(found, 1, m)
      BY <1>3, CountIsFromFirst
    <3>2. CountFrom(found, 1, m) = CountFrom(found, 1 + 1, m) + One(found[1], m)
      <4>1. 1 \in 1..Len(found)
        BY <1>2
      <4> QED BY <1>3, <4>1, CountFromNext
    <3>3. CountFrom(found, 1 + 1, m) = 0
      <4>1. 1 + 1 > Len(found) /\ 1 + 1 \in Nat
        BY <1>2
      <4> QED BY <1>3, <4>1, CountFromEnd
    <3>4. One(found[1], m) = One(items[next], m) /\ One(items[next], m) \in Nat
      BY <1>2 DEF One
    <3> QED BY <3>1, <3>2, <3>3, <3>4
  <2>4. rows'[m] = rows[m] \/ rows'[m] = rows[m] + Count(found, m)
    BY <1>1, InsertedGrows
  <2>5. One(items[next], m) \in Nat /\ CountFrom(items, next + 1, m) \in Nat
    <3>1. next + 1 \in Nat
      BY <1>3
    <3>2. One(items[next], m) \in Nat
      BY DEF One
    <3> QED BY <3>1, <3>2, Numbers
  <2> QED BY <2>1, <2>2, <2>3, <2>4, <2>5, Numbers
<1> QED BY <1>1, <1>4, <1>5 DEF StoredOnce

LEMMA DiesStoredOnce ==
  ASSUME Typed, StoredOnce, ThreadDies \/ DatabaseLostUnseen
  PROVE  StoredOnce'
<1>1. pc' = "dead" /\ UNCHANGED <<rows, batch, delivered, items>>
  BY DEF ThreadDies, DatabaseLostUnseen, brokerVars, storeVars
<1>2. items \in Seq(Delivery) /\ Len(items) \in Nat
  BY Types
<1>3. ToStoreFrom' = Len(items) + 1 /\ ToStoreFrom' \in Nat /\ ToStoreFrom' > Len(items)
  BY <1>1, <1>2 DEF ToStoreFrom
<1>4. \A m \in Message : CountFrom(items, ToStoreFrom', m) <= CountFrom(items, ToStoreFrom, m)
  <2> SUFFICES ASSUME NEW m \in Message
               PROVE  CountFrom(items, ToStoreFrom', m) <= CountFrom(items, ToStoreFrom, m)
    OBVIOUS
  <2>1. CountFrom(items, ToStoreFrom', m) = 0
    BY <1>2, <1>3, CountFromEnd
  <2>2. CountFrom(items, ToStoreFrom, m) \in Nat
    BY Numbers
  <2> QED BY <2>1, <2>2
<1> QED BY <1>1, <1>3, <1>4, SameStoredOnce

LEMMA StoredOnceStep == Typed /\ Typed' /\ StoredOnce /\ [Next]_vars => StoredOnce'
<1> SUFFICES ASSUME Typed, Typed', StoredOnce, [Next]_vars PROVE StoredOnce'
  OBVIOUS
<1>1. CASE \/ UNCHANGED vars \/ Reconnect \/ Ack
           \/ \E e \in Execution : CreateExecution(e) \/ DeleteExecution(e)
           \/ \E m \in Message : Send(m)
  <2>1. UNCHANGED <<rows, batch, items, pc, next, found, delivered>>
    BY <1>1 DEF vars, Reconnect, Ack, CreateExecution, DeleteExecution, Send, brokerVars, storeVars
  <2> QED BY <2>1 DEF StoredOnce, ToStoreFrom
<1>2. CASE AckStale \/ DatabaseLost \/ Crash
  BY <1>2, RestartStoredOnce DEF AckStale, DatabaseLost, Crash
<1>3. CASE Deliver \/ Take \/ Store \/ Lookup \/ StoreCommit \/ StoredOneByOne
  BY <1>3, DeliverStoredOnce, TakeStoredOnce, StoreStoredOnce, LookupStoredOnce,
     StoreCommitStoredOnce, StoredOneByOneStoredOnce
<1>4. CASE StoreFails \/ LookupOne \/ InsertOne \/ ThreadDies \/ DatabaseLostUnseen
  BY <1>4, StoreFailsStoredOnce, LookupOneStoredOnce, InsertOneStoredOnce, DiesStoredOnce
<1> QED BY <1>1, <1>2, <1>3, <1>4 DEF Next, Publisher

LEMMA InitStoredOnce == Init => StoredOnce
<1> SUFFICES ASSUME Init PROVE StoredOnce
  OBVIOUS
<1>1. /\ batch = <<>> /\ items = <<>> /\ pc = "take"
      /\ rows = [m \in Message |-> 0] /\ delivered = [m \in Message |-> 0]
  BY DEF Init
<1>2. ToStoreFrom = 1 /\ <<>> \in Seq(Delivery) /\ 1 > Len(<<>>)
  BY <1>1 DEF ToStoreFrom
<1>3. \A m \in Message : CountFrom(items, ToStoreFrom, m) = 0 /\ Count(batch, m) = 0
  BY <1>1, <1>2, CountFromEnd, CountEmpty
<1> QED BY <1>1, <1>3 DEF StoredOnce

\* A batch that failed and was then stored one by one, and a message delivered again
\* after a restart or a reconnect, leave as many rows as deliveries at most.
THEOREM StoredOncePerDelivery == Spec => []OncePerDelivery
<1>1. Init => Typed /\ StoredOnce
  BY InitTypes, InitStoredOnce
<1>2. Typed /\ StoredOnce /\ [Next]_vars => (Typed /\ StoredOnce)'
  BY TypeStep, StoredOnceStep
<1>3. Typed /\ StoredOnce => OncePerDelivery
  <2> SUFFICES ASSUME Typed, StoredOnce, NEW m \in Message PROVE rows[m] <= delivered[m]
    BY DEF OncePerDelivery
  <2>1. rows[m] + Count(batch, m) + CountFrom(items, ToStoreFrom, m) <= delivered[m]
    BY DEF StoredOnce
  <2>2. CountFrom(items, ToStoreFrom, m) \in Nat
    BY Numbers
  <2> QED BY <2>1, <2>2, Numbers
<1> QED BY <1>1, <1>2, <1>3, PTL DEF Spec
=============================================================================
