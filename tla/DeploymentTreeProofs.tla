------------------------- MODULE DeploymentTreeProofs -------------------------
(***************************************************************************)
(* Proofs about DeploymentTree, for any deployments, handlers, labels and  *)
(* requests: its type invariant, that the labels graph is what the labels  *)
(* say, that it gets no cycles but for requests that overtake each other,  *)
(* and that rows sum up what is below them once all requests are done.     *)
(***************************************************************************)
EXTENDS DeploymentTree, FiniteSetTheorems, WellFoundedInduction, TLAPS

-----------------------------------------------------------------------------
(* Induction, and functions defined by recursion. *)

\* A set of numbers that is not empty has a least one.
LEMMA LeastNumber ==
  ASSUME NEW T \in SUBSET Nat, T # {}
  PROVE  \E x \in T : \A y \in T : x <= y
<1> DEFINE R == OpToRel(<, Nat)
<1>1. IsWellFoundedOn(R, Nat)
  BY NatLessThanWellFounded
<1> HIDE DEF R
<1>2. PICK x \in T : \A y \in T : ~ (<<y, x>> \in R)
  BY <1>1, WFMin
<1>3. \A y \in T : y < x => <<y, x>> \in R
  BY DEF R, OpToRel
<1>4. x \in Nat /\ \A y \in T : y \in Nat /\ ~ (y < x)
  BY <1>2, <1>3
<1> QED BY <1>4

\* A set with 0, and with the successor of each number below n it has, has all up to n.
LEMMA Induction ==
  ASSUME NEW n \in Nat, NEW S, 0 \in S, \A k \in 0..n : k \in S /\ k < n => k + 1 \in S
  PROVE  0..n \subseteq S
<1> SUFFICES ASSUME (0..n) \ S # {} PROVE FALSE
  OBVIOUS
<1>1. PICK x \in (0..n) \ S : \A y \in (0..n) \ S : x <= y
  <2>1. (0..n) \ S \in SUBSET Nat
    OBVIOUS
  <2> QED BY <2>1, LeastNumber
<1>2. x # 0 /\ x - 1 \in 0..n /\ x - 1 < n
  BY <1>1
<1>3. x - 1 \in S
  BY <1>1, <1>2
<1> QED BY <1>1, <1>2, <1>3

\* What is defined by its first value and a step exists.
IsRun(f, N, v0, step) ==
  f[0] = v0 /\ \A n \in 1..N : f[n] = step[<<f[n - 1], n>>]

LEMMA Recursion ==
  ASSUME NEW N \in Nat, NEW V, NEW v0 \in V, NEW step \in [V \X (1..N) -> V]
  PROVE  \E f \in [0..N -> V] : IsRun(f, N, v0, step)
<1> DEFINE D == {n \in 0..N : \E f \in [0..N -> V] : IsRun(f, n, v0, step)}
<1>1. 0 \in D
  <2> DEFINE f == [n \in 0..N |-> v0]
  <2>1. f \in [0..N -> V] /\ IsRun(f, 0, v0, step)
    BY DEF IsRun
  <2> HIDE DEF f
  <2> QED BY <2>1
<1>2. ASSUME NEW k \in 0..N, k \in D, k < N PROVE k + 1 \in D
  <2>1. PICK f \in [0..N -> V] : IsRun(f, k, v0, step)
    BY <1>2
  <2> DEFINE g == [f EXCEPT ![k + 1] = step[<<f[k], k + 1>>]]
  <2>2. k + 1 \in 1..N /\ k + 1 \in 0..N
    BY <1>2
  <2>3. f[k] \in V /\ step[<<f[k], k + 1>>] \in V
    BY <2>2
  <2>4. g \in [0..N -> V] /\ g[k + 1] = step[<<f[k], k + 1>>]
    BY <2>2, <2>3
  <2>5. \A n \in 0..N : n # k + 1 => g[n] = f[n]
    OBVIOUS
  <2> HIDE DEF g
  <2>6. \A n \in 1..(k + 1) : g[n] = step[<<g[n - 1], n>>]
    <3> SUFFICES ASSUME NEW n \in 1..(k + 1) PROVE g[n] = step[<<g[n - 1], n>>]
      OBVIOUS
    <3>1. n - 1 \in 0..N /\ n - 1 # k + 1 /\ n \in 0..N
      BY <1>2
    <3>2. g[n - 1] = f[n - 1]
      BY <2>5, <3>1
    <3>3. CASE n = k + 1
      <4>1. n - 1 = k
        BY <3>3, <1>2
      <4> QED BY <2>4, <3>2, <3>3, <4>1
    <3>4. CASE n # k + 1
      <4>1. n \in 1..k
        BY <1>2, <3>4
      <4>2. f[n] = step[<<f[n - 1], n>>]
        BY <2>1, <4>1 DEF IsRun
      <4> QED BY <2>5, <3>1, <3>2, <3>4, <4>2
    <3> QED BY <3>3, <3>4
  <2>7. g[0] = v0
    BY <2>1, <2>5, <1>2 DEF IsRun
  <2>8. IsRun(g, k + 1, v0, step)
    BY <2>6, <2>7 DEF IsRun
  <2> QED BY <2>2, <2>4, <2>8
<1>3. 0..N \subseteq D
  <2> HIDE DEF D
  <2> QED BY <1>1, <1>2, Induction
<1>4. N \in D
  BY <1>3
<1> QED BY <1>4

-----------------------------------------------------------------------------
(* Sequences. *)

LEMMA RangeSubset ==
  ASSUME NEW S, NEW s \in Seq(S)
  PROVE  Range(s) \subseteq S /\ \A i \in 1..Len(s) : s[i] \in Range(s)
  BY DEF Range

LEMMA RangeEmpty == Range(<<>>) = {} /\ IsInjective(<<>>)
  BY DEF Range, IsInjective

LEMMA RangeAppend ==
  ASSUME NEW S, NEW s \in Seq(S), NEW x \in S
  PROVE  /\ Append(s, x) \in Seq(S) /\ Range(Append(s, x)) = Range(s) \cup {x}
         /\ IsInjective(s) /\ x \notin Range(s) => IsInjective(Append(s, x))
<1>1. \A y \in Range(Append(s, x)) : y \in Range(s) \cup {x}
  BY DEF Range
<1>2. \A y \in Range(s) : y \in Range(Append(s, x))
  <2> SUFFICES ASSUME NEW i \in DOMAIN s PROVE s[i] \in Range(Append(s, x))
    BY DEF Range
  <2>1. i \in DOMAIN Append(s, x) /\ Append(s, x)[i] = s[i]
    OBVIOUS
  <2> QED BY <2>1 DEF Range
<1>3. x \in Range(Append(s, x))
  <2>1. Len(s) + 1 \in DOMAIN Append(s, x) /\ Append(s, x)[Len(s) + 1] = x
    OBVIOUS
  <2> QED BY <2>1 DEF Range
<1>4. ASSUME IsInjective(s), x \notin Range(s) PROVE IsInjective(Append(s, x))
  <2> DEFINE t == Append(s, x)
  <2>1. DOMAIN t = 1..(Len(s) + 1) /\ Len(s) \in Nat
    OBVIOUS
  <2>2. \A i \in 1..Len(s) : i \in DOMAIN s /\ t[i] = s[i] /\ s[i] \in Range(s)
    BY RangeSubset
  <2>3. t[Len(s) + 1] = x
    OBVIOUS
  <2> HIDE DEF t
  <2>4. ASSUME NEW i \in DOMAIN t, NEW j \in DOMAIN t, t[i] = t[j] PROVE i = j
    <3>1. CASE i \in 1..Len(s) /\ j \in 1..Len(s)
      BY <1>4, <2>2, <2>4, <3>1 DEF IsInjective
    <3>2. CASE i = Len(s) + 1 \/ j = Len(s) + 1
      BY <1>4, <2>1, <2>2, <2>3, <2>4, <3>2
    <3> QED BY <2>1, <3>1, <3>2
  <2>5. IsInjective(t)
    BY <2>4 DEF IsInjective
  <2> QED BY <2>5 DEF t
<1> QED BY <1>1, <1>2, <1>3, <1>4

LEMMA RangeConcat ==
  ASSUME NEW S, NEW s \in Seq(S), NEW t \in Seq(S)
  PROVE  /\ s \o t \in Seq(S) /\ Range(s \o t) = Range(s) \cup Range(t)
         /\ IsInjective(s) /\ IsInjective(t) /\ Range(s) \cap Range(t) = {} =>
              IsInjective(s \o t)
<1>0. Len(s) \in Nat /\ Len(t) \in Nat /\ DOMAIN (s \o t) = 1..(Len(s) + Len(t))
  OBVIOUS
<1>1. \A i \in 1..Len(s) : i \in DOMAIN s /\ (s \o t)[i] = s[i] /\ s[i] \in Range(s)
  BY RangeSubset
<1>2. \A i \in (Len(s) + 1)..(Len(s) + Len(t)) :
        i - Len(s) \in DOMAIN t /\ (s \o t)[i] = t[i - Len(s)] /\ t[i - Len(s)] \in Range(t)
  <2> SUFFICES ASSUME NEW i \in (Len(s) + 1)..(Len(s) + Len(t))
               PROVE  i - Len(s) \in DOMAIN t /\ (s \o t)[i] = t[i - Len(s)]
                        /\ t[i - Len(s)] \in Range(t)
    OBVIOUS
  <2>1. i - Len(s) \in DOMAIN t /\ (s \o t)[i] = t[i - Len(s)]
    BY <1>0
  <2> QED BY <2>1 DEF Range
<1>3. \A i \in DOMAIN (s \o t) : i \in 1..Len(s) \/ i \in (Len(s) + 1)..(Len(s) + Len(t))
  BY <1>0
<1>4. \A y \in Range(s \o t) : y \in Range(s) \cup Range(t)
  BY <1>1, <1>2, <1>3 DEF Range
<1>5. \A y \in Range(s) : y \in Range(s \o t)
  <2> SUFFICES ASSUME NEW i \in DOMAIN s PROVE s[i] \in Range(s \o t)
    BY DEF Range
  <2>1. i \in DOMAIN (s \o t) /\ (s \o t)[i] = s[i]
    BY <1>0
  <2> QED BY <2>1 DEF Range
<1>6. \A y \in Range(t) : y \in Range(s \o t)
  <2> SUFFICES ASSUME NEW i \in DOMAIN t PROVE t[i] \in Range(s \o t)
    BY DEF Range
  <2>1. i + Len(s) \in DOMAIN (s \o t) /\ (s \o t)[i + Len(s)] = t[i]
    BY <1>0
  <2> QED BY <2>1 DEF Range
<1>7. ASSUME IsInjective(s), IsInjective(t), Range(s) \cap Range(t) = {}
      PROVE  IsInjective(s \o t)
  <2> DEFINE u == s \o t
  <2> SUFFICES ASSUME NEW i \in DOMAIN u, NEW j \in DOMAIN u, u[i] = u[j] PROVE i = j
    BY DEF IsInjective
  <2> HIDE DEF u
  <2>1. CASE i \in 1..Len(s) /\ j \in 1..Len(s)
    BY <1>1, <1>7, <2>1 DEF IsInjective, u
  <2>2. CASE i \in (Len(s) + 1)..(Len(s) + Len(t)) /\ j \in (Len(s) + 1)..(Len(s) + Len(t))
    <3>1. i - Len(s) = j - Len(s)
      BY <1>2, <1>7, <2>2 DEF IsInjective, u
    <3> QED BY <1>0, <2>2, <3>1
  <2>3. CASE i \in 1..Len(s) /\ j \in (Len(s) + 1)..(Len(s) + Len(t))
    BY <1>1, <1>2, <1>7, <2>3 DEF u
  <2>4. CASE j \in 1..Len(s) /\ i \in (Len(s) + 1)..(Len(s) + Len(t))
    BY <1>1, <1>2, <1>7, <2>4 DEF u
  <2> QED BY <1>3, <2>1, <2>2, <2>3, <2>4 DEF u
<1> QED BY <1>4, <1>5, <1>6, <1>7

\* Elements come in the order of the numbers f gives them.
SortedBy(s, f) == \A i, j \in DOMAIN s : i <= j => f[s[i]] <= f[s[j]]

LEMMA SortedConcat ==
  ASSUME NEW S, NEW s \in Seq(S), NEW t \in Seq(S), NEW f \in [S -> Nat],
         SortedBy(s, f), SortedBy(t, f),
         \A x \in Range(s), y \in Range(t) : f[x] <= f[y]
  PROVE  SortedBy(s \o t, f)
<1> DEFINE u == s \o t
<1>0. Len(s) \in Nat /\ Len(t) \in Nat /\ DOMAIN u = 1..(Len(s) + Len(t))
  OBVIOUS
<1>1. \A i \in 1..Len(s) : i \in DOMAIN s /\ u[i] = s[i] /\ s[i] \in Range(s)
  BY RangeSubset
<1>2. \A i \in (Len(s) + 1)..(Len(s) + Len(t)) :
        i - Len(s) \in DOMAIN t /\ u[i] = t[i - Len(s)] /\ t[i - Len(s)] \in Range(t)
  <2> SUFFICES ASSUME NEW i \in (Len(s) + 1)..(Len(s) + Len(t))
               PROVE  i - Len(s) \in DOMAIN t /\ u[i] = t[i - Len(s)]
                        /\ t[i - Len(s)] \in Range(t)
    OBVIOUS
  <2>1. i - Len(s) \in DOMAIN t /\ u[i] = t[i - Len(s)]
    BY <1>0
  <2> QED BY <2>1 DEF Range
<1> HIDE DEF u
<1> SUFFICES ASSUME NEW i \in DOMAIN u, NEW j \in DOMAIN u, i <= j PROVE f[u[i]] <= f[u[j]]
  BY DEF SortedBy, u
<1>3. CASE j \in 1..Len(s)
  <2>1. i \in 1..Len(s)
    BY <1>0, <1>3
  <2> QED BY <1>1, <1>3, <2>1 DEF SortedBy
<1>4. CASE j \in (Len(s) + 1)..(Len(s) + Len(t)) /\ i \in 1..Len(s)
  BY <1>1, <1>2, <1>4
<1>5. CASE i \in (Len(s) + 1)..(Len(s) + Len(t)) /\ j \in (Len(s) + 1)..(Len(s) + Len(t))
  <2>1. i - Len(s) <= j - Len(s)
    BY <1>0, <1>5
  <2> QED BY <1>2, <1>5, <2>1 DEF SortedBy
<1> QED BY <1>0, <1>3, <1>4, <1>5

LEMMA SortedAppend ==
  ASSUME NEW S, NEW s \in Seq(S), NEW x \in S, NEW f \in [S -> Nat],
         SortedBy(s, f), \A y \in Range(s) : f[y] <= f[x]
  PROVE  SortedBy(Append(s, x), f)
<1> DEFINE t == <<x>>
<1>1. t \in Seq(S) /\ DOMAIN t = {1} /\ t[1] = x /\ Append(s, x) = s \o t
  OBVIOUS
<1> HIDE DEF t
<1>2. Range(t) = {x} /\ f[x] \in Nat
  BY <1>1 DEF Range
<1>3. SortedBy(t, f)
  BY <1>1, <1>2 DEF SortedBy
<1>4. SortedBy(s \o t, f)
  BY <1>1, <1>2, <1>3, SortedConcat
<1> QED BY <1>1, <1>4

-----------------------------------------------------------------------------
(* The lists of the model. *)

SelectedUpTo(s, T, k, n) ==
  IF n = 0 THEN <<>> ELSE IF s[n] \in T THEN Append(k[n - 1], s[n]) ELSE k[n - 1]

\* Selected keeps the elements asked for, and twice none that came once.
LEMMA SelectedKeeps ==
  ASSUME NEW S, NEW s \in Seq(S), NEW T
  PROVE  /\ Selected(s, T) \in Seq(S) /\ Range(Selected(s, T)) = Range(s) \cap T
         /\ IsInjective(s) => IsInjective(Selected(s, T))
<1> DEFINE N == Len(s)
           IsKept(k) == k = [n \in 0..N |-> SelectedUpTo(s, T, k, n)]
           F == CHOOSE k : IsKept(k)
           step == [x \in Seq(S) \X (1..N) |->
                      IF s[x[2]] \in T THEN Append(x[1], s[x[2]]) ELSE x[1]]
<1>1. N \in Nat /\ \A n \in 1..N : s[n] \in S
  OBVIOUS
<1>2. Selected(s, T) = F[N]
  BY DEF Selected, SelectedUpTo
<1>3. step \in [Seq(S) \X (1..N) -> Seq(S)]
  BY <1>1
<1>4. PICK f \in [0..N -> Seq(S)] : IsRun(f, N, <<>>, step)
  <2>1. <<>> \in Seq(S)
    OBVIOUS
  <2> DEFINE V == Seq(S)
  <2> HIDE DEF step, N, V
  <2> QED BY <1>1, <1>3, <2>1, Recursion DEF V
<1>5. \A n \in 0..N : f[n] = SelectedUpTo(s, T, f, n)
  <2> SUFFICES ASSUME NEW n \in 0..N PROVE f[n] = SelectedUpTo(s, T, f, n)
    OBVIOUS
  <2>1. CASE n = 0
    BY <1>4, <2>1 DEF IsRun, SelectedUpTo
  <2>2. CASE n # 0
    <3>1. n \in 1..N /\ n - 1 \in 0..N
      BY <1>1, <2>2
    <3>2. f[n] = step[<<f[n - 1], n>>] /\ f[n - 1] \in Seq(S)
      BY <1>4, <3>1 DEF IsRun
    <3> QED BY <2>2, <3>1, <3>2 DEF SelectedUpTo
  <2> QED BY <2>1, <2>2
<1>6. IsKept(f)
  BY <1>5
<1>7. IsKept(F)
  <2> HIDE DEF IsKept
  <2> QED BY <1>6
<1> HIDE DEF F, step
<1>8. \A n \in 0..N : F[n] = SelectedUpTo(s, T, F, n)
  BY <1>7
<1> DEFINE First(n) == {s[i] : i \in 1..n}
           G == {n \in 0..N : /\ F[n] \in Seq(S) /\ Range(F[n]) = First(n) \cap T
                              /\ IsInjective(s) => IsInjective(F[n])}
<1>9. 0 \in G
  <2>1. F[0] = <<>>
    BY <1>1, <1>8 DEF SelectedUpTo
  <2>2. First(0) = {}
    OBVIOUS
  <2>3. 0 \in 0..N
    BY <1>1
  <2>4. F[0] \in Seq(S) /\ Range(F[0]) = {} /\ IsInjective(F[0])
    BY <2>1, RangeEmpty
  <2> HIDE DEF First
  <2> QED BY <2>2, <2>3, <2>4
<1>10. ASSUME NEW n \in 0..N, n \in G, n < N PROVE n + 1 \in G
  <2>1. n + 1 \in 0..N /\ n + 1 \in 1..N /\ n + 1 # 0 /\ (n + 1) - 1 = n /\ s[n + 1] \in S
    BY <1>1, <1>10
  <2>2. F[n + 1] = IF s[n + 1] \in T THEN Append(F[n], s[n + 1]) ELSE F[n]
    BY <1>8, <2>1 DEF SelectedUpTo
  <2>3. /\ F[n] \in Seq(S) /\ Range(F[n]) = First(n) \cap T
        /\ IsInjective(s) => IsInjective(F[n])
    BY <1>10
  <2>4. First(n + 1) = First(n) \cup {s[n + 1]}
    BY <1>1, <1>10
  <2>5. IsInjective(s) => s[n + 1] \notin First(n)
    BY <1>1, <1>10, <2>1 DEF IsInjective
  <2> HIDE DEF First
  <2>6. CASE s[n + 1] \in T
    <3>1. F[n + 1] = Append(F[n], s[n + 1])
      BY <2>2, <2>6
    <3>2. /\ Append(F[n], s[n + 1]) \in Seq(S)
          /\ Range(Append(F[n], s[n + 1])) = Range(F[n]) \cup {s[n + 1]}
          /\ IsInjective(F[n]) /\ s[n + 1] \notin Range(F[n]) =>
               IsInjective(Append(F[n], s[n + 1]))
      BY <2>1, <2>3, RangeAppend
    <3>3. Range(F[n + 1]) = First(n + 1) \cap T
      BY <2>3, <2>4, <2>6, <3>1, <3>2
    <3> QED BY <2>1, <2>3, <2>5, <3>1, <3>2, <3>3
  <2>7. CASE s[n + 1] \notin T
    BY <2>1, <2>2, <2>3, <2>4, <2>7
  <2> QED BY <2>6, <2>7
<1>11. 0..N \subseteq G
  <2> HIDE DEF G, N
  <2> QED BY <1>1, <1>9, <1>10, Induction
<1>12. N \in G
  <2>1. N \in 0..N
    BY <1>1
  <2> HIDE DEF G
  <2> QED BY <1>11, <2>1
<1>13. First(N) = Range(s)
  BY DEF Range
<1> HIDE DEF First
<1> QED BY <1>2, <1>12, <1>13

DeduplicatedUpTo(s, k, n) ==
  IF n = 0 THEN <<>>
  ELSE IF s[n] \in Range(k[n - 1]) THEN k[n - 1] ELSE Append(k[n - 1], s[n])

LEMMA DeduplicatedKeeps ==
  ASSUME NEW S, NEW s \in Seq(S)
  PROVE  /\ Deduplicated(s) \in Seq(S) /\ Range(Deduplicated(s)) = Range(s)
         /\ IsInjective(Deduplicated(s))
         /\ \A f \in [S -> Nat] : SortedBy(s, f) => SortedBy(Deduplicated(s), f)
<1> DEFINE N == Len(s)
           IsKept(k) == k = [n \in 0..N |-> DeduplicatedUpTo(s, k, n)]
           F == CHOOSE k : IsKept(k)
           step == [x \in Seq(S) \X (1..N) |->
                      IF s[x[2]] \in Range(x[1]) THEN x[1] ELSE Append(x[1], s[x[2]])]
<1>1. N \in Nat /\ \A n \in 1..N : s[n] \in S
  OBVIOUS
<1>2. Deduplicated(s) = F[N]
  BY DEF Deduplicated, DeduplicatedUpTo
<1>3. step \in [Seq(S) \X (1..N) -> Seq(S)]
  BY <1>1
<1>4. PICK f \in [0..N -> Seq(S)] : IsRun(f, N, <<>>, step)
  <2>1. <<>> \in Seq(S)
    OBVIOUS
  <2> DEFINE V == Seq(S)
  <2> HIDE DEF step, N, V
  <2> QED BY <1>1, <1>3, <2>1, Recursion DEF V
<1>5. \A n \in 0..N : f[n] = DeduplicatedUpTo(s, f, n)
  <2> SUFFICES ASSUME NEW n \in 0..N PROVE f[n] = DeduplicatedUpTo(s, f, n)
    OBVIOUS
  <2>1. CASE n = 0
    BY <1>4, <2>1 DEF IsRun, DeduplicatedUpTo
  <2>2. CASE n # 0
    <3>1. n \in 1..N /\ n - 1 \in 0..N
      BY <1>1, <2>2
    <3>2. f[n] = step[<<f[n - 1], n>>] /\ f[n - 1] \in Seq(S)
      BY <1>4, <3>1 DEF IsRun
    <3> QED BY <2>2, <3>1, <3>2 DEF DeduplicatedUpTo
  <2> QED BY <2>1, <2>2
<1>6. IsKept(f)
  BY <1>5
<1>7. IsKept(F)
  <2> HIDE DEF IsKept
  <2> QED BY <1>6
<1> HIDE DEF F, step
<1>8. \A n \in 0..N : F[n] = DeduplicatedUpTo(s, F, n)
  BY <1>7
<1> DEFINE First(n) == {s[i] : i \in 1..n}
           AllSorted(t) == \A g \in [S -> Nat] : SortedBy(s, g) => SortedBy(t, g)
           G == {n \in 0..N : /\ F[n] \in Seq(S) /\ Range(F[n]) = First(n)
                              /\ IsInjective(F[n]) /\ AllSorted(F[n])}
<1>9. 0 \in G
  <2>1. F[0] = <<>>
    BY <1>1, <1>8 DEF DeduplicatedUpTo
  <2>2. First(0) = {}
    OBVIOUS
  <2>3. 0 \in 0..N
    BY <1>1
  <2>4. F[0] \in Seq(S) /\ Range(F[0]) = {} /\ IsInjective(F[0])
    BY <2>1, RangeEmpty
  <2>5. AllSorted(F[0])
    BY <2>1 DEF SortedBy
  <2> HIDE DEF First, AllSorted
  <2> QED BY <2>2, <2>3, <2>4, <2>5
<1>10. ASSUME NEW n \in 0..N, n \in G, n < N PROVE n + 1 \in G
  <2>1. n + 1 \in 0..N /\ n + 1 # 0 /\ (n + 1) - 1 = n /\ s[n + 1] \in S
    BY <1>1, <1>10
  <2>2. F[n + 1] = IF s[n + 1] \in Range(F[n]) THEN F[n] ELSE Append(F[n], s[n + 1])
    BY <1>8, <2>1 DEF DeduplicatedUpTo
  <2>3. F[n] \in Seq(S) /\ Range(F[n]) = First(n) /\ IsInjective(F[n]) /\ AllSorted(F[n])
    BY <1>10
  <2>4. First(n + 1) = First(n) \cup {s[n + 1]}
    BY <1>1, <1>10
  <2>5. /\ Append(F[n], s[n + 1]) \in Seq(S)
        /\ Range(Append(F[n], s[n + 1])) = Range(F[n]) \cup {s[n + 1]}
        /\ s[n + 1] \notin Range(F[n]) => IsInjective(Append(F[n], s[n + 1]))
    BY <2>1, <2>3, RangeAppend
  <2>6. ASSUME NEW g \in [S -> Nat], SortedBy(s, g)
        PROVE  SortedBy(Append(F[n], s[n + 1]), g)
    <3>1. SortedBy(F[n], g)
      BY <2>3, <2>6
    <3>2. ASSUME NEW y \in Range(F[n]) PROVE g[y] <= g[s[n + 1]]
      <4>1. PICK i \in 1..n : y = s[i]
        BY <2>3, <3>2
      <4>2. i \in DOMAIN s /\ n + 1 \in DOMAIN s /\ i <= n + 1
        BY <1>1, <1>10, <2>1
      <4> QED BY <2>6, <4>1, <4>2 DEF SortedBy
    <3> QED BY <2>1, <2>3, <3>1, <3>2, SortedAppend
  <2>7. AllSorted(Append(F[n], s[n + 1]))
    BY <2>6
  <2> HIDE DEF First, AllSorted
  <2> QED BY <2>1, <2>2, <2>3, <2>4, <2>5, <2>7
<1>11. 0..N \subseteq G
  <2> HIDE DEF G, N
  <2> QED BY <1>1, <1>9, <1>10, Induction
<1>12. N \in G
  <2>1. N \in 0..N
    BY <1>1
  <2> HIDE DEF G
  <2> QED BY <1>11, <2>1
<1>13. First(N) = Range(s)
  BY DEF Range
<1> HIDE DEF First, AllSorted
<1>14. /\ F[N] \in Seq(S) /\ Range(F[N]) = Range(s) /\ IsInjective(F[N]) /\ AllSorted(F[N])
  BY <1>12, <1>13
<1> QED BY <1>2, <1>14 DEF AllSorted

FlattenedUpTo(s, k, n) == IF n = 1 THEN s[n] ELSE k[n - 1] \o s[n]

\* The numbers f gives are the places in s of the lists they are in.
AtLevel(s, f) == \A n \in 1..Len(s) : \A x \in Range(s[n]) : f[x] = n

LEMMA FlattenedKeeps ==
  ASSUME NEW S, NEW s \in Seq(Seq(S)), Len(s) # 0
  PROVE  /\ FlattenSeq(s) \in Seq(S)
         /\ Range(FlattenSeq(s)) = UNION {Range(s[n]) : n \in 1..Len(s)}
         /\ \A f \in [S -> Nat] : AtLevel(s, f) => SortedBy(FlattenSeq(s), f)
<1> DEFINE N == Len(s)
           IsFlat(k) == k = [n \in 1..N |-> FlattenedUpTo(s, k, n)]
           F == CHOOSE k : IsFlat(k)
           step == [x \in Seq(S) \X (1..N) |-> IF x[2] = 1 THEN s[x[2]] ELSE x[1] \o s[x[2]]]
<1>1. N \in Nat /\ N >= 1 /\ \A n \in 1..N : s[n] \in Seq(S)
  OBVIOUS
<1>2. FlattenSeq(s) = F[N]
  BY DEF FlattenSeq, FlattenedUpTo
<1>3. step \in [Seq(S) \X (1..N) -> Seq(S)]
  BY <1>1
<1>4. PICK f \in [0..N -> Seq(S)] : IsRun(f, N, <<>>, step)
  <2>1. <<>> \in Seq(S)
    OBVIOUS
  <2> DEFINE V == Seq(S)
  <2> HIDE DEF step, N, V
  <2> QED BY <1>1, <1>3, <2>1, Recursion DEF V
<1> DEFINE flat == [n \in 1..N |-> f[n]]
<1>5. \A n \in 1..N : flat[n] = FlattenedUpTo(s, flat, n)
  <2> SUFFICES ASSUME NEW n \in 1..N PROVE flat[n] = FlattenedUpTo(s, flat, n)
    OBVIOUS
  <2>1. n - 1 \in 0..N /\ n \in 0..N /\ (n # 1 => n - 1 \in 1..N)
    BY <1>1
  <2>2. f[n] = step[<<f[n - 1], n>>] /\ f[n - 1] \in Seq(S)
    BY <1>4, <2>1 DEF IsRun
  <2> QED BY <2>1, <2>2 DEF FlattenedUpTo
<1>6. IsFlat(flat)
  BY <1>5
<1>7. IsFlat(F)
  <2> HIDE DEF IsFlat, flat
  <2> QED BY <1>6
<1> HIDE DEF F, step
<1>8. \A n \in 1..N : F[n] = FlattenedUpTo(s, F, n)
  BY <1>7
<1> DEFINE First(n) == UNION {Range(s[i]) : i \in 1..n}
           AllSorted(t) == \A g \in [S -> Nat] : AtLevel(s, g) => SortedBy(t, g)
           G == {n \in 0..N : n # 0 => /\ F[n] \in Seq(S) /\ Range(F[n]) = First(n)
                                       /\ AllSorted(F[n])}
<1>9. 0 \in G
  BY <1>1
<1>10. ASSUME NEW n \in 0..N, n \in G, n < N PROVE n + 1 \in G
  <2>1. n + 1 \in 0..N /\ n + 1 \in 1..N /\ n + 1 # 0 /\ (n + 1) - 1 = n
    BY <1>1, <1>10
  <2>2. F[n + 1] = IF n + 1 = 1 THEN s[n + 1] ELSE F[n] \o s[n + 1]
    BY <1>8, <2>1 DEF FlattenedUpTo
  <2>3. First(n + 1) = First(n) \cup Range(s[n + 1])
    <3>1. 1..(n + 1) = (1..n) \cup {n + 1}
      BY <1>1, <1>10
    <3> QED BY <3>1, Zenon
  <2>4. s[n + 1] \in Seq(S)
    BY <1>1, <2>1
  <2>5. ASSUME NEW g \in [S -> Nat], AtLevel(s, g) PROVE SortedBy(s[n + 1], g)
    <3>1. \A i \in DOMAIN s[n + 1] : s[n + 1][i] \in Range(s[n + 1])
      BY <2>4, RangeSubset
    <3>2. \A i \in DOMAIN s[n + 1] : g[s[n + 1][i]] = n + 1
      BY <2>1, <2>5, <3>1 DEF AtLevel
    <3> QED BY <2>1, <3>2 DEF SortedBy
  <2>6. AllSorted(s[n + 1])
    BY <2>5
  <2>7. CASE n = 0
    <3>1. First(n) = {}
      BY <2>7
    <3> HIDE DEF First
    <3>2. n + 1 = 1 /\ F[n + 1] = s[n + 1]
      BY <2>2, <2>7
    <3>3. Range(F[n + 1]) = First(n + 1)
      BY <2>3, <3>1, <3>2
    <3> HIDE DEF AllSorted
    <3> QED BY <2>1, <2>4, <2>6, <3>2, <3>3
  <2>8. CASE n # 0
    <3>1. F[n] \in Seq(S) /\ Range(F[n]) = First(n) /\ AllSorted(F[n])
      BY <1>10, <2>8
    <3>2. ASSUME NEW g \in [S -> Nat], AtLevel(s, g) PROVE SortedBy(F[n] \o s[n + 1], g)
      <4>1. SortedBy(F[n], g) /\ SortedBy(s[n + 1], g)
        BY <2>5, <3>1, <3>2
      <4>2. ASSUME NEW x \in Range(F[n]), NEW y \in Range(s[n + 1]) PROVE g[x] <= g[y]
        <5>1. PICK i \in 1..n : x \in Range(s[i])
          BY <3>1, <4>2
        <5>2. i \in 1..N /\ i <= n + 1
          BY <1>1, <1>10
        <5> QED BY <2>1, <3>2, <5>1, <5>2 DEF AtLevel
      <4> QED BY <2>4, <3>1, <4>1, <4>2, SortedConcat
    <3>3. AllSorted(F[n] \o s[n + 1])
      BY <3>2
    <3> HIDE DEF First, AllSorted
    <3>4. /\ F[n] \o s[n + 1] \in Seq(S)
          /\ Range(F[n] \o s[n + 1]) = Range(F[n]) \cup Range(s[n + 1])
      BY <2>4, <3>1, RangeConcat
    <3>5. n + 1 # 1
      BY <1>1, <1>10, <2>8
    <3>6. F[n + 1] = F[n] \o s[n + 1]
      BY <2>2, <3>5
    <3> QED BY <2>1, <2>3, <3>1, <3>3, <3>4, <3>6
  <2> QED BY <2>7, <2>8
<1>11. 0..N \subseteq G
  <2> HIDE DEF G, N
  <2> QED BY <1>1, <1>9, <1>10, Induction
<1>12. N \in G
  <2>1. N \in 0..N
    BY <1>1
  <2> HIDE DEF G
  <2> QED BY <1>11, <2>1
<1> HIDE DEF First, AllSorted
<1>13. F[N] \in Seq(S) /\ Range(F[N]) = First(N) /\ AllSorted(F[N])
  BY <1>1, <1>12
<1> QED BY <1>2, <1>13 DEF First, AllSorted

First(R, T) == CHOOSE x \in T : \A y \in T \ {x} : <<x, y>> \in R
ListedUpTo(S, R, k, n) ==
  IF n = 0 THEN <<>> ELSE Append(k[n - 1], First(R, S \ Range(k[n - 1])))

\* A finite set is listed, each element once, in any order that tells which element
\* of a part of it comes first.
LEMMA ListedKeeps ==
  ASSUME NEW S, IsFiniteSet(S), NEW R,
         \A T \in SUBSET S : T # {} => \E x \in T : \A y \in T \ {x} : <<x, y>> \in R
  PROVE  /\ Listed(S, R) \in Seq(S) /\ Range(Listed(S, R)) = S /\ IsInjective(Listed(S, R))
         /\ \A i, j \in DOMAIN Listed(S, R) : i < j => <<Listed(S, R)[i], Listed(S, R)[j]>> \in R
<1> DEFINE N == Cardinality(S)
           IsList(k) == k = [n \in 0..N |-> ListedUpTo(S, R, k, n)]
           F == CHOOSE k : IsList(k)
           W == S \cup {First(R, T) : T \in SUBSET S}
           step == [x \in Seq(W) \X (1..N) |-> Append(x[1], First(R, S \ Range(x[1])))]
<1>1. N \in Nat
  BY FS_CardinalityType
<1>2. Listed(S, R) = F[N]
  BY DEF Listed, ListedUpTo, First
<1>3. step \in [Seq(W) \X (1..N) -> Seq(W)]
  <2>1. \A T \in SUBSET S : First(R, T) \in W
    OBVIOUS
  <2>2. \A s \in Seq(W) : First(R, S \ Range(s)) \in W
    BY <2>1
  <2> HIDE DEF W
  <2>3. \A x \in Seq(W) \X (1..N) :
          x[1] \in Seq(W) /\ First(R, S \ Range(x[1])) \in W
    BY <2>2
  <2>4. \A x \in Seq(W) \X (1..N) : Append(x[1], First(R, S \ Range(x[1]))) \in Seq(W)
    BY <2>3
  <2> QED BY <2>4
<1>4. PICK f \in [0..N -> Seq(W)] : IsRun(f, N, <<>>, step)
  <2>1. <<>> \in Seq(W)
    OBVIOUS
  <2> DEFINE V == Seq(W)
  <2> HIDE DEF step, N, V, W
  <2> QED BY <1>1, <1>3, <2>1, Recursion DEF V
<1>5. \A n \in 0..N : f[n] = ListedUpTo(S, R, f, n)
  <2> SUFFICES ASSUME NEW n \in 0..N PROVE f[n] = ListedUpTo(S, R, f, n)
    OBVIOUS
  <2> HIDE DEF W
  <2>1. CASE n = 0
    BY <1>4, <2>1 DEF IsRun, ListedUpTo
  <2>2. CASE n # 0
    <3>1. n \in 1..N /\ n - 1 \in 0..N
      BY <1>1, <2>2
    <3>2. f[n] = step[<<f[n - 1], n>>] /\ f[n - 1] \in Seq(W)
      BY <1>4, <3>1 DEF IsRun
    <3> QED BY <2>2, <3>1, <3>2 DEF ListedUpTo
  <2> QED BY <2>1, <2>2
<1>6. IsList(f)
  BY <1>5
<1>7. IsList(F)
  <2> HIDE DEF IsList
  <2> QED BY <1>6
<1> HIDE DEF F, step, W
<1>8. \A n \in 0..N : F[n] = ListedUpTo(S, R, F, n)
  BY <1>7
<1> DEFINE InFront(t) == /\ \A i, j \in DOMAIN t : i < j => <<t[i], t[j]>> \in R
                       /\ \A i \in DOMAIN t : \A y \in S \ Range(t) : <<t[i], y>> \in R
           G == {n \in 0..N : /\ F[n] \in Seq(S) /\ IsInjective(F[n]) /\ InFront(F[n])
                              /\ IsFiniteSet(Range(F[n])) /\ Cardinality(Range(F[n])) = n}
<1>9. 0 \in G
  <2>1. F[0] = <<>>
    <3> HIDE DEF G, InFront, IsList
    <3>1. 0 \in 0..N
      BY <1>1
    <3>2. F[0] = ListedUpTo(S, R, F, 0)
      BY <1>8, <3>1
    <3> QED BY <3>2 DEF ListedUpTo
  <2>2. 0 \in 0..N
    BY <1>1
  <2>3. F[0] \in Seq(S) /\ Range(F[0]) = {} /\ IsInjective(F[0])
    BY <2>1, RangeEmpty
  <2>4. InFront(F[0])
    BY <2>1
  <2> HIDE DEF InFront
  <2> QED BY <2>2, <2>3, <2>4, FS_EmptySet
<1>10. ASSUME NEW n \in 0..N, n \in G, n < N PROVE n + 1 \in G
  <2>1. n + 1 \in 0..N /\ n + 1 # 0 /\ (n + 1) - 1 = n /\ n \in Nat /\ n # N
    BY <1>1, <1>10
  <2> DEFINE x == First(R, S \ Range(F[n]))
  <2>2. F[n + 1] = Append(F[n], x)
    BY <1>8, <2>1 DEF ListedUpTo
  <2>3. /\ F[n] \in Seq(S) /\ IsInjective(F[n]) /\ InFront(F[n])
        /\ IsFiniteSet(Range(F[n])) /\ Cardinality(Range(F[n])) = n
    BY <1>10
  <2>4. S \ Range(F[n]) # {}
    <3>1. Range(F[n]) \subseteq S
      BY <2>3, RangeSubset
    <3>2. ASSUME S \ Range(F[n]) = {} PROVE FALSE
      <4>1. Range(F[n]) = S
        BY <3>1, <3>2
      <4> QED BY <2>1, <2>3, <4>1
    <3> QED BY <3>2
  <2>5. x \in S \ Range(F[n]) /\ \A y \in (S \ Range(F[n])) \ {x} : <<x, y>> \in R
    BY <2>4 DEF First
  <2> HIDE DEF x
  <2>6. /\ Append(F[n], x) \in Seq(S) /\ Range(Append(F[n], x)) = Range(F[n]) \cup {x}
        /\ IsInjective(Append(F[n], x))
    BY <2>3, <2>5, RangeAppend
  <2>7. /\ IsFiniteSet(Range(F[n]) \cup {x})
        /\ Cardinality(Range(F[n]) \cup {x}) = n + 1
    BY <2>3, <2>5, FS_AddElement
  <2>8. InFront(Append(F[n], x))
    <3> DEFINE t == Append(F[n], x)
    <3>1. DOMAIN t = 1..(Len(F[n]) + 1) /\ Len(F[n]) \in Nat /\ t[Len(F[n]) + 1] = x
      BY <2>3, <2>5
    <3>2. \A i \in 1..Len(F[n]) : i \in DOMAIN F[n] /\ t[i] = F[n][i]
      BY <2>3, <2>5
    <3>3. Range(t) = Range(F[n]) \cup {x}
      BY <2>6
    <3> HIDE DEF t
    <3>4. ASSUME NEW i \in DOMAIN t, NEW j \in DOMAIN t, i < j PROVE <<t[i], t[j]>> \in R
      <4>1. i \in 1..Len(F[n])
        BY <3>1, <3>4
      <4>2. CASE j \in 1..Len(F[n])
        BY <2>3, <3>2, <3>4, <4>1, <4>2
      <4>3. CASE j = Len(F[n]) + 1
        BY <2>3, <2>5, <3>1, <3>2, <4>1, <4>3
      <4> QED BY <3>1, <4>2, <4>3
    <3>5. ASSUME NEW i \in DOMAIN t, NEW y \in S \ Range(t) PROVE <<t[i], y>> \in R
      <4>1. CASE i \in 1..Len(F[n])
        BY <2>3, <3>2, <3>3, <4>1
      <4>2. CASE i = Len(F[n]) + 1
        BY <2>5, <3>1, <3>3, <4>2
      <4> QED BY <3>1, <4>1, <4>2
    <3> QED BY <3>4, <3>5 DEF t
  <2> HIDE DEF InFront
  <2> QED BY <2>1, <2>2, <2>6, <2>7, <2>8
<1>11. 0..N \subseteq G
  <2> HIDE DEF G, N
  <2> QED BY <1>1, <1>9, <1>10, Induction
<1>12. N \in G
  <2>1. N \in 0..N
    BY <1>1
  <2> HIDE DEF G
  <2> QED BY <1>11, <2>1
<1>13. /\ F[N] \in Seq(S) /\ IsInjective(F[N]) /\ InFront(F[N])
       /\ Cardinality(Range(F[N])) = Cardinality(S)
  BY <1>12
<1>14. Range(F[N]) = S
  <2>1. Range(F[N]) \in SUBSET S
    BY <1>13, RangeSubset
  <2> QED BY <1>13, <2>1, FS_Subset
<1> QED BY <1>2, <1>13, <1>14

\* Deployments are listed by number,
LEMMA ByIdKeeps ==
  ASSUME NEW D \in SUBSET Deployment
  PROVE  /\ ById(D) \in Seq(Deployment) /\ Range(ById(D)) = D /\ IsInjective(ById(D))
         /\ \A i, j \in DOMAIN ById(D) : i < j => ById(D)[i] < ById(D)[j]
<1> DEFINE R == {x \in D \X D : x[1] < x[2]}
<1>1. IsFiniteSet(D) /\ D \subseteq Nat
  BY TreeAssumption, FS_Subset
<1>2. ASSUME NEW T \in SUBSET D, T # {}
      PROVE  \E x \in T : \A y \in T \ {x} : <<x, y>> \in R
  <2>1. PICK x \in T : \A y \in T : x <= y
    BY <1>1, <1>2, LeastNumber
  <2>2. \A y \in T \ {x} : x < y
    BY <1>1, <2>1
  <2> QED BY <2>2
<1>3. ById(D) = Listed(D, R)
  BY DEF ById
<1> HIDE DEF R
<1>4. /\ Listed(D, R) \in Seq(D) /\ Range(Listed(D, R)) = D /\ IsInjective(Listed(D, R))
      /\ \A i, j \in DOMAIN Listed(D, R) : i < j => <<Listed(D, R)[i], Listed(D, R)[j]>> \in R
  BY <1>1, <1>2, ListedKeeps
<1>5. Listed(D, R) \in Seq(Deployment)
  BY <1>4
<1>6. \A x, y : <<x, y>> \in R => x < y
  BY DEF R
<1> QED BY <1>3, <1>4, <1>5, <1>6

\* and pairs of them by one and then by the other.
LEMMA FirstPair ==
  ASSUME NEW T, T \subseteq Nat \X Nat, T # {}
  PROVE  /\ \E x \in T : \A y \in T \ {x} : x[1] < y[1] \/ (x[1] = y[1] /\ x[2] < y[2])
         /\ \E x \in T : \A y \in T \ {x} : x[2] < y[2] \/ (x[2] = y[2] /\ x[1] < y[1])
<1>0. \A x \in T : x = <<x[1], x[2]>> /\ x[1] \in Nat /\ x[2] \in Nat
  OBVIOUS
<1>1. \E x \in T : \A y \in T \ {x} : x[1] < y[1] \/ (x[1] = y[1] /\ x[2] < y[2])
  <2>1. PICK a \in {x[1] : x \in T} : \A b \in {x[1] : x \in T} : a <= b
    <3>1. {x[1] : x \in T} \in SUBSET Nat /\ {x[1] : x \in T} # {}
      BY <1>0
    <3> QED BY <3>1, LeastNumber
  <2> DEFINE A == {x \in T : x[1] = a}
  <2>2. PICK c \in {x[2] : x \in A} : \A b \in {x[2] : x \in A} : c <= b
    <3>1. {x[2] : x \in A} \in SUBSET Nat /\ {x[2] : x \in A} # {}
      BY <1>0, <2>1
    <3> QED BY <3>1, LeastNumber
  <2>3. PICK x \in A : x[2] = c
    BY <2>2
  <2>4. ASSUME NEW y \in T, y # x PROVE x[1] < y[1] \/ (x[1] = y[1] /\ x[2] < y[2])
    <3>1. a <= y[1] /\ a \in Nat /\ y[1] \in Nat /\ y[2] \in Nat /\ c \in Nat
      BY <1>0, <2>1, <2>2
    <3>2. CASE y[1] = a
      <4>1. c <= y[2]
        BY <2>2, <3>2
      <4>2. y[2] # c
        BY <1>0, <2>3, <2>4, <3>2
      <4> QED BY <2>3, <3>1, <3>2, <4>1, <4>2
    <3>3. CASE y[1] # a
      BY <2>3, <3>1, <3>3
    <3> QED BY <3>2, <3>3
  <2> QED BY <2>3, <2>4
<1>2. \E x \in T : \A y \in T \ {x} : x[2] < y[2] \/ (x[2] = y[2] /\ x[1] < y[1])
  <2>1. PICK a \in {x[2] : x \in T} : \A b \in {x[2] : x \in T} : a <= b
    <3>1. {x[2] : x \in T} \in SUBSET Nat /\ {x[2] : x \in T} # {}
      BY <1>0
    <3> QED BY <3>1, LeastNumber
  <2> DEFINE A == {x \in T : x[2] = a}
  <2>2. PICK c \in {x[1] : x \in A} : \A b \in {x[1] : x \in A} : c <= b
    <3>1. {x[1] : x \in A} \in SUBSET Nat /\ {x[1] : x \in A} # {}
      BY <1>0, <2>1
    <3> QED BY <3>1, LeastNumber
  <2>3. PICK x \in A : x[1] = c
    BY <2>2
  <2>4. ASSUME NEW y \in T, y # x PROVE x[2] < y[2] \/ (x[2] = y[2] /\ x[1] < y[1])
    <3>1. a <= y[2] /\ a \in Nat /\ y[1] \in Nat /\ y[2] \in Nat /\ c \in Nat
      BY <1>0, <2>1, <2>2
    <3>2. CASE y[2] = a
      <4>1. c <= y[1]
        BY <2>2, <3>2
      <4>2. y[1] # c
        BY <1>0, <2>3, <2>4, <3>2
      <4> QED BY <2>3, <3>1, <3>2, <4>1, <4>2
    <3>3. CASE y[2] # a
      BY <2>3, <3>1, <3>3
    <3> QED BY <3>2, <3>3
  <2> QED BY <2>3, <2>4
<1> QED BY <1>1, <1>2

\* The edges that are inserted.
LEMMA NewEdgesAre ==
  ASSUME NEW D \in SUBSET Deployment, NEW P \in SUBSET Deployment
  PROVE  /\ NewEdges(D, P) \in Seq(Deployment \X Deployment)
         /\ Range(NewEdges(D, P)) = D \X P /\ IsInjective(NewEdges(D, P))
<1> DEFINE pairs == D \X P
           R == {x \in pairs \X pairs : \/ x[1][2] < x[2][2]
                                        \/ x[1][2] = x[2][2] /\ x[1][1] < x[2][1]}
<1>1. IsFiniteSet(pairs) /\ pairs \subseteq Nat \X Nat
  <2>1. IsFiniteSet(D) /\ IsFiniteSet(P)
    BY TreeAssumption, FS_Subset
  <2> QED BY <2>1, TreeAssumption, FS_Product
<1>2. ASSUME NEW T \in SUBSET pairs, T # {}
      PROVE  \E x \in T : \A y \in T \ {x} : <<x, y>> \in R
  <2>1. T \subseteq Nat \X Nat
    BY <1>1
  <2>2. PICK x \in T : \A y \in T \ {x} : x[2] < y[2] \/ (x[2] = y[2] /\ x[1] < y[1])
    BY <1>2, <2>1, FirstPair
  <2> HIDE DEF pairs
  <2>3. ASSUME NEW y \in T \ {x} PROVE <<x, y>> \in R
    BY <2>2
  <2> QED BY <2>3
<1>3. NewEdges(D, P) = Listed(pairs, R)
  BY DEF NewEdges
<1> HIDE DEF R
<1>4. Listed(pairs, R) \in Seq(pairs) /\ Range(Listed(pairs, R)) = pairs
        /\ IsInjective(Listed(pairs, R))
  <2> HIDE DEF pairs
  <2> QED BY <1>1, <1>2, ListedKeeps
<1>5. Listed(pairs, R) \in Seq(Deployment \X Deployment)
  <2>1. pairs \subseteq Deployment \X Deployment
    OBVIOUS
  <2> HIDE DEF pairs
  <2> QED BY <1>4, <2>1
<1> QED BY <1>3, <1>4, <1>5

\* The edges of the first labels.
NamedAtFirst ==
  {x \in Deployment \X Deployment : x[1] \in DOMAIN InitLabels /\ x[2] \in InitLabels[x[1]]}

LEMMA InitEdgesAre ==
  /\ InitEdges \in Seq(Deployment \X Deployment)
  /\ Range(InitEdges) = NamedAtFirst /\ IsInjective(InitEdges)
<1> DEFINE pairs == NamedAtFirst
           R == {x \in pairs \X pairs : \/ x[1][1] < x[2][1]
                                        \/ x[1][1] = x[2][1] /\ x[1][2] < x[2][2]}
<1>1. IsFiniteSet(pairs) /\ pairs \subseteq Nat \X Nat /\ pairs \subseteq Deployment \X Deployment
  <2>1. IsFiniteSet(Deployment \X Deployment)
    BY TreeAssumption, FS_Product
  <2>2. pairs \subseteq Deployment \X Deployment
    BY DEF NamedAtFirst
  <2>3. Deployment \X Deployment \subseteq Nat \X Nat
    BY TreeAssumption
  <2> HIDE DEF pairs
  <2> QED BY <2>1, <2>2, <2>3, FS_Subset
<1>2. ASSUME NEW T \in SUBSET pairs, T # {}
      PROVE  \E x \in T : \A y \in T \ {x} : <<x, y>> \in R
  <2>1. T \subseteq Nat \X Nat
    BY <1>1
  <2>2. PICK x \in T : \A y \in T \ {x} : x[1] < y[1] \/ (x[1] = y[1] /\ x[2] < y[2])
    BY <1>2, <2>1, FirstPair
  <2> HIDE DEF pairs
  <2>3. ASSUME NEW y \in T \ {x} PROVE <<x, y>> \in R
    BY <2>2
  <2> QED BY <2>3
<1>3. InitEdges = Listed(pairs, R)
  BY DEF InitEdges, NamedAtFirst
<1> HIDE DEF R
<1>4. Listed(pairs, R) \in Seq(pairs) /\ Range(Listed(pairs, R)) = pairs
        /\ IsInjective(Listed(pairs, R))
  <2> HIDE DEF pairs
  <2> QED BY <1>1, <1>2, ListedKeeps
<1>5. Listed(pairs, R) \in Seq(Deployment \X Deployment)
  <2> HIDE DEF pairs
  <2> QED BY <1>1, <1>4
<1> QED BY <1>3, <1>4, <1>5

-----------------------------------------------------------------------------
(* Summaries. *)

SumOver(f, g, s) ==
  IF s = {} THEN 0 ELSE f[CHOOSE x \in s : TRUE] + g[s \ {CHOOSE x \in s : TRUE}]

\* Sums of numbers are numbers.
LEMMA SumIsNat ==
  ASSUME NEW f, IsFiniteSet(DOMAIN f), \A x \in DOMAIN f : f[x] \in Nat
  PROVE  SumFunction(f) \in Nat
<1> DEFINE S == DOMAIN f
           N == Cardinality(S)
           IsSum(g) == g = [s \in SUBSET S |-> SumOver(f, g, s)]
           F == CHOOSE g : IsSum(g)
<1>1. N \in Nat
  BY FS_CardinalityType
<1>2. SumFunction(f) = F[S]
  BY DEF SumFunction, SumFunctionOnSet, FoldFunctionOnSet, MapThenFoldSet, SumOver
<1> HIDE DEF S
<1>3. \A s \in SUBSET S : IsFiniteSet(s) /\ Cardinality(s) \in 0..N
  <2> SUFFICES ASSUME NEW s \in SUBSET S PROVE IsFiniteSet(s) /\ Cardinality(s) \in 0..N
    OBVIOUS
  <2>1. IsFiniteSet(s) /\ Cardinality(s) <= N
    BY FS_Subset DEF S
  <2>2. Cardinality(s) \in Nat
    BY <2>1, FS_CardinalityType
  <2> QED BY <1>1, <2>1, <2>2
<1>4. \A s \in SUBSET S : s # {} =>
        LET x == CHOOSE y \in s : TRUE IN
        x \in s /\ s \ {x} \in SUBSET S /\ Cardinality(s \ {x}) = Cardinality(s) - 1
          /\ f[x] \in Nat
  <2> SUFFICES ASSUME NEW s \in SUBSET S, s # {}
               PROVE  LET x == CHOOSE y \in s : TRUE IN
                      x \in s /\ s \ {x} \in SUBSET S /\ Cardinality(s \ {x}) = Cardinality(s) - 1
                        /\ f[x] \in Nat
    OBVIOUS
  <2> DEFINE x == CHOOSE y \in s : TRUE
  <2>1. x \in s
    OBVIOUS
  <2> HIDE DEF x
  <2>2. Cardinality(s \ {x}) = Cardinality(s) - 1
    BY <1>3, <2>1, FS_RemoveElement
  <2>3. f[x] \in Nat
    BY <2>1 DEF S
  <2>4. x \in s /\ s \ {x} \in SUBSET S /\ Cardinality(s \ {x}) = Cardinality(s) - 1
          /\ f[x] \in Nat
    BY <2>1, <2>2, <2>3
  <2> QED BY <2>4 DEF x
<1> DEFINE D == {n \in 0..N : \E g \in [SUBSET S -> Nat] :
                   \A s \in SUBSET S : Cardinality(s) <= n => g[s] = SumOver(f, g, s)}
<1>5. 0 \in D
  <2> DEFINE g == [s \in SUBSET S |-> 0]
  <2>1. ASSUME NEW s \in SUBSET S, Cardinality(s) <= 0 PROVE g[s] = SumOver(f, g, s)
    <3>1. s = {}
      BY <1>3, <2>1, FS_EmptySet
    <3> QED BY <3>1 DEF SumOver
  <2>2. g \in [SUBSET S -> Nat]
    OBVIOUS
  <2> HIDE DEF g
  <2> QED BY <1>1, <2>1, <2>2
<1>6. ASSUME NEW n \in 0..N, n \in D, n < N PROVE n + 1 \in D
  <2>1. PICK g \in [SUBSET S -> Nat] :
               \A s \in SUBSET S : Cardinality(s) <= n => g[s] = SumOver(f, g, s)
    BY <1>6
  <2> DEFINE k == [s \in SUBSET S |-> IF Cardinality(s) = n + 1 THEN SumOver(f, g, s) ELSE g[s]]
  <2>2. \A s \in SUBSET S : SumOver(f, g, s) \in Nat
    <3> SUFFICES ASSUME NEW s \in SUBSET S, s # {} PROVE SumOver(f, g, s) \in Nat
      BY DEF SumOver
    <3> DEFINE x == CHOOSE y \in s : TRUE
    <3>1. s \ {x} \in SUBSET S /\ f[x] \in Nat
      BY <1>4
    <3>2. SumOver(f, g, s) = f[x] + g[s \ {x}]
      BY DEF SumOver
    <3> HIDE DEF x
    <3>3. g[s \ {x}] \in Nat
      BY <3>1
    <3> QED BY <3>1, <3>2, <3>3
  <2>3. k \in [SUBSET S -> Nat]
    BY <2>2
  <2>4. ASSUME NEW s \in SUBSET S, Cardinality(s) <= n + 1 PROVE k[s] = SumOver(f, k, s)
    <3>1. k[s] = SumOver(f, g, s)
      <4>1. CASE Cardinality(s) = n + 1
        BY <4>1
      <4>2. CASE Cardinality(s) # n + 1
        <5>1. Cardinality(s) <= n
          BY <1>3, <1>6, <2>4, <4>2
        <5> QED BY <2>1, <4>2, <5>1
      <4> QED BY <4>1, <4>2
    <3>2. CASE s = {}
      BY <3>1, <3>2 DEF SumOver
    <3>3. CASE s # {}
      <4> DEFINE x == CHOOSE y \in s : TRUE
      <4>1. s \ {x} \in SUBSET S /\ Cardinality(s \ {x}) = Cardinality(s) - 1
        BY <1>4, <3>3
      <4>2. SumOver(f, g, s) = f[x] + g[s \ {x}] /\ SumOver(f, k, s) = f[x] + k[s \ {x}]
        BY <3>3 DEF SumOver
      <4> HIDE DEF x
      <4>3. Cardinality(s \ {x}) # n + 1
        BY <1>3, <1>6, <2>4, <4>1
      <4>4. k[s \ {x}] = g[s \ {x}]
        BY <4>1, <4>3
      <4> HIDE DEF k
      <4> QED BY <3>1, <4>2, <4>4
    <3> QED BY <3>2, <3>3
  <2>5. n + 1 \in 0..N
    BY <1>1, <1>6
  <2> HIDE DEF k
  <2> QED BY <2>3, <2>4, <2>5
<1>7. 0..N \subseteq D
  <2> HIDE DEF D, N
  <2> QED BY <1>1, <1>5, <1>6, Induction
<1>8. PICK g \in [SUBSET S -> Nat] :
             \A s \in SUBSET S : Cardinality(s) <= N => g[s] = SumOver(f, g, s)
  <2>1. N \in D
    <3>1. N \in 0..N
      BY <1>1
    <3> HIDE DEF D
    <3> QED BY <1>7, <3>1
  <2> QED BY <2>1
<1>9. IsSum(g)
  <2>1. \A s \in SUBSET S : g[s] = SumOver(f, g, s)
    BY <1>1, <1>3, <1>8
  <2> QED BY <2>1
<1>10. IsSum(F)
  <2> HIDE DEF IsSum
  <2> QED BY <1>9
<1> HIDE DEF F
<1>11. \A s \in SUBSET S : F[s] = SumOver(f, F, s)
  BY <1>10
<1> DEFINE G == {n \in 0..N : \A s \in SUBSET S : Cardinality(s) <= n => F[s] \in Nat}
<1>12. 0 \in G
  <2>1. ASSUME NEW s \in SUBSET S, Cardinality(s) <= 0 PROVE F[s] \in Nat
    <3>1. s = {}
      BY <1>3, <2>1, FS_EmptySet
    <3>2. SumOver(f, F, s) = 0
      BY <3>1 DEF SumOver
    <3>3. F[s] = SumOver(f, F, s)
      BY <1>11
    <3> QED BY <3>2, <3>3
  <2> QED BY <1>1, <2>1
<1>13. ASSUME NEW n \in 0..N, n \in G, n < N PROVE n + 1 \in G
  <2>1. ASSUME NEW s \in SUBSET S, Cardinality(s) <= n + 1 PROVE F[s] \in Nat
    <3>1. CASE s = {}
      <4>1. SumOver(f, F, s) = 0
        BY <3>1 DEF SumOver
      <4>2. F[s] = SumOver(f, F, s)
        BY <1>11
      <4> QED BY <4>1, <4>2
    <3>2. CASE s # {}
      <4> DEFINE x == CHOOSE y \in s : TRUE
      <4>1. s \ {x} \in SUBSET S /\ Cardinality(s \ {x}) = Cardinality(s) - 1 /\ f[x] \in Nat
        BY <1>4, <3>2
      <4>2. F[s] = f[x] + F[s \ {x}]
        BY <1>11, <3>2 DEF SumOver
      <4> HIDE DEF x
      <4>3. Cardinality(s \ {x}) <= n
        BY <1>3, <1>13, <2>1, <4>1
      <4>4. F[s \ {x}] \in Nat
        BY <1>13, <4>1, <4>3
      <4> QED BY <4>1, <4>2, <4>4
    <3> QED BY <3>1, <3>2
  <2>2. n + 1 \in 0..N
    BY <1>1, <1>13
  <2> QED BY <2>1, <2>2
<1>14. 0..N \subseteq G
  <2> HIDE DEF G, N
  <2> QED BY <1>1, <1>12, <1>13, Induction
<1>15. F[S] \in Nat
  <2>1. N \in G
    <3>1. N \in 0..N
      BY <1>1
    <3> HIDE DEF G
    <3> QED BY <1>14, <3>1
  <2> QED BY <1>1, <2>1
<1> QED BY <1>2, <1>15

\* compare_statuses gives one of the statuses, and no status only if there is none.
LEMMA StatusAmong ==
  ASSUME NEW S \in SUBSET (DeploymentState \cup {NoStatus})
  PROVE  /\ compare_statuses(S) \in DeploymentState \cup {NoStatus}
         /\ S \cap DeploymentState # {} => compare_statuses(S) \in DeploymentState
<1>1. CASE S = {}
  BY <1>1 DEF compare_statuses
<1>2. CASE S # {}
  <2>1. \A t \in S : Importance(t) \in {0, 1, 2, 3}
    BY DEF Importance
  <2>2. \E s \in S : \A t \in S : Importance(t) <= Importance(s)
    <3>1. CASE \E s \in S : Importance(s) = 3
      BY <2>1, <3>1
    <3>2. CASE (\A s \in S : Importance(s) # 3) /\ \E s \in S : Importance(s) = 2
      BY <2>1, <3>2
    <3>3. CASE (\A s \in S : Importance(s) \notin {2, 3}) /\ \E s \in S : Importance(s) = 1
      BY <2>1, <3>3
    <3>4. CASE \A s \in S : Importance(s) = 0
      BY <1>2, <3>4
    <3> QED BY <2>1, <3>1, <3>2, <3>3, <3>4
  <2> DEFINE s == compare_statuses(S)
  <2>3. s \in S /\ \A t \in S : Importance(t) <= Importance(s)
    BY <1>2, <2>2 DEF compare_statuses
  <2> HIDE DEF s
  <2>4. ASSUME NEW t \in S \cap DeploymentState PROVE s # NoStatus
    <3>1. Importance(t) \in {1, 2, 3} /\ Importance(NoStatus) = 0
      BY DEF Importance, DeploymentState, NoStatus
    <3> QED BY <2>3, <3>1
  <2> QED BY <2>3, <2>4 DEF s
<1> QED BY <1>1, <1>2

\* A summary of rows is a row.
LEMMA SummaryIsRow ==
  ASSUME NEW st \in DeploymentState, NEW envs \in SUBSET Deployment,
         NEW srvs \in SUBSET Deployment, NEW rows \in [Deployment -> Row]
  PROVE  Summary(st, envs, srvs, rows) \in Row
<1> DEFINE kids == envs \cup srvs
           srvSet == {rows[k].srvStatus : k \in kids} \cup {rows[k].status : k \in srvs}
           envSet == {rows[k].envStatus : k \in kids} \cup {rows[k].status : k \in envs}
           srv == compare_statuses(srvSet)
           env == compare_statuses(envSet)
           f == [k \in kids |-> rows[k].services]
           g == [k \in kids |-> rows[k].environments]
<1>1. IsFiniteSet(kids) /\ IsFiniteSet(envs) /\ IsFiniteSet(srvs)
  BY TreeAssumption, FS_Subset
<1>2. Cardinality(envs) \in Nat /\ Cardinality(srvs) \in Nat
  BY <1>1, FS_CardinalityType
<1>3. \A k \in kids : rows[k] \in Row
  OBVIOUS
<1>4. srv \in DeploymentState \cup {NoStatus} /\ env \in DeploymentState \cup {NoStatus}
  <2>1. srvSet \in SUBSET (DeploymentState \cup {NoStatus})
    BY <1>3 DEF Row
  <2>2. envSet \in SUBSET (DeploymentState \cup {NoStatus})
    BY <1>3 DEF Row
  <2> HIDE DEF srvSet, envSet
  <2> QED BY <2>1, <2>2, StatusAmong
<1>5. SumFunction(f) \in Nat
  <2>1. DOMAIN f = kids /\ \A k \in kids : f[k] \in Nat
    BY <1>3 DEF Row
  <2> HIDE DEF f, kids
  <2> QED BY <1>1, <2>1, SumIsNat
<1>6. SumFunction(g) \in Nat
  <2>1. DOMAIN g = kids /\ \A k \in kids : g[k] \in Nat
    BY <1>3 DEF Row
  <2> HIDE DEF g, kids
  <2> QED BY <1>1, <2>1, SumIsNat
<1>7. decide_deployment_status(st, srv, env) \in DeploymentState
  <2> HIDE DEF srv, env
  <2>1. {st, srv, env} \in SUBSET (DeploymentState \cup {NoStatus})
    BY <1>4
  <2>2. {st, srv, env} \cap DeploymentState # {}
    OBVIOUS
  <2> QED BY <2>1, <2>2, StatusAmong DEF decide_deployment_status
<1>8. Summary(st, envs, srvs, rows) =
        [status |-> decide_deployment_status(st, srv, env),
         services |-> Cardinality(srvs) + SumFunction(f),
         environments |-> Cardinality(envs) + SumFunction(g),
         srvStatus |-> srv, envStatus |-> env]
  BY DEF Summary
<1> HIDE DEF srv, env, f, g
<1> QED BY <1>2, <1>4, <1>5, <1>6, <1>7, <1>8 DEF Row

ResummedUpTo(rows, order, k, n) ==
  IF n = 0 THEN rows
  ELSE IF order[n] \in exists
       THEN [k[n - 1] EXCEPT ![order[n]] = Summarised(order[n], k[n - 1])]
       ELSE k[n - 1]

LEMMA ChildrenAre ==
  ASSUME Edges \subseteq Deployment \X Deployment, NEW d
  PROVE  Children(d) \subseteq Deployment /\ \A k : k \in Children(d) <=> <<k, d>> \in Edges
<1>1. \A e \in Edges : e = <<e[1], e[2]>> /\ e[1] \in Deployment
  OBVIOUS
<1>2. ASSUME NEW k, k \in Children(d) PROVE k \in Deployment /\ <<k, d>> \in Edges
  <2>1. PICK e \in Edges : e[2] = d /\ k = e[1]
    BY <1>2 DEF Children
  <2> QED BY <1>1, <2>1
<1>3. ASSUME NEW k, <<k, d>> \in Edges PROVE k \in Children(d)
  <2>1. <<k, d>>[1] = k /\ <<k, d>>[2] = d
    OBVIOUS
  <2> QED BY <1>3, <2>1 DEF Children
<1> QED BY <1>2, <1>3

\* A summary is about the rows of the children.
LEMMA SummaryDepends ==
  ASSUME NEW o, NEW envs, NEW srvs, NEW r, NEW q, \A k \in envs \cup srvs : r[k] = q[k]
  PROVE  Summary(o, envs, srvs, r) = Summary(o, envs, srvs, q)
<1> DEFINE kids == envs \cup srvs
<1>1. /\ {r[k].srvStatus : k \in kids} = {q[k].srvStatus : k \in kids}
      /\ {r[k].envStatus : k \in kids} = {q[k].envStatus : k \in kids}
      /\ {r[k].status : k \in srvs} = {q[k].status : k \in srvs}
      /\ {r[k].status : k \in envs} = {q[k].status : k \in envs}
  OBVIOUS
<1>2. /\ [k \in kids |-> r[k].services] = [k \in kids |-> q[k].services]
      /\ [k \in kids |-> r[k].environments] = [k \in kids |-> q[k].environments]
  OBVIOUS
<1> QED BY <1>1, <1>2 DEF Summary

LEMMA SummarisedDepends ==
  ASSUME NEW d, NEW r, NEW q, \A k \in Children(d) : r[k] = q[k]
  PROVE  Summarised(d, r) = Summarised(d, q)
<1> DEFINE envs == {k \in Children(d) : IsEnvironment(k)}
           srvs == Children(d) \ envs
<1>1. \A k \in envs \cup srvs : r[k] = q[k]
  OBVIOUS
<1>2. Summarised(d, r) = Summary(own[d], envs, srvs, r)
  BY DEF Summarised
<1>3. Summarised(d, q) = Summary(own[d], envs, srvs, q)
  BY DEF Summarised
<1> HIDE DEF envs, srvs
<1> QED BY <1>1, <1>2, <1>3, SummaryDepends

\* An order from the bottom up: no deployment comes before, or is, one below it, and
\* none comes twice.
FromBelow(o, E) ==
  IsInjective(o) /\ \A i, j \in DOMAIN o : i <= j => <<o[j], o[i]>> \notin E

\* Summing up makes rows of rows, of those listed only; from the bottom up it leaves
\* each with the sum of the rows below it.
LEMMA ResummedAreRows ==
  ASSUME own \in [Deployment -> DeploymentState], Edges \subseteq Deployment \X Deployment,
         NEW rows \in [Deployment -> Row], NEW order \in Seq(Deployment)
  PROVE  /\ Resummed(rows, order) \in [Deployment -> Row]
         /\ \A d \in Deployment \ Range(order) : Resummed(rows, order)[d] = rows[d]
         /\ FromBelow(order, Edges) =>
              \A d \in Range(order) \cap exists :
                Resummed(rows, order)[d] = Summarised(d, Resummed(rows, order))
<1> DEFINE N == Len(order)
           V == [Deployment -> Row]
           IsUpTo(k) == k = [n \in 0..N |-> ResummedUpTo(rows, order, k, n)]
           F == CHOOSE k : IsUpTo(k)
           step == [x \in V \X (1..N) |->
                      IF order[x[2]] \in exists
                      THEN [x[1] EXCEPT ![order[x[2]]] = Summarised(order[x[2]], x[1])]
                      ELSE x[1]]
<1>1. N \in Nat /\ \A n \in 1..N : order[n] \in Deployment
  OBVIOUS
<1>2. Resummed(rows, order) = F[N]
  BY DEF Resummed, ResummedUpTo
<1>3. \A d \in Deployment, r \in V : Summarised(d, r) \in Row
  <2> SUFFICES ASSUME NEW d \in Deployment, NEW r \in V PROVE Summarised(d, r) \in Row
    OBVIOUS
  <2>1. Children(d) \subseteq Deployment
    BY DEF Children
  <2> DEFINE envs == {k \in Children(d) : IsEnvironment(k)}
  <2>2. envs \in SUBSET Deployment /\ Children(d) \ envs \in SUBSET Deployment
    BY <2>1
  <2>3. Summarised(d, r) = Summary(own[d], envs, Children(d) \ envs, r)
    BY DEF Summarised
  <2> HIDE DEF envs
  <2>4. own[d] \in DeploymentState
    OBVIOUS
  <2> QED BY <2>2, <2>3, <2>4, SummaryIsRow
<1>4. \A r \in V, n \in 1..N :
        [r EXCEPT ![order[n]] = Summarised(order[n], r)] \in V
  BY <1>1, <1>3
<1>5. step \in [V \X (1..N) -> V]
  <2> HIDE DEF V
  <2> QED BY <1>4
<1>6. PICK f \in [0..N -> V] : IsRun(f, N, rows, step)
  <2>1. rows \in V
    OBVIOUS
  <2> HIDE DEF step, N, V
  <2> QED BY <1>1, <1>5, <2>1, Recursion
<1> HIDE DEF V
<1>7. \A n \in 0..N : f[n] = ResummedUpTo(rows, order, f, n)
  <2> SUFFICES ASSUME NEW n \in 0..N PROVE f[n] = ResummedUpTo(rows, order, f, n)
    OBVIOUS
  <2>1. CASE n = 0
    BY <1>6, <2>1 DEF IsRun, ResummedUpTo
  <2>2. CASE n # 0
    <3>1. n \in 1..N /\ n - 1 \in 0..N
      BY <1>1, <2>2
    <3>2. f[n] = step[<<f[n - 1], n>>] /\ f[n - 1] \in V
      BY <1>6, <3>1 DEF IsRun
    <3> QED BY <2>2, <3>1, <3>2 DEF ResummedUpTo
  <2> QED BY <2>1, <2>2
<1>8. IsUpTo(f)
  BY <1>7
<1>9. IsUpTo(F)
  <2> HIDE DEF IsUpTo
  <2> QED BY <1>8
<1> HIDE DEF F, step
<1>10. \A n \in 0..N : F[n] = ResummedUpTo(rows, order, F, n)
  BY <1>9
<1> DEFINE Kept(n) == \A d \in Deployment : d \notin {order[i] : i \in 1..n} => F[n][d] = rows[d]
           Right(n) == FromBelow(order, Edges) =>
                         \A i \in 1..n : order[i] \in exists =>
                           F[n][order[i]] = Summarised(order[i], F[n])
           G == {n \in 0..N : F[n] \in V /\ Kept(n) /\ Right(n)}
<1>11. 0 \in G
  <2>1. 0 \in 0..N
    BY <1>1
  <2>2. F[0] = ResummedUpTo(rows, order, F, 0)
    BY <1>10, <2>1
  <2>3. ResummedUpTo(rows, order, F, 0) = rows
    BY DEF ResummedUpTo
  <2>4. F[0] \in V /\ F[0] = rows
    BY <2>2, <2>3 DEF V
  <2>5. Kept(0) /\ Right(0)
    BY <2>4
  <2> HIDE DEF Kept, Right
  <2> QED BY <2>1, <2>4, <2>5
<1>12. ASSUME NEW n \in 0..N, n \in G, n < N PROVE n + 1 \in G
  <2>1. n + 1 \in 0..N /\ n + 1 \in 1..N /\ n + 1 # 0 /\ (n + 1) - 1 = n
    BY <1>1, <1>12
  <2>2. F[n + 1] = IF order[n + 1] \in exists
                   THEN [F[n] EXCEPT ![order[n + 1]] = Summarised(order[n + 1], F[n])]
                   ELSE F[n]
    BY <1>10, <2>1 DEF ResummedUpTo
  <2>3. [F[n] EXCEPT ![order[n + 1]] = Summarised(order[n + 1], F[n])] \in V
    BY <1>4, <1>12, <2>1
  <2>4. F[n] \in V /\ Kept(n) /\ Right(n)
    BY <1>12
  <2> DEFINE x == order[n + 1]
  <2>5. x \in Deployment /\ F[n + 1] \in V
    BY <1>1, <2>1, <2>2, <2>3, <2>4
  <2>6. /\ \A d \in Deployment \ {x} : F[n + 1][d] = F[n][d]
        /\ x \in exists => F[n + 1][x] = Summarised(x, F[n])
    BY <2>2, <2>4, <2>5 DEF V
  <2>7. Kept(n + 1)
    <3> SUFFICES ASSUME NEW d \in Deployment, d \notin {order[i] : i \in 1..(n + 1)}
                 PROVE  F[n + 1][d] = rows[d]
      OBVIOUS
    <3>1. d # x /\ d \notin {order[i] : i \in 1..n}
      BY <1>1, <1>12, <2>1
    <3> QED BY <2>4, <2>6, <3>1
  <2>8. Right(n + 1)
    <3> SUFFICES ASSUME FromBelow(order, Edges), NEW i \in 1..(n + 1), order[i] \in exists
                 PROVE  F[n + 1][order[i]] = Summarised(order[i], F[n + 1])
      OBVIOUS
    <3>1. i \in DOMAIN order /\ n + 1 \in DOMAIN order /\ i <= n + 1 /\ order[i] \in Deployment
      BY <1>1, <2>1
    <3>2. <<x, order[i]>> \notin Edges
      BY <3>1 DEF FromBelow
    <3>3. \A k \in Children(order[i]) : k \in Deployment /\ k # x
      BY <3>2, ChildrenAre
    <3>4. Summarised(order[i], F[n + 1]) = Summarised(order[i], F[n])
      <4> HIDE DEF x
      <4> QED BY <2>6, <3>3, SummarisedDepends
    <3>5. CASE i = n + 1
      BY <2>6, <3>4, <3>5
    <3>6. CASE i # n + 1
      <4>1. i \in 1..n /\ order[i] # x
        BY <2>1, <3>1, <3>6 DEF FromBelow, IsInjective
      <4> QED BY <2>4, <2>6, <3>1, <3>4, <4>1
    <3> QED BY <3>5, <3>6
  <2> HIDE DEF Kept, Right
  <2> QED BY <2>1, <2>5, <2>7, <2>8
<1>13. 0..N \subseteq G
  <2> HIDE DEF G, N
  <2> QED BY <1>1, <1>11, <1>12, Induction
<1>14. N \in G
  <2>1. N \in 0..N
    BY <1>1
  <2> HIDE DEF G
  <2> QED BY <1>13, <2>1
<1>15. F[N] \in V /\ Kept(N) /\ Right(N)
  BY <1>14
<1>16. Range(order) = {order[i] : i \in 1..N}
  BY DEF Range
<1> QED BY <1>2, <1>15, <1>16 DEF V

-----------------------------------------------------------------------------
(* The labels graph. *)

LEMMA DepthIsNat ==
  /\ Cardinality(Deployment) \in Nat /\ Depth \in Nat /\ Depth >= 1
  /\ Depth = Cardinality(Deployment) + 1
<1>1. Cardinality(Deployment) \in Nat
  BY TreeAssumption, FS_CardinalityType
<1> QED BY <1>1 DEF Depth

LEMMA WithoutIs ==
  ASSUME NEW es \in Seq(Deployment \X Deployment), NEW D, NEW P
  PROVE  /\ Without(es, D, P) \in Seq(Deployment \X Deployment)
         /\ Range(Without(es, D, P)) = Range(es) \ (D \X P)
         /\ IsInjective(es) => IsInjective(Without(es, D, P))
<1> DEFINE T == Range(es) \ (D \X P)
<1>1. /\ Selected(es, T) \in Seq(Deployment \X Deployment)
      /\ Range(Selected(es, T)) = Range(es) \cap T
      /\ IsInjective(es) => IsInjective(Selected(es, T))
  <2> DEFINE S == Deployment \X Deployment
  <2> HIDE DEF S, T
  <2> QED BY SelectedKeeps DEF S
<1>2. Range(es) \cap T = T
  OBVIOUS
<1>3. Without(es, D, P) = Selected(es, T)
  BY DEF Without
<1> HIDE DEF T
<1>4. /\ Without(es, D, P) \in Seq(Deployment \X Deployment)
      /\ Range(Without(es, D, P)) = T
      /\ IsInjective(es) => IsInjective(Without(es, D, P))
  BY <1>1, <1>2, <1>3
<1> QED BY <1>4 DEF T

LEMMA FromIs ==
  ASSUME NEW es \in Seq(Deployment \X Deployment), NEW ids
  PROVE  /\ From(es, ids) \in Seq(Deployment \X Deployment)
         /\ Range(From(es, ids)) = {e \in Range(es) : e[1] \in ids}
<1> DEFINE T == {e \in Range(es) : e[1] \in ids}
<1>1. /\ Selected(es, T) \in Seq(Deployment \X Deployment)
      /\ Range(Selected(es, T)) = Range(es) \cap T
  <2> DEFINE S == Deployment \X Deployment
  <2> HIDE DEF S, T
  <2> QED BY SelectedKeeps DEF S
<1>2. Range(es) \cap T = T
  OBVIOUS
<1>3. From(es, ids) = Selected(es, T)
  BY DEF From
<1> HIDE DEF T
<1>4. /\ From(es, ids) \in Seq(Deployment \X Deployment)
      /\ Range(From(es, ids)) = T
  BY <1>1, <1>2, <1>3
<1> QED BY <1>4 DEF T

LevelAt(es, ids, k, n) == From(es, IF n = 1 THEN ids ELSE Targets(k[n - 1]))

\* The levels above some deployments: the edges out of them, and then the edges
\* out of the deployments the level before leads to.
AreLevels(lv, es, ids) ==
  /\ lv \in [1..Depth -> Seq(Deployment \X Deployment)]
  /\ Range(lv[1]) = {e \in Range(es) : e[1] \in ids}
  /\ \A n \in 1..Cardinality(Deployment) :
       Range(lv[n + 1]) = {e \in Range(es) : e[1] \in Targets(lv[n])}

LEMMA LevelsAre ==
  ASSUME NEW es \in Seq(Deployment \X Deployment), NEW ids
  PROVE  AreLevels(Levels(es, ids), es, ids)
<1> DEFINE N == Depth
           V == Seq(Deployment \X Deployment)
           IsLevel(k) == k = [n \in 1..N |-> LevelAt(es, ids, k, n)]
           F == CHOOSE k : IsLevel(k)
           step == [x \in V \X (1..N) |-> From(es, IF x[2] = 1 THEN ids ELSE Targets(x[1]))]
<1>1. N \in Nat /\ N >= 1 /\ N = Cardinality(Deployment) + 1 /\ Cardinality(Deployment) \in Nat
  BY DepthIsNat
<1>2. Levels(es, ids) = F
  BY DEF Levels, LevelAt
<1>3. \A S : From(es, S) \in V
  BY FromIs
<1> HIDE DEF N, V
<1>4. step \in [V \X (1..N) -> V]
  BY <1>3
<1>5. PICK f \in [0..N -> V] : IsRun(f, N, <<>>, step)
  <2>1. <<>> \in V
    BY DEF V
  <2> HIDE DEF step
  <2> QED BY <1>1, <1>4, <2>1, Recursion
<1> DEFINE g == [n \in 1..N |-> f[n]]
<1>6. \A n \in 1..N : g[n] = LevelAt(es, ids, g, n)
  <2> SUFFICES ASSUME NEW n \in 1..N PROVE g[n] = LevelAt(es, ids, g, n)
    OBVIOUS
  <2>1. n - 1 \in 0..N /\ n \in 0..N /\ (n # 1 => n - 1 \in 1..N)
    BY <1>1
  <2>2. f[n] = step[<<f[n - 1], n>>] /\ f[n - 1] \in V
    BY <1>5, <2>1 DEF IsRun
  <2>3. f[n] = From(es, IF n = 1 THEN ids ELSE Targets(f[n - 1]))
    BY <2>1, <2>2
  <2>4. n # 1 => g[n - 1] = f[n - 1]
    BY <2>1
  <2> QED BY <2>1, <2>3, <2>4 DEF LevelAt
<1>7. IsLevel(g)
  BY <1>6
<1>8. IsLevel(F)
  <2> HIDE DEF IsLevel, g
  <2> QED BY <1>7
<1> HIDE DEF F, step
<1>9. \A n \in 1..N : F[n] = LevelAt(es, ids, F, n)
  BY <1>8
<1>10. F \in [1..N -> V]
  <2>1. \A n \in 1..N : F[n] \in V
    BY <1>3, <1>9 DEF LevelAt
  <2>2. F = [n \in 1..N |-> LevelAt(es, ids, F, n)]
    BY <1>8
  <2>3. F = [n \in 1..N |-> F[n]]
    BY <1>9, <2>2, Zenon
  <2> QED BY <2>1, <2>3
<1>11. F[1] = From(es, ids)
  BY <1>1, <1>9 DEF LevelAt
<1>12. ASSUME NEW n \in 1..Cardinality(Deployment) PROVE F[n + 1] = From(es, Targets(F[n]))
  <2>1. n + 1 \in 1..N /\ n + 1 # 1 /\ (n + 1) - 1 = n
    BY <1>1
  <2>2. F[n + 1] = LevelAt(es, ids, F, n + 1)
    BY <1>9, <2>1
  <2> QED BY <2>1, <2>2 DEF LevelAt
<1>13. \A T : Range(From(es, T)) = {e \in Range(es) : e[1] \in T}
  BY FromIs
<1>14. AreLevels(F, es, ids)
  BY <1>10, <1>11, <1>12, <1>13 DEF AreLevels, N, V
<1> QED BY <1>2, <1>14

\* get_dependencies gives what the levels lead to, each once and in their order.
LEMMA DependenciesAre ==
  ASSUME NEW es \in Seq(Deployment \X Deployment), NEW ids
  PROVE  /\ get_dependencies(es, ids) \in Seq(Deployment)
         /\ Range(get_dependencies(es, ids)) =
              UNION {Targets(Levels(es, ids)[n]) : n \in 1..Depth}
         /\ IsInjective(get_dependencies(es, ids))
         /\ \A f \in [Deployment -> Nat] :
              (\A n \in 1..Depth : \A y \in Targets(Levels(es, ids)[n]) : f[y] = n) =>
                SortedBy(get_dependencies(es, ids), f)
<1> DEFINE lv == Levels(es, ids)
           all == FlattenSeq(lv)
           tg == [i \in DOMAIN all |-> all[i][2]]
<1>1. lv \in [1..Depth -> Seq(Deployment \X Deployment)]
  <2>1. AreLevels(lv, es, ids)
    BY LevelsAre
  <2> HIDE DEF lv
  <2> QED BY <2>1 DEF AreLevels
<1>2. get_dependencies(es, ids) = Deduplicated(tg)
  BY DEF get_dependencies
<1> HIDE DEF lv
<1>3. lv \in Seq(Seq(Deployment \X Deployment)) /\ Len(lv) = Depth /\ Len(lv) # 0
  BY <1>1, DepthIsNat
<1>4. /\ all \in Seq(Deployment \X Deployment)
      /\ Range(all) = UNION {Range(lv[n]) : n \in 1..Depth}
      /\ \A f \in [Deployment \X Deployment -> Nat] : AtLevel(lv, f) => SortedBy(all, f)
  <2> DEFINE S == Deployment \X Deployment
  <2> HIDE DEF S
  <2>1. lv \in Seq(Seq(S))
    BY <1>3 DEF S
  <2>2. /\ all \in Seq(S)
        /\ Range(all) = UNION {Range(lv[n]) : n \in 1..Len(lv)}
        /\ \A f \in [S -> Nat] : AtLevel(lv, f) => SortedBy(all, f)
    BY <1>3, <2>1, FlattenedKeeps
  <2> QED BY <1>3, <2>2 DEF S
<1> HIDE DEF all
<1>5. tg \in Seq(Deployment)
  BY <1>4
<1>6. Range(tg) = {e[2] : e \in Range(all)}
  <2>1. DOMAIN tg = DOMAIN all /\ \A i \in DOMAIN all : tg[i] = all[i][2]
    OBVIOUS
  <2> HIDE DEF tg
  <2> QED BY <2>1 DEF Range
<1>10. ASSUME NEW f \in [Deployment -> Nat],
              \A n \in 1..Depth : \A y \in Targets(lv[n]) : f[y] = n
       PROVE  SortedBy(tg, f)
  <2> DEFINE g == [e \in Deployment \X Deployment |-> f[e[2]]]
  <2>1. g \in [Deployment \X Deployment -> Nat]
    OBVIOUS
  <2>2. AtLevel(lv, g)
    <3> SUFFICES ASSUME NEW n \in 1..Len(lv), NEW e \in Range(lv[n]) PROVE g[e] = n
      BY DEF AtLevel
    <3>1. e \in Deployment \X Deployment /\ e[2] \in Targets(lv[n]) /\ n \in 1..Depth
      <4>1. n \in 1..Depth /\ lv[n] \in Seq(Deployment \X Deployment)
        BY <1>1, <1>3
      <4> QED BY <4>1, RangeSubset DEF Targets
    <3> QED BY <1>10, <3>1
  <2>3. SortedBy(all, g)
    BY <1>4, <2>1, <2>2
  <2>4. \A i \in DOMAIN all : g[all[i]] = f[all[i][2]]
    BY <1>4
  <2> HIDE DEF g
  <2> QED BY <2>3, <2>4 DEF SortedBy
<1> HIDE DEF tg
<1>7. /\ Deduplicated(tg) \in Seq(Deployment) /\ Range(Deduplicated(tg)) = Range(tg)
      /\ IsInjective(Deduplicated(tg))
      /\ \A f \in [Deployment -> Nat] : SortedBy(tg, f) => SortedBy(Deduplicated(tg), f)
  BY <1>5, DeduplicatedKeeps
<1>8. {e[2] : e \in Range(all)} = UNION {Targets(lv[n]) : n \in 1..Depth}
  BY <1>4 DEF Targets
<1>9. /\ get_dependencies(es, ids) \in Seq(Deployment)
      /\ Range(get_dependencies(es, ids)) = UNION {Targets(lv[n]) : n \in 1..Depth}
      /\ IsInjective(get_dependencies(es, ids))
      /\ \A f \in [Deployment -> Nat] :
           (\A n \in 1..Depth : \A y \in Targets(lv[n]) : f[y] = n) =>
             SortedBy(get_dependencies(es, ids), f)
  BY <1>2, <1>6, <1>7, <1>8, <1>10
<1> QED BY <1>9 DEF lv

\* A rank rises along every edge.
IsRank(f, E) == \A e \in E : f[e[1]] < f[e[2]]
Ranked(E) == \E m \in Nat : \E f \in [Deployment -> 0..m] : IsRank(f, E)

\* Some deployments hold what is above P, and none of D.
Closed(U, E) == \A e \in E : e[1] \in U => e[2] \in U
Checked(D, P, E) ==
  \E U \in SUBSET Deployment : P \subseteq U /\ D \cap U = {} /\ Closed(U, E)

\* A path through edges with a rank visits a deployment once, so none is as long
\* as there are levels.
LEMMA RankedIsAcyclic ==
  ASSUME NEW es \in Seq(Deployment \X Deployment), Ranked(Range(es)),
         NEW ids \in SUBSET Deployment
  PROVE  ~ Endless(es, ids)
<1>1. PICK m \in Nat : \E f \in [Deployment -> 0..m] : IsRank(f, Range(es))
  BY DEF Ranked
<1>2. PICK f \in [Deployment -> 0..m] : IsRank(f, Range(es))
  BY <1>1
<1>3. \A d \in Deployment : f[d] \in Nat
  BY <1>1, <1>2
<1> DEFINE lv == Levels(es, ids)
           C == Cardinality(Deployment)
           Below(y, n) == \E T \in SUBSET Deployment :
                            /\ IsFiniteSet(T) /\ Cardinality(T) = n
                            /\ \A t \in T : f[t] < f[y]
           G == {n \in 0..C : \A y \in Targets(lv[n + 1]) : y \in Deployment /\ Below(y, n + 1)}
<1>4. C \in Nat /\ Depth = C + 1
  BY DepthIsNat
<1>5. \A e \in Range(es) : e[1] \in Deployment /\ e[2] \in Deployment /\ f[e[1]] < f[e[2]]
  BY <1>2, RangeSubset DEF IsRank
<1>6. /\ lv \in [1..Depth -> Seq(Deployment \X Deployment)]
      /\ Range(lv[1]) \subseteq Range(es)
      /\ \A n \in 1..C : Range(lv[n + 1]) = {e \in Range(es) : e[1] \in Targets(lv[n])}
  <2>1. AreLevels(lv, es, ids)
    BY LevelsAre
  <2> HIDE DEF lv
  <2> QED BY <2>1 DEF AreLevels
<1> HIDE DEF lv, C
<1>7. 0 \in G
  <2>1. ASSUME NEW y \in Targets(lv[1]) PROVE y \in Deployment /\ Below(y, 1)
    <3>1. PICK e \in Range(es) : y = e[2]
      BY <1>6 DEF Targets
    <3>2. IsFiniteSet({e[1]}) /\ Cardinality({e[1]}) = 1
      BY FS_Singleton
    <3>3. {e[1]} \in SUBSET Deployment /\ \A t \in {e[1]} : f[t] < f[y]
      BY <1>5, <3>1
    <3> QED BY <1>5, <3>1, <3>2, <3>3
  <2>2. 0 \in 0..C /\ 0 + 1 = 1
    BY <1>4
  <2> HIDE DEF Below
  <2> QED BY <2>1, <2>2
<1>8. ASSUME NEW n \in 0..C, n \in G, n < C PROVE n + 1 \in G
  <2>1. n + 1 \in 0..C /\ n + 1 \in 1..C
    BY <1>4, <1>8
  <2>2. ASSUME NEW y \in Targets(lv[(n + 1) + 1]) PROVE y \in Deployment /\ Below(y, (n + 1) + 1)
    <3>1. PICK e \in Range(es) : y = e[2] /\ e[1] \in Targets(lv[n + 1])
      BY <1>6, <2>1, <2>2 DEF Targets
    <3>2. e[1] \in Deployment /\ y \in Deployment /\ f[e[1]] < f[y]
      BY <1>5, <3>1
    <3>3. Below(e[1], n + 1)
      BY <1>8, <3>1
    <3>4. PICK T \in SUBSET Deployment : /\ IsFiniteSet(T) /\ Cardinality(T) = n + 1
                                         /\ \A t \in T : f[t] < f[e[1]]
      BY <3>3
    <3>5. e[1] \notin T
      BY <1>3, <3>2, <3>4
    <3>6. IsFiniteSet(T \cup {e[1]}) /\ Cardinality(T \cup {e[1]}) = (n + 1) + 1
      BY <3>4, <3>5, FS_AddElement
    <3>7. T \cup {e[1]} \in SUBSET Deployment
      BY <3>2
    <3>8. \A t \in T \cup {e[1]} : f[t] < f[y]
      <4> SUFFICES ASSUME NEW t \in T \cup {e[1]} PROVE f[t] < f[y]
        OBVIOUS
      <4>1. CASE t = e[1]
        BY <3>2, <4>1
      <4>2. CASE t \in T
        <5>1. f[t] \in Nat /\ f[e[1]] \in Nat /\ f[y] \in Nat /\ f[t] < f[e[1]]
          BY <1>3, <3>2, <3>4, <4>2
        <5> QED BY <3>2, <5>1
      <4> QED BY <4>1, <4>2
    <3> QED BY <3>2, <3>6, <3>7, <3>8
  <2> HIDE DEF Below
  <2> QED BY <2>1, <2>2
<1>9. 0..C \subseteq G
  <2> HIDE DEF G
  <2> QED BY <1>4, <1>7, <1>8, Induction
<1>10. C \in G
  <2>1. C \in 0..C
    BY <1>4
  <2> HIDE DEF G
  <2> QED BY <1>9, <2>1
<1>11. ASSUME lv[Depth] # <<>> PROVE FALSE
  <2>1. lv[Depth] \in Seq(Deployment \X Deployment) /\ Depth = C + 1
    BY <1>4, <1>6
  <2>2. lv[Depth][1] \in Range(lv[Depth])
    BY <1>11, <2>1 DEF Range
  <2>3. PICK y : y \in Targets(lv[Depth])
    BY <2>2 DEF Targets
  <2>4. Below(y, C + 1)
    BY <1>10, <2>1, <2>3
  <2>5. PICK T \in SUBSET Deployment : IsFiniteSet(T) /\ Cardinality(T) = C + 1
    BY <2>4
  <2>6. Cardinality(T) <= C
    BY TreeAssumption, FS_Subset DEF C
  <2> QED BY <1>4, <2>5, <2>6
<1> QED BY <1>11 DEF Endless, lv

\* A query that ends gives all that is above some deployments.
LEMMA AboveIsClosed ==
  ASSUME NEW es \in Seq(Deployment \X Deployment), NEW P \in SUBSET Deployment,
         ~ Endless(es, P)
  PROVE  /\ P \cup Range(get_dependencies(es, P)) \in SUBSET Deployment
         /\ Closed(P \cup Range(get_dependencies(es, P)), Range(es))
<1> DEFINE lv == Levels(es, P)
           C == Cardinality(Deployment)
           U == P \cup Range(get_dependencies(es, P))
<1>1. C \in Nat /\ Depth = C + 1
  BY DepthIsNat
<1>2. /\ get_dependencies(es, P) \in Seq(Deployment)
      /\ U = P \cup UNION {Targets(lv[n]) : n \in 1..Depth}
  BY DependenciesAre
<1>3. /\ Range(lv[1]) = {e \in Range(es) : e[1] \in P}
      /\ \A n \in 1..C : Range(lv[n + 1]) = {e \in Range(es) : e[1] \in Targets(lv[n])}
  <2>1. AreLevels(lv, es, P)
    BY LevelsAre
  <2> HIDE DEF lv
  <2> QED BY <2>1 DEF AreLevels
<1>4. lv[Depth] = <<>>
  BY DEF Endless
<1>5. U \in SUBSET Deployment
  BY <1>2, RangeSubset
<1> HIDE DEF lv, C, U
<1>6. ASSUME NEW e \in Range(es), e[1] \in U PROVE e[2] \in U
  <2>1. CASE e[1] \in P
    <3>1. e[2] \in Targets(lv[1])
      BY <1>3, <2>1 DEF Targets
    <3>2. 1 \in 1..Depth
      BY <1>1
    <3> QED BY <1>2, <3>1, <3>2
  <2>2. CASE \E n \in 1..Depth : e[1] \in Targets(lv[n])
    <3>1. PICK n \in 1..Depth : e[1] \in Targets(lv[n])
      BY <2>2
    <3>2. n # Depth
      BY <1>4, <3>1, RangeEmpty DEF Targets
    <3>3. n \in 1..C /\ n + 1 \in 1..Depth
      BY <1>1, <3>2
    <3>4. e[2] \in Targets(lv[n + 1])
      BY <1>3, <3>1, <3>3 DEF Targets
    <3> QED BY <1>2, <3>3, <3>4
  <2> QED BY <1>2, <1>6, <2>1, <2>2
<1>7. Closed(U, Range(es))
  BY <1>6 DEF Closed
<1> QED BY <1>5, <1>7 DEF U

\* What can be added has been checked: what is above the parents holds none of
\* the deployments.
LEMMA AddedIsChecked ==
  ASSUME NEW es \in Seq(Deployment \X Deployment), NEW D, NEW P \in SUBSET Deployment,
         CanBeAdded(es, D, P)
  PROVE  Checked(D, P, Range(es))
<1>1. CASE P = {}
  <2>1. {} \in SUBSET Deployment /\ P \subseteq {} /\ D \cap {} = {} /\ Closed({}, Range(es))
    BY <1>1 DEF Closed
  <2> QED BY <2>1 DEF Checked
<1>2. CASE P # {}
  <2> DEFINE U == P \cup Range(get_dependencies(es, P))
  <2>1. ~ Endless(es, P) /\ ~ AddsCycle(es, D, P)
    BY <1>2 DEF CanBeAdded
  <2>2. U \in SUBSET Deployment /\ Closed(U, Range(es))
    BY <2>1, AboveIsClosed
  <2>3. P \subseteq U /\ D \cap U = {}
    BY <2>1 DEF AddsCycle
  <2> HIDE DEF U
  <2> QED BY <2>2, <2>3 DEF Checked
<1> QED BY <1>1, <1>2

\* What recalc_ancestors goes over is closed upwards, and in an order from the
\* bottom up unless a deployment is reached at two levels.
LEMMA QueryInOrder ==
  ASSUME NEW es \in Seq(Deployment \X Deployment), NEW ids \in SUBSET Deployment,
         ~ Endless(es, ids), NEW deps, deps = get_dependencies(es, ids),
         NEW rest, rest = ById(ids \ Range(deps))
  PROVE  /\ rest \o deps \in Seq(Deployment) /\ ids \subseteq Range(rest \o deps)
         /\ Closed(Range(rest \o deps), Range(es))
         /\ ~ Uneven(es, ids) => FromBelow(rest \o deps, Range(es))
<1> DEFINE o == rest \o deps
           lv == Levels(es, ids)
           C == Cardinality(Deployment)
           at(n) == IF n = 0 THEN ids ELSE Targets(lv[n])
<1>1. C \in Nat /\ Depth = C + 1
  BY DepthIsNat
<1>2. /\ deps \in Seq(Deployment) /\ IsInjective(deps)
      /\ Range(deps) = UNION {Targets(lv[n]) : n \in 1..Depth}
      /\ \A f \in [Deployment -> Nat] :
           (\A n \in 1..Depth : \A y \in Targets(lv[n]) : f[y] = n) => SortedBy(deps, f)
  BY DependenciesAre
<1>3. rest \in Seq(Deployment) /\ IsInjective(rest) /\ Range(rest) = ids \ Range(deps)
  <2>1. ids \ Range(deps) \in SUBSET Deployment
    OBVIOUS
  <2> QED BY <2>1, ByIdKeeps
<1>4. o \in Seq(Deployment) /\ Range(o) = ids \cup Range(deps) /\ IsInjective(o)
  <2>1. Range(rest) \cap Range(deps) = {}
    BY <1>3
  <2>2. /\ rest \in Seq(Deployment) /\ IsInjective(rest)
        /\ deps \in Seq(Deployment) /\ IsInjective(deps)
    BY <1>2, <1>3
  <2>3. /\ rest \o deps \in Seq(Deployment) /\ IsInjective(rest \o deps)
        /\ Range(rest \o deps) = Range(rest) \cup Range(deps)
    <3>1. ASSUME NEW s \in Seq(Deployment), NEW u \in Seq(Deployment)
          PROVE  /\ s \o u \in Seq(Deployment) /\ Range(s \o u) = Range(s) \cup Range(u)
                 /\ IsInjective(s) /\ IsInjective(u) /\ Range(s) \cap Range(u) = {} =>
                      IsInjective(s \o u)
      BY RangeConcat
    <3> QED BY <2>1, <2>2, <3>1
  <2> HIDE DEF lv
  <2> QED BY <1>3, <2>3
<1>5. Closed(Range(o), Range(es))
  <2>1. Closed(ids \cup Range(deps), Range(es))
    BY AboveIsClosed
  <2> QED BY <1>4, <2>1
<1>6. /\ Range(lv[1]) = {e \in Range(es) : e[1] \in ids}
      /\ \A n \in 1..C : Range(lv[n + 1]) = {e \in Range(es) : e[1] \in Targets(lv[n])}
  <2>1. AreLevels(lv, es, ids)
    BY LevelsAre
  <2> HIDE DEF lv
  <2> QED BY <2>1 DEF AreLevels
<1>7. lv[Depth] = <<>>
  BY DEF Endless
<1>8. Uneven(es, ids) <=> \E m, n \in 0..Depth : m # n /\ at(m) \cap at(n) # {}
  BY DEF Uneven
<1> HIDE DEF lv, C
<1>9. ASSUME NEW n \in 0..Depth, NEW e \in Range(es), e[1] \in at(n)
      PROVE  n + 1 \in 0..Depth /\ e[2] \in at(n + 1)
  <2>1. CASE n = 0
    <3>1. e[2] \in Targets(lv[1])
      BY <1>6, <1>9, <2>1 DEF Targets
    <3> QED BY <1>1, <2>1, <3>1
  <2>2. CASE n # 0
    <3>1. n \in 1..Depth /\ e[1] \in Targets(lv[n])
      BY <1>1, <1>9, <2>2
    <3>2. n # Depth
      BY <1>7, <3>1, RangeEmpty DEF Targets
    <3>3. n \in 1..C /\ n + 1 \in 0..Depth /\ n + 1 # 0
      BY <1>1, <3>1, <3>2
    <3>4. e[2] \in Targets(lv[n + 1])
      BY <1>6, <3>1, <3>3 DEF Targets
    <3> QED BY <3>3, <3>4
  <2> QED BY <2>1, <2>2
<1>10. ASSUME ~ Uneven(es, ids) PROVE FromBelow(o, Range(es))
  <2>1. \A m, n \in 0..Depth : m # n => at(m) \cap at(n) = {}
    BY <1>8, <1>10
  <2> DEFINE f == [d \in Deployment |->
                     IF \E n \in 0..Depth : d \in at(n)
                     THEN CHOOSE n \in 0..Depth : d \in at(n) ELSE 0]
  <2>2. f \in [Deployment -> Nat]
    <3>1. 0..Depth \subseteq Nat
      BY <1>1
    <3> HIDE DEF at
    <3>2. ASSUME NEW d, \E n \in 0..Depth : d \in at(n)
          PROVE  (CHOOSE n \in 0..Depth : d \in at(n)) \in 0..Depth
      BY <3>2
    <3> QED BY <3>1, <3>2
  <2>3. ASSUME NEW n \in 0..Depth, NEW d \in Deployment, d \in at(n) PROVE f[d] = n
    <3> HIDE DEF at
    <3>1. f[d] \in 0..Depth /\ d \in at(f[d])
      BY <2>3
    <3> QED BY <2>1, <2>3, <3>1
  <2> HIDE DEF f
  <2>4. \A d \in Range(o) : d \in Deployment /\ \E n \in 0..Depth : d \in at(n)
    <3> SUFFICES ASSUME NEW d \in Range(o)
                 PROVE  d \in Deployment /\ \E n \in 0..Depth : d \in at(n)
      OBVIOUS
    <3>1. d \in Deployment
      BY <1>4, RangeSubset
    <3>2. CASE d \in ids
      <4>1. 0 \in 0..Depth /\ d \in at(0)
        BY <1>1, <3>2
      <4> QED BY <3>1, <4>1
    <3>3. CASE d \in Range(deps)
      <4>1. PICK n \in 1..Depth : d \in Targets(lv[n])
        BY <1>2, <3>3
      <4>2. n \in 0..Depth /\ d \in at(n)
        BY <1>1, <4>1
      <4> QED BY <3>1, <4>2
    <3> QED BY <1>4, <3>2, <3>3
  <2>5. \A n \in 1..Depth : \A y \in Targets(lv[n]) : f[y] = n
    <3> SUFFICES ASSUME NEW n \in 1..Depth, NEW y \in Targets(lv[n]) PROVE f[y] = n
      OBVIOUS
    <3>1. y \in Range(deps)
      BY <1>2
    <3>2. n \in 0..Depth /\ n # 0
      BY <1>1
    <3>3. y \in at(n)
      BY <3>2
    <3>4. y \in Deployment
      BY <1>2, <3>1, RangeSubset
    <3> HIDE DEF at
    <3> QED BY <2>3, <3>2, <3>3, <3>4
  <2>6. SortedBy(deps, f)
    BY <1>2, <2>2, <2>5
  <2>7. \A x \in Range(rest) : x \in Deployment /\ f[x] = 0
    <3>1. 0 \in 0..Depth /\ ids = at(0)
      BY <1>1
    <3> HIDE DEF at
    <3> QED BY <1>3, <2>3, <3>1
  <2>8. SortedBy(rest, f)
    <3>1. \A i \in DOMAIN rest : rest[i] \in Range(rest)
      BY <1>3, RangeSubset
    <3>2. \A i \in DOMAIN rest : f[rest[i]] = 0
      BY <2>7, <3>1
    <3>3. ASSUME NEW i \in DOMAIN rest, NEW j \in DOMAIN rest PROVE f[rest[i]] <= f[rest[j]]
      <4>1. f[rest[i]] = 0 /\ f[rest[j]] = 0
        BY <3>2
      <4> QED BY <4>1
    <3> QED BY <3>3 DEF SortedBy
  <2>9. SortedBy(o, f)
    <3>1. \A x \in Range(rest), y \in Range(deps) : f[x] <= f[y]
      <4>1. \A y \in Range(deps) : f[y] \in Nat
        BY <1>2, <2>2, RangeSubset
      <4>2. ASSUME NEW x \in Range(rest), NEW y \in Range(deps) PROVE f[x] <= f[y]
        <5>1. f[x] = 0 /\ f[y] \in Nat
          BY <2>7, <4>1
        <5> QED BY <5>1
      <4> QED BY <4>2
    <3> QED BY <1>2, <1>3, <2>2, <2>6, <2>8, <3>1, SortedConcat
  <2> HIDE DEF o
  <2>10. ASSUME NEW i \in DOMAIN o, NEW j \in DOMAIN o, i <= j, <<o[j], o[i]>> \in Range(es)
         PROVE  FALSE
    <3>1. o[i] \in Range(o) /\ o[j] \in Range(o)
      BY <1>4, RangeSubset
    <3>2. PICK n \in 0..Depth : o[j] \in at(n)
      BY <2>4, <3>1
    <3>3. n + 1 \in 0..Depth /\ o[i] \in at(n + 1)
      <4>1. <<o[j], o[i]>>[1] = o[j] /\ <<o[j], o[i]>>[2] = o[i]
        OBVIOUS
      <4> HIDE DEF at
      <4> QED BY <1>9, <2>10, <3>2, <4>1
    <3> HIDE DEF at
    <3>4. f[o[j]] = n /\ f[o[i]] = n + 1
      BY <2>3, <2>4, <3>1, <3>2, <3>3
    <3>5. f[o[i]] <= f[o[j]]
      BY <2>9, <2>10 DEF SortedBy
    <3> QED BY <1>1, <3>4, <3>5
  <2> QED BY <1>4, <2>10 DEF FromBelow
<1> QED BY <1>4, <1>5, <1>10

\* Fewer edges keep their rank and what has been checked.
LEMMA RankedFewer ==
  ASSUME NEW E, NEW F, F \subseteq E
  PROVE  /\ Ranked(E) => Ranked(F)
         /\ \A D, P : Checked(D, P, E) => Checked(D, P, F)
<1>1. \A f : IsRank(f, E) => IsRank(f, F)
  BY DEF IsRank
<1>2. \A U : Closed(U, E) => Closed(U, F)
  BY DEF Closed
<1>3. Ranked(E) => Ranked(F)
  BY <1>1 DEF Ranked
<1>4. ASSUME NEW D, NEW P, Checked(D, P, E) PROVE Checked(D, P, F)
  BY <1>2, <1>4 DEF Checked
<1> QED BY <1>3, <1>4

\* Edges that have been checked keep the graph without cycles.
LEMMA RankedMore ==
  ASSUME NEW E \in SUBSET (Deployment \X Deployment), Ranked(E),
         NEW D \in SUBSET Deployment, NEW P \in SUBSET Deployment, Checked(D, P, E)
  PROVE  Ranked(E \cup (D \X P))
<1>1. PICK m \in Nat : \E f \in [Deployment -> 0..m] : IsRank(f, E)
  BY DEF Ranked
<1>2. PICK f \in [Deployment -> 0..m] : IsRank(f, E)
  BY <1>1
<1>3. PICK U \in SUBSET Deployment : P \subseteq U /\ D \cap U = {} /\ Closed(U, E)
  BY DEF Checked
<1> DEFINE k == m + 1
           g == [d \in Deployment |-> IF d \in U THEN f[d] + k ELSE f[d]]
<1>4. m \in Nat /\ \A d \in Deployment : f[d] \in Nat /\ f[d] <= m
  BY <1>1, <1>2
<1>5. m + k \in Nat /\ g \in [Deployment -> 0..(m + k)]
  BY <1>4
<1>6. \A d \in Deployment : g[d] = IF d \in U THEN f[d] + k ELSE f[d]
  OBVIOUS
<1> HIDE DEF g
<1>7. ASSUME NEW e \in E PROVE g[e[1]] < g[e[2]]
  <2>1. e[1] \in Deployment /\ e[2] \in Deployment
    OBVIOUS
  <2>2. f[e[1]] < f[e[2]] /\ (e[1] \in U => e[2] \in U)
    BY <1>2, <1>3 DEF IsRank, Closed
  <2> QED BY <1>4, <1>6, <2>1, <2>2
<1>8. ASSUME NEW e \in D \X P PROVE g[e[1]] < g[e[2]]
  <2>1. e[1] \in Deployment /\ e[2] \in Deployment /\ e[1] \notin U /\ e[2] \in U
    BY <1>3
  <2> QED BY <1>4, <1>6, <2>1
<1>9. IsRank(g, E \cup (D \X P))
  BY <1>7, <1>8 DEF IsRank
<1> QED BY <1>5, <1>9 DEF Ranked

\* At first labels name parents further on, so edges have a rank.
LEMMA FirstRanked == Ranked(NamedAtFirst)
<1> DEFINE B(d) == {x \in Deployment : x < d}
           m == Cardinality(Deployment)
           f == [d \in Deployment |-> Cardinality(B(d))]
<1>1. Deployment \subseteq Nat /\ IsFiniteSet(Deployment) /\ m \in Nat
  BY TreeAssumption, DepthIsNat
<1>2. \A d \in Deployment : IsFiniteSet(B(d)) /\ Cardinality(B(d)) \in 0..m
  <2> SUFFICES ASSUME NEW d \in Deployment PROVE IsFiniteSet(B(d)) /\ Cardinality(B(d)) \in 0..m
    OBVIOUS
  <2>1. B(d) \in SUBSET Deployment
    OBVIOUS
  <2> HIDE DEF B
  <2>2. IsFiniteSet(B(d)) /\ Cardinality(B(d)) <= m
    BY <1>1, <2>1, FS_Subset
  <2>3. Cardinality(B(d)) \in Nat
    BY <2>2, FS_CardinalityType
  <2> QED BY <1>1, <2>2, <2>3
<1>3. ASSUME NEW c \in Deployment, NEW d \in Deployment, c < d
      PROVE  Cardinality(B(c)) < Cardinality(B(d))
  <2>1. c \notin B(c) /\ B(c) \cup {c} \in SUBSET B(d)
    <3>1. c \in Nat /\ d \in Nat /\ ~ (c < c)
      BY <1>1
    <3>2. \A x \in Deployment : x < c => x < d
      BY <1>1, <1>3, <3>1
    <3> QED BY <1>3, <3>1, <3>2
  <2> HIDE DEF B
  <2>2. Cardinality(B(c) \cup {c}) = Cardinality(B(c)) + 1
    BY <1>2, <2>1, FS_AddElement
  <2>3. Cardinality(B(c) \cup {c}) <= Cardinality(B(d))
    BY <1>2, <2>1, FS_Subset
  <2> QED BY <1>2, <2>2, <2>3
<1>4. f \in [Deployment -> 0..m] /\ \A d \in Deployment : f[d] = Cardinality(B(d))
  BY <1>2
<1> HIDE DEF f
<1>5. ASSUME NEW e \in NamedAtFirst PROVE f[e[1]] < f[e[2]]
  <2>1. e[1] \in Deployment /\ e[2] \in Deployment /\ e[1] < e[2]
    BY TreeAssumption DEF NamedAtFirst, EnvLabel
  <2> HIDE DEF B
  <2> QED BY <1>3, <1>4, <2>1
<1>6. IsRank(f, NamedAtFirst)
  BY <1>5 DEF IsRank
<1> QED BY <1>1, <1>4, <1>6 DEF Ranked

\* A sequence that has nothing twice is as long as it has elements.
LEMMA InjectiveLength ==
  ASSUME NEW S, NEW s \in Seq(S), IsInjective(s)
  PROVE  Len(s) = Cardinality(Range(s))
<1>1. Len(s) \in Nat /\ DOMAIN s = 1..Len(s)
  OBVIOUS
<1>2. IsFiniteSet(1..Len(s)) /\ Cardinality(1..Len(s)) = Len(s)
  BY <1>1, FS_Interval
<1>3. s \in Bijection(1..Len(s), Range(s))
  BY <1>1 DEF IsInjective, Bijection, Injection, Surjection, Range
<1>4. ExistsBijection(1..Len(s), Range(s))
  BY <1>3 DEF ExistsBijection
<1> QED BY <1>2, <1>4, FS_Bijection

-----------------------------------------------------------------------------
(* What handlers do. *)

RecalcJob == [op : {"recalc"}, ids : SUBSET Deployment]
PatchJob ==
  [op : {"patch"}, dep : Deployment, add : SUBSET Label, drop : SUBSET Label,
   child : BOOLEAN, stale : BOOLEAN]
AddJob ==
  [op : {"add"}, deps : SUBSET Deployment, parents : SUBSET Deployment,
   missing : SUBSET Label, stale : BOOLEAN]
SetJob ==
  [op : {"set"}, deps : SUBSET Deployment, parents : SUBSET Deployment,
   create : SUBSET Label, missing : SUBSET Label, drop : SUBSET Label,
   all : SUBSET Deployment, stale : BOOLEAN]
IddJob == [op : {"idd"}, src : Deployment, tgt : Deployment]
LockJob ==
  [op : {"lock"}, todo : Seq(Deployment), held : SUBSET Deployment,
   order : Seq(Deployment), stale : BOOLEAN]

LEMMA JobKinds ==
  Job = UNION {{Idle}, RecalcJob, PatchJob, AddJob, SetJob, IddJob, LockJob}
  BY DEF Job, RecalcJob, PatchJob, AddJob, SetJob, IddJob, LockJob

LEMMA JobKind ==
  ASSUME NEW j \in Job
  PROVE  /\ j.op = "recalc" => j \in RecalcJob
         /\ j.op = "patch" => j \in PatchJob
         /\ j.op = "add" => j \in AddJob
         /\ j.op = "set" => j \in SetJob
         /\ j.op = "idd" => j \in IddJob
         /\ j.op = "lock" => j \in LockJob
<1>1. \/ j = Idle \/ j \in RecalcJob \/ j \in PatchJob \/ j \in AddJob
      \/ j \in SetJob \/ j \in IddJob \/ j \in LockJob
  BY JobKinds
<1>2. Idle.op = "idle"
  BY DEF Idle
<1>3. /\ \A x \in RecalcJob : x.op = "recalc"
      /\ \A x \in PatchJob : x.op = "patch"
      /\ \A x \in AddJob : x.op = "add"
      /\ \A x \in SetJob : x.op = "set"
      /\ \A x \in IddJob : x.op = "idd"
      /\ \A x \in LockJob : x.op = "lock"
  BY DEF RecalcJob, PatchJob, AddJob, SetJob, IddJob, LockJob
<1> QED BY <1>1, <1>2, <1>3

LEMMA RecalcIsJob ==
  ASSUME NEW D \in SUBSET Deployment
  PROVE  /\ Recalc(D) \in Job /\ Recalc(D).op \in {"idle", "recalc"}
         /\ Idle \in Job /\ Idle.op = "idle"
<1>1. Idle \in Job /\ Idle.op = "idle"
  BY JobKinds DEF Idle
<1>2. [op |-> "recalc", ids |-> D] \in RecalcJob
  BY DEF RecalcJob
<1>3. [op |-> "recalc", ids |-> D] \in Job
  BY <1>2, JobKinds
<1> QED BY <1>1, <1>3 DEF Recalc

\* What another handler is doing after edges were added or dropped.
Follows(j, k, adds, drops) ==
  /\ \/ k = j
     \/ j.op \in {"patch", "add", "set", "lock"} /\ k = [j EXCEPT !.stale = TRUE]
  /\ adds /\ j.op \in {"patch", "add", "set", "lock"} => k.stale
  /\ drops /\ j.op = "set" => k.stale

LEMMA StaleIsJob ==
  ASSUME NEW j \in Job, j.op \in {"patch", "add", "set", "lock"}
  PROVE  /\ [j EXCEPT !.stale = TRUE] \in Job /\ [j EXCEPT !.stale = TRUE].stale = TRUE
         /\ [j EXCEPT !.stale = TRUE].op = j.op
<1> DEFINE k == [j EXCEPT !.stale = TRUE]
<1>1. CASE j.op = "patch"
  <2>1. j \in PatchJob
    BY <1>1, JobKind
  <2>2. k \in PatchJob /\ k.stale = TRUE /\ k.op = j.op
    BY <2>1 DEF PatchJob
  <2> QED BY <2>2, JobKinds
<1>2. CASE j.op = "add"
  <2>1. j \in AddJob
    BY <1>2, JobKind
  <2>2. k \in AddJob /\ k.stale = TRUE /\ k.op = j.op
    BY <2>1 DEF AddJob
  <2> QED BY <2>2, JobKinds
<1>3. CASE j.op = "set"
  <2>1. j \in SetJob
    BY <1>3, JobKind
  <2>2. k \in SetJob /\ k.stale = TRUE /\ k.op = j.op
    BY <2>1 DEF SetJob
  <2> QED BY <2>2, JobKinds
<1>4. CASE j.op = "lock"
  <2>1. j \in LockJob
    BY <1>4, JobKind
  <2>2. k \in LockJob /\ k.stale = TRUE /\ k.op = j.op
    BY <2>1 DEF LockJob
  <2> QED BY <2>2, JobKinds
<1> QED BY <1>1, <1>2, <1>3, <1>4

LEMMA OvertakingIsJobs ==
  ASSUME job \in [Handler -> Job], NEW h \in Handler, NEW adds \in BOOLEAN,
         NEW drops \in BOOLEAN, NEW j \in Job
  PROVE  /\ Overtaking(h, adds, drops, j) \in [Handler -> Job]
         /\ Overtaking(h, adds, drops, j)[h] = j
         /\ \A k \in Handler \ {h} :
              Follows(job[k], Overtaking(h, adds, drops, j)[k], adds, drops)
<1> DEFINE misled == (IF adds THEN {"patch", "add", "set", "lock"} ELSE {})
                       \cup (IF drops THEN {"set"} ELSE {})
           after(k) == IF k = h THEN j
                       ELSE IF job[k].op \in misled
                            THEN [job[k] EXCEPT !.stale = TRUE] ELSE job[k]
<1>1. Overtaking(h, adds, drops, j) = [k \in Handler |-> after(k)]
  BY DEF Overtaking
<1>2. ASSUME NEW k \in Handler, job[k].op \in misled
      PROVE  /\ [job[k] EXCEPT !.stale = TRUE] \in Job
             /\ [job[k] EXCEPT !.stale = TRUE].stale = TRUE
             /\ job[k].op \in {"patch", "add", "set", "lock"}
  <2>1. job[k] \in Job /\ job[k].op \in {"patch", "add", "set", "lock"}
    BY <1>2
  <2> QED BY <2>1, StaleIsJob
<1>3. \A k \in Handler : after(k) \in Job
  BY <1>2
<1>4. ASSUME NEW k \in Handler \ {h} PROVE Follows(job[k], after(k), adds, drops)
  <2>1. CASE job[k].op \in misled
    BY <1>2, <2>1 DEF Follows
  <2>2. CASE job[k].op \notin misled
    BY <2>2 DEF Follows
  <2> QED BY <2>1, <2>2
<1>5. after(h) = j
  OBVIOUS
<1> HIDE DEF after
<1> QED BY <1>1, <1>3, <1>4, <1>5

\* Rows of other handlers' patches are not free.
LEMMA FreeFromPatches ==
  ASSUME NEW h, NEW D, NEW u, Free(h, D, u),
         NEW k \in Handler \ {h}, job[k].op = "patch"
  PROVE  job[k].dep \notin D
  BY DEF Free, Blocks, Held

-----------------------------------------------------------------------------
(* What the commits make of the graph. *)

Added(h) == Parents(job[h].add)
Dropped(h) == Parents(job[h].drop)
GroupDropped(h) == IF job[h].all = {} THEN {} ELSE Parents(job[h].drop) \cap exists

\* The deployments they recalculate from.
PatchIds(h) == Dropped(h) \cup IF job[h].child THEN {job[h].dep} ELSE {}
GroupAddIds(h) == IF job[h].parents # {} THEN job[h].deps ELSE {}
GroupSetIds(h) ==
  (IF EnvLabel \in job[h].create \cup job[h].drop THEN job[h].all ELSE {})
    \cup GroupDropped(h) \cup IF job[h].parents # {} THEN job[h].deps ELSE {}

\* The edges after a step: E of them gone, the pairs of D and P new.
GraphBecomes(E, D, P) ==
  /\ edges' \in Seq(Deployment \X Deployment)
  /\ Edges' = E \cup (D \X P)
  /\ IsInjective(edges) => IsInjective(edges')

LEMMA ParentsAre ==
  ASSUME NEW L \in SUBSET Label
  PROVE  Parents(L) \in SUBSET Deployment /\ Parents(L) = L \cap Deployment
  BY TreeAssumption DEF Parents, Label, EnvLabel

LEMMA PatchGraph ==
  ASSUME TypeOK, NEW h \in Handler, PatchCommit(h)
  PROVE  /\ job[h] \in PatchJob
         /\ Added(h) \in SUBSET Deployment /\ Dropped(h) \in SUBSET Deployment
         /\ GraphBecomes(Edges \ ({job[h].dep} \X Dropped(h)), {job[h].dep}, Added(h))
<1> DEFINE d == job[h].dep
           es == Without(edges, {d}, Dropped(h))
           new == NewEdges({d}, Added(h))
<1>1. job[h] \in PatchJob
  BY JobKind DEF TypeOK, PatchCommit
<1>2. d \in Deployment /\ Added(h) \in SUBSET Deployment /\ Dropped(h) \in SUBSET Deployment
  BY <1>1, ParentsAre DEF PatchJob, Added, Dropped
<1>3. /\ es \in Seq(Deployment \X Deployment) /\ Range(es) = Edges \ ({d} \X Dropped(h))
      /\ IsInjective(edges) => IsInjective(es)
  BY WithoutIs DEF TypeOK, Edges
<1>4. /\ new \in Seq(Deployment \X Deployment)
      /\ Range(new) = {d} \X Added(h) /\ IsInjective(new)
  <2>1. {d} \in SUBSET Deployment
    BY <1>2
  <2> QED BY <1>2, <2>1, NewEdgesAre
<1>5. edges' = es \o new /\ ({d} \X Added(h)) \cap Edges = {}
  BY DEF PatchCommit, CanInsert, Added, Dropped
<1> HIDE DEF es, new
<1>6. Range(es) \cap Range(new) = {}
  BY <1>3, <1>4, <1>5
<1>7. /\ es \o new \in Seq(Deployment \X Deployment)
      /\ Range(es \o new) = Range(es) \cup Range(new)
      /\ IsInjective(es) => IsInjective(es \o new)
  <2> DEFINE S == Deployment \X Deployment
  <2> HIDE DEF S
  <2> QED BY <1>3, <1>4, <1>6, RangeConcat DEF S
<1> QED BY <1>1, <1>2, <1>3, <1>4, <1>5, <1>7 DEF GraphBecomes, Edges

LEMMA GroupAddGraph ==
  ASSUME TypeOK, NEW h \in Handler, GroupAddCommit(h)
  PROVE  job[h] \in AddJob /\ GraphBecomes(Edges, job[h].deps, job[h].parents)
<1> DEFINE D == job[h].deps
           P == job[h].parents
           new == NewEdges(D, P)
<1>1. job[h] \in AddJob
  BY JobKind DEF TypeOK, GroupAddCommit
<1>2. D \in SUBSET Deployment /\ P \in SUBSET Deployment
  BY <1>1 DEF AddJob
<1>3. new \in Seq(Deployment \X Deployment) /\ Range(new) = D \X P /\ IsInjective(new)
  BY <1>2, NewEdgesAre
<1>4. edges' = edges \o new /\ (D \X P) \cap Range(edges) = {}
  BY DEF GroupAddCommit, Conflicts, CanInsert, Edges
<1> HIDE DEF new
<1>5. edges \in Seq(Deployment \X Deployment) /\ Range(edges) \cap Range(new) = {}
  BY <1>3, <1>4 DEF TypeOK
<1>6. /\ edges \o new \in Seq(Deployment \X Deployment)
      /\ Range(edges \o new) = Range(edges) \cup Range(new)
      /\ IsInjective(edges) => IsInjective(edges \o new)
  <2> DEFINE S == Deployment \X Deployment
  <2> HIDE DEF S
  <2> QED BY <1>3, <1>5, RangeConcat DEF S
<1> QED BY <1>1, <1>3, <1>4, <1>6 DEF GraphBecomes, Edges

LEMMA GroupSetGraph ==
  ASSUME TypeOK, NEW h \in Handler, GroupSetCommit(h)
  PROVE  /\ job[h] \in SetJob /\ GroupDropped(h) \in SUBSET Deployment
         /\ edges' \in Seq(Deployment \X Deployment)
         /\ Edges' = (Edges \cup (job[h].deps \X job[h].parents))
                       \ (job[h].all \X GroupDropped(h))
         /\ IsInjective(edges) => IsInjective(edges')
<1> DEFINE D == job[h].deps
           P == job[h].parents
           new == NewEdges(D, P)
           es == edges \o new
<1>1. job[h] \in SetJob
  BY JobKind DEF TypeOK, GroupSetCommit
<1>2. D \in SUBSET Deployment /\ P \in SUBSET Deployment /\ GroupDropped(h) \in SUBSET Deployment
  BY <1>1, ParentsAre DEF SetJob, GroupDropped
<1>3. new \in Seq(Deployment \X Deployment) /\ Range(new) = D \X P /\ IsInjective(new)
  BY <1>2, NewEdgesAre
<1>4. edges' = Without(es, job[h].all, GroupDropped(h)) /\ (D \X P) \cap Range(edges) = {}
  BY DEF GroupSetCommit, Conflicts, CanInsert, Edges, GroupDropped
<1> HIDE DEF new
<1>5. edges \in Seq(Deployment \X Deployment) /\ Range(edges) \cap Range(new) = {}
  BY <1>3, <1>4 DEF TypeOK
<1>6. /\ es \in Seq(Deployment \X Deployment)
      /\ Range(es) = Range(edges) \cup Range(new)
      /\ IsInjective(edges) => IsInjective(es)
  <2> DEFINE S == Deployment \X Deployment
  <2> HIDE DEF S
  <2> QED BY <1>3, <1>5, RangeConcat DEF S
<1> HIDE DEF es
<1>7. /\ edges' \in Seq(Deployment \X Deployment)
      /\ Range(edges') = Range(es) \ (job[h].all \X GroupDropped(h))
      /\ IsInjective(es) => IsInjective(edges')
  BY <1>4, <1>6, WithoutIs
<1> QED BY <1>1, <1>2, <1>3, <1>6, <1>7 DEF Edges

LEMMA DeleteGraph ==
  ASSUME TypeOK, NEW h \in Handler, NEW d \in Deployment, DeleteEnded(h, d)
  PROVE  GraphBecomes({e \in Edges : d \notin {e[1], e[2]}}, {}, {})
<1> DEFINE T == {e \in Edges : d \notin {e[1], e[2]}}
           S == Deployment \X Deployment
<1>1. edges \in Seq(S) /\ edges' = Selected(edges, T)
  BY DEF TypeOK, DeleteEnded
<1>2. Range(edges) \cap T = T \cup ({} \X {})
  BY DEF Edges
<1> HIDE DEF S, T
<1>3. /\ edges' \in Seq(S) /\ Range(edges') = Range(edges) \cap T
      /\ IsInjective(edges) => IsInjective(edges')
  BY <1>1, SelectedKeeps
<1>4. /\ edges' \in Seq(S) /\ Edges' = T \cup ({} \X {})
      /\ IsInjective(edges) => IsInjective(edges')
  BY <1>2, <1>3 DEF Edges
<1> QED BY <1>4 DEF GraphBecomes, S, T

-----------------------------------------------------------------------------
(* The type invariant. *)

LEMMA JobUpdate ==
  ASSUME job \in [Handler -> Job], NEW h \in Handler, NEW j \in Job,
         job' = [job EXCEPT ![h] = j]
  PROVE  /\ job' \in [Handler -> Job] /\ job'[h] = j
         /\ \A k \in Handler \ {h} : job'[k] = job[k]
  OBVIOUS

LEMMA SameTree ==
  ASSUME TypeOK, UNCHANGED <<rowVars, graphVars, groupVars>>, job' \in [Handler -> Job],
         requests' \in 0..MaxRequests, lost' \in BOOLEAN,
         overtaken' \subseteq {"patch", "group"}
  PROVE  TypeOK'
  BY DEF TypeOK, rowVars, graphVars, groupVars, Edges

LEMMA AskedBound ==
  ASSUME TypeOK, NEW h, Asked(h)
  PROVE  requests' \in 0..MaxRequests
  BY TreeAssumption DEF TypeOK, Asked

LEMMA InitTypeOK == Init => TypeOK
<1> SUFFICES ASSUME Init PROVE TypeOK
  OBVIOUS
<1>1. exists \subseteq Deployment
  BY TreeAssumption DEF Init
<1>2. labels \in [Deployment -> SUBSET Label]
  BY TreeAssumption DEF Init, Label
<1>3. edges \in Seq(Deployment \X Deployment) /\ Edges = NamedAtFirst
  BY InitEdgesAre DEF Init, Edges
<1>4. Edges \subseteq exists \X exists
  BY <1>3, TreeAssumption DEF Init, NamedAtFirst, EnvLabel
<1>5. own \in [Deployment -> DeploymentState]
  BY DEF Init, DeploymentState
<1>6. row \in [Deployment -> Row]
  <2> DEFINE rows == [d \in Deployment |-> Leaf("good")]
             order == ById(exists)
  <2>1. Leaf("good") \in Row
    BY DEF Leaf, Row, DeploymentState, NoStatus
  <2>2. rows \in [Deployment -> Row]
    BY <2>1
  <2>3. order \in Seq(Deployment)
    BY <1>1, ByIdKeeps
  <2>4. Edges \subseteq Deployment \X Deployment
    BY <1>1, <1>4
  <2>5. row = Resummed(rows, order)
    BY DEF Init
  <2> HIDE DEF rows, order
  <2> QED BY <1>5, <2>2, <2>3, <2>4, <2>5, ResummedAreRows
<1>7. job \in [Handler -> Job]
  BY RecalcIsJob DEF Init
<1>8. /\ idds \subseteq exists \X exists /\ deleting \subseteq Deployment
      /\ members \subseteq exists /\ glabels \subseteq Label
      /\ lost \in BOOLEAN /\ overtaken \subseteq {"patch", "group"}
  BY DEF Init
<1>9. requests \in 0..MaxRequests
  BY TreeAssumption DEF Init
<1> QED BY <1>1, <1>2, <1>3, <1>4, <1>5, <1>6, <1>7, <1>8, <1>9 DEF TypeOK

LEMMA PatchType ==
  ASSUME TypeOK, NEW h \in Handler, NEW d \in Deployment, NEW L \in LabelSets, Patch(h, d, L)
  PROVE  /\ TypeOK' /\ job'[h] \in PatchJob
         /\ job'[h] = [op |-> "patch", dep |-> d, add |-> L \ labels[d],
                       drop |-> labels[d] \ L, child |-> Parents(L) # {}, stale |-> FALSE]
         /\ \A k \in Handler \ {h} : job'[k] = job[k]
<1> DEFINE j == [op |-> "patch", dep |-> d, add |-> L \ labels[d],
                 drop |-> labels[d] \ L, child |-> Parents(L) # {}, stale |-> FALSE]
<1>1. L \in SUBSET Label /\ labels[d] \in SUBSET Label
  BY TreeAssumption DEF TypeOK
<1>2. j \in PatchJob
  BY <1>1 DEF PatchJob
<1>3. j \in Job
  BY <1>2, JobKinds
<1>4. job' = [job EXCEPT ![h] = j] /\ job \in [Handler -> Job]
  BY DEF Patch, TypeOK
<1> HIDE DEF j
<1>5. /\ job' \in [Handler -> Job] /\ job'[h] = j
      /\ \A k \in Handler \ {h} : job'[k] = job[k]
  BY <1>3, <1>4, JobUpdate
<1>6. requests' \in 0..MaxRequests
  BY AskedBound DEF Patch
<1>7. UNCHANGED <<rowVars, graphVars, groupVars, history>>
  BY DEF Patch
<1>8. TypeOK'
  BY <1>5, <1>6, <1>7, SameTree DEF TypeOK, history
<1> QED BY <1>2, <1>5, <1>8 DEF j

LEMMA GroupAddType ==
  ASSUME TypeOK, NEW h \in Handler, NEW d \in Deployment, GroupAdd(h, d)
  PROVE  /\ TypeOK' /\ job'[h] \in AddJob
         /\ job'[h] = [op |-> "add", deps |-> {d}, parents |-> Parents(glabels \ labels[d]),
                       missing |-> glabels \ labels[d], stale |-> FALSE]
         /\ \A k \in Handler \ {h} : job'[k] = job[k]
<1> DEFINE j == [op |-> "add", deps |-> {d}, parents |-> Parents(glabels \ labels[d]),
                 missing |-> glabels \ labels[d], stale |-> FALSE]
<1>1. glabels \ labels[d] \in SUBSET Label
  BY DEF TypeOK
<1>2. Parents(glabels \ labels[d]) \in SUBSET Deployment
  BY <1>1, ParentsAre
<1>3. j \in AddJob
  BY <1>1, <1>2 DEF AddJob
<1>4. j \in Job
  BY <1>3, JobKinds
<1>5. job' = [job EXCEPT ![h] = j] /\ job \in [Handler -> Job]
  BY DEF GroupAdd, TypeOK
<1> HIDE DEF j
<1>6. /\ job' \in [Handler -> Job] /\ job'[h] = j
      /\ \A k \in Handler \ {h} : job'[k] = job[k]
  BY <1>4, <1>5, JobUpdate
<1>7. requests' \in 0..MaxRequests
  BY AskedBound DEF GroupAdd
<1>8. UNCHANGED <<rowVars, graphVars, groupVars, history>>
  BY DEF GroupAdd
<1>9. TypeOK'
  BY <1>6, <1>7, <1>8, SameTree DEF TypeOK, history
<1> QED BY <1>3, <1>6, <1>9 DEF j

\* What _set_group_labels works out.
SetOf(L) ==
  LET create == L \ glabels
      deps == {d \in members : ~ create \subseteq labels[d]}
  IN [op |-> "set", deps |-> deps,
      parents |-> IF deps = {} THEN {} ELSE Parents(create),
      create |-> create,
      missing |-> {l \in create : \E d \in members : l \notin labels[d]},
      drop |-> glabels \ L, all |-> members, stale |-> FALSE]

LEMMA GroupSetType ==
  ASSUME TypeOK, NEW h \in Handler, NEW L \in LabelSets, GroupSet(h, L)
  PROVE  /\ TypeOK' /\ job'[h] \in SetJob /\ job'[h] = SetOf(L)
         /\ \A k \in Handler \ {h} : job'[k] = job[k]
<1> DEFINE j == SetOf(L)
           create == L \ glabels
           deps == {d \in members : ~ create \subseteq labels[d]}
           parents == IF deps = {} THEN {} ELSE Parents(create)
<1>1. L \in SUBSET Label /\ glabels \in SUBSET Label /\ members \in SUBSET Deployment
  BY TreeAssumption DEF TypeOK
<1>2. create \in SUBSET Label /\ deps \in SUBSET Deployment
  BY <1>1
<1>3. parents \in SUBSET Deployment
  BY <1>2, ParentsAre
<1>4. j \in SetJob
  BY <1>1, <1>2, <1>3 DEF SetJob, SetOf
<1>5. j \in Job
  BY <1>4, JobKinds
<1>6. job' = [job EXCEPT ![h] = j] /\ job \in [Handler -> Job]
  BY DEF GroupSet, TypeOK, SetOf
<1> HIDE DEF j
<1>7. /\ job' \in [Handler -> Job] /\ job'[h] = j
      /\ \A k \in Handler \ {h} : job'[k] = job[k]
  BY <1>5, <1>6, JobUpdate
<1>8. requests' \in 0..MaxRequests
  BY AskedBound DEF GroupSet
<1>9. UNCHANGED <<rowVars, graphVars, groupVars, history>>
  BY DEF GroupSet
<1>10. TypeOK'
  BY <1>7, <1>8, <1>9, SameTree DEF TypeOK, history
<1> QED BY <1>4, <1>7, <1>10 DEF j

\* A step after which the handler does nothing more, or recalculates, or is to add
\* a dependency, while the others go on.
Sets(h, j) ==
  /\ job' = [job EXCEPT ![h] = j] /\ j \in Job
  /\ j.op \notin {"patch", "add", "set"}

LEMMA SetsJob ==
  ASSUME TypeOK, NEW h \in Handler, NEW j, Sets(h, j)
  PROVE  /\ job' \in [Handler -> Job] /\ job'[h].op \notin {"patch", "add", "set"}
         /\ \A k \in Handler \ {h} : job'[k] = job[k]
<1>1. job \in [Handler -> Job] /\ j \in Job /\ job' = [job EXCEPT ![h] = j]
  BY DEF TypeOK, Sets
<1>2. /\ job' \in [Handler -> Job] /\ job'[h] = j
      /\ \A k \in Handler \ {h} : job'[k] = job[k]
  BY <1>1, JobUpdate
<1> QED BY <1>2 DEF Sets

LEMMA GroupRemoveType ==
  ASSUME TypeOK, NEW h \in Handler, NEW d \in Deployment, GroupRemove(h, d)
  PROVE  TypeOK'
<1>1. requests' \in 0..MaxRequests
  BY AskedBound DEF GroupRemove
<1> QED BY <1>1 DEF GroupRemove, TypeOK, rowVars, graphVars, history, Edges

LEMMA StatusRow ==
  ASSUME TypeOK, NEW d \in Deployment, NEW s \in OwnStates,
         own' = [own EXCEPT ![d] = s],
         row' = [row EXCEPT ![d].status =
                   decide_deployment_status(s, row[d].srvStatus, row[d].envStatus)]
  PROVE  own' \in [Deployment -> DeploymentState] /\ row' \in [Deployment -> Row]
<1>1. s \in DeploymentState
  BY TreeAssumption
<1>2. row[d] \in Row
  BY DEF TypeOK
<1> DEFINE st == decide_deployment_status(s, row[d].srvStatus, row[d].envStatus)
<1>3. st \in DeploymentState
  <2>1. {s, row[d].srvStatus, row[d].envStatus} \in SUBSET (DeploymentState \cup {NoStatus})
    BY <1>1, <1>2 DEF Row
  <2>2. {s, row[d].srvStatus, row[d].envStatus} \cap DeploymentState # {}
    BY <1>1
  <2> QED BY <2>1, <2>2, StatusAmong DEF decide_deployment_status
<1>4. row' = [row EXCEPT ![d] = [row[d] EXCEPT !.status = st]]
  OBVIOUS
<1> HIDE DEF st
<1>5. [row[d] EXCEPT !.status = st] \in Row
  BY <1>2, <1>3 DEF Row
<1>6. row' \in [Deployment -> Row]
  BY <1>4, <1>5 DEF TypeOK
<1>7. own' \in [Deployment -> DeploymentState]
  BY <1>1 DEF TypeOK
<1> QED BY <1>6, <1>7

LEMMA SetStatusType ==
  ASSUME TypeOK, NEW h \in Handler, NEW d \in Deployment, NEW s \in OwnStates,
         SetStatus(h, d, s)
  PROVE  TypeOK' /\ \E j : Sets(h, j)
<1>1. requests' \in 0..MaxRequests
  BY AskedBound DEF SetStatus
<1>2. Sets(h, Recalc({d}))
  <2>1. {d} \in SUBSET Deployment
    OBVIOUS
  <2> QED BY <2>1, RecalcIsJob DEF Sets, SetStatus
<1>3. job' \in [Handler -> Job]
  BY <1>2, SetsJob
<1>4. own' \in [Deployment -> DeploymentState] /\ row' \in [Deployment -> Row]
  BY StatusRow DEF SetStatus
<1>5. UNCHANGED <<exists, deleting, graphVars, groupVars, history>>
  BY DEF SetStatus
<1> QED BY <1>1, <1>2, <1>3, <1>4, <1>5 DEF TypeOK, graphVars, groupVars, history, Edges

LEMMA CancelType ==
  ASSUME TypeOK, NEW h \in Handler, NEW d \in Deployment, NEW s \in OwnStates,
         Cancel(h, d, s)
  PROVE  TypeOK'
<1>1. requests' \in 0..MaxRequests
  BY AskedBound DEF Cancel
<1>2. own' \in [Deployment -> DeploymentState] /\ row' \in [Deployment -> Row]
  BY StatusRow DEF Cancel
<1>3. UNCHANGED <<exists, deleting, graphVars, groupVars, job, overtaken>> /\ lost' \in BOOLEAN
  BY DEF Cancel
<1> QED BY <1>1, <1>2, <1>3 DEF TypeOK, graphVars, groupVars, Edges

LEMMA InProgressRow ==
  ASSUME TypeOK, NEW d \in Deployment, row' = [row EXCEPT ![d].status = "in_progress"]
  PROVE  row' \in [Deployment -> Row]
<1>1. row \in [Deployment -> Row] /\ row[d] \in Row
  BY DEF TypeOK
<1>2. row' = [row EXCEPT ![d] = [row[d] EXCEPT !.status = "in_progress"]]
  OBVIOUS
<1>3. [row[d] EXCEPT !.status = "in_progress"] \in Row
  BY <1>1 DEF Row, DeploymentState
<1> QED BY <1>1, <1>2, <1>3

LEMMA DeleteType ==
  ASSUME TypeOK, NEW h \in Handler, NEW d \in Deployment, NEW f \in BOOLEAN,
         NEW r \in BOOLEAN, Delete(h, d, f, r)
  PROVE  TypeOK'
<1>1. requests' \in 0..MaxRequests
  BY AskedBound DEF Delete
<1>2. row' \in [Deployment -> Row]
  BY InProgressRow DEF Delete
<1>3. deleting' \subseteq Deployment
  BY DEF Delete, TypeOK
<1>4. UNCHANGED <<exists, own, graphVars, groupVars, job, history>>
  BY DEF Delete
<1> QED BY <1>1, <1>2, <1>3, <1>4 DEF TypeOK, graphVars, groupVars, history, Edges

LEMMA DeleteRefusedType ==
  ASSUME TypeOK, NEW h \in Handler, NEW d \in Deployment, NEW f \in BOOLEAN,
         NEW r \in BOOLEAN, DeleteRefused(h, d, f, r)
  PROVE  TypeOK'
<1>1. requests' \in 0..MaxRequests
  BY AskedBound DEF DeleteRefused
<1>2. row' \in [Deployment -> Row]
  BY InProgressRow DEF DeleteRefused
<1>3. /\ UNCHANGED <<exists, own, deleting, graphVars, groupVars, job, overtaken>>
      /\ lost' \in BOOLEAN
  BY DEF DeleteRefused
<1> QED BY <1>1, <1>2, <1>3 DEF TypeOK, graphVars, groupVars, Edges

LEMMA DeleteStartedType ==
  ASSUME TypeOK, NEW h \in Handler, NEW d \in Deployment, DeleteStarted(h, d)
  PROVE  TypeOK' /\ \E j : Sets(h, j)
<1>1. row' \in [Deployment -> Row]
  BY InProgressRow DEF DeleteStarted
<1>2. own' \in [Deployment -> DeploymentState]
  BY DEF DeleteStarted, TypeOK, DeploymentState
<1>3. Sets(h, Recalc({d}))
  <2>1. {d} \in SUBSET Deployment
    OBVIOUS
  <2> QED BY <2>1, RecalcIsJob DEF Sets, DeleteStarted
<1>4. job' \in [Handler -> Job]
  BY <1>3, SetsJob
<1>5. UNCHANGED <<exists, deleting, graphVars, groupVars, requests, history>>
  BY DEF DeleteStarted
<1> QED BY <1>1, <1>2, <1>3, <1>4, <1>5 DEF TypeOK, graphVars, groupVars, history, Edges

LEMMA DeleteFailedType ==
  ASSUME TypeOK, NEW h \in Handler, NEW d \in Deployment, DeleteFailed(h, d)
  PROVE  TypeOK' /\ \E j : Sets(h, j)
<1>1. own' \in [Deployment -> DeploymentState]
  BY DEF DeleteFailed, TypeOK, DeploymentState
<1>2. Sets(h, Recalc({d}))
  <2>1. {d} \in SUBSET Deployment
    OBVIOUS
  <2> QED BY <2>1, RecalcIsJob DEF Sets, DeleteFailed
<1>3. job' \in [Handler -> Job]
  BY <1>2, SetsJob
<1>4. deleting' \subseteq Deployment
  BY DEF DeleteFailed, TypeOK
<1>5. UNCHANGED <<exists, row, graphVars, groupVars, requests, history>>
  BY DEF DeleteFailed
<1> QED BY <1>1, <1>2, <1>3, <1>4, <1>5 DEF TypeOK, graphVars, groupVars, history, Edges

LEMMA DeleteEndedType ==
  ASSUME TypeOK, NEW h \in Handler, NEW d \in Deployment, DeleteEnded(h, d)
  PROVE  TypeOK' /\ \E j : Sets(h, j)
<1> DEFINE ids == {d} \cup (Parents(labels[d]) \cap exists)
<1>1. ids \in SUBSET Deployment
  BY DEF TypeOK
<1>2. Sets(h, Recalc(ids))
  BY <1>1, RecalcIsJob DEF Sets, DeleteEnded
<1>3. job' \in [Handler -> Job]
  BY <1>2, SetsJob
<1>4. exists' = exists \ {d} /\ exists' \subseteq Deployment
  BY DEF DeleteEnded, TypeOK
<1>5. labels' \in [Deployment -> SUBSET Label]
  BY DEF DeleteEnded, TypeOK
<1>6. edges' \in Seq(Deployment \X Deployment) /\ Edges' \subseteq exists' \X exists'
  <2>1. edges' \in Seq(Deployment \X Deployment)
    BY DeleteGraph DEF GraphBecomes
  <2>2. Edges' = {e \in Edges : d \notin {e[1], e[2]}}
    BY DeleteGraph DEF GraphBecomes
  <2>3. Edges \subseteq exists \X exists
    BY DEF TypeOK
  <2> QED BY <1>4, <2>1, <2>2, <2>3
<1>7. idds' \subseteq exists' \X exists' /\ members' \subseteq exists'
  BY DEF DeleteEnded, TypeOK
<1>8. UNCHANGED <<own, row, deleting, glabels, requests, history>>
  BY DEF DeleteEnded
<1> QED BY <1>2, <1>3, <1>4, <1>5, <1>6, <1>7, <1>8 DEF TypeOK, history

LEMMA PatchCommitType ==
  ASSUME TypeOK, NEW h \in Handler, PatchCommit(h)
  PROVE  /\ TypeOK' /\ job'[h].op \notin {"patch", "add", "set"}
         /\ job'[h] = Recalc(PatchIds(h)) /\ PatchIds(h) \in SUBSET Deployment
         /\ \A k \in Handler \ {h} :
              Follows(job[k], job'[k], Added(h) # {}, Dropped(h) # {})
<1> DEFINE d == job[h].dep
           ids == Dropped(h) \cup IF job[h].child THEN {d} ELSE {}
<1>1. /\ job[h] \in PatchJob /\ d \in Deployment
      /\ Added(h) \in SUBSET Deployment /\ Dropped(h) \in SUBSET Deployment
  BY PatchGraph DEF PatchJob
<1>2. ids \in SUBSET Deployment /\ ids = PatchIds(h)
  BY <1>1 DEF PatchIds
<1>3. job' = Overtaking(h, Added(h) # {}, Dropped(h) # {}, Recalc(ids))
  BY DEF PatchCommit, Added, Dropped
<1> HIDE DEF ids
<1>4. Recalc(ids) \in Job /\ Recalc(ids).op \in {"idle", "recalc"}
  BY <1>2, RecalcIsJob
<1>5. /\ job' \in [Handler -> Job] /\ job'[h] = Recalc(ids)
      /\ \A k \in Handler \ {h} :
           Follows(job[k], job'[k], Added(h) # {}, Dropped(h) # {})
  <2> DEFINE adds == Added(h) # {}
             drops == Dropped(h) # {}
  <2>1. adds \in BOOLEAN /\ drops \in BOOLEAN /\ job \in [Handler -> Job]
    BY DEF TypeOK
  <2> HIDE DEF adds, drops
  <2>2. job' = Overtaking(h, adds, drops, Recalc(ids))
    BY <1>3 DEF adds, drops
  <2>3. /\ job' \in [Handler -> Job] /\ job'[h] = Recalc(ids)
        /\ \A k \in Handler \ {h} : Follows(job[k], job'[k], adds, drops)
    BY <1>4, <2>1, <2>2, OvertakingIsJobs
  <2> QED BY <2>3 DEF adds, drops
<1>6. labels' \in [Deployment -> SUBSET Label]
  <2>1. job[h].add \in SUBSET Label
    BY <1>1 DEF PatchJob
  <2>2. labels' = [labels EXCEPT ![d] = (labels[d] \cup job[h].add) \ job[h].drop]
    BY DEF PatchCommit
  <2> QED BY <1>1, <2>1, <2>2 DEF TypeOK
<1>7. edges' \in Seq(Deployment \X Deployment) /\ Edges' \subseteq exists' \X exists'
  <2>1. /\ edges' \in Seq(Deployment \X Deployment)
        /\ Edges' = (Edges \ ({d} \X Dropped(h))) \cup ({d} \X Added(h))
    BY PatchGraph DEF GraphBecomes
  <2>2. exists' = exists /\ {d} \cup Added(h) \subseteq exists /\ Edges \subseteq exists \X exists
    BY DEF PatchCommit, rowVars, CanInsert, Added, TypeOK
  <2> QED BY <2>1, <2>2
<1>8. overtaken' \subseteq {"patch", "group"}
  BY DEF PatchCommit, TypeOK
<1>9. UNCHANGED <<rowVars, idds, groupVars, requests, lost>>
  BY DEF PatchCommit
<1>10. TypeOK'
  BY <1>5, <1>6, <1>7, <1>8, <1>9 DEF TypeOK, rowVars, groupVars
<1> QED BY <1>2, <1>4, <1>5, <1>10

LEMMA GroupAddCommitType ==
  ASSUME TypeOK, NEW h \in Handler, GroupAddCommit(h)
  PROVE  /\ TypeOK' /\ job'[h].op \notin {"patch", "add", "set"}
         /\ job'[h] = Recalc(GroupAddIds(h)) /\ GroupAddIds(h) \in SUBSET Deployment
         /\ \A k \in Handler \ {h} :
              Follows(job[k], job'[k], job[h].parents # {}, FALSE)
<1> DEFINE D == job[h].deps
           P == job[h].parents
           ids == IF P # {} THEN D ELSE {}
           adds == P # {}
<1>1. /\ job[h] \in AddJob /\ D \in SUBSET Deployment /\ P \in SUBSET Deployment
      /\ job[h].missing \in SUBSET Label
  BY GroupAddGraph DEF AddJob
<1>2. ids \in SUBSET Deployment /\ ids = GroupAddIds(h)
  BY <1>1 DEF GroupAddIds
<1>3. job' = Overtaking(h, adds, FALSE, Recalc(ids))
  BY DEF GroupAddCommit
<1>4. Recalc(ids) \in Job /\ Recalc(ids).op \in {"idle", "recalc"}
  BY <1>2, RecalcIsJob
<1>5. /\ job' \in [Handler -> Job] /\ job'[h] = Recalc(ids)
      /\ \A k \in Handler \ {h} : Follows(job[k], job'[k], adds, FALSE)
  <2>1. adds \in BOOLEAN /\ FALSE \in BOOLEAN /\ job \in [Handler -> Job]
    BY DEF TypeOK
  <2> HIDE DEF adds, ids
  <2> QED BY <1>3, <1>4, <2>1, OvertakingIsJobs
<1>6. labels' \in [Deployment -> SUBSET Label]
  BY <1>1 DEF GroupAddCommit, TypeOK
<1>7. edges' \in Seq(Deployment \X Deployment) /\ Edges' \subseteq exists' \X exists'
  <2>1. edges' \in Seq(Deployment \X Deployment) /\ Edges' = Edges \cup (D \X P)
    BY GroupAddGraph DEF GraphBecomes
  <2>2. exists' = exists /\ D \cup P \subseteq exists /\ Edges \subseteq exists \X exists
    BY DEF GroupAddCommit, rowVars, Conflicts, CanInsert, TypeOK
  <2> QED BY <2>1, <2>2
<1>8. overtaken' \subseteq {"patch", "group"}
  BY DEF GroupAddCommit, TypeOK
<1>9. members' \subseteq exists'
  BY DEF GroupAddCommit, rowVars, Conflicts, CanInsert, TypeOK
<1>10. lost' \in BOOLEAN
  BY DEF GroupAddCommit, TypeOK
<1>11. UNCHANGED <<rowVars, idds, glabels, requests>>
  BY DEF GroupAddCommit
<1>12. TypeOK'
  BY <1>5, <1>6, <1>7, <1>8, <1>9, <1>10, <1>11 DEF TypeOK, rowVars
<1> QED BY <1>2, <1>4, <1>5, <1>12

LEMMA GroupSetCommitType ==
  ASSUME TypeOK, NEW h \in Handler, GroupSetCommit(h)
  PROVE  /\ TypeOK' /\ job'[h].op \notin {"patch", "add", "set"}
         /\ job'[h] = Recalc(GroupSetIds(h)) /\ GroupSetIds(h) \in SUBSET Deployment
         /\ \A k \in Handler \ {h} :
              Follows(job[k], job'[k], job[h].parents # {}, GroupDropped(h) # {})
<1> DEFINE D == job[h].deps
           P == job[h].parents
           converted == IF EnvLabel \in job[h].create \cup job[h].drop THEN job[h].all ELSE {}
           ids == converted \cup GroupDropped(h) \cup IF P # {} THEN D ELSE {}
           adds == P # {}
           drops == GroupDropped(h) # {}
<1>1. /\ job[h] \in SetJob /\ D \in SUBSET Deployment /\ P \in SUBSET Deployment
      /\ job[h].missing \in SUBSET Label /\ job[h].create \in SUBSET Label
      /\ job[h].all \in SUBSET Deployment /\ GroupDropped(h) \in SUBSET Deployment
  BY GroupSetGraph DEF SetJob
<1>2. ids \in SUBSET Deployment /\ ids = GroupSetIds(h)
  BY <1>1 DEF GroupSetIds
<1>3. job' = Overtaking(h, adds, drops, Recalc(ids))
  BY DEF GroupSetCommit, GroupDropped
<1>4. Recalc(ids) \in Job /\ Recalc(ids).op \in {"idle", "recalc"}
  BY <1>2, RecalcIsJob
<1>5. /\ job' \in [Handler -> Job] /\ job'[h] = Recalc(ids)
      /\ \A k \in Handler \ {h} : Follows(job[k], job'[k], adds, drops)
  <2>1. adds \in BOOLEAN /\ drops \in BOOLEAN /\ job \in [Handler -> Job]
    BY DEF TypeOK
  <2> HIDE DEF adds, drops, ids
  <2> QED BY <1>3, <1>4, <2>1, OvertakingIsJobs
<1> HIDE DEF ids
<1>6. labels' \in [Deployment -> SUBSET Label]
  BY <1>1 DEF GroupSetCommit, TypeOK
<1>7. edges' \in Seq(Deployment \X Deployment) /\ Edges' \subseteq exists' \X exists'
  <2>1. /\ edges' \in Seq(Deployment \X Deployment)
        /\ Edges' = (Edges \cup (D \X P)) \ (job[h].all \X GroupDropped(h))
    BY GroupSetGraph
  <2>2. exists' = exists /\ D \cup P \subseteq exists /\ Edges \subseteq exists \X exists
    BY DEF GroupSetCommit, rowVars, Conflicts, CanInsert, TypeOK
  <2> QED BY <2>1, <2>2
<1>8. overtaken' \subseteq {"patch", "group"}
  BY DEF GroupSetCommit, TypeOK
<1>9. glabels' \subseteq Label
  BY <1>1 DEF GroupSetCommit, TypeOK
<1>10. UNCHANGED <<rowVars, idds, members, requests, lost>>
  BY DEF GroupSetCommit
<1>11. TypeOK'
  BY <1>5, <1>6, <1>7, <1>8, <1>9, <1>10 DEF TypeOK, rowVars
<1> QED BY <1>2, <1>4, <1>5, <1>11

\* The steps that leave the graph and the labels alone.
LEMMA FailsType ==
  ASSUME TypeOK, NEW h \in Handler, Fails(h)
  PROVE  TypeOK' /\ \E j : Sets(h, j)
<1>1. Sets(h, Idle)
  BY RecalcIsJob DEF Sets, Fails, Idle
<1>2. job' \in [Handler -> Job]
  BY <1>1, SetsJob
<1>3. UNCHANGED <<rowVars, graphVars, groupVars, requests, history>>
  BY DEF Fails
<1>4. TypeOK'
  BY <1>2, <1>3, SameTree DEF TypeOK, history
<1> QED BY <1>1, <1>4

LEMMA IddPutType ==
  ASSUME TypeOK, NEW h \in Handler, NEW s, NEW t, IddPut(h, s, t)
  PROVE  TypeOK' /\ \E j : Sets(h, j)
<1> DEFINE j == [op |-> "idd", src |-> s, tgt |-> t]
<1>1. s \in Deployment /\ t \in Deployment
  BY DEF IddPut, TypeOK
<1>2. j \in IddJob /\ j.op \notin {"patch", "add", "set"}
  BY <1>1 DEF IddJob
<1>3. j \in Job
  BY <1>2, JobKinds
<1>4. Sets(h, j)
  BY <1>2, <1>3 DEF Sets, IddPut
<1>5. job' \in [Handler -> Job]
  BY <1>4, SetsJob
<1>6. requests' \in 0..MaxRequests
  BY AskedBound DEF IddPut
<1>7. UNCHANGED <<rowVars, graphVars, groupVars, history>>
  BY DEF IddPut
<1>8. TypeOK'
  BY <1>5, <1>6, <1>7, SameTree DEF TypeOK, history
<1> QED BY <1>4, <1>8

LEMMA IddCommitType ==
  ASSUME TypeOK, NEW h \in Handler, IddCommit(h)
  PROVE  TypeOK' /\ \E j : Sets(h, j)
<1>1. Sets(h, Idle)
  BY RecalcIsJob DEF Sets, IddCommit, Idle
<1>2. job' \in [Handler -> Job]
  BY <1>1, SetsJob
<1>3. idds' \subseteq exists \X exists
  BY DEF IddCommit, TypeOK
<1>4. UNCHANGED <<rowVars, labels, edges, groupVars, requests, history>>
  BY DEF IddCommit
<1>5. TypeOK'
  BY <1>2, <1>3, <1>4 DEF TypeOK, rowVars, groupVars, history, Edges
<1> QED BY <1>1, <1>5

LEMMA IddDeleteType ==
  ASSUME TypeOK, NEW h \in Handler, NEW s, NEW t, IddDelete(h, s, t)
  PROVE  TypeOK'
<1>1. requests' \in 0..MaxRequests
  BY AskedBound DEF IddDelete
<1>2. idds' \subseteq exists \X exists
  BY DEF IddDelete, TypeOK
<1>3. UNCHANGED <<rowVars, labels, edges, groupVars, job, history>>
  BY DEF IddDelete
<1> QED BY <1>1, <1>2, <1>3 DEF TypeOK, rowVars, groupVars, history, Edges

LEMMA RecalcQueryType ==
  ASSUME TypeOK, NEW h \in Handler, RecalcQuery(h)
  PROVE  TypeOK' /\ \E j : Sets(h, j)
<1> DEFINE ids == job[h].ids
           deps == get_dependencies(edges, ids)
           rest == ById(ids \ Range(deps))
           j == [op |-> "lock", todo |-> deps \o rest, held |-> {}, order |-> rest \o deps,
                 stale |-> Uneven(edges, ids)]
<1>1. ids \in SUBSET Deployment /\ Uneven(edges, ids) \in BOOLEAN
  BY JobKind DEF TypeOK, RecalcQuery, RecalcJob, Uneven
<1>2. deps \in Seq(Deployment)
  BY DependenciesAre DEF TypeOK
<1>3. rest \in Seq(Deployment)
  <2>1. ids \ Range(deps) \in SUBSET Deployment
    BY <1>1
  <2> HIDE DEF deps, ids
  <2> QED BY <2>1, ByIdKeeps
<1>4. Sets(h, j)
  <2>1. job' = [job EXCEPT ![h] = j]
    BY DEF RecalcQuery
  <2> HIDE DEF deps, rest
  <2>2. j \in LockJob /\ j.op = "lock"
    BY <1>1, <1>2, <1>3 DEF LockJob
  <2> HIDE DEF j
  <2>3. j \in Job
    BY <2>2, JobKinds
  <2> QED BY <2>1, <2>2, <2>3 DEF Sets
<1> HIDE DEF j
<1>5. job' \in [Handler -> Job]
  BY <1>4, SetsJob
<1>6. UNCHANGED <<rowVars, graphVars, groupVars, requests, history>>
  BY DEF RecalcQuery
<1>7. TypeOK'
  BY <1>5, <1>6, SameTree DEF TypeOK, history
<1> QED BY <1>4, <1>7

LEMMA RecalcLockType ==
  ASSUME TypeOK, NEW h \in Handler, RecalcLock(h)
  PROVE  TypeOK' /\ \E j : Sets(h, j)
<1> DEFINE next == Head(job[h].todo)
           j == [job[h] EXCEPT !.todo = Tail(job[h].todo), !.held = job[h].held \cup {next}]
<1>1. job[h] \in LockJob /\ job[h].todo # <<>>
  BY JobKind DEF TypeOK, RecalcLock
<1>2. next \in Deployment /\ Tail(job[h].todo) \in Seq(Deployment)
  BY <1>1 DEF LockJob
<1>3. j \in LockJob /\ j.op = "lock"
  BY <1>1, <1>2 DEF LockJob
<1>4. job' = [job EXCEPT ![h] = j]
  BY DEF RecalcLock, TypeOK
<1> HIDE DEF j
<1>5. Sets(h, j)
  BY <1>3, <1>4, JobKinds DEF Sets
<1>6. job' \in [Handler -> Job]
  BY <1>5, SetsJob
<1>7. UNCHANGED <<rowVars, graphVars, groupVars, requests, history>>
  BY DEF RecalcLock
<1>8. TypeOK'
  BY <1>6, <1>7, SameTree DEF TypeOK, history
<1> QED BY <1>5, <1>8

LEMMA RecalcCommitType ==
  ASSUME TypeOK, NEW h \in Handler, RecalcCommit(h)
  PROVE  TypeOK' /\ \E j : Sets(h, j)
<1>1. Sets(h, Idle)
  BY RecalcIsJob DEF Sets, RecalcCommit, Idle
<1>2. job' \in [Handler -> Job]
  BY <1>1, SetsJob
<1>3. job[h] \in LockJob
  BY JobKind DEF TypeOK, RecalcCommit
<1>4. job[h].order \in Seq(Deployment) /\ job[h].stale \in BOOLEAN
  BY <1>3 DEF LockJob
<1>5. row' \in [Deployment -> Row]
  <2>1. /\ own \in [Deployment -> DeploymentState] /\ row \in [Deployment -> Row]
        /\ Edges \subseteq Deployment \X Deployment
    BY DEF TypeOK
  <2>2. row' = Resummed(row, job[h].order)
    BY DEF RecalcCommit
  <2> QED BY <1>4, <2>1, <2>2, ResummedAreRows
<1>6. lost' \in BOOLEAN
  BY <1>4 DEF RecalcCommit, TypeOK
<1>7. UNCHANGED <<exists, own, deleting, graphVars, groupVars, requests, overtaken>>
  BY DEF RecalcCommit
<1>8. TypeOK'
  BY <1>2, <1>5, <1>6, <1>7 DEF TypeOK, graphVars, groupVars, Edges
<1> QED BY <1>1, <1>8

LEMMA DeadlockAbortType ==
  ASSUME TypeOK, NEW h \in Handler, DeadlockAbort(h)
  PROVE  TypeOK' /\ \E j : Sets(h, j)
<1>1. Sets(h, Idle)
  BY RecalcIsJob DEF Sets, DeadlockAbort, Idle
<1>2. job' \in [Handler -> Job]
  BY <1>1, SetsJob
<1>3. UNCHANGED <<rowVars, graphVars, groupVars, requests, overtaken>> /\ lost' \in BOOLEAN
  BY DEF DeadlockAbort
<1>4. TypeOK'
  BY <1>2, <1>3, SameTree DEF TypeOK
<1> QED BY <1>1, <1>4

\* A step that leaves deployments, labels and edges alone, and starts no request
\* that changes labels.
Quietly ==
  /\ UNCHANGED <<exists, labels, edges, overtaken>>
  /\ \A k \in Handler : job'[k] = job[k] \/ job'[k].op \notin {"patch", "add", "set"}

LEMMA SetsQuietly ==
  ASSUME TypeOK, NEW h \in Handler, NEW j, Sets(h, j),
         UNCHANGED <<exists, labels, edges, overtaken>>
  PROVE  Quietly
  BY SetsJob DEF Quietly

\* The steps of one handler that change deployments, labels or edges, or start to.
Changes(h) ==
  \/ \E d \in Deployment, L \in LabelSets : d \notin L /\ Patch(h, d, L)
  \/ \E d \in Deployment : GroupAdd(h, d)
  \/ \E L \in LabelSets : GroupSet(h, L)
  \/ PatchCommit(h) \/ GroupAddCommit(h) \/ GroupSetCommit(h)
  \/ \E d \in Deployment : DeleteEnded(h, d)

LEMMA StepKinds ==
  ASSUME TypeOK, [Next]_vars
  PROVE  TypeOK' /\ (Quietly \/ \E h \in Handler : Changes(h))
<1>1. CASE UNCHANGED vars
  <2>1. UNCHANGED <<rowVars, graphVars, groupVars, job, requests, history>>
    BY <1>1 DEF vars, rowVars, graphVars, groupVars, history
  <2>2. TypeOK'
    BY <2>1, SameTree DEF TypeOK, history
  <2>3. Quietly
    BY <2>1 DEF Quietly, rowVars, graphVars, history
  <2> QED BY <2>2, <2>3
<1>2. ASSUME NEW h \in Handler, Request(h) PROVE TypeOK' /\ (Quietly \/ Changes(h))
  <2>1. ASSUME NEW d \in Deployment, NEW L \in LabelSets, d \notin L, Patch(h, d, L)
        PROVE  TypeOK' /\ Changes(h)
    BY <2>1, PatchType DEF Changes
  <2>2. ASSUME NEW d \in Deployment, GroupAdd(h, d) PROVE TypeOK' /\ Changes(h)
    BY <2>2, GroupAddType DEF Changes
  <2>3. ASSUME NEW d \in Deployment, GroupRemove(h, d) PROVE TypeOK' /\ Quietly
    BY <2>3, GroupRemoveType DEF GroupRemove, Quietly, rowVars, graphVars, history
  <2>4. ASSUME NEW d \in Deployment, NEW s \in OwnStates, SetStatus(h, d, s)
        PROVE  TypeOK' /\ Quietly
    <3>1. UNCHANGED <<exists, labels, edges, overtaken>>
      BY <2>4 DEF SetStatus, graphVars, history
    <3> QED BY <2>4, <3>1, SetStatusType, SetsQuietly
  <2>5. ASSUME NEW d \in Deployment, NEW f \in BOOLEAN, NEW r \in BOOLEAN, Delete(h, d, f, r)
        PROVE  TypeOK' /\ Quietly
    BY <2>5, DeleteType DEF Delete, Quietly, graphVars, history
  <2>6. ASSUME NEW L \in LabelSets, GroupSet(h, L) PROVE TypeOK' /\ Changes(h)
    BY <2>6, GroupSetType DEF Changes
  <2>7. ASSUME NEW x \in Dependencies, IddPut(h, x[1], x[2]) PROVE TypeOK' /\ Quietly
    <3>1. UNCHANGED <<exists, labels, edges, overtaken>>
      BY <2>7 DEF IddPut, rowVars, graphVars, history
    <3> QED BY <2>7, <3>1, IddPutType, SetsQuietly
  <2>8. ASSUME NEW x \in Dependencies, IddDelete(h, x[1], x[2]) PROVE TypeOK' /\ Quietly
    BY <2>8, IddDeleteType DEF IddDelete, Quietly, rowVars, history
  <2>9. ASSUME NEW d \in Deployment, NEW s \in OwnStates, Cancel(h, d, s)
        PROVE  TypeOK' /\ Quietly
    BY <2>9, CancelType DEF Cancel, Quietly, graphVars
  <2>10. ASSUME NEW d \in Deployment, NEW f \in BOOLEAN, NEW r \in BOOLEAN,
                DeleteRefused(h, d, f, r)
         PROVE  TypeOK' /\ Quietly
    BY <2>10, DeleteRefusedType DEF DeleteRefused, Quietly, graphVars
  <2> QED BY <1>2, <2>1, <2>2, <2>3, <2>4, <2>5, <2>6, <2>7, <2>8, <2>9, <2>10 DEF Request
<1>3. ASSUME NEW h \in Handler, DeleteStep(h) PROVE TypeOK' /\ (Quietly \/ Changes(h))
  <2>1. ASSUME NEW d \in Deployment, DeleteStarted(h, d) PROVE TypeOK' /\ Quietly
    <3>1. UNCHANGED <<exists, labels, edges, overtaken>>
      BY <2>1 DEF DeleteStarted, graphVars, history
    <3> QED BY <2>1, <3>1, DeleteStartedType, SetsQuietly
  <2>2. ASSUME NEW d \in Deployment, DeleteFailed(h, d) PROVE TypeOK' /\ Quietly
    <3>1. UNCHANGED <<exists, labels, edges, overtaken>>
      BY <2>2 DEF DeleteFailed, graphVars, history
    <3> QED BY <2>2, <3>1, DeleteFailedType, SetsQuietly
  <2>3. ASSUME NEW d \in Deployment, DeleteEnded(h, d) PROVE TypeOK' /\ Changes(h)
    BY <2>3, DeleteEndedType DEF Changes
  <2> QED BY <1>3, <2>1, <2>2, <2>3 DEF DeleteStep
<1>4. ASSUME NEW h \in Handler, Work(h) PROVE TypeOK' /\ (Quietly \/ Changes(h))
  <2>1. ASSUME PatchCommit(h) PROVE TypeOK' /\ Changes(h)
    BY <2>1, PatchCommitType DEF Changes
  <2>2. ASSUME GroupAddCommit(h) PROVE TypeOK' /\ Changes(h)
    BY <2>2, GroupAddCommitType DEF Changes
  <2>3. ASSUME GroupSetCommit(h) PROVE TypeOK' /\ Changes(h)
    BY <2>3, GroupSetCommitType DEF Changes
  <2>4. ASSUME Fails(h) PROVE TypeOK' /\ Quietly
    <3>1. UNCHANGED <<exists, labels, edges, overtaken>>
      BY <2>4 DEF Fails, rowVars, graphVars, history
    <3> QED BY <2>4, <3>1, FailsType, SetsQuietly
  <2>5. ASSUME IddCommit(h) PROVE TypeOK' /\ Quietly
    <3>1. UNCHANGED <<exists, labels, edges, overtaken>>
      BY <2>5 DEF IddCommit, rowVars, history
    <3> QED BY <2>5, <3>1, IddCommitType, SetsQuietly
  <2>6. ASSUME RecalcQuery(h) PROVE TypeOK' /\ Quietly
    <3>1. UNCHANGED <<exists, labels, edges, overtaken>>
      BY <2>6 DEF RecalcQuery, rowVars, graphVars, history
    <3> QED BY <2>6, <3>1, RecalcQueryType, SetsQuietly
  <2>7. ASSUME RecalcLock(h) PROVE TypeOK' /\ Quietly
    <3>1. UNCHANGED <<exists, labels, edges, overtaken>>
      BY <2>7 DEF RecalcLock, rowVars, graphVars, history
    <3> QED BY <2>7, <3>1, RecalcLockType, SetsQuietly
  <2>8. ASSUME RecalcCommit(h) PROVE TypeOK' /\ Quietly
    <3>1. UNCHANGED <<exists, labels, edges, overtaken>>
      BY <2>8 DEF RecalcCommit, graphVars
    <3> QED BY <2>8, <3>1, RecalcCommitType, SetsQuietly
  <2>9. ASSUME DeadlockAbort(h) PROVE TypeOK' /\ Quietly
    <3>1. UNCHANGED <<exists, labels, edges, overtaken>>
      BY <2>9 DEF DeadlockAbort, rowVars, graphVars
    <3> QED BY <2>9, <3>1, DeadlockAbortType, SetsQuietly
  <2> QED BY <1>4, <2>1, <2>2, <2>3, <2>4, <2>5, <2>6, <2>7, <2>8, <2>9 DEF Work
<1> QED BY <1>1, <1>2, <1>3, <1>4 DEF Next

\* The variables of the tree keep their types.
THEOREM TypeCorrect == Spec => []TypeOK
<1>1. TypeOK /\ [Next]_vars => TypeOK'
  BY StepKinds
<1> QED BY <1>1, InitTypeOK, PTL DEF Spec

-----------------------------------------------------------------------------
(* Requests fit the labels and the graph they are about. *)

PatchFits(j, E, L) ==
  /\ j.dep \notin j.add
  /\ j.add \cap (j.drop \cup L[j.dep]) = {}
  /\ ~ j.child => Parents((L[j.dep] \cup j.add) \ j.drop) = {}
  /\ \A p \in Parents(j.add) : <<p, j.dep>> \notin E
  /\ ~ j.stale => Checked({j.dep}, Parents(j.add), E \ ({j.dep} \X Parents(j.drop)))

AddFits(j, E) ==
  /\ j.parents = Parents(j.missing)
  /\ ~ j.stale => Checked(j.deps, j.parents, E)

SetFits(j, E, L, X) ==
  /\ j.deps \subseteq j.all /\ j.missing \subseteq j.create /\ j.create \cap j.drop = {}
  /\ j.parents = IF j.deps = {} THEN {} ELSE Parents(j.create)
  /\ ~ j.stale =>
       /\ Checked(j.deps, j.parents, E)
       /\ \A d \in j.deps \cap X, p \in j.parents \cap X : p \in j.missing \cup L[d]

Fits(j, E, L, X) ==
  /\ j.op = "patch" => PatchFits(j, E, L)
  /\ j.op = "add" => AddFits(j, E)
  /\ j.op = "set" => SetFits(j, E, L, X)

LEMMA StaysFit ==
  ASSUME NEW j \in Job, NEW k, NEW adds \in BOOLEAN, NEW drops \in BOOLEAN,
         Follows(j, k, adds, drops),
         NEW E, NEW F, ~ adds => F \subseteq E,
         NEW L, NEW M, NEW X, NEW Y, Y \subseteq X,
         ~ drops => \A d \in Y, p \in Y : p \in L[d] => p \in M[d],
         j.op = "patch" =>
           /\ M[j.dep] \subseteq L[j.dep]
           /\ \A p \in Parents(j.add) : <<p, j.dep>> \in F => <<p, j.dep>> \in E,
         Fits(j, E, L, X)
  PROVE  Fits(k, F, M, Y)
<1>1. CASE j.op \notin {"patch", "add", "set"}
  <2>1. k.op = j.op
    BY StaleIsJob DEF Follows
  <2> QED BY <1>1, <2>1 DEF Fits
<1>2. CASE j.op = "patch"
  <2>1. j \in PatchJob
    BY <1>2, JobKind
  <2>2. /\ k.op = "patch" /\ k.dep = j.dep /\ k.add = j.add /\ k.drop = j.drop
        /\ k.child = j.child
        /\ (~ k.stale => ~ j.stale /\ ~ adds)
    BY <1>2, <2>1 DEF Follows, PatchJob
  <2> DEFINE Z == {j.dep} \X Parents(j.drop)
  <2>3. ASSUME ~ k.stale PROVE Checked({k.dep}, Parents(k.add), F \ Z)
    <3>1. Checked({j.dep}, Parents(j.add), E \ Z) /\ F \ Z \subseteq E \ Z
      BY <1>2, <2>2, <2>3 DEF Fits, PatchFits
    <3> HIDE DEF Z
    <3>2. Checked({j.dep}, Parents(j.add), F \ Z)
      BY <3>1, RankedFewer
    <3> QED BY <2>2, <3>2
  <2>4. /\ j.dep \notin j.add /\ j.add \cap (j.drop \cup L[j.dep]) = {}
        /\ \A p \in Parents(j.add) : <<p, j.dep>> \notin E
        /\ ~ j.child => Parents((L[j.dep] \cup j.add) \ j.drop) = {}
    BY <1>2 DEF Fits, PatchFits
  <2>5. /\ k.add \cap (k.drop \cup M[k.dep]) = {} /\ k.dep \notin k.add
        /\ ~ k.child => Parents((M[k.dep] \cup k.add) \ k.drop) = {}
    BY <1>2, <2>2, <2>4 DEF Parents
  <2>6. \A p \in Parents(k.add) : <<p, k.dep>> \notin F
    BY <1>2, <2>2, <2>4
  <2>7. PatchFits(k, F, M)
    BY <2>2, <2>3, <2>5, <2>6 DEF PatchFits
  <2> QED BY <2>2, <2>7 DEF Fits
<1>3. CASE j.op = "add"
  <2>1. j \in AddJob
    BY <1>3, JobKind
  <2>2. /\ k.op = "add" /\ k.deps = j.deps /\ k.parents = j.parents /\ k.missing = j.missing
        /\ (~ k.stale => ~ j.stale /\ ~ adds)
    BY <1>3, <2>1 DEF Follows, AddJob
  <2>3. ASSUME ~ k.stale PROVE Checked(k.deps, k.parents, F)
    <3>1. Checked(j.deps, j.parents, E) /\ F \subseteq E
      BY <1>3, <2>2, <2>3 DEF Fits, AddFits
    <3>2. Checked(j.deps, j.parents, F)
      BY <3>1, RankedFewer
    <3> QED BY <2>2, <3>2
  <2>4. AddFits(k, F)
    BY <1>3, <2>2, <2>3 DEF Fits, AddFits
  <2> QED BY <2>2, <2>4 DEF Fits
<1>4. CASE j.op = "set"
  <2>1. j \in SetJob
    BY <1>4, JobKind
  <2>2. /\ k.op = "set" /\ k.deps = j.deps /\ k.parents = j.parents /\ k.missing = j.missing
        /\ k.create = j.create /\ k.drop = j.drop /\ k.all = j.all
        /\ (~ k.stale => ~ j.stale /\ ~ adds /\ ~ drops)
    BY <1>4, <2>1 DEF Follows, SetJob
  <2>3. SetFits(j, E, L, X)
    BY <1>4 DEF Fits
  <2>4. ASSUME ~ k.stale PROVE Checked(k.deps, k.parents, F)
    <3>1. Checked(j.deps, j.parents, E) /\ F \subseteq E
      BY <2>2, <2>3, <2>4 DEF SetFits
    <3>2. Checked(j.deps, j.parents, F)
      BY <3>1, RankedFewer
    <3> QED BY <2>2, <3>2
  <2>5. ASSUME ~ k.stale, NEW d \in k.deps \cap Y, NEW p \in k.parents \cap Y
        PROVE  p \in k.missing \cup M[d]
    <3>1. d \in j.deps \cap X /\ p \in j.parents \cap X /\ d \in Y /\ p \in Y
      BY <2>2
    <3>2. p \in j.missing \cup L[d]
      BY <2>2, <2>3, <2>5, <3>1 DEF SetFits
    <3>3. ~ drops
      BY <2>2, <2>5
    <3> QED BY <2>2, <3>1, <3>2, <3>3
  <2>6. /\ k.deps \subseteq k.all /\ k.missing \subseteq k.create /\ k.create \cap k.drop = {}
        /\ k.parents = IF k.deps = {} THEN {} ELSE Parents(k.create)
    BY <2>2, <2>3 DEF SetFits
  <2>7. SetFits(k, F, M, Y)
    BY <2>4, <2>5, <2>6 DEF SetFits
  <2> QED BY <2>2, <2>7 DEF Fits
<1> QED BY <1>1, <1>2, <1>3, <1>4

-----------------------------------------------------------------------------
(* The inductive invariant. *)

\* What requests are about fits labels and edges until they are marked stale.
Fit == \A h \in Handler : Fits(job[h], Edges, labels, exists)

\* No two requests patch one deployment.
PatchesApart ==
  \A h, k \in Handler :
    h # k /\ job[h].op = "patch" /\ job[k].op = "patch" => job[h].dep # job[k].dep

\* The edges that labels name.
Named(L, X) == {x \in X \X X : x[2] \in L[x[1]]}
Matching ==
  /\ Named(labels, exists) \subseteq Edges
  /\ "group" \notin overtaken => Edges = Named(labels, exists)
  /\ IsInjective(edges)

\* Edges have a rank, and no two of them are opposite.
NoOpposites(E) == \A e \in E : <<e[2], e[1]>> \notin E
Rising ==
  /\ overtaken = {} => Ranked(Edges)
  /\ "group" \notin overtaken => NoOpposites(Edges)

TreeInv == TypeOK /\ Fit /\ PatchesApart /\ Matching /\ Rising

LEMMA FollowsItself ==
  ASSUME NEW j
  PROVE  Follows(j, j, FALSE, FALSE)
  BY DEF Follows

\* The patches of others stay what they are.
LEMMA FollowsPatch ==
  ASSUME NEW j \in Job, NEW k, NEW adds, NEW drops, Follows(j, k, adds, drops), k.op = "patch"
  PROVE  j.op = "patch" /\ k.dep = j.dep
<1>1. CASE k = j
  BY <1>1
<1>2. CASE j.op \in {"patch", "add", "set", "lock"} /\ k = [j EXCEPT !.stale = TRUE]
  <2>1. j.op = "patch"
    BY <1>2, StaleIsJob
  <2>2. j \in PatchJob
    BY <2>1, JobKind
  <2> QED BY <1>2, <2>1, <2>2 DEF PatchJob
<1> QED BY <1>1, <1>2 DEF Follows

LEMMA ApartKept ==
  ASSUME TypeOK, PatchesApart, NEW h \in Handler, NEW adds, NEW drops,
         \A k \in Handler \ {h} : Follows(job[k], job'[k], adds, drops),
         job'[h].op = "patch" =>
           \A k \in Handler \ {h} : job[k].op = "patch" => job[k].dep # job'[h].dep
  PROVE  PatchesApart'
<1>1. ASSUME NEW k \in Handler \ {h}, job'[k].op = "patch"
      PROVE  job[k].op = "patch" /\ job'[k].dep = job[k].dep
  <2>1. job[k] \in Job /\ Follows(job[k], job'[k], adds, drops)
    BY DEF TypeOK
  <2> QED BY <1>1, <2>1, FollowsPatch
<1>2. ASSUME NEW a \in Handler, NEW b \in Handler, a # b,
             job'[a].op = "patch", job'[b].op = "patch"
      PROVE  job'[a].dep # job'[b].dep
  <2>1. CASE a # h /\ b # h
    BY <1>1, <1>2, <2>1 DEF PatchesApart
  <2>2. CASE a = h
    BY <1>1, <1>2, <2>2
  <2>3. CASE b = h
    BY <1>1, <1>2, <2>3
  <2> QED BY <2>1, <2>2, <2>3
<1> QED BY <1>2 DEF PatchesApart

LEMMA FitKept ==
  ASSUME TypeOK, Fit, NEW h \in Handler, NEW adds \in BOOLEAN, NEW drops \in BOOLEAN,
         \A k \in Handler \ {h} : Follows(job[k], job'[k], adds, drops),
         ~ adds => Edges' \subseteq Edges, exists' \subseteq exists,
         ~ drops => \A d \in exists', p \in exists' : p \in labels[d] => p \in labels'[d],
         \A k \in Handler \ {h} : job[k].op = "patch" =>
           /\ labels'[job[k].dep] \subseteq labels[job[k].dep]
           /\ \A p \in Parents(job[k].add) :
                <<p, job[k].dep>> \in Edges' => <<p, job[k].dep>> \in Edges,
         Fits(job'[h], Edges', labels', exists')
  PROVE  Fit'
<1>1. ASSUME NEW k \in Handler \ {h} PROVE Fits(job'[k], Edges', labels', exists')
  <2>1. /\ job[k] \in Job /\ Follows(job[k], job'[k], adds, drops)
        /\ Fits(job[k], Edges, labels, exists)
    BY DEF TypeOK, Fit
  <2>2. job[k].op = "patch" =>
          /\ labels'[job[k].dep] \subseteq labels[job[k].dep]
          /\ \A p \in Parents(job[k].add) :
               <<p, job[k].dep>> \in Edges' => <<p, job[k].dep>> \in Edges
    OBVIOUS
  <2> DEFINE E == Edges
             F == Edges'
             L == labels
             M == labels'
             X == exists
             Y == exists'
             j == job[k]
             i == job'[k]
  <2>3. /\ j \in Job /\ Follows(j, i, adds, drops) /\ Fits(j, E, L, X)
        /\ ~ adds => F \subseteq E
        /\ Y \subseteq X
        /\ ~ drops => \A d \in Y, p \in Y : p \in L[d] => p \in M[d]
        /\ j.op = "patch" =>
             /\ M[j.dep] \subseteq L[j.dep]
             /\ \A p \in Parents(j.add) : <<p, j.dep>> \in F => <<p, j.dep>> \in E
    BY <2>1, <2>2
  <2>4. Fits(i, F, M, Y)
    <3> HIDE DEF E, F, L, M, X, Y, j, i
    <3> QED BY <2>3, StaysFit
  <2> QED BY <2>4
<1> QED BY <1>1 DEF Fit

LEMMA QuietlyKeeps ==
  ASSUME TreeInv, TypeOK', Quietly
  PROVE  TreeInv'
<1>1. Edges' = Edges /\ UNCHANGED <<exists, labels, edges, overtaken>>
  BY DEF Quietly, Edges
<1>2. Fit'
  <2> SUFFICES ASSUME NEW k \in Handler PROVE Fits(job'[k], Edges', labels', exists')
    BY DEF Fit
  <2>1. CASE job'[k] = job[k]
    BY <1>1, <2>1 DEF TreeInv, Fit
  <2>2. CASE job'[k].op \notin {"patch", "add", "set"}
    BY <2>2 DEF Fits
  <2> QED BY <2>1, <2>2 DEF Quietly
<1>3. PatchesApart'
  BY DEF Quietly, PatchesApart, TreeInv
<1>4. Matching' /\ Rising'
  BY <1>1 DEF TreeInv, Matching, Rising
<1> QED BY <1>2, <1>3, <1>4 DEF TreeInv

LEMMA SameGraph ==
  ASSUME TreeInv, UNCHANGED <<rowVars, graphVars, groupVars, history>>
  PROVE  /\ Matching' /\ Rising' /\ Edges' = Edges /\ labels' = labels
         /\ exists' = exists
  BY DEF TreeInv, Matching, Rising, rowVars, graphVars, groupVars, history, Edges

\* A request that only starts leaves the others as they fit.
LEMMA StartKeeps ==
  ASSUME TreeInv, TypeOK', NEW h \in Handler,
         UNCHANGED <<rowVars, graphVars, groupVars, history>>,
         \A k \in Handler \ {h} : job'[k] = job[k],
         job'[h].op = "patch" =>
           \A k \in Handler \ {h} : job[k].op = "patch" => job[k].dep # job'[h].dep,
         Fits(job'[h], Edges, labels, exists)
  PROVE  TreeInv'
<1>1. /\ Matching' /\ Rising' /\ Edges' = Edges /\ labels' = labels
      /\ exists' = exists
  BY SameGraph
<1>2. Fit'
  <2> SUFFICES ASSUME NEW k \in Handler PROVE Fits(job'[k], Edges', labels', exists')
    BY DEF Fit
  <2>1. CASE k = h
    BY <1>1, <2>1
  <2>2. CASE k # h
    BY <1>1, <2>2 DEF TreeInv, Fit
  <2> QED BY <2>1, <2>2
<1>3. PatchesApart'
  <2>1. \A k \in Handler \ {h} : Follows(job[k], job'[k], FALSE, FALSE)
    BY FollowsItself
  <2> QED BY <2>1, ApartKept DEF TreeInv
<1> QED BY <1>1, <1>2, <1>3 DEF TreeInv

LEMMA PatchKeeps ==
  ASSUME TreeInv, NEW h \in Handler, NEW d \in Deployment, NEW L \in LabelSets, d \notin L,
         Patch(h, d, L)
  PROVE  TreeInv'
<1> DEFINE j == job'[h]
           add == L \ labels[d]
           drop == labels[d] \ L
           E == Edges \ ({d} \X Parents(drop))
<1>1. /\ TypeOK /\ TypeOK'
      /\ j.op = "patch" /\ j.dep = d /\ j.add = add /\ j.drop = drop /\ j.stale = FALSE
      /\ j.child = (Parents(L) # {})
      /\ \A k \in Handler \ {h} : job'[k] = job[k]
  <2>1. TypeOK
    BY DEF TreeInv
  <2>2. /\ TypeOK'
        /\ job'[h] = [op |-> "patch", dep |-> d, add |-> add, drop |-> drop,
                      child |-> Parents(L) # {}, stale |-> FALSE]
        /\ \A k \in Handler \ {h} : job'[k] = job[k]
    BY <2>1, PatchType
  <2> HIDE DEF add, drop
  <2> QED BY <2>1, <2>2
<1>2. UNCHANGED <<rowVars, graphVars, groupVars, history>> /\ Free(h, {d}, TRUE)
  BY DEF Patch
<1>3. Parents(add) \in SUBSET Deployment
  <2>1. add \in SUBSET Label
    BY TreeAssumption
  <2> QED BY <2>1, ParentsAre
<1>4. Checked({d}, Parents(add), E)
  <2> DEFINE es == Without(edges, {d}, Parents(drop))
  <2>1. es \in Seq(Deployment \X Deployment) /\ Range(es) = E
    <3>1. edges \in Seq(Deployment \X Deployment)
      BY <1>1 DEF TypeOK
    <3>2. \A P : /\ Without(edges, {d}, P) \in Seq(Deployment \X Deployment)
                 /\ Range(Without(edges, {d}, P)) = Range(edges) \ ({d} \X P)
      BY <3>1, WithoutIs, SMTT(30)
    <3> HIDE DEF drop
    <3> QED BY <3>2 DEF Edges
  <2>2. CanBeAdded(es, {d}, Parents(add))
    BY DEF Patch
  <2> HIDE DEF es, E, add
  <2>3. Checked({d}, Parents(add), Range(es))
    BY <1>3, <2>1, <2>2, AddedIsChecked
  <2> QED BY <2>1, <2>3
<1>5. \A p \in Parents(add) : <<p, d>> \notin Edges
  <2> SUFFICES ASSUME NEW p \in Parents(add), <<p, d>> \in Edges PROVE FALSE
    OBVIOUS
  <2>1. PICK U \in SUBSET Deployment : Parents(add) \subseteq U /\ {d} \cap U = {} /\ Closed(U, E)
    BY <1>4 DEF Checked
  <2>2. p \in U /\ d \notin U /\ p # d
    BY <2>1
  <2>3. <<p, d>> \in E
    BY <2>2
  <2>4. <<p, d>>[1] \in U => <<p, d>>[2] \in U
    BY <2>1, <2>3 DEF Closed
  <2> QED BY <2>2, <2>4
<1>6. /\ d \notin add /\ add \cap (drop \cup labels[d]) = {}
      /\ (labels[d] \cup add) \ drop = L
  OBVIOUS
<1>7. Fits(j, Edges, labels, exists)
  <2> HIDE DEF add, drop, j
  <2>1. PatchFits(j, Edges, labels)
    BY <1>1, <1>4, <1>5, <1>6 DEF PatchFits
  <2> QED BY <1>1, <2>1 DEF Fits
<1>8. \A k \in Handler \ {h} : job[k].op = "patch" => job[k].dep # j.dep
  <2>1. \A k \in Handler \ {h} : job[k].op = "patch" => job[k].dep \notin {d}
    BY <1>2, FreeFromPatches
  <2> QED BY <1>1, <2>1
<1> QED BY <1>1, <1>2, <1>7, <1>8, StartKeeps

LEMMA GroupAddKeeps ==
  ASSUME TreeInv, NEW h \in Handler, NEW d \in Deployment, GroupAdd(h, d)
  PROVE  TreeInv'
<1> DEFINE j == job'[h]
           new == glabels \ labels[d]
<1>1. /\ TypeOK /\ TypeOK' /\ j \in AddJob
      /\ j.op = "add" /\ j.deps = {d} /\ j.parents = Parents(new) /\ j.missing = new
      /\ \A k \in Handler \ {h} : job'[k] = job[k]
  <2>1. TypeOK
    BY DEF TreeInv
  <2>2. /\ TypeOK' /\ job'[h] \in AddJob
        /\ job'[h] = [op |-> "add", deps |-> {d}, parents |-> Parents(new),
                      missing |-> new, stale |-> FALSE]
        /\ \A k \in Handler \ {h} : job'[k] = job[k]
    BY <2>1, GroupAddType
  <2> HIDE DEF new
  <2> QED BY <2>1, <2>2
<1>2. UNCHANGED <<rowVars, graphVars, groupVars, history>>
  BY DEF GroupAdd
<1>3. Checked({d}, Parents(new), Edges)
  <2>1. CanBeAdded(edges, {d}, Parents(new)) /\ edges \in Seq(Deployment \X Deployment)
    BY <1>1 DEF GroupAdd, TypeOK
  <2>2. Parents(new) \in SUBSET Deployment
    BY <1>1 DEF AddJob
  <2> HIDE DEF new
  <2> QED BY <2>1, <2>2, AddedIsChecked DEF Edges
<1>4. Fits(j, Edges, labels, exists)
  <2> HIDE DEF new, j
  <2>1. AddFits(j, Edges)
    BY <1>1, <1>3 DEF AddFits
  <2> QED BY <1>1, <2>1 DEF Fits
<1> QED BY <1>1, <1>2, <1>4, StartKeeps

LEMMA GroupSetKeeps ==
  ASSUME TreeInv, NEW h \in Handler, NEW L \in LabelSets, GroupSet(h, L)
  PROVE  TreeInv'
<1> DEFINE j == job'[h]
<1>1. /\ TypeOK /\ TypeOK' /\ j \in SetJob /\ j = SetOf(L)
      /\ \A k \in Handler \ {h} : job'[k] = job[k]
  BY GroupSetType DEF TreeInv
<1>2. UNCHANGED <<rowVars, graphVars, groupVars, history>>
  BY DEF GroupSet
<1>3. /\ j.op = "set" /\ j.create = L \ glabels /\ j.drop = glabels \ L /\ j.all = members
      /\ j.deps = {d \in members : ~ (j.create \subseteq labels[d])}
      /\ j.parents = IF j.deps = {} THEN {} ELSE Parents(j.create)
      /\ j.missing = {l \in j.create : \E d \in members : l \notin labels[d]}
  BY <1>1 DEF SetOf
<1>4. CanBeAdded(edges, j.deps, j.parents)
  <2> DEFINE create == L \ glabels
             deps == {d \in members : ~ create \subseteq labels[d]}
             parents == IF deps = {} THEN {} ELSE Parents(create)
  <2>1. CanBeAdded(edges, deps, parents)
    BY DEF GroupSet
  <2>2. j.deps = deps /\ j.parents = parents
    BY <1>3
  <2> HIDE DEF deps, parents
  <2> QED BY <2>1, <2>2
<1> HIDE DEF j
<1>5. Checked(j.deps, j.parents, Edges)
  <2>1. edges \in Seq(Deployment \X Deployment) /\ j.parents \in SUBSET Deployment
    BY <1>1 DEF TypeOK, SetJob
  <2> QED BY <1>4, <2>1, AddedIsChecked DEF Edges
<1>6. \A d \in j.deps \cap exists, p \in j.parents \cap exists : p \in j.missing \cup labels[d]
  BY <1>3 DEF Parents
<1>7. /\ j.deps \subseteq j.all /\ j.missing \subseteq j.create /\ j.create \cap j.drop = {}
  BY <1>3
<1>8. Fits(j, Edges, labels, exists)
  <2>1. SetFits(j, Edges, labels, exists)
    BY <1>3, <1>5, <1>6, <1>7 DEF SetFits
  <2> QED BY <1>3, <2>1 DEF Fits
<1> QED BY <1>1, <1>2, <1>3, <1>8, StartKeeps DEF j

\* Edges that have been checked are opposite to none.
LEMMA CheckedNoOpposites ==
  ASSUME NEW X, NEW E, E \subseteq X \X X, NoOpposites(E), NEW D, NEW P, Checked(D, P, E)
  PROVE  NoOpposites(E \cup (D \X P))
<1> SUFFICES ASSUME NEW e \in E \cup (D \X P), <<e[2], e[1]>> \in E \cup (D \X P)
             PROVE  FALSE
  BY DEF NoOpposites
<1>1. PICK U \in SUBSET Deployment : P \subseteq U /\ D \cap U = {} /\ Closed(U, E)
  BY DEF Checked
<1>2. PICK a, b : e = <<a, b>>
  OBVIOUS
<1>3. /\ <<a, b>> \in E \/ (a \in D /\ b \in P)
      /\ <<b, a>> \in E \/ (b \in D /\ a \in P)
  BY <1>2
<1>4. \A x, y : <<x, y>> \in E => <<y, x>> \notin E /\ (x \in U => y \in U)
  <2> SUFFICES ASSUME NEW x, NEW y, <<x, y>> \in E
               PROVE  <<y, x>> \notin E /\ (x \in U => y \in U)
    OBVIOUS
  <2>1. <<x, y>>[1] = x /\ <<x, y>>[2] = y
    OBVIOUS
  <2> QED BY <1>1, <2>1 DEF NoOpposites, Closed
<1> QED BY <1>1, <1>3, <1>4

LEMMA PatchCommitKeeps ==
  ASSUME TreeInv, NEW h \in Handler, PatchCommit(h)
  PROVE  TreeInv'
<1> DEFINE j == job[h]
           d == j.dep
           A == Added(h)
           Q == Dropped(h)
           Z == {d} \X Q
<1>1. /\ TypeOK /\ Fit /\ PatchesApart /\ Matching /\ Rising
  BY DEF TreeInv
<1>2. /\ TypeOK' /\ job'[h].op \notin {"patch", "add", "set"}
      /\ \A k \in Handler \ {h} : Follows(job[k], job'[k], A # {}, Q # {})
  BY <1>1, PatchCommitType
<1>3. /\ j \in PatchJob /\ A \in SUBSET Deployment /\ Q \in SUBSET Deployment
      /\ Edges' = (Edges \ Z) \cup ({d} \X A) /\ IsInjective(edges')
  BY <1>1, PatchGraph DEF GraphBecomes, Matching
<1>4. /\ d \in Deployment /\ j.add \in SUBSET Label /\ j.drop \in SUBSET Label
      /\ A = j.add \cap Deployment /\ Q = j.drop \cap Deployment
      /\ A = Parents(j.add) /\ Q = Parents(j.drop)
  BY <1>3, ParentsAre DEF PatchJob, Added, Dropped
<1>5. /\ exists' = exists /\ d \in exists /\ A \subseteq exists /\ Free(h, A, FALSE)
      /\ labels' = [labels EXCEPT ![d] = (labels[d] \cup j.add) \ j.drop]
      /\ overtaken' = IF j.stale /\ A # {} THEN overtaken \cup {"patch"} ELSE overtaken
  BY DEF PatchCommit, rowVars, CanInsert, Added
<1>6. PatchFits(j, Edges, labels)
  <2>1. j.op = "patch"
    BY DEF PatchCommit
  <2> QED BY <1>1, <2>1 DEF Fit, Fits
<1>7. /\ d \notin j.add /\ j.add \cap j.drop = {} /\ j.add \cap labels[d] = {}
      /\ \A p \in A : <<p, d>> \notin Edges
      /\ ~ j.stale => Checked({d}, A, Edges \ Z)
  BY <1>4, <1>6 DEF PatchFits
<1>8. /\ exists \subseteq Deployment /\ labels \in [Deployment -> SUBSET Label]
      /\ Edges \subseteq exists \X exists
  BY <1>1 DEF TypeOK
<1>9. /\ \A c \in Deployment : c # d => labels'[c] = labels[c]
      /\ labels'[d] = (labels[d] \cup j.add) \ j.drop
  BY <1>4, <1>5, <1>8
<1> HIDE DEF j, d, A, Q
<1>10. Fit'
  <2> DEFINE adds == A # {}
             drops == Q # {}
  <2>1. adds \in BOOLEAN /\ drops \in BOOLEAN
    OBVIOUS
  <2>2. ~ adds => Edges' \subseteq Edges
    BY <1>3
  <2>3. ~ drops => \A c \in exists', p \in exists' : p \in labels[c] => p \in labels'[c]
    BY <1>4, <1>5, <1>8, <1>9
  <2>4. ASSUME NEW k \in Handler \ {h}, job[k].op = "patch"
        PROVE  /\ labels'[job[k].dep] \subseteq labels[job[k].dep]
               /\ \A p \in Parents(job[k].add) :
                    <<p, job[k].dep>> \in Edges' => <<p, job[k].dep>> \in Edges
    <3>1. job[k].dep # d
      <4>1. job[h].op = "patch"
        BY DEF PatchCommit
      <4> QED BY <1>1, <2>4, <4>1 DEF PatchesApart, d, j
    <3>2. job[k].dep \in Deployment
      <4>1. job[k] \in Job
        BY <1>1 DEF TypeOK
      <4> QED BY <2>4, <4>1, JobKind DEF PatchJob
    <3>3. job[k].dep \notin A
      BY <1>5, <2>4, FreeFromPatches
    <3> QED BY <1>3, <1>9, <3>1, <3>2, <3>3
  <2>5. Fits(job'[h], Edges', labels', exists')
    BY <1>2 DEF Fits
  <2>6. exists' \subseteq exists /\ \A k \in Handler \ {h} : Follows(job[k], job'[k], adds, drops)
    BY <1>2, <1>5
  <2> HIDE DEF adds, drops
  <2> QED BY <1>1, <2>1, <2>2, <2>3, <2>4, <2>5, <2>6, FitKept
<1>11. PatchesApart'
  BY <1>1, <1>2, ApartKept
<1>12. Matching'
  <2>1. \A x \in exists \X exists :
          x \in Named(labels', exists) <=>
            (x \in Named(labels, exists) /\ x \notin Z) \/ x \in {d} \X A
    <3> SUFFICES ASSUME NEW a \in exists, NEW b \in exists
                 PROVE  b \in labels'[a] <=>
                          (b \in labels[a] /\ ~ (a = d /\ b \in Q)) \/ (a = d /\ b \in A)
      BY DEF Named
    <3> QED BY <1>4, <1>7, <1>8, <1>9
  <2>2. {d} \X A \subseteq exists \X exists
    BY <1>5
  <2>3. Named(labels', exists) \subseteq exists \X exists /\ Named(labels, exists) \subseteq exists \X exists
    BY DEF Named
  <2>4. Named(labels', exists) = (Named(labels, exists) \ Z) \cup ({d} \X A)
    <3> HIDE DEF Z
    <3> DEFINE N == Named(labels, exists)
               M == Named(labels', exists)
               W == {d} \X A
               X == exists \X exists
    <3>1. /\ \A x \in X : x \in M <=> (x \in N /\ x \notin Z) \/ x \in W
          /\ W \subseteq X /\ M \subseteq X /\ N \subseteq X
      BY <2>1, <2>2, <2>3
    <3>2. M = (N \ Z) \cup W
      <4> HIDE DEF N, M, W, X
      <4> QED BY <3>1
    <3> QED BY <3>2
  <2>5. Named(labels, exists) \subseteq Edges /\ ("group" \notin overtaken => Edges = Named(labels, exists))
    BY <1>1 DEF Matching
  <2>6. "group" \notin overtaken' => "group" \notin overtaken
    BY <1>5
  <2> HIDE DEF Z
  <2>7. Named(labels', exists) \subseteq Edges'
    BY <1>3, <2>4, <2>5
  <2>8. "group" \notin overtaken' => Edges' = Named(labels', exists)
    BY <1>3, <2>4, <2>5, <2>6
  <2> QED BY <1>3, <1>5, <2>7, <2>8 DEF Matching
<1>13. overtaken' = {} => Ranked(Edges')
  <2> SUFFICES ASSUME overtaken' = {} PROVE Ranked(Edges')
    OBVIOUS
  <2>1. overtaken = {} /\ (~ j.stale \/ A = {})
    BY <1>5
  <2>2. Ranked(Edges \ Z)
    <3>1. Ranked(Edges) /\ Edges \ Z \subseteq Edges
      BY <1>1, <2>1 DEF Rising
    <3> HIDE DEF Z
    <3> QED BY <3>1, RankedFewer
  <2>3. CASE A = {}
    <3>1. Edges' = Edges \ Z
      BY <1>3, <2>3
    <3> QED BY <2>2, <3>1
  <2>4. CASE ~ j.stale
    <3>1. Edges \ Z \in SUBSET (Deployment \X Deployment) /\ {d} \in SUBSET Deployment
      BY <1>4, <1>8
    <3>2. Checked({d}, A, Edges \ Z)
      BY <1>7, <2>4
    <3> HIDE DEF Z
    <3>3. Ranked((Edges \ Z) \cup ({d} \X A))
      BY <1>3, <2>2, <3>1, <3>2, RankedMore
    <3> QED BY <1>3, <3>3
  <2> QED BY <2>1, <2>3, <2>4
<1>14. "group" \notin overtaken' => NoOpposites(Edges')
  <2> SUFFICES ASSUME "group" \notin overtaken', NEW e \in Edges', <<e[2], e[1]>> \in Edges'
               PROVE  FALSE
    BY DEF NoOpposites
  <2>1. \A x \in Edges : <<x[2], x[1]>> \notin Edges
    BY <1>1, <1>5 DEF Rising, NoOpposites
  <2>2. \A p \in A : p # d /\ <<p, d>> \notin Edges
    BY <1>4, <1>7
  <2>3. PICK a, b : e = <<a, b>>
    BY <1>3, <1>8
  <2>4. /\ <<a, b>> \in Edges \/ (a = d /\ b \in A)
        /\ <<b, a>> \in Edges \/ (b = d /\ a \in A)
    BY <1>3, <2>3
  <2>5. ~ (<<a, b>> \in Edges /\ <<b, a>> \in Edges)
    BY <2>1
  <2> QED BY <2>2, <2>4, <2>5
<1> QED BY <1>2, <1>10, <1>11, <1>12, <1>13, <1>14 DEF TreeInv, Rising

LEMMA GroupAddCommitKeeps ==
  ASSUME TreeInv, NEW h \in Handler, GroupAddCommit(h)
  PROVE  TreeInv'
<1> DEFINE j == job[h]
           D == j.deps
           P == j.parents
<1>1. /\ TypeOK /\ Fit /\ PatchesApart /\ Matching /\ Rising
  BY DEF TreeInv
<1>2. /\ TypeOK' /\ job'[h].op \notin {"patch", "add", "set"}
      /\ \A k \in Handler \ {h} : Follows(job[k], job'[k], P # {}, FALSE)
  BY <1>1, GroupAddCommitType
<1>3. /\ j \in AddJob /\ Edges' = Edges \cup (D \X P) /\ IsInjective(edges')
  BY <1>1, GroupAddGraph DEF GraphBecomes, Matching
<1>4. /\ D \in SUBSET Deployment /\ P \in SUBSET Deployment /\ j.missing \in SUBSET Label
  BY <1>3 DEF AddJob
<1>5. /\ exists' = exists /\ D \cup P \subseteq exists /\ Free(h, D \cup P, FALSE)
      /\ labels' = [c \in Deployment |-> IF c \in D THEN labels[c] \cup j.missing ELSE labels[c]]
      /\ overtaken' = IF j.stale /\ P # {} THEN overtaken \cup {"group"} ELSE overtaken
  BY DEF GroupAddCommit, rowVars, Conflicts, CanInsert
<1>6. AddFits(j, Edges)
  <2>1. j.op = "add"
    BY DEF GroupAddCommit
  <2> QED BY <1>1, <2>1 DEF Fit, Fits
<1>7. P = j.missing \cap Deployment /\ (~ j.stale => Checked(D, P, Edges))
  <2>1. Parents(j.missing) = j.missing \cap Deployment
    BY <1>4, ParentsAre
  <2> QED BY <1>6, <2>1 DEF AddFits
<1>8. /\ exists \subseteq Deployment /\ labels \in [Deployment -> SUBSET Label]
      /\ Edges \subseteq exists \X exists
  BY <1>1 DEF TypeOK
<1> HIDE DEF j, D, P
<1>9. Fit'
  <2> DEFINE adds == P # {}
  <2>1. adds \in BOOLEAN /\ FALSE \in BOOLEAN
    OBVIOUS
  <2>2. ~ adds => Edges' \subseteq Edges
    BY <1>3
  <2>3. \A c \in exists', p \in exists' : p \in labels[c] => p \in labels'[c]
    BY <1>5, <1>8
  <2>4. ASSUME NEW k \in Handler \ {h}, job[k].op = "patch"
        PROVE  /\ labels'[job[k].dep] \subseteq labels[job[k].dep]
               /\ \A p \in Parents(job[k].add) :
                    <<p, job[k].dep>> \in Edges' => <<p, job[k].dep>> \in Edges
    <3>1. job[k].dep \notin D \cup P
      BY <1>5, <2>4, FreeFromPatches
    <3>2. job[k].dep \in Deployment
      <4>1. job[k] \in Job
        BY <1>1 DEF TypeOK
      <4> QED BY <2>4, <4>1, JobKind DEF PatchJob
    <3> QED BY <1>3, <1>5, <3>1, <3>2
  <2>5. Fits(job'[h], Edges', labels', exists')
    BY <1>2 DEF Fits
  <2>6. exists' \subseteq exists /\ \A k \in Handler \ {h} : Follows(job[k], job'[k], adds, FALSE)
    BY <1>2, <1>5
  <2> HIDE DEF adds
  <2> QED BY <1>1, <2>1, <2>2, <2>3, <2>4, <2>5, <2>6, FitKept
<1>10. PatchesApart'
  BY <1>1, <1>2, ApartKept
<1>11. Matching'
  <2>1. Named(labels', exists) = Named(labels, exists) \cup (D \X P)
    <3>1. ASSUME NEW a \in exists, NEW b \in exists
          PROVE  b \in labels'[a] <=> b \in labels[a] \/ (a \in D /\ b \in P)
      BY <1>5, <1>7, <1>8
    <3>2. \A x \in exists \X exists :
            x \in Named(labels', exists) <=> x \in Named(labels, exists) \/ x \in D \X P
      BY <3>1 DEF Named
    <3>3. /\ D \X P \subseteq exists \X exists /\ Named(labels', exists) \subseteq exists \X exists
          /\ Named(labels, exists) \subseteq exists \X exists
      BY <1>5 DEF Named
    <3> DEFINE N == Named(labels, exists)
               M == Named(labels', exists)
               W == D \X P
               X == exists \X exists
    <3>4. M = N \cup W
      <4>1. /\ \A x \in X : x \in M <=> x \in N \/ x \in W
            /\ W \subseteq X /\ M \subseteq X /\ N \subseteq X
        BY <3>2, <3>3
      <4> HIDE DEF N, M, W, X
      <4> QED BY <4>1
    <3> QED BY <3>4
  <2>2. Named(labels, exists) \subseteq Edges /\ ("group" \notin overtaken => Edges = Named(labels, exists))
    BY <1>1 DEF Matching
  <2>3. "group" \notin overtaken' => "group" \notin overtaken
    BY <1>5
  <2> QED BY <1>3, <1>5, <2>1, <2>2, <2>3 DEF Matching
<1>12. Rising'
  <2>1. /\ overtaken' = {} \/ "group" \notin overtaken' => ~ j.stale \/ P = {}
        /\ overtaken' = {} => overtaken = {}
        /\ "group" \notin overtaken' => "group" \notin overtaken
    BY <1>5
  <2>2. P = {} => Edges' = Edges
    BY <1>3
  <2>3. ASSUME ~ j.stale, Ranked(Edges) PROVE Ranked(Edges')
    <3>1. Edges \in SUBSET (Deployment \X Deployment) /\ Checked(D, P, Edges)
      BY <1>7, <1>8, <2>3
    <3> QED BY <1>3, <1>4, <2>3, <3>1, RankedMore
  <2>4. ASSUME ~ j.stale, NoOpposites(Edges) PROVE NoOpposites(Edges')
    <3>1. Checked(D, P, Edges)
      BY <1>7, <2>4
    <3> QED BY <1>3, <1>8, <2>4, <3>1, CheckedNoOpposites
  <2> QED BY <1>1, <2>1, <2>2, <2>3, <2>4 DEF Rising
<1> QED BY <1>2, <1>9, <1>10, <1>11, <1>12 DEF TreeInv

LEMMA GroupSetCommitKeeps ==
  ASSUME TreeInv, NEW h \in Handler, GroupSetCommit(h)
  PROVE  TreeInv'
<1> DEFINE j == job[h]
           D == j.deps
           P == j.parents
           Q == GroupDropped(h)
           W == D \X P
           Z == j.all \X Q
<1>1. /\ TypeOK /\ Fit /\ PatchesApart /\ Matching /\ Rising
  BY DEF TreeInv
<1>2. /\ TypeOK' /\ job'[h].op \notin {"patch", "add", "set"}
      /\ \A k \in Handler \ {h} : Follows(job[k], job'[k], P # {}, Q # {})
  BY <1>1, GroupSetCommitType
<1>3. /\ j \in SetJob /\ Edges' = (Edges \cup W) \ Z /\ IsInjective(edges')
  BY <1>1, GroupSetGraph DEF Matching
<1>4. /\ D \in SUBSET Deployment /\ P \in SUBSET Deployment /\ j.drop \in SUBSET Label
      /\ j.create \in SUBSET Label
  BY <1>3 DEF SetJob
<1>5. /\ exists' = exists /\ D \cup P \subseteq exists /\ Free(h, D \cup P, FALSE)
      /\ labels' = [c \in Deployment |->
                      IF c \notin j.all THEN labels[c]
                      ELSE (labels[c] \cup IF c \in D THEN j.missing ELSE {}) \ j.drop]
      /\ overtaken' = IF j.stale /\ P # {} THEN overtaken \cup {"group"} ELSE overtaken
  BY DEF GroupSetCommit, rowVars, Conflicts, CanInsert
<1>6. SetFits(j, Edges, labels, exists)
  <2>1. j.op = "set"
    BY DEF GroupSetCommit
  <2> QED BY <1>1, <2>1 DEF Fit, Fits
<1>7. /\ D \subseteq j.all /\ j.missing \subseteq j.create /\ j.create \cap j.drop = {}
      /\ D # {} => P = j.create \cap Deployment
      /\ ~ j.stale => Checked(D, P, Edges)
      /\ ~ j.stale => \A a \in D \cap exists, b \in P \cap exists : b \in j.missing \cup labels[a]
  <2>1. Parents(j.create) = j.create \cap Deployment
    BY <1>4, ParentsAre
  <2> QED BY <1>6, <2>1 DEF SetFits
<1>8. /\ exists \subseteq Deployment /\ labels \in [Deployment -> SUBSET Label]
      /\ Edges \subseteq exists \X exists
  BY <1>1 DEF TypeOK
<1>9. j.all # {} => Q = (j.drop \cap Deployment) \cap exists
  <2>1. Parents(j.drop) = j.drop \cap Deployment
    BY <1>4, ParentsAre
  <2> QED BY <2>1 DEF GroupDropped
<1> HIDE DEF j, D, P, Q
<1>10. Fit'
  <2> DEFINE adds == P # {}
             drops == Q # {}
  <2>1. adds \in BOOLEAN /\ drops \in BOOLEAN
    OBVIOUS
  <2>2. ~ adds => Edges' \subseteq Edges
    BY <1>3
  <2>3. ~ drops => \A c \in exists', p \in exists' : p \in labels[c] => p \in labels'[c]
    <3> SUFFICES ASSUME Q = {}, NEW c \in exists, NEW p \in exists, p \in labels[c]
                 PROVE  p \in labels'[c]
      BY <1>5
    <3>1. c \in Deployment /\ p \in Deployment
      BY <1>8
    <3>2. CASE c \notin j.all
      BY <1>5, <3>1, <3>2
    <3>3. CASE c \in j.all
      <4>1. p \notin j.drop
        BY <1>9, <3>1, <3>3
      <4> QED BY <1>5, <3>1, <3>3, <4>1
    <3> QED BY <3>2, <3>3
  <2>4. ASSUME NEW k \in Handler \ {h}, job[k].op = "patch"
        PROVE  /\ labels'[job[k].dep] \subseteq labels[job[k].dep]
               /\ \A p \in Parents(job[k].add) :
                    <<p, job[k].dep>> \in Edges' => <<p, job[k].dep>> \in Edges
    <3>1. job[k].dep \notin D \cup P
      BY <1>5, <2>4, FreeFromPatches
    <3>2. job[k].dep \in Deployment
      <4>1. job[k] \in Job
        BY <1>1 DEF TypeOK
      <4> QED BY <2>4, <4>1, JobKind DEF PatchJob
    <3>3. labels'[job[k].dep] \subseteq labels[job[k].dep]
      BY <1>5, <3>1, <3>2
    <3> QED BY <1>3, <3>1, <3>3
  <2>5. Fits(job'[h], Edges', labels', exists')
    BY <1>2 DEF Fits
  <2>6. exists' \subseteq exists /\ \A k \in Handler \ {h} : Follows(job[k], job'[k], adds, drops)
    BY <1>2, <1>5
  <2> HIDE DEF adds, drops
  <2> QED BY <1>1, <2>1, <2>2, <2>3, <2>4, <2>5, <2>6, FitKept
<1>11. PatchesApart'
  BY <1>1, <1>2, ApartKept
<1>12. Matching'
  <2>1. \A a, b : <<a, b>> \in Edges' <=>
          (<<a, b>> \in Edges \/ (a \in D /\ b \in P)) /\ ~ (a \in j.all /\ b \in Q)
    BY <1>3
  <2>2. \A x \in Edges' : x \in exists \X exists
    BY <1>3, <1>5, <1>8
  <2>3. \A a \in exists, b \in exists : b \in labels[a] => <<a, b>> \in Edges
    BY <1>1 DEF Matching, Named
  <2>4. ASSUME NEW a \in exists, NEW b \in exists, b \in labels'[a] PROVE <<a, b>> \in Edges'
    <3>1. a \in Deployment /\ b \in Deployment
      BY <1>8
    <3>2. CASE a \notin j.all
      BY <1>5, <2>1, <2>3, <2>4, <3>1, <3>2
    <3>3. CASE a \in j.all
      <4>1. b \notin j.drop /\ (b \in labels[a] \/ (a \in D /\ b \in j.missing))
        BY <1>5, <2>4, <3>1, <3>3
      <4>2. b \notin Q
        BY <1>9, <3>3, <4>1
      <4>3. <<a, b>> \in Edges \/ (a \in D /\ b \in P)
        BY <1>7, <2>3, <3>1, <4>1
      <4> QED BY <2>1, <4>2, <4>3
    <3> QED BY <3>2, <3>3
  <2>5. ASSUME "group" \notin overtaken', NEW a \in exists, NEW b \in exists, <<a, b>> \in Edges'
        PROVE  b \in labels'[a]
    <3>1. a \in Deployment /\ b \in Deployment
      BY <1>8
    <3>2. "group" \notin overtaken /\ (~ j.stale \/ P = {})
      BY <1>5, <2>5
    <3>3. \A x \in Edges : x[2] \in labels[x[1]]
      BY <1>1, <3>2 DEF Matching, Named
    <3>4. CASE a \notin j.all
      <4>1. <<a, b>> \in Edges
        BY <1>7, <2>1, <2>5, <3>4
      <4>2. <<a, b>>[2] \in labels[<<a, b>>[1]]
        BY <3>3, <4>1
      <4> QED BY <1>5, <3>1, <3>4, <4>2
    <3>5. CASE a \in j.all
      <4>1. b \notin j.drop
        BY <1>9, <2>1, <2>5, <3>1, <3>5
      <4>2. CASE <<a, b>> \in Edges
        <5>1. <<a, b>>[2] \in labels[<<a, b>>[1]]
          BY <3>3, <4>2
        <5> QED BY <1>5, <3>1, <3>5, <4>1, <5>1
      <4>3. CASE a \in D /\ b \in P
        <5>1. b \in j.missing \cup labels[a]
          BY <1>7, <3>2, <4>3
        <5> QED BY <1>5, <3>1, <3>5, <4>1, <4>3, <5>1
      <4> QED BY <2>1, <2>5, <4>2, <4>3
    <3> QED BY <3>4, <3>5
  <2>6. Named(labels', exists) \subseteq Edges'
    BY <2>4 DEF Named
  <2>7. ASSUME "group" \notin overtaken' PROVE Edges' \subseteq Named(labels', exists)
    <3> SUFFICES ASSUME NEW x \in Edges' PROVE x \in Named(labels', exists)
      OBVIOUS
    <3>1. PICK a \in exists, b \in exists : x = <<a, b>>
      BY <2>2
    <3>2. b \in labels'[a]
      BY <2>5, <2>7, <3>1
    <3> QED BY <3>1, <3>2 DEF Named
  <2> QED BY <1>3, <1>5, <2>6, <2>7 DEF Matching
<1>13. Rising'
  <2>1. /\ overtaken' = {} \/ "group" \notin overtaken' => ~ j.stale \/ P = {}
        /\ overtaken' = {} => overtaken = {}
        /\ "group" \notin overtaken' => "group" \notin overtaken
    BY <1>5
  <2>2. Edges' \subseteq Edges \cup W /\ (P = {} => Edges \cup W = Edges)
    BY <1>3
  <2>3. ASSUME ~ j.stale \/ P = {}, Ranked(Edges) PROVE Ranked(Edges')
    <3>1. Ranked(Edges \cup W)
      <4>1. CASE P = {}
        BY <2>2, <2>3, <4>1
      <4>2. CASE ~ j.stale
        <5>1. Edges \in SUBSET (Deployment \X Deployment) /\ Checked(D, P, Edges)
          BY <1>7, <1>8, <4>2
        <5> QED BY <1>4, <2>3, <5>1, RankedMore
      <4> QED BY <2>3, <4>1, <4>2
    <3> HIDE DEF W
    <3> QED BY <2>2, <3>1, RankedFewer
  <2>4. ASSUME ~ j.stale \/ P = {}, NoOpposites(Edges) PROVE NoOpposites(Edges')
    <3>1. NoOpposites(Edges \cup W)
      <4>1. CASE P = {}
        BY <2>2, <2>4, <4>1
      <4>2. CASE ~ j.stale
        <5>1. Checked(D, P, Edges)
          BY <1>7, <4>2
        <5> QED BY <1>8, <2>4, <5>1, CheckedNoOpposites
      <4> QED BY <2>4, <4>1, <4>2
    <3> HIDE DEF W
    <3> QED BY <2>2, <3>1 DEF NoOpposites
  <2> QED BY <1>1, <2>1, <2>3, <2>4 DEF Rising
<1> QED BY <1>2, <1>10, <1>11, <1>12, <1>13 DEF TreeInv

LEMMA DeleteEndedKeepsInv ==
  ASSUME TreeInv, NEW h \in Handler, NEW d \in Deployment, DeleteEnded(h, d)
  PROVE  TreeInv'
<1>1. /\ TypeOK /\ Fit /\ PatchesApart /\ Matching /\ Rising
  BY DEF TreeInv
<1>2. /\ TypeOK' /\ job'[h].op \notin {"patch", "add", "set"}
      /\ \A k \in Handler \ {h} : job'[k] = job[k]
  BY <1>1, DeleteEndedType, SetsJob
<1>3. /\ Edges' = {e \in Edges : d \notin {e[1], e[2]}} /\ IsInjective(edges')
  BY <1>1, DeleteGraph DEF GraphBecomes, Matching
<1>4. exists' = exists \ {d} /\ labels' = [labels EXCEPT ![d] = {}] /\ overtaken' = overtaken
  BY DEF DeleteEnded, history
<1>5. /\ exists \subseteq Deployment /\ labels \in [Deployment -> SUBSET Label]
      /\ Edges \subseteq exists \X exists
  BY <1>1 DEF TypeOK
<1>6. \A c \in Deployment : labels'[c] \subseteq labels[c] /\ (c # d => labels'[c] = labels[c])
  BY <1>4, <1>5
<1>7. \A k \in Handler \ {h} : Follows(job[k], job'[k], FALSE, FALSE)
  BY <1>2, FollowsItself
<1>8. Fit'
  <2>1. Edges' \subseteq Edges /\ exists' \subseteq exists
    BY <1>3, <1>4
  <2>2. \A c \in exists', p \in exists' : p \in labels[c] => p \in labels'[c]
    BY <1>4, <1>5, <1>6
  <2>3. ASSUME NEW k \in Handler \ {h}, job[k].op = "patch"
        PROVE  /\ labels'[job[k].dep] \subseteq labels[job[k].dep]
               /\ \A p \in Parents(job[k].add) :
                    <<p, job[k].dep>> \in Edges' => <<p, job[k].dep>> \in Edges
    <3>1. job[k].dep \in Deployment
      <4>1. job[k] \in Job
        BY <1>1 DEF TypeOK
      <4> QED BY <2>3, <4>1, JobKind DEF PatchJob
    <3> QED BY <1>6, <2>1, <3>1
  <2>4. Fits(job'[h], Edges', labels', exists')
    BY <1>2 DEF Fits
  <2>5. FALSE \in BOOLEAN
    OBVIOUS
  <2> QED BY <1>1, <1>7, <2>1, <2>2, <2>3, <2>4, <2>5, FitKept
<1>9. PatchesApart'
  BY <1>1, <1>2, <1>7, ApartKept
<1>10. Matching'
  <2>1. Named(labels', exists') = {e \in Named(labels, exists) : d \notin {e[1], e[2]}}
    <3> SUFFICES \A x \in exists \X exists :
                   x \in Named(labels', exists') <=>
                     x \in Named(labels, exists) /\ d \notin {x[1], x[2]}
      BY <1>4 DEF Named
    <3> SUFFICES ASSUME NEW a \in exists, NEW b \in exists
                 PROVE  <<a, b>> \in Named(labels', exists') <=>
                          <<a, b>> \in Named(labels, exists) /\ d # a /\ d # b
      OBVIOUS
    <3>1. a \in Deployment /\ (a # d => labels'[a] = labels[a])
      BY <1>5, <1>6
    <3> QED BY <1>4, <3>1 DEF Named
  <2>2. Named(labels, exists) \subseteq Edges /\ ("group" \notin overtaken => Edges = Named(labels, exists))
    BY <1>1 DEF Matching
  <2>3. Named(labels', exists') \subseteq Edges'
    BY <1>3, <2>1, <2>2
  <2>4. "group" \notin overtaken' => Edges' = Named(labels', exists')
    BY <1>3, <1>4, <2>1, <2>2
  <2> QED BY <1>3, <2>3, <2>4 DEF Matching
<1>11. Rising'
  <2>1. Edges' \subseteq Edges
    BY <1>3
  <2>2. Ranked(Edges) => Ranked(Edges')
    BY <2>1, RankedFewer
  <2>3. NoOpposites(Edges) => NoOpposites(Edges')
    BY <2>1 DEF NoOpposites
  <2> QED BY <1>1, <1>4, <2>2, <2>3 DEF Rising
<1> QED BY <1>2, <1>8, <1>9, <1>10, <1>11 DEF TreeInv

\* Edges with a rank have no opposites.
LEMMA RankedNoOpposites ==
  ASSUME NEW E, E \subseteq Deployment \X Deployment, Ranked(E)
  PROVE  NoOpposites(E)
<1> SUFFICES ASSUME NEW e \in E, <<e[2], e[1]>> \in E PROVE FALSE
  BY DEF NoOpposites
<1>1. PICK m \in Nat : \E f \in [Deployment -> 0..m] : IsRank(f, E)
  BY DEF Ranked
<1>2. PICK f \in [Deployment -> 0..m] : IsRank(f, E)
  BY <1>1
<1>3. e[1] \in Deployment /\ e[2] \in Deployment
  OBVIOUS
<1>4. f[e[1]] \in Nat /\ f[e[2]] \in Nat
  BY <1>1, <1>2, <1>3
<1>5. f[e[1]] < f[e[2]]
  BY <1>2 DEF IsRank
<1>6. f[e[2]] < f[e[1]]
  <2>1. <<e[2], e[1]>>[1] = e[2] /\ <<e[2], e[1]>>[2] = e[1]
    OBVIOUS
  <2> QED BY <1>2, <2>1 DEF IsRank
<1> QED BY <1>4, <1>5, <1>6

LEMMA InitTreeInv == Init => TreeInv
<1> SUFFICES ASSUME Init PROVE TreeInv
  OBVIOUS
<1>1. TypeOK
  BY InitTypeOK
<1>2. /\ edges \in Seq(Deployment \X Deployment) /\ Edges = NamedAtFirst /\ IsInjective(edges)
  BY InitEdgesAre DEF Init, Edges
<1>3. \A h \in Handler : job[h].op = "idle"
  BY RecalcIsJob DEF Init
<1>4. Fit /\ PatchesApart
  BY <1>3 DEF Fit, Fits, PatchesApart
<1>5. Named(labels, exists) = NamedAtFirst
  <2>1. exists = DOMAIN InitLabels /\ exists \subseteq Deployment
    BY <1>1 DEF Init, TypeOK
  <2>2. \A c \in exists : labels[c] = InitLabels[c]
    BY <2>1 DEF Init
  <2>3. \A c \in exists, p \in Deployment : p \in InitLabels[c] => p \in exists
    BY <2>1, TreeAssumption DEF EnvLabel
  <2> QED BY <2>1, <2>2, <2>3 DEF Named, NamedAtFirst
<1>6. Matching
  BY <1>2, <1>5 DEF Matching
<1>7. Rising
  <2>1. Ranked(Edges) /\ Edges \subseteq Deployment \X Deployment
    BY <1>2, FirstRanked DEF NamedAtFirst
  <2> QED BY <2>1, RankedNoOpposites DEF Rising
<1> QED BY <1>1, <1>4, <1>6, <1>7 DEF TreeInv

\* Labels, edges and the requests at work always fit one another: the invariant
\* the theorems below follow from.
THEOREM TreeInvariant == Spec => []TreeInv
<1>1. TreeInv /\ [Next]_vars => TreeInv'
  <2> SUFFICES ASSUME TreeInv, [Next]_vars PROVE TreeInv'
    OBVIOUS
  <2>1. TypeOK' /\ (Quietly \/ \E h \in Handler : Changes(h))
    BY StepKinds DEF TreeInv
  <2>2. CASE Quietly
    BY <2>1, <2>2, QuietlyKeeps
  <2>3. ASSUME NEW h \in Handler, Changes(h) PROVE TreeInv'
    <3>1. ASSUME NEW d \in Deployment, NEW L \in LabelSets, d \notin L, Patch(h, d, L)
          PROVE  TreeInv'
      BY <3>1, PatchKeeps
    <3>2. ASSUME NEW d \in Deployment, GroupAdd(h, d) PROVE TreeInv'
      BY <3>2, GroupAddKeeps
    <3>3. ASSUME NEW L \in LabelSets, GroupSet(h, L) PROVE TreeInv'
      BY <3>3, GroupSetKeeps
    <3>4. CASE PatchCommit(h)
      BY <3>4, PatchCommitKeeps
    <3>5. CASE GroupAddCommit(h)
      BY <3>5, GroupAddCommitKeeps
    <3>6. CASE GroupSetCommit(h)
      BY <3>6, GroupSetCommitKeeps
    <3>7. ASSUME NEW d \in Deployment, DeleteEnded(h, d) PROVE TreeInv'
      BY <3>7, DeleteEndedKeepsInv
    <3> QED BY <2>3, <3>1, <3>2, <3>3, <3>4, <3>5, <3>6, <3>7 DEF Changes
  <2> QED BY <2>1, <2>2, <2>3
<1> QED BY <1>1, InitTreeInv, PTL DEF Spec

\* The graph is what the labels say: every parent that labels name and that exists
\* has its edge, once, and unless a request for a group was overtaken there are no
\* other edges, whatever requests patch, join, relabel and delete at the same time.
THEOREM GraphFollowsLabels == Spec => []GraphMatchesLabels
<1>1. TreeInv => GraphMatchesLabels
  <2> SUFFICES ASSUME TreeInv PROVE GraphMatchesLabels
    OBVIOUS
  <2>1. /\ Named(labels, exists) \subseteq Edges
        /\ "group" \notin overtaken => Edges = Named(labels, exists)
        /\ IsInjective(edges) /\ edges \in Seq(Deployment \X Deployment)
    BY DEF TreeInv, Matching, TypeOK
  <2>2. Len(edges) = Cardinality(Edges)
    <3> DEFINE S == Deployment \X Deployment
    <3>1. edges \in Seq(S)
      BY <2>1
    <3> HIDE DEF S
    <3> QED BY <2>1, <3>1, InjectiveLength DEF Edges
  <2> QED BY <2>1, <2>2 DEF GraphMatchesLabels, Named
<1> QED BY <1>1, TreeInvariant, PTL

\* The labels graph has no cycle while no request that adds edges was overtaken by
\* another, and two deployments are parents of one another only after a request
\* for a group was.
THEOREM CyclesNeedOvertaking == Spec => []NoCycles
<1>1. TreeInv => NoCycles
  <2> SUFFICES ASSUME TreeInv PROVE NoCycles
    OBVIOUS
  <2>1. /\ edges \in Seq(Deployment \X Deployment)
        /\ overtaken = {} => Ranked(Range(edges))
        /\ "group" \notin overtaken => NoOpposites(Edges)
    BY DEF TreeInv, Rising, TypeOK, Edges
  <2>2. overtaken = {} => Acyclic(edges)
    <3>1. Deployment \in SUBSET Deployment
      OBVIOUS
    <3> QED BY <2>1, <3>1, RankedIsAcyclic DEF Acyclic
  <2> QED BY <2>1, <2>2 DEF NoCycles, NoOpposites
<1> QED BY <1>1, TreeInvariant, PTL
-----------------------------------------------------------------------------
(* Rows are summed up again in time. *)

\* What is above some deployments, them included.
Above(S, E) ==
  {d \in Deployment : \A U \in SUBSET Deployment : S \subseteq U /\ Closed(U, E) => d \in U}

LEMMA AboveIs ==
  ASSUME NEW S \in SUBSET Deployment, NEW E \in SUBSET (Deployment \X Deployment)
  PROVE  /\ Above(S, E) \in SUBSET Deployment /\ S \subseteq Above(S, E)
         /\ Closed(Above(S, E), E)
         /\ \A U \in SUBSET Deployment : S \subseteq U /\ Closed(U, E) => Above(S, E) \subseteq U
<1>1. /\ Above(S, E) \in SUBSET Deployment /\ S \subseteq Above(S, E)
      /\ \A U \in SUBSET Deployment : S \subseteq U /\ Closed(U, E) => Above(S, E) \subseteq U
  BY DEF Above
<1>2. ASSUME NEW e \in E, e[1] \in Above(S, E) PROVE e[2] \in Above(S, E)
  <2>1. e[2] \in Deployment
    OBVIOUS
  <2>2. ASSUME NEW U \in SUBSET Deployment, S \subseteq U, Closed(U, E) PROVE e[2] \in U
    <3>1. e[1] \in U
      BY <1>1, <1>2, <2>2
    <3> QED BY <2>2, <3>1 DEF Closed
  <2> QED BY <2>1, <2>2 DEF Above
<1>3. Closed(Above(S, E), E)
  BY <1>2 DEF Closed
<1> QED BY <1>1, <1>3

\* What was above some deployments still is, or is above one that lost an edge to it.
LEMMA AboveStays ==
  ASSUME NEW S \in SUBSET Deployment, NEW T \in SUBSET Deployment, S \subseteq T,
         NEW E \in SUBSET (Deployment \X Deployment),
         NEW F \in SUBSET (Deployment \X Deployment),
         \A e \in E \ F : e[2] \in T
  PROVE  Above(S, E) \subseteq Above(T, F)
<1> DEFINE U == Above(T, F)
<1>1. U \in SUBSET Deployment /\ T \subseteq U /\ Closed(U, F)
  BY AboveIs
<1> HIDE DEF U
<1>2. Closed(U, E)
  <2> SUFFICES ASSUME NEW e \in E, e[1] \in U PROVE e[2] \in U
    BY DEF Closed
  <2>1. CASE e \in F
    BY <1>1, <2>1 DEF Closed
  <2>2. CASE e \notin F
    BY <1>1, <2>2
  <2> QED BY <2>1, <2>2
<1>3. Above(S, E) \subseteq U
  BY <1>1, <1>2, AboveIs
<1> QED BY <1>3 DEF U

\* Deployments from which rows are yet to be brought up to date: a handler is to
\* recalculate from them, or the execution that deletes them has yet to start.
Waiting(d) == d \in exists \cap deleting /\ own[d] # "in_progress"
Sources ==
  {d \in Deployment : \/ Waiting(d)
                      \/ \E h \in Handler : job[h].op = "recalc" /\ d \in job[h].ids}

\* Rows that a handler has read and will sum up.
Locking ==
  {d \in Deployment : \E h \in Handler : job[h].op = "lock" /\ d \in Range(job[h].order)}

\* Handlers go over rows that no others are above, from the bottom up, until edges
\* are added.
InOrder(j, E) ==
  j.op = "lock" /\ ~ j.stale => Closed(Range(j.order), E) /\ FromBelow(j.order, E)
OrdersHold == \A h \in Handler : InOrder(job[h], Edges)

\* Every other row sums up the rows below it.
Due == Above(Sources, Edges) \cup Locking
Rolled ==
  ~ lost /\ "group" \notin overtaken =>
    \A d \in exists : d \in Due \/ row[d] = Summarised(d, row)

RollupInv == TreeInv /\ OrdersHold /\ Rolled

LEMMA FollowsRecalc ==
  ASSUME NEW j \in Job, NEW k, NEW adds, NEW drops, Follows(j, k, adds, drops)
  PROVE  /\ k.op = j.op
         /\ j.op = "recalc" => k.ids = j.ids
         /\ j.op = "lock" => k.order = j.order /\ (~ k.stale => ~ j.stale /\ ~ adds)
<1>1. CASE k = j
  BY <1>1 DEF Follows
<1>2. CASE j.op \in {"patch", "add", "set", "lock"} /\ k = [j EXCEPT !.stale = TRUE]
  <2>1. k.op = j.op /\ k.stale = TRUE
    BY <1>2, StaleIsJob
  <2>2. j.op = "lock" => j \in LockJob
    BY JobKind
  <2>3. j.op = "lock" => k.order = j.order
    BY <1>2, <2>2 DEF LockJob
  <2> QED BY <1>2, <2>1, <2>3
<1> QED BY <1>1, <1>2 DEF Follows

\* Orders hold until edges are added.
LEMMA OrdersKept ==
  ASSUME TypeOK, OrdersHold, NEW h \in Handler, NEW adds \in BOOLEAN, NEW drops,
         \A k \in Handler \ {h} : Follows(job[k], job'[k], adds, drops),
         ~ adds => Edges' \subseteq Edges, InOrder(job'[h], Edges')
  PROVE  OrdersHold'
<1>1. ASSUME NEW k \in Handler \ {h} PROVE InOrder(job'[k], Edges')
  <2>1. job[k] \in Job /\ InOrder(job[k], Edges)
    BY DEF TypeOK, OrdersHold
  <2>2. /\ job'[k].op = job[k].op
        /\ job[k].op = "lock" => /\ job'[k].order = job[k].order
                                 /\ ~ job'[k].stale => ~ job[k].stale /\ ~ adds
    BY <2>1, FollowsRecalc
  <2>3. ASSUME job'[k].op = "lock", ~ job'[k].stale
        PROVE  Closed(Range(job'[k].order), Edges') /\ FromBelow(job'[k].order, Edges')
    <3>1. Closed(Range(job[k].order), Edges) /\ FromBelow(job[k].order, Edges)
      BY <2>1, <2>2, <2>3 DEF InOrder
    <3>2. Edges' \subseteq Edges /\ job'[k].order = job[k].order
      BY <2>2, <2>3
    <3>3. Closed(Range(job[k].order), Edges')
      BY <3>1, <3>2 DEF Closed
    <3>4. FromBelow(job[k].order, Edges')
      BY <3>1, <3>2 DEF FromBelow
    <3> QED BY <3>2, <3>3, <3>4
  <2> QED BY <2>3 DEF InOrder
<1> QED BY <1>1 DEF OrdersHold

\* What is to be recalculated still is.
LEMMA SourcesKept ==
  ASSUME TypeOK, NEW h \in Handler, NEW adds, NEW drops,
         \A k \in Handler \ {h} : Follows(job[k], job'[k], adds, drops),
         \A d \in Deployment : Waiting(d) => d \in Sources',
         job[h].op # "recalc",
         job[h].op = "lock" => job'[h].op = "lock" /\ job'[h].order = job[h].order
  PROVE  Sources \subseteq Sources' /\ Locking \subseteq Locking'
<1>1. ASSUME NEW k \in Handler \ {h}
      PROVE  /\ job'[k].op = job[k].op
             /\ job[k].op = "recalc" => job'[k].ids = job[k].ids
             /\ job[k].op = "lock" => job'[k].order = job[k].order
  <2>1. job[k] \in Job /\ Follows(job[k], job'[k], adds, drops)
    BY DEF TypeOK
  <2> QED BY <2>1, FollowsRecalc
<1>2. ASSUME NEW d \in Deployment, NEW k \in Handler, job[k].op = "recalc", d \in job[k].ids
      PROVE  d \in Sources'
  <2>1. job'[k].op = "recalc" /\ d \in job'[k].ids
    BY <1>1, <1>2
  <2> QED BY <2>1 DEF Sources
<1>3. ASSUME NEW d \in Deployment, NEW k \in Handler, job[k].op = "lock",
             d \in Range(job[k].order)
      PROVE  d \in Locking'
  <2>1. job'[k].op = "lock" /\ d \in Range(job'[k].order)
    BY <1>1, <1>3
  <2> QED BY <2>1 DEF Locking
<1>4. Sources \subseteq Sources'
  BY <1>2 DEF Sources
<1>5. Locking \subseteq Locking'
  BY <1>3 DEF Locking
<1> QED BY <1>4, <1>5

\* A handler that is to recalculate from some deployments has them among the sources.
LEMMA RecalcFrom ==
  ASSUME NEW h \in Handler, NEW D \in SUBSET Deployment, job'[h] = Recalc(D)
  PROVE  D \subseteq Sources' /\ job'[h].op \in {"idle", "recalc"} /\ InOrder(job'[h], Edges')
<1>1. job'[h].op \in {"idle", "recalc"}
  BY RecalcIsJob
<1>2. ASSUME NEW d \in D PROVE d \in Sources'
  <2>1. Recalc(D) = [op |-> "recalc", ids |-> D]
    BY DEF Recalc
  <2>2. job'[h].op = "recalc" /\ d \in job'[h].ids
    BY <2>1
  <2> QED BY <2>2 DEF Sources
<1>3. InOrder(job'[h], Edges')
  BY <1>1 DEF InOrder
<1> QED BY <1>1, <1>2, <1>3
\* A step that changes rows, kinds and edges only where a source will see to it.
Kept ==
  /\ Sources \subseteq Sources' /\ Locking \subseteq Locking'
  /\ \A e \in Edges \ Edges' : e[2] \in Sources'
  /\ \A e \in Edges' \ Edges : e[1] \in Sources'
  /\ \A d \in Deployment \ Sources' : row'[d] = row[d] /\ own'[d] = own[d]
  /\ \A e \in Edges' : e[1] \in Sources' \/ (IsEnvironment(e[1])' <=> IsEnvironment(e[1]))

LEMMA RolledKept ==
  ASSUME TypeOK, TypeOK', Rolled, exists' \subseteq exists, lost => lost',
         "group" \in overtaken => "group" \in overtaken',
         ~ lost' /\ "group" \notin overtaken' => Kept
  PROVE  Rolled'
<1> SUFFICES ASSUME ~ lost', "group" \notin overtaken', NEW d \in exists', d \notin Due'
             PROVE  row'[d] = Summarised(d, row)'
  BY DEF Rolled
<1> DEFINE E == Edges
           F == Edges'
           S == Sources
           T == Sources'
           A == Above(T, F)
<1>1. Kept
  OBVIOUS
<1>2. /\ E \in SUBSET (Deployment \X Deployment) /\ F \in SUBSET (Deployment \X Deployment)
      /\ S \in SUBSET Deployment /\ T \in SUBSET Deployment /\ d \in Deployment
  BY DEF TypeOK, Sources
<1>3. S \subseteq T /\ (\A e \in E \ F : e[2] \in T) /\ \A e \in F \ E : e[1] \in T
  BY <1>1 DEF Kept
<1>4. Above(S, E) \subseteq A /\ T \subseteq A /\ Closed(A, F)
  <2> HIDE DEF E, F, S, T
  <2> QED BY <1>2, <1>3, AboveIs, AboveStays
<1>5. d \notin A /\ d \notin Locking'
  BY DEF Due
<1>6. d \notin Due
  BY <1>1, <1>4, <1>5 DEF Due, Kept
<1>7. row[d] = Summarised(d, row)
  BY <1>6 DEF Rolled
<1>8. \A k : <<k, d>> \in F => k \notin T
  <2> SUFFICES ASSUME NEW k, <<k, d>> \in F, k \in T PROVE FALSE
    OBVIOUS
  <2>1. <<k, d>>[1] = k /\ <<k, d>>[2] = d
    OBVIOUS
  <2> HIDE DEF F, T, A
  <2>2. d \in A
    BY <1>4, <2>1 DEF Closed
  <2> QED BY <1>5, <2>2
<1>9. \A k : <<k, d>> \in F <=> <<k, d>> \in E
  <2> SUFFICES ASSUME NEW k PROVE <<k, d>> \in F <=> <<k, d>> \in E
    OBVIOUS
  <2>1. <<k, d>>[1] = k /\ <<k, d>>[2] = d
    OBVIOUS
  <2> HIDE DEF F, E, T, A
  <2>2. d \notin T
    BY <1>4, <1>5
  <2> QED BY <1>3, <1>8, <2>1, <2>2
<1> DEFINE K == Children(d)
           M == Children(d)'
<1>10. /\ K \subseteq Deployment /\ \A k : k \in K <=> <<k, d>> \in E
  BY <1>2, ChildrenAre
<1>11. /\ M \subseteq Deployment /\ \A k : k \in M <=> <<k, d>> \in F
  <2>1. Edges' \subseteq Deployment \X Deployment
    BY <1>2
  <2>2. M = {e[1] : e \in {x \in F : x[2] = d}}
    BY DEF Children
  <2> HIDE DEF M, F
  <2>3. \A e \in F : e = <<e[1], e[2]>> /\ e[1] \in Deployment
    BY <1>2
  <2>4. ASSUME NEW k, k \in M PROVE k \in Deployment /\ <<k, d>> \in F
    BY <2>2, <2>3, <2>4
  <2>5. ASSUME NEW k, <<k, d>> \in F PROVE k \in M
    <3>1. <<k, d>>[1] = k /\ <<k, d>>[2] = d
      OBVIOUS
    <3> QED BY <2>2, <2>5, <3>1
  <2> QED BY <2>4, <2>5
<1>12. M = K
  <2> HIDE DEF M, K, F, E
  <2> QED BY <1>9, <1>10, <1>11
<1>13. \A k \in K : k \in Deployment \ T /\ row'[k] = row[k]
  <2>1. \A k \in K : k \in Deployment \ T
    <3> HIDE DEF K, E, F, T
    <3> QED BY <1>8, <1>9, <1>10
  <2> QED BY <1>1, <2>1 DEF Kept
<1>14. \A k \in K : IsEnvironment(k)' <=> IsEnvironment(k)
  <2> SUFFICES ASSUME NEW k \in K PROVE IsEnvironment(k)' <=> IsEnvironment(k)
    OBVIOUS
  <2>1. <<k, d>> \in Edges' /\ <<k, d>>[1] = k /\ k \notin Sources'
    BY <1>9, <1>10, <1>13
  <2> QED BY <1>1, <2>1 DEF Kept
<1>15. row'[d] = row[d] /\ own'[d] = own[d]
  <2>1. d \notin Sources'
    BY <1>4, <1>5
  <2> QED BY <1>1, <1>2, <2>1 DEF Kept
<1> DEFINE envs == {k \in K : IsEnvironment(k)}
           srvs == K \ envs
<1>16. Summarised(d, row) = Summary(own[d], envs, srvs, row)
  BY DEF Summarised
<1>17. Summarised(d, row)' = Summary(own'[d], envs, srvs, row')
  <2>1. {k \in M : IsEnvironment(k)'} = envs
    BY <1>12, <1>14
  <2>2. Summarised(d, row)' = Summary(own'[d], {k \in M : IsEnvironment(k)'},
                                      M \ {k \in M : IsEnvironment(k)'}, row')
    BY DEF Summarised
  <2> QED BY <1>12, <2>1, <2>2
<1>18. \A k \in envs \cup srvs : row'[k] = row[k]
  BY <1>13
<1> HIDE DEF envs, srvs
<1> DEFINE r == row
           q == row'
<1>19. \A k \in envs \cup srvs : r[k] = q[k]
  BY <1>18
<1>20. Summary(own[d], envs, srvs, r) = Summary(own[d], envs, srvs, q)
  <2> HIDE DEF r, q
  <2> QED BY <1>19, SummaryDepends
<1> QED BY <1>7, <1>15, <1>16, <1>17, <1>20

\* The steps of a handler that change no row, and end no recalculation but for one
\* that is lost.
LEMMA RestKeeps ==
  ASSUME RollupInv, TypeOK', NEW h \in Handler,
         UNCHANGED <<rowVars, labels, edges, overtaken>>, lost => lost',
         \A k \in Handler \ {h} : job'[k] = job[k],
         job[h].op # "recalc",
         job[h].op = "lock" =>
           lost' \/ (job'[h].op = "lock" /\ job'[h].order = job[h].order),
         InOrder(job[h], Edges) => InOrder(job'[h], Edges)
  PROVE  OrdersHold' /\ Rolled'
<1>1. TypeOK /\ OrdersHold /\ Rolled
  BY DEF RollupInv, TreeInv
<1>2. /\ Edges' = Edges /\ exists' = exists /\ own' = own /\ row' = row
      /\ deleting' = deleting /\ labels' = labels /\ overtaken' = overtaken
  BY DEF rowVars, Edges
<1>3. \A k \in Handler \ {h} : Follows(job[k], job'[k], FALSE, FALSE)
  BY FollowsItself
<1>4. OrdersHold'
  <2>1. InOrder(job'[h], Edges') /\ FALSE \in BOOLEAN /\ Edges' \subseteq Edges
    BY <1>1, <1>2 DEF OrdersHold
  <2> QED BY <1>1, <1>3, <2>1, OrdersKept
<1>5. ASSUME ~ lost' PROVE Kept
  <2>1. \A d \in Deployment : Waiting(d) => d \in Sources'
    BY <1>2 DEF Waiting, Sources
  <2>2. Sources \subseteq Sources' /\ Locking \subseteq Locking'
    BY <1>1, <1>3, <1>5, <2>1, SourcesKept
  <2> QED BY <1>2, <2>2 DEF Kept, IsEnvironment
<1>6. Rolled'
  BY <1>1, <1>2, <1>5, RolledKept
<1> QED BY <1>4, <1>6

\* The steps of an idle handler that change what a deployment is, and see to it that
\* the rows above it are brought up to date.
LEMMA TouchKeeps ==
  ASSUME RollupInv, TypeOK', NEW h \in Handler, NEW d \in Deployment, job[h] = Idle,
         UNCHANGED <<exists, labels, edges, lost, overtaken>>,
         \A k \in Handler \ {h} : job'[k] = job[k],
         d \in Sources', InOrder(job'[h], Edges'),
         \A c \in Deployment \ {d} :
           /\ row'[c] = row[c] /\ own'[c] = own[c]
           /\ c \in deleting => c \in deleting'
  PROVE  OrdersHold' /\ Rolled'
<1>1. TypeOK /\ OrdersHold /\ Rolled
  BY DEF RollupInv, TreeInv
<1>2. /\ Edges' = Edges /\ job[h].op = "idle"
  BY RecalcIsJob DEF Edges
<1>3. \A k \in Handler \ {h} : Follows(job[k], job'[k], FALSE, FALSE)
  BY FollowsItself
<1>4. OrdersHold'
  <2>1. FALSE \in BOOLEAN /\ Edges' \subseteq Edges
    BY <1>2
  <2> QED BY <1>1, <1>3, <2>1, OrdersKept
<1>5. Kept
  <2>1. ASSUME NEW c \in Deployment, Waiting(c) PROVE c \in Sources'
    <3>1. CASE c = d
      BY <3>1
    <3>2. CASE c # d
      BY <2>1, <3>2 DEF Waiting, Sources
    <3> QED BY <3>1, <3>2
  <2>2. Sources \subseteq Sources' /\ Locking \subseteq Locking'
    BY <1>1, <1>2, <1>3, <2>1, SourcesKept
  <2> QED BY <1>2, <2>2 DEF Kept, IsEnvironment
<1>6. Rolled'
  BY <1>1, <1>2, <1>5, RolledKept
<1> QED BY <1>4, <1>6
\* The requests that set one deployment's own status.
LEMMA TouchesRollUp ==
  ASSUME RollupInv, TypeOK', NEW h \in Handler, NEW d \in Deployment,
         \/ \E s \in OwnStates : SetStatus(h, d, s)
         \/ \E f, r \in BOOLEAN : Delete(h, d, f, r)
         \/ DeleteStarted(h, d) \/ DeleteFailed(h, d)
  PROVE  OrdersHold' /\ Rolled'
<1>1. TypeOK
  BY DEF RollupInv, TreeInv
<1>2. /\ job \in [Handler -> Job] /\ row \in [Deployment -> Row]
      /\ own \in [Deployment -> DeploymentState]
  BY <1>1 DEF TypeOK
<1>3. /\ job[h] = Idle /\ UNCHANGED <<exists, labels, edges, lost, overtaken>> /\ d \in exists
  BY DEF SetStatus, Delete, DeleteStarted, DeleteFailed, Asked, graphVars, history
<1>4. \A c \in Deployment \ {d} :
        /\ row'[c] = row[c] /\ own'[c] = own[c]
        /\ c \in deleting => c \in deleting'
  BY <1>2 DEF SetStatus, Delete, DeleteStarted, DeleteFailed
<1>5. CASE \E f, r \in BOOLEAN : Delete(h, d, f, r)
  <2>1. job' = job /\ Waiting(d)'
    BY <1>5 DEF Delete, Deletable, Waiting
  <2>2. d \in Sources' /\ InOrder(job'[h], Edges') /\ \A k \in Handler \ {h} : job'[k] = job[k]
    BY <1>3, <2>1, RecalcIsJob DEF Sources, InOrder
  <2> QED BY <1>3, <1>4, <2>2, TouchKeeps
<1>6. CASE ~ \E f, r \in BOOLEAN : Delete(h, d, f, r)
  <2>1. job' = [job EXCEPT ![h] = Recalc({d})]
    BY <1>6 DEF SetStatus, DeleteStarted, DeleteFailed
  <2>2. {d} \in SUBSET Deployment
    OBVIOUS
  <2>3. job'[h] = Recalc({d}) /\ \A k \in Handler \ {h} : job'[k] = job[k]
    BY <1>2, <2>1
  <2>4. d \in Sources' /\ InOrder(job'[h], Edges')
    BY <2>2, <2>3, RecalcFrom
  <2> QED BY <1>3, <1>4, <2>3, <2>4, TouchKeeps
<1> QED BY <1>5, <1>6

\* The requests that write one row and bring none of those above it up to date.
LEMMA LostRollUp ==
  ASSUME RollupInv, NEW h \in Handler, NEW d \in Deployment,
         \/ \E s \in OwnStates : Cancel(h, d, s)
         \/ \E f, r \in BOOLEAN : DeleteRefused(h, d, f, r)
  PROVE  OrdersHold' /\ Rolled'
<1>1. job' = job /\ edges' = edges /\ lost'
  BY DEF Cancel, DeleteRefused, graphVars
<1>2. Edges' = Edges
  BY <1>1 DEF Edges
<1>3. OrdersHold'
  BY <1>1, <1>2 DEF RollupInv, OrdersHold
<1>4. Rolled'
  BY <1>1 DEF Rolled
<1> QED BY <1>3, <1>4

\* A commit that recalculates from some deployments, and changes kinds and edges
\* only where that is seen from them.
LEMMA CommitKeeps ==
  ASSUME RollupInv, TypeOK', NEW h \in Handler, NEW D \in SUBSET Deployment,
         job'[h] = Recalc(D), job[h].op \notin {"recalc", "lock"},
         NEW adds \in BOOLEAN, NEW drops,
         \A k \in Handler \ {h} : Follows(job[k], job'[k], adds, drops),
         ~ adds => Edges' \subseteq Edges,
         exists' \subseteq exists, own' = own, row' = row, deleting' = deleting,
         \A c \in Deployment : Waiting(c) => c \in exists',
         lost => lost', "group" \in overtaken => "group" \in overtaken',
         ~ lost' /\ "group" \notin overtaken' =>
           /\ \A e \in Edges \ Edges' : e[2] \in D
           /\ \A e \in Edges' \ Edges : e[1] \in D
           /\ \A e \in Edges' : e[1] \in D \/ (IsEnvironment(e[1])' <=> IsEnvironment(e[1]))
  PROVE  OrdersHold' /\ Rolled'
<1>1. TypeOK /\ OrdersHold /\ Rolled
  BY DEF RollupInv, TreeInv
<1>2. D \subseteq Sources' /\ InOrder(job'[h], Edges')
  BY RecalcFrom
<1>3. OrdersHold'
  BY <1>1, <1>2, OrdersKept
<1>4. \A c \in Deployment : Waiting(c) => c \in Sources'
  BY DEF Waiting, Sources
<1>5. Sources \subseteq Sources' /\ Locking \subseteq Locking'
  BY <1>1, <1>4, SourcesKept
<1>6. ASSUME ~ lost', "group" \notin overtaken' PROVE Kept
  <2>1. /\ \A e \in Edges \ Edges' : e[2] \in Sources'
        /\ \A e \in Edges' \ Edges : e[1] \in Sources'
    BY <1>2, <1>6
  <2>2. \A e \in Edges' : e[1] \in Sources' \/ (IsEnvironment(e[1])' <=> IsEnvironment(e[1]))
    BY <1>2, <1>6
  <2> QED BY <1>5, <2>1, <2>2 DEF Kept
<1>7. Rolled'
  BY <1>1, <1>6, RolledKept
<1> QED BY <1>3, <1>7

LEMMA PatchRollsUp ==
  ASSUME RollupInv, TreeInv', NEW h \in Handler, PatchCommit(h)
  PROVE  OrdersHold' /\ Rolled'
<1> DEFINE j == job[h]
           d == j.dep
           A == Added(h)
           Q == Dropped(h)
           D == PatchIds(h)
<1>1. TypeOK /\ Fit /\ TypeOK' /\ Matching'
  BY DEF RollupInv, TreeInv
<1>2. /\ job'[h] = Recalc(D) /\ D \in SUBSET Deployment
      /\ \A k \in Handler \ {h} : Follows(job[k], job'[k], A # {}, Q # {})
  BY <1>1, PatchCommitType
<1>3. /\ j \in PatchJob /\ A \in SUBSET Deployment /\ Q \in SUBSET Deployment
      /\ Edges' = (Edges \ ({d} \X Q)) \cup ({d} \X A)
  BY <1>1, PatchGraph DEF GraphBecomes
<1>4. /\ j.op = "patch" /\ UNCHANGED <<exists, own, row, deleting, lost>>
      /\ labels' = [labels EXCEPT ![d] = (labels[d] \cup j.add) \ j.drop]
      /\ "group" \in overtaken => "group" \in overtaken'
  BY DEF PatchCommit, rowVars
<1>5. PatchFits(j, Edges, labels)
  BY <1>1, <1>4 DEF Fit, Fits
<1>6. /\ d \in Deployment /\ labels \in [Deployment -> SUBSET Label]
      /\ Edges' \subseteq Deployment \X Deployment
  BY <1>1, <1>3 DEF TypeOK, PatchJob
<1>7. /\ \A c \in Deployment : c # d => labels'[c] = labels[c]
      /\ labels'[d] = (labels[d] \cup j.add) \ j.drop
  BY <1>4, <1>6
<1>8. j.child => d \in D
  BY DEF PatchIds
<1>9. Q \subseteq D
  BY DEF PatchIds
<1>10. ~ j.child => A = {} /\ Parents(labels'[d]) = {}
  <2>1. ~ j.child => Parents((labels[d] \cup j.add) \ j.drop) = {}
    BY <1>5 DEF PatchFits
  <2>2. j.add \cap j.drop = {}
    BY <1>5 DEF PatchFits
  <2> QED BY <1>7, <2>1, <2>2 DEF Added, Parents
<1> HIDE DEF j, d, A, Q, D
<1>11. \A e \in Edges \ Edges' : e[2] \in D
  BY <1>3, <1>9
<1>12. \A e \in Edges' \ Edges : e[1] \in D
  BY <1>3, <1>8, <1>10
<1>13. ASSUME "group" \notin overtaken', NEW e \in Edges'
       PROVE  e[1] \in D \/ (IsEnvironment(e[1])' <=> IsEnvironment(e[1]))
  <2>1. e[1] \in Deployment /\ e[2] \in Deployment
    BY <1>6
  <2>2. CASE e[1] # d
    BY <1>7, <2>1, <2>2 DEF IsEnvironment
  <2>3. CASE e[1] = d
    <3>1. e[2] \in labels'[d]
      BY <1>1, <1>13, <2>3 DEF Matching, Named
    <3>2. e[2] # EnvLabel
      BY <2>1, TreeAssumption DEF EnvLabel
    <3>3. j.child
      BY <1>10, <3>1, <3>2 DEF Parents
    <3> QED BY <1>8, <2>3, <3>3
  <2> QED BY <2>2, <2>3
<1>14. job[h].op \notin {"recalc", "lock"}
  BY <1>4 DEF j
<1>15. \A c \in Deployment : Waiting(c) => c \in exists'
  BY <1>4 DEF Waiting
<1>16. A = {} => Edges' \subseteq Edges
  BY <1>3
<1> DEFINE adds == A # {}
           drops == Q # {}
<1>17. /\ adds \in BOOLEAN /\ (~ adds => Edges' \subseteq Edges)
       /\ \A k \in Handler \ {h} : Follows(job[k], job'[k], adds, drops)
  BY <1>2, <1>16
<1> HIDE DEF adds, drops
<1> QED BY <1>1, <1>2, <1>4, <1>11, <1>12, <1>13, <1>14, <1>15, <1>17, CommitKeeps

LEMMA GroupAddRollsUp ==
  ASSUME RollupInv, TreeInv', NEW h \in Handler, GroupAddCommit(h)
  PROVE  OrdersHold' /\ Rolled'
<1> DEFINE j == job[h]
           N == j.deps
           P == j.parents
           D == GroupAddIds(h)
<1>1. TypeOK /\ TypeOK'
  BY DEF RollupInv, TreeInv
<1>2. /\ job'[h] = Recalc(D) /\ D \in SUBSET Deployment
      /\ \A k \in Handler \ {h} : Follows(job[k], job'[k], P # {}, FALSE)
  BY <1>1, GroupAddCommitType
<1>3. Edges' = Edges \cup (N \X P)
  BY <1>1, GroupAddGraph DEF GraphBecomes
<1>4. /\ j.op = "add" /\ UNCHANGED <<exists, own, row, deleting>>
      /\ labels' = [c \in Deployment |-> IF c \in N THEN labels[c] \cup j.missing ELSE labels[c]]
      /\ lost' = (lost \/ (EnvLabel \in j.missing /\ P = {}))
      /\ "group" \in overtaken => "group" \in overtaken'
  BY DEF GroupAddCommit, rowVars
<1>5. Edges' \subseteq Deployment \X Deployment
  BY <1>1 DEF TypeOK
<1>6. P # {} => D = N
  BY DEF GroupAddIds
<1> HIDE DEF j, N, P, D
<1>7. \A e \in Edges \ Edges' : e[2] \in D
  BY <1>3
<1>8. \A e \in Edges' \ Edges : e[1] \in D
  BY <1>3, <1>6
<1>9. ASSUME ~ lost', NEW e \in Edges'
      PROVE  e[1] \in D \/ (IsEnvironment(e[1])' <=> IsEnvironment(e[1]))
  <2>1. e[1] \in Deployment
    BY <1>5
  <2>2. CASE e[1] \notin N
    BY <1>4, <2>1, <2>2 DEF IsEnvironment
  <2>3. CASE P # {} /\ e[1] \in N
    BY <1>6, <2>3
  <2>4. CASE P = {} /\ e[1] \in N
    <3>1. EnvLabel \notin j.missing
      BY <1>4, <1>9, <2>4
    <3> QED BY <1>4, <2>1, <2>4, <3>1 DEF IsEnvironment
  <2> QED BY <2>2, <2>3, <2>4
<1>10. job[h].op \notin {"recalc", "lock"}
  BY <1>4 DEF j
<1>11. (\A c \in Deployment : Waiting(c) => c \in exists') /\ (lost => lost')
  BY <1>4 DEF Waiting
<1> DEFINE adds == P # {}
<1>12. /\ adds \in BOOLEAN /\ (~ adds => Edges' \subseteq Edges)
       /\ \A k \in Handler \ {h} : Follows(job[k], job'[k], adds, FALSE)
  BY <1>2, <1>3
<1> HIDE DEF adds
<1> QED BY <1>1, <1>2, <1>4, <1>7, <1>8, <1>9, <1>10, <1>11, <1>12, CommitKeeps
LEMMA GroupSetRollsUp ==
  ASSUME RollupInv, TreeInv', NEW h \in Handler, GroupSetCommit(h)
  PROVE  OrdersHold' /\ Rolled'
<1> DEFINE j == job[h]
           N == j.deps
           P == j.parents
           Q == GroupDropped(h)
           D == GroupSetIds(h)
<1>1. TypeOK /\ Fit /\ TypeOK'
  BY DEF RollupInv, TreeInv
<1>2. /\ job'[h] = Recalc(D) /\ D \in SUBSET Deployment
      /\ \A k \in Handler \ {h} : Follows(job[k], job'[k], P # {}, Q # {})
  BY <1>1, GroupSetCommitType
<1>3. Edges' = (Edges \cup (N \X P)) \ (j.all \X Q)
  BY <1>1, GroupSetGraph
<1>4. /\ j.op = "set" /\ UNCHANGED <<exists, own, row, deleting, lost>>
      /\ labels' = [c \in Deployment |->
                      IF c \notin j.all THEN labels[c]
                      ELSE (labels[c] \cup IF c \in N THEN j.missing ELSE {}) \ j.drop]
      /\ "group" \in overtaken => "group" \in overtaken'
  BY DEF GroupSetCommit, rowVars
<1>5. Edges' \subseteq Deployment \X Deployment
  BY <1>1 DEF TypeOK
<1>6. /\ EnvLabel \in j.create \cup j.drop => j.all \subseteq D
      /\ Q \subseteq D /\ (P # {} => N \subseteq D)
  BY DEF GroupSetIds
<1>7. j.missing \subseteq j.create
  BY <1>1, <1>4 DEF Fit, Fits, SetFits
<1> HIDE DEF j, N, P, Q, D
<1>8. \A e \in Edges \ Edges' : e[2] \in D
  BY <1>3, <1>6
<1>9. \A e \in Edges' \ Edges : e[1] \in D
  BY <1>3, <1>6
<1>10. ASSUME NEW e \in Edges'
       PROVE  e[1] \in D \/ (IsEnvironment(e[1])' <=> IsEnvironment(e[1]))
  <2>1. e[1] \in Deployment
    BY <1>5
  <2>2. CASE e[1] \notin j.all
    BY <1>4, <2>1, <2>2 DEF IsEnvironment
  <2>3. CASE EnvLabel \in j.create \cup j.drop /\ e[1] \in j.all
    BY <1>6, <2>3
  <2>4. CASE EnvLabel \notin j.create \cup j.drop /\ e[1] \in j.all
    BY <1>4, <1>7, <2>1, <2>4 DEF IsEnvironment
  <2> QED BY <2>2, <2>3, <2>4
<1>11. job[h].op \notin {"recalc", "lock"}
  BY <1>4 DEF j
<1>12. \A c \in Deployment : Waiting(c) => c \in exists'
  BY <1>4 DEF Waiting
<1> DEFINE adds == P # {}
           drops == Q # {}
<1>13. /\ adds \in BOOLEAN /\ (~ adds => Edges' \subseteq Edges)
       /\ \A k \in Handler \ {h} : Follows(job[k], job'[k], adds, drops)
  BY <1>2, <1>3
<1> HIDE DEF adds, drops
<1> QED BY <1>1, <1>2, <1>4, <1>8, <1>9, <1>10, <1>11, <1>12, <1>13, CommitKeeps

\* The parents of a deployment that is gone are known by its labels.
LEMMA DeleteEndedRollsUp ==
  ASSUME RollupInv, TreeInv', NEW h \in Handler, NEW d \in Deployment, DeleteEnded(h, d)
  PROVE  OrdersHold' /\ Rolled'
<1> DEFINE D == {d} \cup (Parents(labels[d]) \cap exists)
<1>1. TypeOK /\ Matching /\ TypeOK'
  BY DEF RollupInv, TreeInv
<1>2. /\ job \in [Handler -> Job] /\ exists \subseteq Deployment
      /\ labels \in [Deployment -> SUBSET Label] /\ Edges \subseteq exists \X exists
  BY <1>1 DEF TypeOK
<1>3. D \in SUBSET Deployment
  BY <1>2
<1>4. /\ job' = [job EXCEPT ![h] = Recalc(D)] /\ job[h] = Idle
      /\ exists' = exists \ {d} /\ own[d] = "in_progress"
      /\ labels' = [labels EXCEPT ![d] = {}]
      /\ UNCHANGED <<own, row, deleting, lost, overtaken>>
  BY DEF DeleteEnded, history
<1>5. job'[h] = Recalc(D) /\ \A k \in Handler \ {h} : job'[k] = job[k]
  BY <1>2, <1>4
<1>6. Edges' = {e \in Edges : d \notin {e[1], e[2]}}
  BY <1>1, DeleteGraph DEF GraphBecomes
<1>7. ASSUME "group" \notin overtaken, NEW e \in Edges \ Edges' PROVE e[2] \in D
  <2>1. e[1] = d \/ e[2] = d
    BY <1>6
  <2>2. CASE e[1] = d
    <3>1. e[2] \in labels[d] /\ e[2] \in exists
      BY <1>1, <1>7, <2>2 DEF Matching, Named
    <3>2. e[2] # EnvLabel
      BY <1>2, <3>1, TreeAssumption DEF EnvLabel
    <3> QED BY <3>1, <3>2 DEF Parents
  <2> QED BY <2>1, <2>2
<1>8. ASSUME NEW e \in Edges' PROVE e[1] \in D \/ (IsEnvironment(e[1])' <=> IsEnvironment(e[1]))
  <2>1. e[1] \in Deployment /\ e[1] # d
    BY <1>2, <1>6
  <2> QED BY <1>2, <1>4, <2>1 DEF IsEnvironment
<1>9. \A k \in Handler \ {h} : Follows(job[k], job'[k], FALSE, FALSE)
  BY <1>5, FollowsItself
<1>10. job[h].op \notin {"recalc", "lock"}
  BY <1>4, RecalcIsJob
<1>11. \A c \in Deployment : Waiting(c) => c \in exists'
  BY <1>4 DEF Waiting
<1>12. Edges' \subseteq Edges /\ FALSE \in BOOLEAN /\ exists' \subseteq exists
  BY <1>4, <1>6
<1> HIDE DEF D
<1> QED BY <1>1, <1>3, <1>4, <1>5, <1>7, <1>8, <1>9, <1>10, <1>11, <1>12, CommitKeeps

\* recalc_ancestors reads all the rows that are to be brought up to date.
LEMMA QueryRollsUp ==
  ASSUME RollupInv, TypeOK', NEW h \in Handler, RecalcQuery(h)
  PROVE  OrdersHold' /\ Rolled'
<1> DEFINE ids == job[h].ids
           deps == get_dependencies(edges, ids)
           rest == ById(ids \ Range(deps))
           o == rest \o deps
           j == [op |-> "lock", todo |-> deps \o rest, held |-> {}, order |-> o,
                 stale |-> Uneven(edges, ids)]
<1>1. TypeOK /\ OrdersHold /\ Rolled
  BY DEF RollupInv, TreeInv
<1>2. /\ job \in [Handler -> Job] /\ edges \in Seq(Deployment \X Deployment)
      /\ Edges \in SUBSET (Deployment \X Deployment) /\ exists \subseteq Deployment
  BY <1>1 DEF TypeOK
<1>3. /\ job[h].op = "recalc" /\ ~ Endless(edges, ids) /\ job' = [job EXCEPT ![h] = j]
      /\ UNCHANGED <<rowVars, graphVars, groupVars, requests, history>>
  BY DEF RecalcQuery
<1>4. ids \in SUBSET Deployment
  BY <1>2, <1>3, JobKind DEF RecalcJob
<1>5. /\ o \in Seq(Deployment) /\ ids \subseteq Range(o)
      /\ Closed(Range(o), Edges)
      /\ ~ Uneven(edges, ids) => FromBelow(o, Edges)
  <2>1. \A x, y : x = get_dependencies(edges, ids) /\ y = ById(ids \ Range(x)) =>
          /\ y \o x \in Seq(Deployment) /\ ids \subseteq Range(y \o x)
          /\ Closed(Range(y \o x), Range(edges))
          /\ ~ Uneven(edges, ids) => FromBelow(y \o x, Range(edges))
    <3> HIDE DEF ids
    <3> QED BY <1>2, <1>3, <1>4, QueryInOrder
  <2> QED BY <2>1 DEF Edges
<1>6. /\ job'[h].op = "lock" /\ job'[h].order = o /\ job'[h].stale = Uneven(edges, ids)
      /\ \A k \in Handler \ {h} : job'[k] = job[k]
  <2> HIDE DEF o, ids, deps, rest
  <2> QED BY <1>2, <1>3
<1> HIDE DEF ids, deps, rest, o, j
<1>7. UNCHANGED <<exists, labels, edges, own, row, deleting, lost, overtaken>> /\ Edges' = Edges
  BY <1>3 DEF rowVars, graphVars, history, Edges
<1>8. OrdersHold'
  <2>1. InOrder(job'[h], Edges')
    BY <1>5, <1>6, <1>7 DEF InOrder
  <2>2. \A k \in Handler \ {h} : Follows(job[k], job'[k], FALSE, FALSE)
    BY <1>6, FollowsItself
  <2>3. FALSE \in BOOLEAN /\ Edges' \subseteq Edges
    BY <1>7
  <2> QED BY <1>1, <2>1, <2>2, <2>3, OrdersKept
<1> DEFINE A == Above(Sources', Edges')
           U == A \cup Range(o)
<1>9. /\ Sources \in SUBSET Deployment /\ Sources' \in SUBSET Deployment
      /\ Range(o) \in SUBSET Deployment
  BY <1>5, RangeSubset DEF Sources
<1>10. A \in SUBSET Deployment /\ Sources' \subseteq A /\ Closed(A, Edges)
  <2> DEFINE T == Sources'
  <2>1. A = Above(T, Edges) /\ T \in SUBSET Deployment
    BY <1>7, <1>9
  <2> HIDE DEF T, A
  <2> QED BY <1>2, <2>1, AboveIs DEF T
<1>11. Range(o) \cup Locking \subseteq Locking'
  <2>1. Range(o) \subseteq Locking'
    BY <1>6, <1>9 DEF Locking
  <2>2. ASSUME NEW d \in Deployment, NEW k \in Handler, job[k].op = "lock",
               d \in Range(job[k].order)
        PROVE  d \in Locking'
    <3>1. job'[k] = job[k]
      BY <1>3, <1>6, <2>2
    <3> QED BY <2>2, <3>1 DEF Locking
  <2>3. Locking \subseteq Locking'
    BY <2>2 DEF Locking
  <2> QED BY <2>1, <2>3
<1>12. Sources \subseteq Sources' \cup Range(o)
  <2>1. ASSUME NEW d \in Deployment, Waiting(d) PROVE d \in Sources'
    BY <1>7, <2>1 DEF Waiting, Sources
  <2>2. ASSUME NEW d \in Deployment, NEW k \in Handler, job[k].op = "recalc", d \in job[k].ids
        PROVE  d \in Sources' \cup Range(o)
    <3>1. CASE k = h
      BY <1>5, <2>2, <3>1 DEF ids
    <3>2. CASE k # h
      <4>1. job'[k] = job[k]
        BY <1>6, <3>2
      <4> QED BY <2>2, <4>1 DEF Sources
    <3> QED BY <3>1, <3>2
  <2> QED BY <2>1, <2>2 DEF Sources
<1>13. Above(Sources, Edges) \subseteq U
  <2>1. U \in SUBSET Deployment /\ Sources \subseteq U
    BY <1>9, <1>10, <1>12
  <2>2. Closed(U, Edges)
    <3> HIDE DEF A
    <3> QED BY <1>5, <1>10 DEF Closed
  <2> HIDE DEF U
  <2> QED BY <1>2, <1>9, <2>1, <2>2, AboveIs
<1>14. Due \subseteq Due'
  <2> HIDE DEF A
  <2>1. Due \subseteq A \cup Locking'
    BY <1>11, <1>13 DEF Due
  <2> QED BY <2>1 DEF Due, A
<1>15. \A d : Summarised(d, row)' = Summarised(d, row)
  BY <1>7 DEF Summarised, Children, Edges, IsEnvironment
<1> QED BY <1>1, <1>7, <1>8, <1>14, <1>15 DEF Rolled

\* Its commit leaves every row it went over with the sum of the rows below it, and
\* disturbs no other.
LEMMA RecalcRollsUp ==
  ASSUME RollupInv, TypeOK', NEW h \in Handler, RecalcCommit(h)
  PROVE  OrdersHold' /\ Rolled'
<1> DEFINE o == job[h].order
           new == Resummed(row, o)
<1>1. TypeOK /\ OrdersHold /\ Rolled
  BY DEF RollupInv, TreeInv
<1>2. /\ job \in [Handler -> Job] /\ row \in [Deployment -> Row]
      /\ own \in [Deployment -> DeploymentState]
      /\ Edges \in SUBSET (Deployment \X Deployment) /\ exists \subseteq Deployment
  BY <1>1 DEF TypeOK
<1>3. /\ job[h].op = "lock" /\ job' = [job EXCEPT ![h] = Idle] /\ row' = new
      /\ lost' = (lost \/ job[h].stale)
      /\ UNCHANGED <<exists, labels, edges, own, deleting, overtaken>> /\ Edges' = Edges
  BY DEF RecalcCommit, graphVars, Edges
<1>4. o \in Seq(Deployment)
  BY <1>2, <1>3, JobKind DEF LockJob
<1>5. job'[h].op = "idle" /\ \A k \in Handler \ {h} : job'[k] = job[k]
  BY <1>2, <1>3, RecalcIsJob
<1>6. OrdersHold'
  <2>1. InOrder(job'[h], Edges')
    BY <1>5 DEF InOrder
  <2>2. \A k \in Handler \ {h} : Follows(job[k], job'[k], FALSE, FALSE)
    BY <1>5, FollowsItself
  <2>3. FALSE \in BOOLEAN /\ Edges' \subseteq Edges
    BY <1>3
  <2> QED BY <1>1, <2>1, <2>2, <2>3, OrdersKept
<1>7. Rolled'
  <2> SUFFICES ASSUME ~ lost', "group" \notin overtaken', NEW d \in exists', d \notin Due'
               PROVE  row'[d] = Summarised(d, row)'
    BY DEF Rolled
  <2>1. /\ ~ lost /\ ~ job[h].stale /\ "group" \notin overtaken /\ d \in exists
        /\ d \in Deployment
    BY <1>2, <1>3
  <2>2. Closed(Range(o), Edges) /\ FromBelow(o, Edges)
    BY <1>1, <1>3, <2>1 DEF OrdersHold, InOrder
  <2>3. Summarised(d, row)' = Summarised(d, new)
    BY <1>3 DEF Summarised, Children, Edges, IsEnvironment
  <2> HIDE DEF o
  <2>4. /\ \A c \in Deployment \ Range(o) : new[c] = row[c]
        /\ \A c \in Range(o) \cap exists : new[c] = Summarised(c, new)
    BY <1>2, <1>4, <2>2, ResummedAreRows
  <2> HIDE DEF new
  <2>5. CASE d \in Range(o)
    BY <1>3, <2>1, <2>3, <2>4, <2>5
  <2>6. CASE d \notin Range(o)
    <3>1. Sources \subseteq Sources'
      <4>1. ASSUME NEW c \in Deployment, Waiting(c) PROVE c \in Sources'
        BY <1>3, <4>1 DEF Waiting, Sources
      <4>2. ASSUME NEW c \in Deployment, NEW k \in Handler, job[k].op = "recalc",
                   c \in job[k].ids
            PROVE  c \in Sources'
        <5>1. job'[k] = job[k]
          BY <1>3, <1>5, <4>2
        <5> QED BY <4>2, <5>1 DEF Sources
      <4> QED BY <4>1, <4>2 DEF Sources
    <3>2. Above(Sources, Edges) \subseteq Above(Sources', Edges')
      <4> DEFINE S == Sources
                 T == Sources'
                 E == Edges
      <4>1. S \in SUBSET Deployment /\ T \in SUBSET Deployment /\ S \subseteq T
        BY <3>1 DEF Sources
      <4>2. E \in SUBSET (Deployment \X Deployment)
        BY <1>2
      <4> HIDE DEF S, T, E
      <4>3. Above(S, E) \subseteq Above(T, E)
        BY <4>1, <4>2, AboveStays
      <4> QED BY <1>3, <4>3 DEF S, T, E
    <3>3. d \notin Locking
      <4> SUFFICES ASSUME NEW k \in Handler, job[k].op = "lock", d \in Range(job[k].order)
                   PROVE  FALSE
        BY DEF Locking
      <4>1. k # h
        BY <2>6 DEF o
      <4>2. job'[k] = job[k]
        BY <1>5, <4>1
      <4>3. d \in Locking'
        BY <2>1, <4>2 DEF Locking
      <4> QED BY <4>3 DEF Due
    <3>4. d \notin Due
      BY <3>2, <3>3 DEF Due
    <3>5. row[d] = Summarised(d, row)
      BY <1>1, <2>1, <3>4 DEF Rolled
    <3>6. \A k \in Children(d) : new[k] = row[k]
      <4> SUFFICES ASSUME NEW k \in Children(d) PROVE new[k] = row[k]
        OBVIOUS
      <4>1. k \in Deployment /\ <<k, d>> \in Edges
        BY <1>2, ChildrenAre
      <4>2. <<k, d>>[1] = k /\ <<k, d>>[2] = d
        OBVIOUS
      <4>3. k \notin Range(o)
        BY <2>2, <2>6, <4>1, <4>2 DEF Closed
      <4> QED BY <2>4, <4>1, <4>3
    <3>7. Summarised(d, new) = Summarised(d, row)
      BY <3>6, SummarisedDepends
    <3>8. new[d] = row[d]
      BY <2>1, <2>4, <2>6
    <3> QED BY <1>3, <2>3, <3>5, <3>7, <3>8
  <2> QED BY <2>5, <2>6
<1> QED BY <1>6, <1>7
\* A request that starts, or is undone, leaves rows and recalculations alone.
LEMMA StartsRollUp ==
  ASSUME RollupInv, TypeOK', NEW h \in Handler,
         \/ \E d \in Deployment, L \in LabelSets : Patch(h, d, L)
         \/ \E d \in Deployment : GroupAdd(h, d) \/ GroupRemove(h, d)
         \/ \E L \in LabelSets : GroupSet(h, L)
         \/ \E x \in Dependencies : IddPut(h, x[1], x[2]) \/ IddDelete(h, x[1], x[2])
         \/ Fails(h) \/ IddCommit(h)
  PROVE  OrdersHold' /\ Rolled'
<1>1. TypeOK
  BY DEF RollupInv, TreeInv
<1>2. job \in [Handler -> Job] /\ Idle.op = "idle"
  BY <1>1, RecalcIsJob DEF TypeOK
<1>3. UNCHANGED <<rowVars, labels, edges, lost, overtaken>>
  BY DEF Patch, GroupAdd, GroupRemove, GroupSet, IddPut, IddDelete, Fails, IddCommit,
         graphVars, history
<1>4. job[h].op \notin {"recalc", "lock"}
  <2>1. \/ Asked(h)
        \/ job[h].op \in {"patch", "add", "set", "idd"}
    BY DEF Patch, GroupAdd, GroupRemove, GroupSet, IddPut, IddDelete, Fails, IddCommit
  <2> QED BY <1>2, <2>1 DEF Asked
<1>5. \E j : job' = [job EXCEPT ![h] = j] /\ j.op # "lock"
  <2>1. CASE job' = job
    <3>1. job' = [job EXCEPT ![h] = job[h]]
      BY <1>2, <2>1
    <3> QED BY <1>4, <3>1
  <2>2. CASE job' = [job EXCEPT ![h] = Idle]
    BY <1>2, <2>2
  <2>3. ASSUME NEW d \in Deployment, NEW L \in LabelSets, Patch(h, d, L)
        PROVE  \E j : job' = [job EXCEPT ![h] = j] /\ j.op # "lock"
    <3> DEFINE j == [op |-> "patch", dep |-> d, add |-> L \ labels[d], drop |-> labels[d] \ L,
                     child |-> Parents(L) # {}, stale |-> FALSE]
    <3>1. job' = [job EXCEPT ![h] = j] /\ j.op # "lock"
      BY <2>3 DEF Patch
    <3> HIDE DEF j
    <3> QED BY <3>1
  <2>4. ASSUME NEW d \in Deployment, GroupAdd(h, d)
        PROVE  \E j : job' = [job EXCEPT ![h] = j] /\ j.op # "lock"
    <3> DEFINE new == glabels \ labels[d]
               j == [op |-> "add", deps |-> {d}, parents |-> Parents(new), missing |-> new,
                     stale |-> FALSE]
    <3>1. job' = [job EXCEPT ![h] = j] /\ j.op # "lock"
      BY <2>4 DEF GroupAdd
    <3> HIDE DEF j
    <3> QED BY <3>1
  <2>5. ASSUME NEW L \in LabelSets, GroupSet(h, L)
        PROVE  \E j : job' = [job EXCEPT ![h] = j] /\ j.op # "lock"
    <3>1. job' = [job EXCEPT ![h] = SetOf(L)]
      BY <2>5 DEF GroupSet, SetOf
    <3>2. SetOf(L).op = "set"
      BY DEF SetOf
    <3> QED BY <3>1, <3>2
  <2>6. ASSUME NEW s, NEW t, IddPut(h, s, t)
        PROVE  \E j : job' = [job EXCEPT ![h] = j] /\ j.op # "lock"
    <3> DEFINE j == [op |-> "idd", src |-> s, tgt |-> t]
    <3>1. job' = [job EXCEPT ![h] = j] /\ j.op # "lock"
      BY <2>6 DEF IddPut
    <3> HIDE DEF j
    <3> QED BY <3>1
  <2>7. \A d : GroupRemove(h, d) => job' = job
    BY DEF GroupRemove
  <2>8. \A s, t : IddDelete(h, s, t) => job' = job
    BY DEF IddDelete
  <2>9. Fails(h) \/ IddCommit(h) => job' = [job EXCEPT ![h] = Idle]
    BY DEF Fails, IddCommit
  <2> QED BY <2>1, <2>2, <2>3, <2>4, <2>5, <2>6, <2>7, <2>8, <2>9
<1>6. job'[h].op # "lock" /\ \A k \in Handler \ {h} : job'[k] = job[k]
  BY <1>2, <1>5
<1>7. InOrder(job'[h], Edges)
  BY <1>6 DEF InOrder
<1> QED BY <1>3, <1>4, <1>6, <1>7, RestKeeps

LEMMA LockRollsUp ==
  ASSUME RollupInv, TypeOK', NEW h \in Handler, RecalcLock(h)
  PROVE  OrdersHold' /\ Rolled'
<1> DEFINE next == Head(job[h].todo)
           j == [job[h] EXCEPT !.todo = Tail(job[h].todo), !.held = job[h].held \cup {next}]
<1>1. TypeOK /\ job \in [Handler -> Job]
  BY DEF RollupInv, TreeInv, TypeOK
<1>2. job[h] \in LockJob /\ job[h].op = "lock"
  BY <1>1, JobKind DEF RecalcLock
<1>3. /\ job' = [job EXCEPT ![h] = j]
      /\ UNCHANGED <<rowVars, labels, edges, lost, overtaken>>
  BY <1>1 DEF RecalcLock, graphVars, history
<1>4. j.op = "lock" /\ j.order = job[h].order /\ j.stale = job[h].stale
  BY <1>2 DEF LockJob
<1> HIDE DEF j
<1>5. job'[h] = j /\ \A k \in Handler \ {h} : job'[k] = job[k]
  BY <1>1, <1>3
<1>6. InOrder(job[h], Edges) => InOrder(job'[h], Edges)
  BY <1>2, <1>4, <1>5 DEF InOrder
<1> QED BY <1>2, <1>3, <1>4, <1>5, <1>6, RestKeeps

\* A request that the database ends has something to wait for, so it is not one that
\* has yet to read the rows.
LEMMA AbortRollsUp ==
  ASSUME RollupInv, TypeOK', NEW h \in Handler, DeadlockAbort(h)
  PROVE  OrdersHold' /\ Rolled'
<1>1. TypeOK /\ job \in [Handler -> Job] /\ lost \in BOOLEAN
  BY DEF RollupInv, TreeInv, TypeOK
<1>2. /\ job' = [job EXCEPT ![h] = Idle] /\ lost' = (lost \/ job[h].op = "lock")
      /\ UNCHANGED <<rowVars, labels, edges, overtaken>>
  BY DEF DeadlockAbort, graphVars
<1>3. Wanted(h) # {}
  BY DEF DeadlockAbort, Deadlocked, Waits
<1>4. job[h].op # "recalc"
  BY <1>3 DEF Wanted
<1>5. job'[h].op = "idle" /\ \A k \in Handler \ {h} : job'[k] = job[k]
  BY <1>1, <1>2, RecalcIsJob
<1>6. InOrder(job'[h], Edges)
  BY <1>5 DEF InOrder
<1> QED BY <1>2, <1>4, <1>5, <1>6, RestKeeps

LEMMA StepRollsUp ==
  ASSUME RollupInv, TreeInv', [Next]_vars
  PROVE  OrdersHold' /\ Rolled'
<1>1. TypeOK'
  BY DEF TreeInv
<1>2. CASE UNCHANGED vars
  <2>1. /\ UNCHANGED <<exists, labels, edges, own, row, deleting, job, lost, overtaken>>
        /\ Edges' = Edges
    BY <1>2 DEF vars, Edges
  <2>2. Sources' = Sources /\ Locking' = Locking
    BY <2>1 DEF Sources, Waiting, Locking
  <2>3. Due' = Due
    BY <2>1, <2>2 DEF Due
  <2>4. \A d : Summarised(d, row)' = Summarised(d, row)
    BY <2>1 DEF Summarised, Children, Edges, IsEnvironment
  <2>5. Rolled'
    BY <2>1, <2>3, <2>4 DEF RollupInv, Rolled
  <2>6. OrdersHold'
    BY <2>1 DEF RollupInv, OrdersHold
  <2> QED BY <2>5, <2>6
<1>3. ASSUME NEW h \in Handler, Request(h) PROVE OrdersHold' /\ Rolled'
  <2>1. ASSUME NEW d \in Deployment, NEW L \in LabelSets, Patch(h, d, L)
        PROVE  OrdersHold' /\ Rolled'
    BY <1>1, <2>1, StartsRollUp
  <2>2. ASSUME NEW d \in Deployment, GroupAdd(h, d) \/ GroupRemove(h, d)
        PROVE  OrdersHold' /\ Rolled'
    BY <1>1, <2>2, StartsRollUp
  <2>3. ASSUME NEW d \in Deployment,
               \/ \E s \in OwnStates : SetStatus(h, d, s)
               \/ \E f, r \in BOOLEAN : Delete(h, d, f, r)
        PROVE  OrdersHold' /\ Rolled'
    BY <1>1, <2>3, TouchesRollUp
  <2>4. ASSUME NEW L \in LabelSets, GroupSet(h, L) PROVE OrdersHold' /\ Rolled'
    BY <1>1, <2>4, StartsRollUp
  <2>5. ASSUME NEW x \in Dependencies, IddPut(h, x[1], x[2]) \/ IddDelete(h, x[1], x[2])
        PROVE  OrdersHold' /\ Rolled'
    BY <1>1, <2>5, StartsRollUp
  <2>6. ASSUME NEW d \in Deployment,
               \/ \E s \in OwnStates : Cancel(h, d, s)
               \/ \E f, r \in BOOLEAN : DeleteRefused(h, d, f, r)
        PROVE  OrdersHold' /\ Rolled'
    BY <2>6, LostRollUp
  <2> QED BY <1>3, <2>1, <2>2, <2>3, <2>4, <2>5, <2>6 DEF Request
<1>4. ASSUME NEW h \in Handler, DeleteStep(h) PROVE OrdersHold' /\ Rolled'
  <2>1. ASSUME NEW d \in Deployment, DeleteStarted(h, d) \/ DeleteFailed(h, d)
        PROVE  OrdersHold' /\ Rolled'
    BY <1>1, <2>1, TouchesRollUp
  <2>2. ASSUME NEW d \in Deployment, DeleteEnded(h, d) PROVE OrdersHold' /\ Rolled'
    BY <2>2, DeleteEndedRollsUp
  <2> QED BY <1>4, <2>1, <2>2 DEF DeleteStep
<1>5. ASSUME NEW h \in Handler, Work(h) PROVE OrdersHold' /\ Rolled'
  <2>1. CASE PatchCommit(h)
    BY <2>1, PatchRollsUp
  <2>2. CASE GroupAddCommit(h)
    BY <2>2, GroupAddRollsUp
  <2>3. CASE GroupSetCommit(h)
    BY <2>3, GroupSetRollsUp
  <2>4. CASE Fails(h) \/ IddCommit(h)
    BY <1>1, <2>4, StartsRollUp
  <2>5. CASE RecalcQuery(h)
    BY <1>1, <2>5, QueryRollsUp
  <2>6. CASE RecalcLock(h)
    BY <1>1, <2>6, LockRollsUp
  <2>7. CASE RecalcCommit(h)
    BY <1>1, <2>7, RecalcRollsUp
  <2>8. CASE DeadlockAbort(h)
    BY <1>1, <2>8, AbortRollsUp
  <2> QED BY <1>5, <2>1, <2>2, <2>3, <2>4, <2>5, <2>6, <2>7, <2>8 DEF Work
<1> QED BY <1>2, <1>3, <1>4, <1>5 DEF Next

\* At first parents have higher numbers than their children, so rows are summed up
\* by number from the bottom up.
LEMMA InitRolled == Init => OrdersHold /\ Rolled
<1> SUFFICES ASSUME Init PROVE OrdersHold /\ Rolled
  OBVIOUS
<1>1. TypeOK
  BY InitTypeOK
<1>2. /\ exists \in SUBSET Deployment /\ exists = DOMAIN InitLabels
      /\ own \in [Deployment -> DeploymentState] /\ Edges \subseteq Deployment \X Deployment
  BY <1>1 DEF TypeOK, Init
<1> DEFINE rows == [d \in Deployment |-> Leaf("good")]
           o == ById(exists)
<1>3. rows \in [Deployment -> Row] /\ row = Resummed(rows, o)
  BY DEF Leaf, Row, DeploymentState, NoStatus, Init
<1>4. /\ o \in Seq(Deployment) /\ Range(o) = exists /\ IsInjective(o)
      /\ \A i, j \in DOMAIN o : i < j => o[i] < o[j]
  BY <1>2, ByIdKeeps
<1> HIDE DEF rows, o
<1>5. Edges = NamedAtFirst
  BY InitEdgesAre DEF Init, Edges
<1>6. ASSUME NEW i \in DOMAIN o, NEW j \in DOMAIN o, i <= j, <<o[j], o[i]>> \in Edges
      PROVE  FALSE
  <2>1. o[i] \in exists /\ o[j] \in exists
    BY <1>4, RangeSubset
  <2>2. o[i] \in Nat /\ o[j] \in Nat /\ o[i] # EnvLabel
    BY <1>2, <2>1, TreeAssumption DEF EnvLabel
  <2>3. <<o[j], o[i]>>[1] = o[j] /\ <<o[j], o[i]>>[2] = o[i]
    OBVIOUS
  <2>4. o[i] \in InitLabels[o[j]]
    BY <1>5, <1>6, <2>3 DEF NamedAtFirst
  <2>5. o[i] > o[j]
    BY <1>2, <2>1, <2>2, <2>4, TreeAssumption
  <2>6. i \in Nat /\ j \in Nat
    BY <1>4
  <2>7. CASE i = j
    BY <2>2, <2>5, <2>7
  <2>8. CASE i < j
    BY <1>4, <2>2, <2>5, <2>8
  <2> QED BY <1>6, <2>6, <2>7, <2>8
<1>7. FromBelow(o, Edges)
  BY <1>4, <1>6 DEF FromBelow
<1>8. \A d \in exists : row[d] = Summarised(d, row)
  BY <1>2, <1>3, <1>4, <1>7, ResummedAreRows
<1>9. \A h \in Handler : job[h].op = "idle"
  BY RecalcIsJob DEF Init
<1> QED BY <1>8, <1>9 DEF OrdersHold, InOrder, Rolled

\* Once all requests are done, every row sums up the rows below it, whatever requests
\* patch, join, relabel and delete at the same time and in whatever order their
\* recalculations (recalc_ancestors) are committed: a change leaves a handler that is
\* still to recalculate from where it was made, what that one reads is all that is
\* above, and it sums up from the bottom up.  The exceptions are a recalculation that
\* was lost or out of order, and a group that left an edge no label names.
THEOREM RowsRollUp == Spec => []RollupCurrent
<1>1. Init => RollupInv
  BY InitTreeInv, InitRolled DEF RollupInv
<1>2. RollupInv /\ [Next]_vars /\ TreeInv' => RollupInv'
  BY StepRollsUp DEF RollupInv
<1>3. RollupInv => RollupCurrent
  <2> SUFFICES ASSUME RollupInv, Quiet, ~ lost, "group" \notin overtaken, NEW d \in exists
               PROVE  row[d] = Summarised(d, row)
    BY DEF RollupCurrent
  <2>1. \A h \in Handler : job[h].op = "idle"
    BY RecalcIsJob DEF Quiet
  <2>2. Sources = {} /\ Locking = {}
    BY <2>1 DEF Sources, Waiting, Locking, Quiet
  <2>3. Closed({}, Edges)
    BY DEF Closed
  <2>4. Above({}, Edges) = {}
    BY <2>3 DEF Above
  <2>5. d \notin Due
    BY <2>2, <2>4 DEF Due
  <2> QED BY <2>5 DEF RollupInv, Rolled
<1> QED BY <1>1, <1>2, <1>3, TreeInvariant, PTL DEF Spec
=============================================================================
