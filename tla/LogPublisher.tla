---------------------------- MODULE LogPublisher ----------------------------
(***************************************************************************)
(* amqp-postgres: one thread consumes logs and events from RabbitMQ and    *)
(* acks them, another one stores them in batches.  A batch that cannot be  *)
(* stored is stored one by one.  The service restarts when the database is *)
(* lost, and RabbitMQ delivers again whatever was not acked.               *)
(***************************************************************************)
EXTENDS Naturals, Sequences, SequencesExt

CONSTANTS
  Message, Execution,
  ExecOf,       \* the execution of each message
  Kind,         \* what each message is like
  BatchLimit,   \* 100: a batch of more is stored at once
  CacheLimit,   \* 100: executions remembered
  MaxRow,       \* bound: _storage_ids an execution may have
  MaxSent,      \* bound: messages sent
  MaxChanges,   \* bound: executions created or deleted
  MaxChannel    \* bound: connections to RabbitMQ

\* "hook": for the hooks consumer; "garbage": not JSON; "malformed": a field is
\* missing; "raises": no execution_id, or several executions have it;
\* "unstorable": the database refuses it.
Kinds == {"ok", "hook", "garbage", "malformed", "raises", "unstorable"}

ASSUME MessageAssumption ==
  /\ ExecOf \in [Message -> Execution]
  /\ Kind \in [Message -> Kinds]
ASSUME LimitAssumption ==
  /\ BatchLimit \in Nat /\ CacheLimit \in Nat \ {0}
  /\ MaxSent \in Nat /\ MaxChanges \in Nat
  /\ MaxRow \in Nat \ {0} /\ MaxChannel \in Nat \ {0}

VARIABLES
  row,        \* executions._storage_id by id: 0 if there is none
  rows,       \* how often each message is in the tables events and logs
  queue,      \* messages in RabbitMQ, ready for delivery
  unacked,    \* messages delivered to the current channel and not acked
  channel,    \* number of the current channel
  batch,      \* _batch: deliveries for the publisher thread
  acks,       \* acks_queue: deliveries for the consumer thread to ack
  pc,         \* what the publisher thread does
  items,      \* deliveries of the batch being stored
  next,       \* index of the item to look at
  found,      \* rows to be inserted, with the execution each refers to
  cache,      \* _executions_cache, oldest first
  sent,       \* messages that have been sent
  changes,    \* executions created or deleted so far (bounded)
  delivered,  \* history: how often each message was delivered
  orphans     \* history: messages whose execution was missing while their
              \* batch was being stored

vars == <<row, rows, queue, unacked, channel, batch, acks, pc, items, next, found,
          cache, sent, changes, delivered, orphans>>

storeVars == <<items, next, found, cache>>
brokerVars == <<queue, unacked, channel, delivered>>

Delivery == [msg : Message, ch : 1..MaxChannel]
Entry == [exec : Execution, row : 0..MaxRow]
Messages(s) == {s[i].msg : i \in DOMAIN s}

\* The items that are being stored.
Storing == IF pc \in {"lookup", "one", "insertOne"} THEN Messages(items) ELSE {}
--------------------------------------------------------------------------
(***************************************************************************)
(* Executions and senders.                                                 *)
(***************************************************************************)

\* Executions are created and deleted meanwhile; one that is created again has
\* another _storage_id than the ones anybody remembers.
CreateExecution(e) ==
  /\ row[e] = 0 /\ changes < MaxChanges
  /\ changes' = changes + 1
  /\ \E r \in 1..MaxRow :
       /\ \A c \in Range(cache) : c # [exec |-> e, row |-> r]
       /\ \A f \in Range(found) : f.row = r => ExecOf[f.msg] # e
       /\ row' = [row EXCEPT ![e] = r]
  /\ UNCHANGED <<rows, brokerVars, batch, acks, pc, storeVars, sent, orphans>>

DeleteExecution(e) ==
  /\ row[e] # 0 /\ changes < MaxChanges
  /\ changes' = changes + 1
  /\ row' = [row EXCEPT ![e] = 0]
  /\ orphans' = orphans \cup {m \in Storing \cap (unacked \cup Range(queue)) :
                                ExecOf[m] = e}
  /\ UNCHANGED <<rows, brokerVars, batch, acks, pc, storeVars, sent>>

Send(m) ==
  /\ m \notin sent /\ Cardinality(sent) < MaxSent
  /\ sent' = sent \cup {m}
  /\ queue' = Append(queue, m)
  /\ UNCHANGED <<row, changes, rows, unacked, channel, delivered, batch, acks, pc, storeVars,
                 orphans>>
--------------------------------------------------------------------------
(***************************************************************************)
(* The consumer thread.                                                    *)
(***************************************************************************)

\* AMQPLogsEventsConsumer.process: what is for the hooks is acked at once, what
\* cannot be parsed is neither kept nor acked.
Deliver ==
  /\ queue # <<>>
  /\ LET m == Head(queue) IN
     /\ queue' = Tail(queue)
     /\ unacked' = IF Kind[m] = "hook" THEN unacked ELSE unacked \cup {m}
     /\ delivered' = [delivered EXCEPT ![m] = @ + 1]
     /\ batch' = IF Kind[m] \in {"hook", "garbage"} THEN batch
                 ELSE Append(batch, [msg |-> m, ch |-> channel])
  /\ UNCHANGED <<row, changes, rows, channel, acks, pc, storeVars, sent, orphans>>

\* Messages go back to their queue.
Requeued == SetToSeq(unacked) \o queue

\* The service ends, by an error or a crash, and systemd starts it again; no
\* delivery of an earlier channel is left.
Restart ==
  /\ queue' = Requeued /\ unacked' = {}
  /\ batch' = <<>> /\ acks' = <<>>
  /\ pc' = "take" /\ items' = <<>> /\ next' = 1 /\ found' = <<>> /\ cache' = <<>>
  /\ UNCHANGED <<row, changes, rows, delivered, sent, orphans>>

\* Another connection is made.
NewChannel == channel < MaxChannel /\ channel' = channel + 1

\* The connection to RabbitMQ is lost and made again: what the two threads
\* hold stays, with tags of a channel that is gone.
Reconnect ==
  /\ NewChannel
  /\ queue' = Requeued /\ unacked' = {}
  /\ UNCHANGED <<row, changes, rows, delivered, batch, acks, pc, storeVars, sent, orphans>>

\* _process_acks; an ack on a channel that is gone raises, and ends the service.
Ack ==
  /\ acks # <<>> /\ Head(acks).ch = channel
  /\ acks' = Tail(acks)
  /\ unacked' = unacked \ {Head(acks).msg}
  /\ UNCHANGED <<row, changes, rows, queue, channel, delivered, batch, pc, storeVars, sent,
                 orphans>>

AckStale ==
  /\ acks # <<>> /\ Head(acks).ch # channel
  /\ Restart /\ UNCHANGED channel
--------------------------------------------------------------------------
(***************************************************************************)
(* The publisher thread, _message_publisher.                               *)
(***************************************************************************)
Take ==
  /\ pc = "take" /\ batch # <<>> /\ Len(items) <= BatchLimit
  /\ items' = Append(items, Head(batch))
  /\ batch' = Tail(batch)
  /\ UNCHANGED <<row, changes, rows, brokerVars, acks, pc, next, found, cache, sent, orphans>>

\* BATCH_DELAY has passed, or there are enough items: _store begins.
Store ==
  /\ pc = "take" /\ items # <<>>
  /\ pc' = "lookup" /\ next' = 1 /\ found' = <<>>
  /\ orphans' = orphans \cup {m \in Messages(items) \cap (unacked \cup Range(queue)) :
                                row[ExecOf[m]] = 0}
  /\ UNCHANGED <<row, changes, rows, brokerVars, batch, acks, items, cache, sent>>

\* _get_execution: what the cache knows of execution e, or else what the
\* database says of it.
Cached(e) == \E c \in Range(cache) : c.exec = e
ExecutionRow(e) ==
  IF Cached(e) THEN (CHOOSE c \in Range(cache) : c.exec = e).row ELSE row[e]

\* (mutant) executions are never dropped from the cache
CacheWithAll(e) ==
  IF Cached(e) THEN cache ELSE Append(cache, [exec |-> e, row |-> row[e]])

\* LimitedSizeDict: the cache once e has been looked up.
CacheWith(e) ==
  IF Cached(e) THEN cache
  ELSE LET c == Append(cache, [exec |-> e, row |-> row[e]])
       IN IF Len(c) > CacheLimit THEN Tail(c) ELSE c

\* (mutant) missing executions are remembered
SanitizedNever(c) == c

\* _sanitize_cache: the entries of missing executions are dropped.
Sanitized(c) ==
  LET kept[n \in 0..Len(c)] ==
        IF n = 0 THEN <<>>
        ELSE IF c[n].row = 0 THEN kept[n - 1] ELSE Append(kept[n - 1], c[n])
  IN  kept[Len(c)]

\* _get_db_item: the message of an item and the row it refers to, or nothing.
DbItem(m) ==
  IF ExecutionRow(ExecOf[m]) = 0 \/ Kind[m] = "malformed" THEN <<>>
  ELSE <<[msg |-> m, row |-> ExecutionRow(ExecOf[m])]>>

\* The database accepts a row: its execution is still there.
Accepted(f) == row[ExecOf[f.msg]] = f.row /\ Kind[f.msg] # "unstorable"

Lookup ==
  LET m == items[next].msg IN
  /\ pc = "lookup" /\ next <= Len(items) /\ Kind[m] # "raises"
  /\ found' = found \o DbItem(m)
  /\ cache' = CacheWith(ExecOf[m])
  /\ next' = next + 1
  /\ UNCHANGED <<row, changes, rows, brokerVars, batch, acks, pc, items, sent, orphans>>

Count(s, m) == Cardinality({i \in DOMAIN s : s[i].msg = m})
Inserted(fs) == [m \in Message |-> rows[m] + Count(fs, m)]

\* All rows are inserted and committed at once; then every item is acked, the
\* dropped ones too.
StoreCommit ==
  /\ pc = "lookup" /\ next > Len(items)
  /\ \A f \in Range(found) : Accepted(f)
  /\ rows' = Inserted(found)
  /\ acks' = acks \o items
  /\ pc' = "take" /\ items' = <<>> /\ next' = 1 /\ found' = <<>>
  /\ cache' = Sanitized(cache)
  /\ UNCHANGED <<row, changes, brokerVars, batch, sent, orphans>>

StoreError ==
  /\ pc = "lookup"
  /\ \/ next <= Len(items) /\ Kind[items[next].msg] = "raises"
     \/ next > Len(items) /\ \E f \in Range(found) : ~ Accepted(f)

\* (mutants) the executions that were looked up are not forgotten; what was
\* inserted before the error stays
StoreFailsCached ==
  /\ StoreError
  /\ pc' = "one" /\ next' = 1 /\ found' = <<>>
  /\ UNCHANGED <<row, changes, rows, brokerVars, batch, acks, items, cache, sent, orphans>>
StoreFailsPartly ==
  /\ StoreError
  /\ rows' = Inserted(SelectSeq(found, Accepted))
  /\ pc' = "one" /\ next' = 1 /\ found' = <<>> /\ cache' = <<>>
  /\ UNCHANGED <<row, changes, brokerVars, batch, acks, items, sent, orphans>>

\* The transaction is rolled back and _store_nobatch begins.
StoreFails ==
  /\ StoreError
  /\ pc' = "one" /\ next' = 1 /\ found' = <<>> /\ cache' = <<>>
  /\ UNCHANGED <<row, changes, rows, brokerVars, batch, acks, items, sent, orphans>>

LookupOne ==
  LET m == items[next].msg IN
  /\ pc = "one" /\ next <= Len(items) /\ Kind[m] # "raises"
  /\ cache' = CacheWith(ExecOf[m])
  /\ found' = DbItem(m)
  /\ IF DbItem(m) = <<>> THEN pc' = "one" /\ next' = next + 1
                         ELSE pc' = "insertOne" /\ next' = next
  /\ UNCHANGED <<row, changes, rows, brokerVars, batch, acks, items, sent, orphans>>

\* An item is committed, or its error is logged; it is not acked.
InsertOne ==
  /\ pc = "insertOne"
  /\ rows' = IF Accepted(found[1]) THEN Inserted(found) ELSE rows
  /\ pc' = "one" /\ next' = next + 1 /\ found' = <<>>
  /\ UNCHANGED <<row, changes, brokerVars, batch, acks, items, cache, sent, orphans>>

StoredOneByOne ==
  /\ pc = "one" /\ next > Len(items)
  /\ pc' = "take" /\ items' = <<>> /\ next' = 1 /\ found' = <<>>
  /\ cache' = Sanitized(cache)
  /\ UNCHANGED <<row, changes, rows, brokerVars, batch, acks, sent, orphans>>

\* An error that neither function expects ends the publisher thread; the
\* consumer goes on.
ThreadDies ==
  /\ pc = "one" /\ next <= Len(items)
  /\ Kind[items[next].msg] = "raises"
  /\ pc' = "dead"
  /\ UNCHANGED <<row, changes, rows, brokerVars, batch, acks, storeVars, sent, orphans>>

\* The database is lost: on_db_connection_error ends the service.
DatabaseLost ==
  /\ pc \in {"lookup", "insertOne"}
  /\ Restart /\ NewChannel

\* The call of _get_db_item in _store_nobatch does not expect it.
DatabaseLostUnseen ==
  /\ pc = "one" /\ next <= Len(items)
  /\ pc' = "dead"
  /\ UNCHANGED <<row, changes, rows, brokerVars, batch, acks, storeVars, sent, orphans>>

\* The service is killed.
Crash == Restart /\ NewChannel
--------------------------------------------------------------------------
Init ==
  /\ row \in [Execution -> {0, 1}]
  /\ rows = [m \in Message |-> 0]
  /\ queue = <<>> /\ unacked = {} /\ channel = 1
  /\ batch = <<>> /\ acks = <<>>
  /\ pc = "take" /\ items = <<>> /\ next = 1 /\ found = <<>> /\ cache = <<>>
  /\ sent = {} /\ changes = 0 /\ delivered = [m \in Message |-> 0] /\ orphans = {}

Publisher ==
  \/ Store \/ Lookup \/ StoreCommit \/ StoreFails
  \/ LookupOne \/ InsertOne \/ StoredOneByOne \/ ThreadDies

Next ==
  \/ \E e \in Execution : CreateExecution(e) \/ DeleteExecution(e)
  \/ \E m \in Message : Send(m)
  \/ Deliver \/ Reconnect \/ Ack \/ AckStale
  \/ Take \/ Publisher \/ DatabaseLost \/ DatabaseLostUnseen \/ Crash

Spec == Init /\ [][Next]_vars

\* The two threads go on; a publisher that has items stores them.
FairSpec == Spec /\ WF_vars(Deliver) /\ WF_vars(Ack \/ AckStale)
                 /\ WF_vars(Take) /\ WF_vars(Publisher)
--------------------------------------------------------------------------
\* The variables have their types.
TypeOK ==
  /\ row \in [Execution -> 0..MaxRow] /\ rows \in [Message -> Nat]
  /\ queue \in Seq(Message) /\ unacked \subseteq Message
  /\ channel \in 1..MaxChannel
  /\ batch \in Seq(Delivery) /\ acks \in Seq(Delivery) /\ items \in Seq(Delivery)
  /\ pc \in {"take", "lookup", "one", "insertOne", "dead"}
  /\ next \in 1..(Len(items) + 1)
  /\ found \in Seq([msg : Message, row : 1..MaxRow])
  /\ cache \in Seq(Entry) /\ Len(cache) <= CacheLimit
  /\ sent \subseteq Message /\ orphans \subseteq Message
  /\ changes \in Nat /\ delivered \in [Message -> Nat]

Journal == INSTANCE EventJournal WITH
  Unwanted <- {m \in Message : Kind[m] \in {"hook", "malformed"}},
  exists <- {e \in Execution : row[e] # 0},
  waiting <- unacked \cup Range(queue)

\* The service implements the journal: nothing is acked that was not stored,
\* unless it is of no use or its execution was missing while its batch was
\* being stored; a cached "no execution" is not used for a later batch.
ImplementsJournal == Journal!Spec

\* A batch that failed leaves nothing behind, so that storing its items one by
\* one adds no second copy: what is stored twice was delivered twice.
OncePerDelivery == \A m \in Message : rows[m] <= delivered[m]

\* A message that can be stored is stored, whatever its batch holds beside it
\* and whatever the cache says of its execution, unless the execution is
\* missing or the publisher thread has ended: by a message that raises, or by the
\* loss of the database while items are stored one by one.
StorableIsStored ==
  \A m \in {n \in Message : Kind[n] = "ok"} :
    m \in Range(queue) ~> rows[m] > 0 \/ m \in orphans \/ pc = "dead"
=============================================================================
