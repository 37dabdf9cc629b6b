---------------------------- MODULE OutboxRelay -----------------------------
(***************************************************************************)
(* The transactional outbox (mission_store) and the process that drains it *)
(* (grc_api/relay.py).  Writers insert rows in transactions: an id is      *)
(* taken from the sequence at the insert, the row is visible from the      *)
(* commit.  A relay fetches the unpublished rows it can see in id order,   *)
(* and publishes and marks them one by one on an autocommit connection     *)
(* that it opened when its process started.                                *)
(*                                                                         *)
(* A row is its position in `rows'.  Sequence, visibility and the loss of  *)
(* a connection are Postgres's and psycopg's, modelled from their use.     *)
(***************************************************************************)
EXTENDS Naturals, Sequences, FiniteSets

CONSTANTS Txns,         \* the transactions that write events
          Relays,       \* the relay processes (a deployment runs one)
          Kinds,        \* what the writers write: a subset of Kind
          Limit,        \* rows fetched by one drain
          MaxRows,      \* bound: rows ever inserted
          MaxFaults     \* bound: what goes wrong (a relay, a consumer or a connection
                        \* fails, a row is written that this build cannot rebuild)

\* A row this build rebuilds, one of an event name it does not register, one of a
\* payload version it does not read.
Kind == {"known", "unregistered", "newer"}

ASSUME KindsAssumption == Kinds \subseteq Kind
ASSUME LimitAssumption == Limit \in Nat \ {0}
ASSUME BoundsAssumption == MaxRows \in Nat /\ MaxFaults \in Nat

VARIABLES
    rows,       \* the outbox: its rows in id order
    txn,        \* what became of each transaction
    relay,      \* each relay: where it is, its batch, whether it was told to stop
    linked,     \* whether its connection is alive
    faults,     \* how much of the bound is used
    delivered   \* history: the rows handed to the consumers, in order

vars == <<rows, txn, relay, linked, faults, delivered>>

Ids == DOMAIN rows
Visible(i) == txn[rows[i].txn] = "committed"

Looping == [at |-> "loop", batch |-> <<>>, stopping |-> FALSE]

Init == /\ rows = <<>>
        /\ txn = [t \in Txns |-> "open"]
        /\ relay = [r \in Relays |-> Looping]
        /\ linked = [r \in Relays |-> TRUE]
        /\ faults = 0
        /\ delivered = <<>>

Fault == faults < MaxFaults /\ faults' = faults + 1

-----------------------------------------------------------------------------
(* The writers. *)

\* OutboxSink.write.  What the row's writer could know of earlier rows is kept as
\* history: those already committed, and its own.
WriteEvent(t) ==
    /\ txn[t] = "open"
    /\ Len(rows) < MaxRows
    /\ \E k \in Kinds :
         /\ IF k = "known" THEN UNCHANGED faults ELSE Fault
         /\ rows' = Append(rows, [txn       |-> t,
                                  kind      |-> k,
                                  published |-> FALSE,
                                  after     |-> {i \in Ids : Visible(i) \/ rows[i].txn = t}])
    /\ UNCHANGED <<txn, relay, linked, delivered>>

EndTxn(t, how) ==
    /\ txn[t] = "open"
    /\ txn' = [txn EXCEPT ![t] = how]
    /\ UNCHANGED <<rows, relay, linked, faults, delivered>>

-----------------------------------------------------------------------------
(* A relay. *)

Set(r, what) == relay' = [relay EXCEPT ![r] = what]

\* [mutant] the relay reads uncommitted rows
Unpublished_Dirty == {i \in Ids : ~rows[i].published}

\* The unpublished rows a read sees.
Unpublished == {i \in Ids : Visible(i) /\ ~rows[i].published}

\* What ORDER BY id LIMIT returns of these rows: in id order, and a row is left out
\* only behind a full page.  There is one such page.
IsPage(page, ids) ==
    /\ \A j, k \in DOMAIN page : j < k => page[j] < page[k]
    /\ \A i \in ids : \/ \E k \in DOMAIN page : page[k] = i
                      \/ Len(page) = Limit /\ \A k \in DOMAIN page : page[k] < i

Pages(ids) == {page \in UNION {[1..n -> ids] : n \in 1..Limit} : IsPage(page, ids)}

\* [mutant] the newest rows first
Fetch_Newest(r) ==
    /\ relay[r].at = "loop" /\ ~relay[r].stopping
    /\ linked[r]
    /\ \E i \in Unpublished :
         /\ \A j \in Unpublished : j <= i
         /\ Set(r, [relay[r] EXCEPT !.at = "row", !.batch = <<i>>])
    /\ UNCHANGED <<rows, txn, linked, faults, delivered>>

\* The next cycle: drain's SELECT.
Fetch(r) ==
    /\ relay[r].at = "loop" /\ ~relay[r].stopping
    /\ linked[r]
    /\ \E page \in Pages(Unpublished) :
         Set(r, [relay[r] EXCEPT !.at = "row", !.batch = page])
    /\ UNCHANGED <<rows, txn, linked, faults, delivered>>

NextRow(r)  == Head(relay[r].batch)
NextKind(r) == rows[NextRow(r)].kind

Back(r) == [relay[r] EXCEPT !.at = "loop", !.batch = <<>>]

\* [mutant] the row is marked before it is published
Publish_MarkFirst(r) ==
    /\ relay[r].at = "row"
    /\ NextKind(r) = "known"
    /\ rows' = [rows EXCEPT ![NextRow(r)].published = TRUE]
    /\ Set(r, [relay[r] EXCEPT !.at = "mark"])
    /\ UNCHANGED <<txn, linked, faults, delivered>>

\* The consumer has the event: what is left is to mark the row.
Publish(r) ==
    /\ relay[r].at = "row"
    /\ NextKind(r) = "known"
    /\ delivered' = Append(delivered, NextRow(r))
    /\ Set(r, [relay[r] EXCEPT !.at = "mark"])
    /\ UNCHANGED <<rows, txn, linked, faults>>

\* UnsupportedEventType: run_relay reports it and returns, the process exits with 1.
Block(r) ==
    /\ relay[r].at = "row"
    /\ NextKind(r) = "unregistered"
    /\ Set(r, [relay[r] EXCEPT !.at = "blocked", !.batch = <<>>])
    /\ UNCHANGED <<rows, txn, linked, faults, delivered>>

\* [mutant] the payload version is not compared
Misread_Any(r) ==
    /\ relay[r].at = "row"
    /\ Set(r, Back(r))
    /\ UNCHANGED <<rows, txn, linked, faults, delivered>>

\* OutboxError: one of the errors run_relay backs off from and tries again.
Misread(r) ==
    /\ relay[r].at = "row"
    /\ NextKind(r) = "newer"
    /\ Set(r, Back(r))
    /\ UNCHANGED <<rows, txn, linked, faults, delivered>>

\* The batch goes on, or the cycle is over.
Advance(r) == LET rest == Tail(relay[r].batch) IN
    [relay[r] EXCEPT !.at = IF rest = <<>> THEN "loop" ELSE "row", !.batch = rest]

\* The row is marked, in a statement of its own.
Mark(r) ==
    /\ relay[r].at = "mark"
    /\ linked[r]
    /\ rows' = [rows EXCEPT ![NextRow(r)].published = TRUE]
    /\ Set(r, Advance(r))
    /\ UNCHANGED <<txn, linked, faults, delivered>>

\* [mutant] the rest of the batch is kept
MarkFails_KeepBatch(r) ==
    /\ relay[r].at = "mark"
    /\ ~linked[r]
    /\ Set(r, [relay[r] EXCEPT !.at = "loop"])
    /\ UNCHANGED <<rows, txn, linked, faults, delivered>>

\* The UPDATE finds the connection gone: the rest of the batch is given up.
MarkFails(r) ==
    /\ relay[r].at = "mark"
    /\ ~linked[r]
    /\ Set(r, Back(r))
    /\ UNCHANGED <<rows, txn, linked, faults, delivered>>

\* SIGTERM: the loop stops before its next cycle, and the process exits.
Shutdown(r) ==
    /\ relay[r].at \in {"loop", "row", "mark"} /\ ~relay[r].stopping
    /\ Fault
    /\ Set(r, [relay[r] EXCEPT !.stopping = TRUE])
    /\ UNCHANGED <<rows, txn, linked, delivered>>

Stop(r) ==
    /\ relay[r].at = "loop" /\ relay[r].stopping
    /\ Set(r, [relay[r] EXCEPT !.at = "down"])
    /\ UNCHANGED <<rows, txn, linked, faults, delivered>>

Crash(r) ==
    /\ relay[r].at \in {"loop", "row", "mark"}
    /\ Fault
    /\ Set(r, [Back(r) EXCEPT !.at = "down"])
    /\ UNCHANGED <<rows, txn, linked, delivered>>

\* A consumer raises: the event may have reached others before it.
PublishFails(r) ==
    /\ relay[r].at = "row"
    /\ NextKind(r) = "known"
    /\ Fault
    /\ delivered' \in {delivered, Append(delivered, NextRow(r))}
    /\ Set(r, Back(r))
    /\ UNCHANGED <<rows, txn, linked>>

\* The database or a pooler drops the session; nothing in the process replaces it.
LoseConnection(r) ==
    /\ relay[r].at \in {"loop", "row", "mark"}
    /\ linked[r]
    /\ Fault
    /\ linked' = [linked EXCEPT ![r] = FALSE]
    /\ UNCHANGED <<rows, txn, relay, delivered>>

\* The platform starts a process that exited, with a connection of its own.  One
\* that is blocked starts too, and blocks again.
Restart(r) ==
    /\ relay[r].at \in {"down", "blocked"}
    /\ Set(r, Looping)
    /\ linked' = [linked EXCEPT ![r] = TRUE]
    /\ UNCHANGED <<rows, txn, faults, delivered>>

-----------------------------------------------------------------------------

Writer(t) == WriteEvent(t) \/ EndTxn(t, "committed") \/ EndTxn(t, "rolledback")
Work(r)    == Fetch(r) \/ Publish(r) \/ Block(r) \/ Misread(r) \/ Mark(r) \/ MarkFails(r)
Failure(r) == Shutdown(r) \/ Crash(r) \/ PublishFails(r) \/ LoseConnection(r)

\* Nothing to write and nothing to drain.
Drained == /\ \A t \in Txns : txn[t] # "open"
           /\ \A r \in Relays : relay[r].at = "loop" /\ ~relay[r].stopping
           /\ Unpublished = {} \/ \A r \in Relays : ~linked[r]
           /\ UNCHANGED vars

Next == \/ \E t \in Txns : Writer(t)
        \/ \E r \in Relays : Work(r) \/ Stop(r) \/ Restart(r) \/ Failure(r)
        \/ Drained

Spec == Init /\ [][Next]_vars

\* A transaction ends, a relay works and stops when told to, and the platform starts
\* one that is gone.
FairRelay == /\ Spec
             /\ \A t \in Txns : WF_vars(EndTxn(t, "committed") \/ EndTxn(t, "rolledback"))
             /\ \A r \in Relays : WF_vars(Work(r) \/ Stop(r) \/ Restart(r))

-----------------------------------------------------------------------------
(* Properties. *)

\* Types; and a relay has rows in hand exactly while it is in its batch.
TypeOK ==
    /\ rows \in Seq([txn : Txns, kind : Kind, published : BOOLEAN, after : SUBSET Nat])
    /\ txn \in [Txns -> {"open", "committed", "rolledback"}]
    /\ relay \in [Relays -> [at : {"loop", "row", "mark", "blocked", "down"},
                             batch : Seq(Ids), stopping : BOOLEAN]]
    /\ \A r \in Relays : relay[r].at \in {"row", "mark"} <=> relay[r].batch # <<>>
    /\ linked \in [Relays -> BOOLEAN]
    /\ faults \in Nat
    /\ delivered \in Seq(Ids)

WasDelivered(i) == \E p \in DOMAIN delivered : delivered[p] = i

\* Invariant I6: a row is marked published only if it was delivered, whichever
\* relay, crash or lost connection comes between the two.
PublishedWasDelivered == \A i \in Ids : rows[i].published => WasDelivered(i)

\* Invariant I11: nothing is delivered of a transaction that is open or rolled back.
OnlyCommittedDelivered == \A p \in DOMAIN delivered : Visible(delivered[p])

\* An event is first delivered after every event that was there when it was written:
\* the earlier ones of its transaction, and those of transactions that had committed.
CausalOrder ==
    \A p \in DOMAIN delivered : \A i \in rows[delivered[p]].after :
        \E q \in 1..(p - 1) : delivered[q] = i

\* What delivery depends on: every row can be rebuilt, and some relay has a connection.
Hindered == \/ \E i \in Ids : rows[i].kind # "known"
            \/ \A r \in Relays : ~linked[r]

\* The relays catch up again and again: every committed event is delivered and marked,
\* through crashes, shutdowns and consumers that fail, unless an undecodable row or a
\* lost connection hinders it.
EveryEventDelivered ==
    []<>((\A i \in Ids : Visible(i) => WasDelivered(i) /\ rows[i].published) \/ Hindered)

-----------------------------------------------------------------------------
(* What the documents say and the code does not do. *)

\* relay.py:25-29: a row that cannot be decoded stops the relay, loudly.
UndecodableRowIsLoud ==
    (\E i \in Ids : Visible(i) /\ rows[i].kind # "known")
        ~> (\E r \in Relays : relay[r].at = "blocked")

\* relay.py:53-55 and its tests: the relay goes on after a database error.
DeliversAfterOutage ==
    \A i \in 1..MaxRows : (i \in Ids /\ Visible(i)) ~> (i \in Ids /\ WasDelivered(i))

=============================================================================
