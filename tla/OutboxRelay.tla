---------------------------- MODULE OutboxRelay -----------------------------
(***************************************************************************)
(* The outbox relay workers (infrastructure/outbox_relay.py).  A worker    *)
(* locks a batch of unpublished rows (FOR UPDATE SKIP LOCKED), adds each   *)
(* to the Redis stream and commits published_at for the whole batch at the *)
(* end; a failure before the commit leaves the rows unpublished and the    *)
(* stream entries in place.                                                *)
(***************************************************************************)
EXTENDS ActionStore

CONSTANTS
  Relays,     \* relay worker processes
  RelayBatch  \* batch_size

ASSUME RelayAssumption == RelayBatch \in Nat \ {0}

VARIABLE
  relay       \* worker -> the locked rows: still to add, and already added

IdleRelay == [todo |-> {}, added |-> {}]

RelayTypeOK ==
  relay \in [Relays -> [todo: SUBSET Nat, added: SUBSET Nat]]

RelayInit == relay = [w \in Relays |-> IdleRelay]

LockedRows == UNION {relay[w].todo \cup relay[w].added : w \in Relays}

Unpublished == {m \in DOMAIN outbox : ~outbox[m].published}

\* The batch is as large as the limit allows.  Which rows it holds is left
\* open: created_at is the writer's clock, not the commit order.
SelectBatch(w) ==
  /\ relay[w] = IdleRelay
  /\ \E batch \in SUBSET (Unpublished \ LockedRows) :
       /\ batch # {}
       /\ Cardinality(batch) <= RelayBatch
       /\ Cardinality(batch) < RelayBatch => batch = Unpublished \ LockedRows
       /\ relay' = [relay EXCEPT ![w].todo = batch]
  /\ UNCHANGED storeVars

\* XADD takes effect at once, outside the transaction.
AddToStream(w) ==
  \E m \in relay[w].todo :
    /\ stream' = Append(stream, outbox[m].action)
    /\ relay' = [relay EXCEPT ![w] = [todo |-> @.todo \ {m},
                                      added |-> @.added \cup {m}]]
    /\ UNCHANGED <<status, row, approval, lapsed, audit, notices, outbox,
                   faults>>

\* Mutated form: the batch is marked published before it has been added.
CommitBatchEarly(w) ==
  /\ relay[w].todo # {}
  /\ outbox' = [m \in DOMAIN outbox |->
                  IF m \in relay[w].todo
                  THEN [outbox[m] EXCEPT !.published = TRUE,
                                         !.attempts = @ + 1]
                  ELSE outbox[m]]
  /\ relay' = [relay EXCEPT ![w] = IdleRelay]
  /\ UNCHANGED <<status, row, approval, lapsed, audit, notices, stream, faults>>

\* The transaction commits after the last row of the batch was added.
CommitBatch(w) ==
  /\ relay[w].todo = {}
  /\ relay[w].added # {}
  /\ outbox' = [m \in DOMAIN outbox |->
                  IF m \in relay[w].added
                  THEN [outbox[m] EXCEPT !.published = TRUE,
                                         !.attempts = @ + 1]
                  ELSE outbox[m]]
  /\ relay' = [relay EXCEPT ![w] = IdleRelay]
  /\ UNCHANGED <<status, row, approval, lapsed, audit, notices, stream, faults>>

\* An XADD or the commit fails, or the worker dies: the transaction rolls
\* back, the row locks are gone, and the restarted worker begins afresh.
RelayFails(w) ==
  /\ relay[w] # IdleRelay
  /\ Fault
  /\ relay' = [relay EXCEPT ![w] = IdleRelay]
  /\ UNCHANGED <<status, row, approval, lapsed, audit, notices, outbox, stream>>

RelayStep(w) == SelectBatch(w) \/ AddToStream(w) \/ CommitBatch(w)

RelayNext == \E w \in Relays : RelayStep(w) \/ RelayFails(w)
=============================================================================
