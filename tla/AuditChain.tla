----------------------------- MODULE AuditChain -----------------------------
(***************************************************************************)
(* The hash chain of one customer's audit events                           *)
(* (application/audit_service.py, domain/audit/models.py).                 *)
(*                                                                         *)
(* record_audit_event locks the customer's tip row, chains the new event   *)
(* to it and leaves the lock to its caller's transaction.  created_at is a *)
(* clock reading of the writing process.  verify_audit_chain walks the     *)
(* committed events by created_at and id.                                  *)
(*                                                                         *)
(* hash_payload is taken as injective: the hash of an event is its content *)
(* appended to the hash before it, and no hash is the empty sequence.      *)
(***************************************************************************)
EXTENDS Integers, Sequences, FiniteSets

CONSTANTS
  Writers,      \* processes that write audit events
  Skew,         \* writer -> how far its clock is ahead
  Contents,     \* what an event says
  MaxId,        \* bound of the random primary keys
  NoWriter,
  MaxTime,      \* bound of the clock
  MaxDamage     \* bound of the rows that are altered or lost

ASSUME AuditAssumption ==
  /\ MaxId \in Nat
  /\ Skew \in [Writers -> Nat]
  /\ NoWriter \notin Writers
  /\ MaxTime \in Nat
  /\ MaxDamage \in Nat

VARIABLES
  events,    \* id -> committed row of audit_events
  tip,       \* tip_hash of the customer's audit_chain_tips row
  holder,    \* the writer whose transaction has locked that row
  pending,   \* writer -> the events of its open transaction
  now,
  written,   \* what was ever committed, in order
  damage

vars == <<events, tip, holder, pending, now, written, damage>>

-----------------------------------------------------------------------------
\* Of a key only the order counts.
Ids == 1 .. MaxId

Hash == Seq(Contents)

Fresh == [state |-> "fresh"]
Lost == [state |-> "lost"]

AuditEvent ==
  [state: {"row"}, id: Ids, created_at: Nat, content: Contents, prev_hash: Hash, hash: Hash]

TypeOK ==
  /\ events \in [Ids -> AuditEvent \cup {Fresh, Lost}]
  /\ tip \in Hash
  /\ holder \in Writers \cup {NoWriter}
  /\ pending \in [Writers -> Seq(AuditEvent)]
  /\ now \in 0 .. MaxTime
  /\ written \in Seq(Contents)
  /\ damage \in 0 .. MaxDamage

Init ==
  /\ events = [i \in Ids |-> Fresh]
  /\ tip = <<>>
  /\ holder = NoWriter
  /\ pending = [w \in Writers |-> <<>>]
  /\ now = 0
  /\ written = <<>>
  /\ damage = 0

-----------------------------------------------------------------------------
(* Writing.                                                                *)

hash_payload(content, prev_hash) == Append(prev_hash, content)

\* An id that no committed or pending event has.
Unused(i) ==
  /\ events[i] = Fresh
  /\ \A w \in Writers : \A k \in DOMAIN pending[w] : pending[w][k].id # i

NewEvent(i, w, content, prev_hash) ==
  [state |-> "row", id |-> i, created_at |-> now + Skew[w], content |-> content,
   prev_hash |-> prev_hash, hash |-> hash_payload(content, prev_hash)]

\* The tip as w's transaction sees it.
TipOf(w) == IF pending[w] = <<>> THEN tip ELSE pending[w][Len(pending[w])].hash

\* Readings of one clock under the lock are distinct.
Tick ==
  /\ now < MaxTime
  /\ now' = now + 1

\* Mutated form: the tip is read without FOR UPDATE.
record_unlocked(w, content) ==
  \E i \in Ids :
    /\ Unused(i)
    /\ pending' = [pending EXCEPT ![w] = Append(@, NewEvent(i, w, content, TipOf(w)))]
    /\ Tick
    /\ UNCHANGED <<events, tip, holder, written, damage>>

\* record_audit_event: it waits for the tip's lock and keeps it.
record_audit_event(w, content) ==
  /\ holder \in {NoWriter, w}
  /\ holder' = w
  /\ \E i \in Ids :
       /\ Unused(i)
       /\ pending' = [pending EXCEPT ![w] = Append(@, NewEvent(i, w, content, TipOf(w)))]
  /\ Tick
  /\ UNCHANGED <<events, tip, written, damage>>

EndTransaction(w) ==
  /\ holder' = NoWriter
  /\ pending' = [pending EXCEPT ![w] = <<>>]

Committed(w) ==
  [i \in Ids |-> IF \E k \in DOMAIN pending[w] : pending[w][k].id = i
                 THEN pending[w][CHOOSE k \in DOMAIN pending[w] : pending[w][k].id = i]
                 ELSE events[i]]

\* What has been written once w's transaction has committed.
WrittenBy(w) == written \o [k \in DOMAIN pending[w] |-> pending[w][k].content]

\* Mutated form: the tip keeps the hash of the transaction's first event.
CommitFirstTip(w) ==
  /\ pending[w] # <<>>
  /\ events' = Committed(w)
  /\ tip' = pending[w][1].hash
  /\ written' = WrittenBy(w)
  /\ EndTransaction(w)
  /\ UNCHANGED <<now, damage>>

\* The caller's transaction commits events and tip together.
Commit(w) ==
  /\ pending[w] # <<>>
  /\ events' = Committed(w)
  /\ tip' = TipOf(w)
  /\ written' = WrittenBy(w)
  /\ EndTransaction(w)
  /\ UNCHANGED <<now, damage>>

Rollback(w) ==
  /\ pending[w] # <<>>
  /\ EndTransaction(w)
  /\ UNCHANGED <<events, tip, now, written, damage>>

-----------------------------------------------------------------------------
(* What verification is for: rows that change or go outside the program.   *)

Damage ==
  /\ damage < MaxDamage
  /\ damage' = damage + 1
  /\ UNCHANGED <<tip, holder, pending, now, written>>

AlterRow(i, content) ==
  /\ events[i].state = "row"
  /\ events[i].content # content
  /\ events' = [events EXCEPT ![i].content = content]
  /\ Damage

LoseRow(i) ==
  /\ events[i].state = "row"
  /\ events' = [events EXCEPT ![i] = Lost]
  /\ Damage

Next ==
  \/ \E w \in Writers :
       \/ \E content \in Contents : record_audit_event(w, content)
       \/ Commit(w)
       \/ Rollback(w)
  \/ \E i \in Ids : LoseRow(i) \/ \E content \in Contents : AlterRow(i, content)

Spec == Init /\ [][Next]_vars

-----------------------------------------------------------------------------
(* Verification.                                                           *)

Rows == {events[i] : i \in {j \in Ids : events[j].state = "row"}}

\* ORDER BY created_at, id.
Before(e, f) == e.created_at < f.created_at \/ (e.created_at = f.created_at /\ e.id < f.id)

\* The rows the walk meets before e, and the last of them.
Earlier(e) == {f \in Rows : Before(f, e)}

Previous(e) == CHOOSE f \in Earlier(e) : \A g \in Earlier(e) : g = f \/ Before(g, f)

expected_prev_hash(e) == IF Earlier(e) = {} THEN <<>> ELSE Previous(e).hash

\* The recomputation of an event's hash, in an evidence package and in the walk.
hash_self_consistent(e) == e.hash = hash_payload(e.content, e.prev_hash)

\* Mutated form: the events' own hashes are not computed again.
ViolationsOfLinks == {e.id : e \in {f \in Rows : f.prev_hash # expected_prev_hash(f)}}

\* Mutated form: the links are not compared.
ViolationsOfContent == {e.id : e \in {f \in Rows : ~hash_self_consistent(f)}}

\* verify_audit_chain: the events it reports.
verify_audit_chain ==
  {e.id : e \in {f \in Rows : \/ f.prev_hash # expected_prev_hash(f)
                              \/ ~hash_self_consistent(f)}}

-----------------------------------------------------------------------------
(* Properties.                                                             *)

\* The tip is the hash of all that was committed: transactions queue at its
\* lock, none overwrites the tip of another, and a rolled back one leaves no
\* trace.
TipIsTheHistory == TypeOK /\ tip = written

\* How deep in the chain an event was written.
Depth(e) == Len(e.hash)

\* The order of the walk is the order of writing: the clocks of the writing
\* processes have not contradicted the order of the tip's lock.
ClocksFollowTheChain ==
  \A e, f \in Rows : Depth(e) < Depth(f) => Before(e, f)

\* A chain that nobody touched does not fork, and verifies exactly when the
\* walk follows the order of writing, which verify_audit_chain's docstring
\* takes for granted: a process whose clock is behind makes an intact chain
\* look damaged.
IntactChainVerifies ==
  damage = 0 => (verify_audit_chain = {} <=> ClocksFollowTheChain)

\* The place of a row in the walk.
Position(e) == Cardinality(Earlier(e)) + 1

\* A chain that verifies tells the beginning of what was written, without a
\* changed, missing or exchanged event: the event at each place of the walk is
\* the one that was written there.  Its end may be missing: the walk is not
\* compared with the tip.
VerifiedIsAPrefix ==
  verify_audit_chain = {} =>
    \A e \in Rows : Position(e) <= Len(written) /\ e.content = written[Position(e)]

\* An event's hash ends with what the event said when it was written.
Intact(e) == e.content = e.hash[Depth(e)]

\* The report pinpoints: an altered event is reported, and no event that is
\* intact and follows the one it was written after.
ReportPinpoints ==
  \A e \in Rows :
    LET before == IF Earlier(e) = {} THEN 0 ELSE Depth(Previous(e))
    IN  e.id \in verify_audit_chain <=> ~(Intact(e) /\ Depth(e) = before + 1)

-----------------------------------------------------------------------------
(* The inductive invariant behind the properties above.                    *)

\* The hashes of an event tell the beginning of a history, up to the event
\* and up to the one before.
Tells(hash, history) ==
  /\ Len(hash) <= Len(history)
  /\ \A k \in 1 .. Len(hash) : hash[k] = history[k]

Chained(e, history) ==
  /\ Depth(e) = Len(e.prev_hash) + 1
  /\ Tells(e.hash, history)
  /\ Tells(e.prev_hash, history)

\* The events of an open transaction continue the history in their order,
\* under ids of their own.
PendingOK(w) ==
  \A k \in DOMAIN pending[w] :
    LET e == pending[w][k]
    IN  /\ holder = w
        /\ Depth(e) = Len(written) + k
        /\ Chained(e, WrittenBy(w))
        /\ events[e.id] = Fresh
        /\ \A j \in DOMAIN pending[w] : pending[w][j].id = e.id => j = k

\* Damage aside, the rows are the history, one row for each of its places.
RowsOK ==
  /\ \A i \in Ids : events[i].state = "row" => events[i].id = i
  /\ \A e \in Rows : Chained(e, written)
  /\ \A e, f \in Rows : Depth(e) = Depth(f) => e = f
  /\ damage = 0 => /\ \A e \in Rows : Intact(e)
                   /\ \A d \in 1 .. Len(written) : \E e \in Rows : Depth(e) = d

ChainInvariant ==
  /\ TipIsTheHistory
  /\ \A w \in Writers : PendingOK(w)
  /\ RowsOK
=============================================================================
