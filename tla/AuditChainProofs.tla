-------------------------- MODULE AuditChainProofs --------------------------
(***************************************************************************)
(* The theorems about the audit chain, for any number of writers, events   *)
(* and damaged rows and any clocks.                                        *)
(***************************************************************************)
EXTENDS AuditChain, FiniteSetTheorems, SequenceTheorems, WellFoundedInduction, TLAPS

-----------------------------------------------------------------------------
(* Natural numbers.                                                        *)

LEMMA LeastNat ==
  ASSUME NEW T, T \subseteq Nat, T # {}
  PROVE  \E x \in T : \A y \in T : x <= y
  <1>1. PICK x \in T : \A y \in T : ~(<<y, x>> \in OpToRel(<, Nat))
    BY NatLessThanWellFounded, WFMin
  <1>2. \A y \in T : ~(y < x)
    BY <1>1 DEF OpToRel
  <1>3. QED
    BY <1>2

\* A set of numbers that has each number whose predecessors it has.
LEMMA AllNumbers ==
  ASSUME NEW S, \A n \in Nat : (\A m \in Nat : m < n => m \in S) => n \in S
  PROVE  Nat \subseteq S
  <1>1. SUFFICES ASSUME Nat \ S # {}
                 PROVE  FALSE
    OBVIOUS
  <1>2. PICK n \in Nat \ S : \A m \in Nat \ S : n <= m
    BY <1>1, LeastNat
  <1>3. QED
    BY <1>2

-----------------------------------------------------------------------------
(* The walk.                                                               *)

LEMMA RowFacts ==
  ASSUME ChainInvariant, NEW e \in Rows
  PROVE  /\ e \in AuditEvent /\ e.id \in Ids /\ e = events[e.id]
         /\ e.created_at \in Nat /\ e.id \in Nat
         /\ e.hash \in Seq(Contents) /\ e.prev_hash \in Seq(Contents)
         /\ Depth(e) \in Nat /\ Depth(e) >= 1 /\ Depth(e) <= Len(written)
         /\ Chained(e, written) /\ written \in Seq(Contents)
  <1>1. PICK i \in Ids : events[i].state = "row" /\ e = events[i]
    BY DEF Rows
  <1>2. events[i] \in AuditEvent \cup {Fresh, Lost} /\ events[i].id = i
    BY <1>1 DEF ChainInvariant, TipIsTheHistory, TypeOK, RowsOK
  <1>3. e \in AuditEvent
    BY <1>1, <1>2 DEF Fresh, Lost
  <1>4. Chained(e, written) /\ written \in Seq(Contents)
    BY DEF ChainInvariant, RowsOK, TipIsTheHistory, TypeOK
  <1>5. /\ e.id \in Ids /\ e = events[e.id] /\ e.created_at \in Nat
        /\ e.hash \in Seq(Contents) /\ e.prev_hash \in Seq(Contents)
    BY <1>1, <1>2, <1>3 DEF AuditEvent, Hash
  <1>6. e.id \in Nat
    BY <1>5, AuditAssumption DEF Ids
  <1>7. Depth(e) \in Nat /\ Depth(e) >= 1 /\ Depth(e) <= Len(written)
    BY <1>4, <1>5 DEF Chained, Depth, Tells
  <1>8. QED
    BY <1>3, <1>4, <1>5, <1>6, <1>7

\* created_at and id order the rows strictly.
LEMMA WalkIsOrdered ==
  ASSUME ChainInvariant, NEW e \in Rows, NEW f \in Rows
  PROVE  /\ e = f \/ Before(e, f) \/ Before(f, e)
         /\ ~Before(e, e)
         /\ ~(Before(e, f) /\ Before(f, e))
  <1>1. /\ e = events[e.id] /\ e.created_at \in Nat /\ e.id \in Nat
        /\ f = events[f.id] /\ f.created_at \in Nat /\ f.id \in Nat
    BY RowFacts
  <1>2. QED
    BY <1>1 DEF Before

LEMMA WalkIsTransitive ==
  ASSUME ChainInvariant, NEW e \in Rows, NEW f \in Rows, NEW g \in Rows,
         Before(e, f), Before(f, g)
  PROVE  Before(e, g)
  <1>1. /\ e.created_at \in Nat /\ e.id \in Nat /\ f.created_at \in Nat /\ f.id \in Nat
        /\ g.created_at \in Nat /\ g.id \in Nat
    BY RowFacts
  <1>2. QED
    BY <1>1 DEF Before

\* Of the rows before e one is the last: the clock readings are bounded by
\* e's, and so are the ids.
LEMMA PreviousExists ==
  ASSUME ChainInvariant, NEW e \in Rows, Earlier(e) # {}
  PROVE  /\ Previous(e) \in Earlier(e)
         /\ \A g \in Earlier(e) : g = Previous(e) \/ Before(g, Previous(e))
  <1> DEFINE E == Earlier(e)
             D == {e.created_at - f.created_at : f \in E}
  <1>1. \A f \in E : /\ f \in Rows /\ f.created_at \in Nat /\ f.id \in Nat
                     /\ f.id <= MaxId /\ e.created_at \in Nat
                     /\ f.created_at <= e.created_at
    <2>1. SUFFICES ASSUME NEW f \in E
                   PROVE  /\ f \in Rows /\ f.created_at \in Nat /\ f.id \in Nat
                          /\ f.id <= MaxId /\ e.created_at \in Nat
                          /\ f.created_at <= e.created_at
      OBVIOUS
    <2>2. f \in Rows /\ Before(f, e)
      BY DEF Earlier
    <2>3. /\ f.created_at \in Nat /\ f.id \in Nat /\ f.id \in Ids
          /\ e.created_at \in Nat
      BY <2>2, RowFacts
    <2>4. QED
      BY <2>2, <2>3, AuditAssumption DEF Before, Ids
  <1>2. D \subseteq Nat /\ D # {}
    BY <1>1
  <1>3. PICK d \in D : \A x \in D : d <= x
    BY <1>2, LeastNat
  <1>4. PICK l \in E : d = e.created_at - l.created_at
    BY <1>3
  <1>5. \A f \in E : f.created_at <= l.created_at
    <2>1. SUFFICES ASSUME NEW f \in E
                   PROVE  f.created_at <= l.created_at
      OBVIOUS
    <2>2. d <= e.created_at - f.created_at
      BY <1>3
    <2>3. QED
      BY <1>1, <1>4, <2>2
  <1> DEFINE S == {f \in E : f.created_at = l.created_at}
             I == {MaxId - f.id : f \in S}
  <1>6. I \subseteq Nat /\ I # {}
    BY <1>1, <1>4, AuditAssumption
  <1>7. PICK m \in I : \A x \in I : m <= x
    BY <1>6, LeastNat
  <1>8. PICK p \in S : m = MaxId - p.id
    BY <1>7
  <1>9. p \in E /\ p \in Rows /\ p.created_at = l.created_at
    BY <1>1, <1>8
  <1>10. \A g \in E : g = p \/ Before(g, p)
    <2>1. SUFFICES ASSUME NEW g \in E, g # p
                   PROVE  Before(g, p)
      OBVIOUS
    <2>2. g \in Rows /\ g.created_at \in Nat /\ p.created_at \in Nat /\ g.id \in Nat /\ p.id \in Nat
      BY <1>1, <1>9
    <2>3. CASE g.created_at # l.created_at
      BY <1>5, <1>9, <2>2, <2>3 DEF Before
    <2>4. CASE g.created_at = l.created_at
      <3>1. g \in S
        BY <2>4
      <3>2. MaxId - g.id \in I
        BY <3>1
      <3>3. m <= MaxId - g.id
        BY <1>7, <3>2
      <3>4. g.id <= p.id
        BY <1>8, <2>2, <3>3, AuditAssumption
      <3>5. ~Before(p, g)
        BY <1>9, <2>2, <2>4, <3>4 DEF Before
      <3>6. QED
        BY <1>9, <2>1, <2>2, <3>5, WalkIsOrdered
    <2>5. QED
      BY <2>3, <2>4
  <1>11. QED
    BY <1>9, <1>10 DEF Previous

\* The rows before e are the one before it and the rows before that one.
LEMMA EarlierUnfolds ==
  ASSUME ChainInvariant, NEW e \in Rows, Earlier(e) # {}
  PROVE  LET p == Previous(e)
         IN  /\ p \in Rows /\ Before(p, e)
             /\ Earlier(e) = Earlier(p) \cup {p} /\ p \notin Earlier(p)
  <1> DEFINE p == Previous(e)
  <1>1. p \in Earlier(e) /\ \A g \in Earlier(e) : g = p \/ Before(g, p)
    BY PreviousExists
  <1> HIDE DEF p
  <1>2. p \in Rows /\ Before(p, e)
    BY <1>1 DEF Earlier
  <1>3. \A g \in Rows : Before(g, p) => Before(g, e)
    BY <1>2, WalkIsTransitive
  <1>4. Earlier(e) = Earlier(p) \cup {p}
    BY <1>1, <1>2, <1>3 DEF Earlier
  <1>5. p \notin Earlier(p)
    BY <1>2, WalkIsOrdered DEF Earlier
  <1>6. QED
    BY <1>2, <1>4, <1>5 DEF p

-----------------------------------------------------------------------------
(* The report.                                                             *)

PreviousDepth(e) == IF Earlier(e) = {} THEN 0 ELSE Depth(Previous(e))

\* Hashes that tell the same history are told apart by their length alone.
LEMMA SameLengthSameHash ==
  ASSUME NEW g \in Seq(Contents), NEW h \in Seq(Contents), NEW history,
         Tells(g, history), Tells(h, history)
  PROVE  g = h <=> Len(g) = Len(h)
  <1>1. ASSUME Len(g) = Len(h)
        PROVE  g = h
    <2>1. \A k \in 1 .. Len(g) : g[k] = h[k]
      BY <1>1 DEF Tells
    <2>2. QED
      BY <1>1, <2>1, SeqEqual
  <1>2. QED
    BY <1>1

\* The recomputed hash is the stored one exactly where the event still says
\* what it said.
LEMMA ConsistentIsIntact ==
  ASSUME ChainInvariant, NEW e \in Rows
  PROVE  hash_self_consistent(e) <=> Intact(e)
  <1> DEFINE g == Append(e.prev_hash, e.content)
             n == Len(e.prev_hash) + 1
  <1>1. /\ e.hash \in Seq(Contents) /\ e.prev_hash \in Seq(Contents) /\ e.content \in Contents
        /\ Chained(e, written)
    BY RowFacts DEF AuditEvent
  <1>2. /\ g \in Seq(Contents) /\ Len(g) = n /\ g[n] = e.content /\ n \in Nat /\ n >= 1
        /\ \A k \in 1 .. n - 1 : g[k] = e.prev_hash[k]
    BY <1>1
  <1>3. Len(e.hash) = n /\ Depth(e) = n
    BY <1>1 DEF Chained, Depth
  <1>4. \A k \in 1 .. n - 1 : e.hash[k] = e.prev_hash[k]
    BY <1>1, <1>2, <1>3 DEF Chained, Tells
  <1>5. ASSUME e.hash[n] = e.content
        PROVE  e.hash = g
    <2>1. \A k \in 1 .. Len(e.hash) : e.hash[k] = g[k]
      BY <1>2, <1>3, <1>4, <1>5
    <2>2. QED
      BY <1>1, <1>2, <1>3, <2>1, SeqEqual
  <1>6. QED
    BY <1>2, <1>3, <1>5 DEF hash_self_consistent, hash_payload, Intact

\* The expected hash is the one it was chained to exactly where the walk comes
\* from the event one step less deep.
LEMMA ExpectedIsPrevious ==
  ASSUME ChainInvariant, NEW e \in Rows
  PROVE  e.prev_hash = expected_prev_hash(e) <=> Depth(e) = PreviousDepth(e) + 1
  <1>1. /\ e.prev_hash \in Seq(Contents) /\ Tells(e.prev_hash, written)
        /\ Depth(e) = Len(e.prev_hash) + 1 /\ Len(e.prev_hash) \in Nat
    BY RowFacts DEF Chained
  <1>2. CASE Earlier(e) = {}
    BY <1>1, <1>2 DEF expected_prev_hash, PreviousDepth
  <1>3. CASE Earlier(e) # {}
    <2>1. Previous(e) \in Rows
      BY <1>3, EarlierUnfolds
    <2>2. /\ Previous(e).hash \in Seq(Contents) /\ Tells(Previous(e).hash, written)
          /\ Depth(Previous(e)) \in Nat
      BY <2>1, RowFacts DEF Chained
    <2>3. e.prev_hash = Previous(e).hash <=> Len(e.prev_hash) = Len(Previous(e).hash)
      BY <1>1, <2>2, SameLengthSameHash
    <2>4. QED
      BY <1>1, <1>3, <2>2, <2>3 DEF expected_prev_hash, PreviousDepth, Depth
  <1>4. QED
    BY <1>2, <1>3

\* What the report says of a row.
LEMMA Reported ==
  ASSUME ChainInvariant, NEW e \in Rows
  PROVE  e.id \in verify_audit_chain <=> ~(Intact(e) /\ Depth(e) = PreviousDepth(e) + 1)
  <1>1. e.id \in verify_audit_chain <=> \/ e.prev_hash # expected_prev_hash(e)
                                       \/ ~hash_self_consistent(e)
    <2>1. \A f \in Rows : f.id = e.id => f = e
      BY RowFacts
    <2>2. QED
      BY <2>1 DEF verify_audit_chain
  <1>2. QED
    BY <1>1, ConsistentIsIntact, ExpectedIsPrevious

\* In a chain that verifies, the rows before a row were written before it.
LEMMA VerifiedOrder ==
  ASSUME ChainInvariant, verify_audit_chain = {}
  PROVE  \A e, f \in Rows : Before(f, e) => Depth(f) < Depth(e)
  <1> DEFINE S == {n \in Nat : \A e, f \in Rows : Depth(e) = n /\ Before(f, e) => Depth(f) < n}
  <1>1. ASSUME NEW n \in Nat, \A m \in Nat : m < n => m \in S
        PROVE  n \in S
    <2>1. SUFFICES ASSUME NEW e \in Rows, NEW f \in Rows, Depth(e) = n, Before(f, e)
                   PROVE  Depth(f) < n
      OBVIOUS
    <2>2. f \in Earlier(e)
      BY <2>1 DEF Earlier
    <2> DEFINE p == Previous(e)
    <2>3. p \in Rows /\ Earlier(e) = Earlier(p) \cup {p}
      BY <2>2, EarlierUnfolds
    <2>4. Depth(e) = Depth(p) + 1
      BY <2>2, Reported DEF PreviousDepth
    <2> HIDE DEF p
    <2>5. Depth(p) \in Nat /\ Depth(p) < n
      BY <2>1, <2>3, <2>4, RowFacts
    <2>6. CASE f = p
      BY <2>5, <2>6
    <2>7. CASE f \in Earlier(p)
      <3>1. Depth(p) \in S /\ Before(f, p)
        BY <1>1, <2>5, <2>7 DEF Earlier
      <3>2. Depth(f) < Depth(p)
        BY <2>3, <3>1
      <3>3. Depth(f) \in Nat
        BY RowFacts
      <3>4. QED
        BY <2>5, <3>2, <3>3
    <2>8. QED
      BY <2>2, <2>3, <2>6, <2>7
  <1>2. Nat \subseteq S
    <2> HIDE DEF S
    <2> QED BY <1>1, AllNumbers
  <1>3. QED
    BY <1>2, RowFacts

\* In a chain that verifies, the place of a row in the walk is its depth.
LEMMA VerifiedPosition ==
  ASSUME ChainInvariant, verify_audit_chain = {}
  PROVE  \A e \in Rows : Position(e) = Depth(e)
  <1> DEFINE S == {n \in Nat : \A e \in Rows : Depth(e) = n =>
                     IsFiniteSet(Earlier(e)) /\ Cardinality(Earlier(e)) = n - 1}
  <1>1. ASSUME NEW n \in Nat, \A m \in Nat : m < n => m \in S
        PROVE  n \in S
    <2>1. SUFFICES ASSUME NEW e \in Rows, Depth(e) = n
                   PROVE  IsFiniteSet(Earlier(e)) /\ Cardinality(Earlier(e)) = n - 1
      OBVIOUS
    <2>2. CASE Earlier(e) = {}
      <3>1. n = 1
        BY <2>1, <2>2, Reported DEF PreviousDepth
      <3>2. QED
        BY <2>2, <3>1, FS_EmptySet
    <2>3. CASE Earlier(e) # {}
      <3> DEFINE p == Previous(e)
      <3>1. p \in Rows /\ Earlier(e) = Earlier(p) \cup {p} /\ p \notin Earlier(p)
        BY <2>3, EarlierUnfolds
      <3>2. n = Depth(p) + 1
        BY <2>1, <2>3, Reported DEF PreviousDepth
      <3> HIDE DEF p
      <3>3. Depth(p) \in Nat /\ Depth(p) < n
        BY <3>1, <3>2, RowFacts
      <3>4. IsFiniteSet(Earlier(p)) /\ Cardinality(Earlier(p)) = Depth(p) - 1
        BY <1>1, <3>1, <3>3
      <3>5. /\ IsFiniteSet(Earlier(p) \cup {p})
            /\ Cardinality(Earlier(p) \cup {p}) = Cardinality(Earlier(p)) + 1
        BY <3>1, <3>4, FS_AddElement
      <3>6. QED
        BY <3>1, <3>2, <3>3, <3>4, <3>5
    <2>4. QED
      BY <2>2, <2>3
  <1>2. Nat \subseteq S
    <2> HIDE DEF S
    <2> QED BY <1>1, AllNumbers
  <1>3. ASSUME NEW e \in Rows
        PROVE  Position(e) = Depth(e)
    <2>1. Depth(e) \in Nat
      BY RowFacts
    <2>2. Cardinality(Earlier(e)) = Depth(e) - 1
      BY <1>2, <2>1
    <2>3. QED
      BY <2>1, <2>2 DEF Position
  <1>4. QED
    BY <1>3

LEMMA VerifiedTells ==
  ASSUME ChainInvariant
  PROVE  VerifiedIsAPrefix
  <1>1. SUFFICES ASSUME verify_audit_chain = {}, NEW e \in Rows
                 PROVE  Position(e) <= Len(written) /\ e.content = written[Position(e)]
    BY DEF VerifiedIsAPrefix
  <1>2. Position(e) = Depth(e)
    BY <1>1, VerifiedPosition
  <1>3. Intact(e)
    BY <1>1, Reported
  <1>4. Depth(e) \in 1 .. Len(written) /\ Tells(e.hash, written)
    BY RowFacts DEF Chained
  <1>5. e.hash[Depth(e)] = written[Depth(e)]
    BY <1>4 DEF Tells, Depth
  <1>6. QED
    BY <1>2, <1>3, <1>4, <1>5 DEF Intact

\* Where the clocks follow the chain, the walk comes to every event from the
\* one it was chained to.
LEMMA ClocksLink ==
  ASSUME ChainInvariant, damage = 0, ClocksFollowTheChain, NEW e \in Rows
  PROVE  Depth(e) = PreviousDepth(e) + 1
  <1>1. /\ Depth(e) \in Nat /\ Depth(e) >= 1 /\ Depth(e) <= Len(written)
        /\ written \in Seq(Contents) /\ Len(written) \in Nat
    BY RowFacts
  <1>2. \A f \in Earlier(e) : f \in Rows /\ Depth(f) \in Nat /\ Depth(f) >= 1 /\ Depth(f) < Depth(e)
    <2>1. SUFFICES ASSUME NEW f \in Earlier(e)
                   PROVE  f \in Rows /\ Depth(f) \in Nat /\ Depth(f) >= 1 /\ Depth(f) < Depth(e)
      OBVIOUS
    <2>2. f \in Rows /\ Before(f, e)
      BY DEF Earlier
    <2>3. Depth(f) \in Nat /\ Depth(f) >= 1
      BY <2>2, RowFacts
    <2>4. f # e /\ ~Before(e, f)
      BY <2>2, WalkIsOrdered
    <2>5. Depth(f) # Depth(e)
      BY <2>2, <2>4 DEF ChainInvariant, RowsOK
    <2>6. ~(Depth(e) < Depth(f))
      BY <2>2, <2>4 DEF ClocksFollowTheChain
    <2>7. QED
      BY <1>1, <2>2, <2>3, <2>5, <2>6
  <1>3. CASE Depth(e) = 1
    <2>1. Earlier(e) = {}
      BY <1>2, <1>3
    <2>2. QED
      BY <1>3, <2>1 DEF PreviousDepth
  <1>4. CASE Depth(e) # 1
    <2>1. Depth(e) - 1 \in 1 .. Len(written)
      BY <1>1, <1>4
    <2>2. PICK f \in Rows : Depth(f) = Depth(e) - 1
      BY <2>1 DEF ChainInvariant, RowsOK
    <2>3. Before(f, e)
      BY <1>1, <2>2 DEF ClocksFollowTheChain
    <2>4. f \in Earlier(e)
      BY <2>3 DEF Earlier
    <2> DEFINE p == Previous(e)
    <2>5. p \in Earlier(e) /\ (f = p \/ Before(f, p))
      BY <2>4, PreviousExists
    <2> HIDE DEF p
    <2>6. p \in Rows /\ Depth(p) \in Nat /\ Depth(p) < Depth(e)
      BY <1>2, <2>5
    <2>7. f = p
      <3>1. SUFFICES ASSUME f # p
                     PROVE  FALSE
        OBVIOUS
      <3>2. ~Before(p, f)
        BY <2>5, <2>6, <3>1, WalkIsOrdered
      <3>3. ~(Depth(p) < Depth(f))
        BY <2>6, <3>2 DEF ClocksFollowTheChain
      <3>4. Depth(p) = Depth(f)
        BY <1>1, <2>2, <2>6, <3>3
      <3>5. QED
        BY <2>6, <3>1, <3>4 DEF ChainInvariant, RowsOK
    <2>8. QED
      BY <1>1, <2>2, <2>4, <2>7 DEF PreviousDepth, p
  <1>5. QED
    BY <1>3, <1>4

LEMMA IntactVerifies ==
  ASSUME ChainInvariant
  PROVE  IntactChainVerifies
  <1>1. SUFFICES ASSUME damage = 0
                 PROVE  verify_audit_chain = {} <=> ClocksFollowTheChain
    BY DEF IntactChainVerifies
  <1>2. ASSUME ClocksFollowTheChain
        PROVE  verify_audit_chain = {}
    <2>1. \A e \in Rows : Intact(e) /\ Depth(e) = PreviousDepth(e) + 1
      BY <1>1, <1>2, ClocksLink DEF ChainInvariant, RowsOK
    <2>2. \A e \in Rows : e.id \notin verify_audit_chain
      BY <2>1, Reported
    <2>3. QED
      BY <2>2 DEF verify_audit_chain
  <1>3. ASSUME verify_audit_chain = {}, NEW e \in Rows, NEW f \in Rows, Depth(e) < Depth(f)
        PROVE  Before(e, f)
    <2>1. Depth(e) \in Nat /\ Depth(f) \in Nat
      BY RowFacts
    <2>2. ~Before(f, e)
      BY <1>3, <2>1, VerifiedOrder
    <2>3. e # f
      BY <1>3, <2>1
    <2>4. QED
      BY <2>2, <2>3, WalkIsOrdered
  <1>4. QED
    BY <1>2, <1>3 DEF ClocksFollowTheChain

-----------------------------------------------------------------------------
(* Writing.                                                                *)

LEMMA TypeFacts ==
  ASSUME TypeOK
  PROVE  /\ events \in [Ids -> AuditEvent \cup {Fresh, Lost}] /\ tip \in Seq(Contents)
         /\ pending \in [Writers -> Seq(AuditEvent)]
         /\ written \in Seq(Contents) /\ Len(written) \in Nat /\ damage \in Nat /\ now \in Nat
  BY AuditAssumption DEF TypeOK, Hash

\* The history with the events of w's transaction.
LEMMA WrittenByFacts ==
  ASSUME TypeOK, NEW w \in Writers
  PROVE  /\ WrittenBy(w) \in Seq(Contents)
         /\ Len(pending[w]) \in Nat /\ DOMAIN pending[w] = 1 .. Len(pending[w])
         /\ Len(WrittenBy(w)) = Len(written) + Len(pending[w])
         /\ \A k \in 1 .. Len(written) : WrittenBy(w)[k] = written[k]
         /\ \A k \in DOMAIN pending[w] : WrittenBy(w)[Len(written) + k] = pending[w][k].content
         /\ \A k \in DOMAIN pending[w] : pending[w][k] \in AuditEvent
  <1> DEFINE c == [k \in DOMAIN pending[w] |-> pending[w][k].content]
  <1>1. written \in Seq(Contents) /\ pending[w] \in Seq(AuditEvent) /\ Len(written) \in Nat
    BY TypeFacts
  <1>2. /\ Len(pending[w]) \in Nat /\ DOMAIN pending[w] = 1 .. Len(pending[w])
        /\ \A k \in DOMAIN pending[w] : pending[w][k] \in AuditEvent
    BY <1>1
  <1>3. \A k \in 1 .. Len(pending[w]) : pending[w][k].content \in Contents
    BY <1>2 DEF AuditEvent
  <1>4. c \in [1 .. Len(pending[w]) -> Contents]
    BY <1>2, <1>3
  <1>5. /\ c \in Seq(Contents) /\ Len(c) = Len(pending[w])
        /\ \A k \in DOMAIN pending[w] : c[k] = pending[w][k].content
    BY <1>2, <1>4, IsASeq, LenProperties
  <1>6. WrittenBy(w) = written \o c
    BY DEF WrittenBy
  <1> HIDE DEF c
  <1>7. /\ WrittenBy(w) \in Seq(Contents)
        /\ Len(WrittenBy(w)) = Len(written) + Len(pending[w])
        /\ \A k \in 1 .. Len(written) : WrittenBy(w)[k] = written[k]
        /\ \A k \in 1 .. Len(pending[w]) : WrittenBy(w)[Len(written) + k] = c[k]
    BY <1>1, <1>2, <1>5, <1>6
  <1>8. QED
    BY <1>2, <1>5, <1>7

\* A longer history is told by what told the shorter one.
LEMMA TellsMore ==
  ASSUME NEW h \in Seq(Contents), NEW g \in Seq(Contents), NEW l \in Seq(Contents),
         Tells(h, g), Tells(g, l)
  PROVE  Tells(h, l)
  <1>1. Len(h) \in Nat /\ Len(g) \in Nat /\ Len(l) \in Nat
    OBVIOUS
  <1>2. QED
    BY <1>1 DEF Tells

LEMMA ChainedMore ==
  ASSUME NEW e \in AuditEvent, NEW g \in Seq(Contents), NEW l \in Seq(Contents),
         Chained(e, g), Tells(g, l)
  PROVE  Chained(e, l)
  <1>1. e.hash \in Seq(Contents) /\ e.prev_hash \in Seq(Contents)
    BY DEF AuditEvent, Hash
  <1>2. QED
    BY <1>1, TellsMore DEF Chained

\* The tip as a transaction sees it is the history with its events.
LEMMA TipTells ==
  ASSUME ChainInvariant, NEW w \in Writers
  PROVE  TipOf(w) = WrittenBy(w)
  <1>0. TypeOK /\ tip = written /\ PendingOK(w)
    BY DEF ChainInvariant, TipIsTheHistory
  <1> DEFINE n == Len(pending[w])
  <1>1. /\ WrittenBy(w) \in Seq(Contents) /\ n \in Nat /\ DOMAIN pending[w] = 1 .. n
        /\ Len(WrittenBy(w)) = Len(written) + n /\ Len(written) \in Nat
        /\ \A k \in 1 .. Len(written) : WrittenBy(w)[k] = written[k]
        /\ written \in Seq(Contents) /\ pending[w] \in Seq(AuditEvent)
    BY <1>0, WrittenByFacts, TypeFacts
  <1>2. CASE pending[w] = <<>>
    <2>1. TipOf(w) = written /\ Len(WrittenBy(w)) = Len(written)
      BY <1>0, <1>1, <1>2 DEF TipOf
    <2>2. QED
      BY <1>1, <2>1, SeqEqual
  <1>3. CASE pending[w] # <<>>
    <2>1. n \in DOMAIN pending[w]
      BY <1>1, <1>3
    <2> DEFINE h == pending[w][n].hash
    <2>2. h \in Seq(Contents)
      BY <1>0, <2>1, WrittenByFacts DEF AuditEvent, Hash
    <2>3. Len(h) = Len(WrittenBy(w)) /\ Tells(h, WrittenBy(w))
      BY <1>0, <1>1, <2>1 DEF PendingOK, Chained, Depth
    <2>4. Tells(WrittenBy(w), WrittenBy(w))
      BY <1>1 DEF Tells
    <2>5. h = WrittenBy(w)
      BY <1>1, <2>2, <2>3, <2>4, SameLengthSameHash
    <2>6. QED
      BY <1>3, <2>5 DEF TipOf
  <1>4. QED
    BY <1>2, <1>3

\* No other transaction has events while one holds the tip.
LEMMA OneTransaction ==
  ASSUME ChainInvariant, NEW w \in Writers, holder \in {NoWriter, w}, NEW u \in Writers, u # w
  PROVE  pending[u] = <<>>
  <1>1. PendingOK(u) /\ pending[u] \in Seq(AuditEvent)
    BY TypeFacts DEF ChainInvariant, TipIsTheHistory
  <1>2. holder # u
    BY AuditAssumption
  <1>3. DOMAIN pending[u] = {}
    BY <1>1, <1>2 DEF PendingOK
  <1>4. Len(pending[u]) = 0
    <2>1. Len(pending[u]) \in Nat /\ DOMAIN pending[u] = 1 .. Len(pending[u])
      BY <1>1
    <2>2. 1 \notin 1 .. Len(pending[u])
      BY <1>3, <2>1
    <2>3. QED
      BY <2>1, <2>2
  <1>5. QED
    BY <1>1, <1>4, EmptySeq

LEMMA HolderKnown ==
  ASSUME ChainInvariant, NEW w \in Writers, pending[w] # <<>>
  PROVE  holder = w
  <1>1. PendingOK(w) /\ pending[w] \in Seq(AuditEvent)
    BY TypeFacts DEF ChainInvariant, TipIsTheHistory
  <1>2. 1 \in DOMAIN pending[w]
    BY <1>1
  <1>3. QED
    BY <1>1, <1>2 DEF PendingOK

\* A written event: the transaction has it last, and the history with it.
LEMMA EventWritten ==
  ASSUME ChainInvariant, NEW w \in Writers, NEW content \in Contents, NEW i \in Ids, Unused(i),
         pending' = [pending EXCEPT ![w] = Append(@, NewEvent(i, w, content, TipOf(w)))],
         UNCHANGED <<events, written>>
  PROVE  LET n == Len(pending[w]) + 1
         IN  /\ pending' \in [Writers -> Seq(AuditEvent)]
             /\ \A u \in Writers : u # w => pending'[u] = pending[u]
             /\ DOMAIN pending'[w] = 1 .. n /\ DOMAIN pending[w] = 1 .. n - 1 /\ n \in Nat
             /\ \A k \in 1 .. n - 1 : pending'[w][k] = pending[w][k] /\ pending[w][k].id # i
             /\ pending'[w][n].id = i /\ pending'[w][n].content = content
             /\ pending'[w][n].prev_hash = WrittenBy(w)
             /\ pending'[w][n].hash = Append(WrittenBy(w), content)
             /\ WrittenBy(w)' = Append(WrittenBy(w), content)
             /\ Tells(WrittenBy(w), WrittenBy(w)')
  <1> DEFINE n == Len(pending[w]) + 1
             e == NewEvent(i, w, content, TipOf(w))
  <1>0. TypeOK /\ pending[w] \in Seq(AuditEvent) /\ pending \in [Writers -> Seq(AuditEvent)]
    BY TypeFacts DEF ChainInvariant, TipIsTheHistory
  <1>1. TipOf(w) = WrittenBy(w) /\ WrittenBy(w) \in Seq(Contents)
    BY <1>0, TipTells, WrittenByFacts
  <1>2. /\ e \in AuditEvent /\ e.id = i /\ e.content = content /\ e.prev_hash = WrittenBy(w)
        /\ e.hash = Append(WrittenBy(w), content)
    <2>1. now + Skew[w] \in Nat
      BY <1>0, TypeFacts, AuditAssumption
    <2>2. Append(WrittenBy(w), content) \in Seq(Contents)
      BY <1>1
    <2>3. QED
      BY <1>1, <2>1, <2>2 DEF NewEvent, AuditEvent, Hash, hash_payload
  <1> HIDE DEF e
  <1>3. pending' = [pending EXCEPT ![w] = Append(pending[w], e)]
    BY DEF e
  <1>4. /\ pending' \in [Writers -> Seq(AuditEvent)]
        /\ \A u \in Writers : u # w => pending'[u] = pending[u]
        /\ pending'[w] = Append(pending[w], e)
    BY <1>0, <1>2, <1>3
  <1>5. /\ DOMAIN pending'[w] = 1 .. n /\ DOMAIN pending[w] = 1 .. n - 1 /\ n \in Nat
        /\ \A k \in 1 .. n - 1 : pending'[w][k] = pending[w][k]
        /\ pending'[w][n] = e /\ Len(pending'[w]) = n
    BY <1>0, <1>2, <1>4
  <1>6. \A k \in 1 .. n - 1 : pending[w][k].id # i
    BY <1>5 DEF Unused
  <1>7. WrittenBy(w)' = Append(WrittenBy(w), content)
    <2> DEFINE c == [k \in DOMAIN pending[w] |-> pending[w][k].content]
               d == [k \in DOMAIN pending'[w] |-> pending'[w][k].content]
    <2>1. WrittenBy(w) = written \o c /\ WrittenBy(w)' = written \o d
      BY DEF WrittenBy
    <2>2. \A k \in 1 .. n - 1 : pending[w][k].content \in Contents
      BY <1>0, <1>5, WrittenByFacts DEF AuditEvent
    <2>3. c \in [1 .. n - 1 -> Contents] /\ d \in [1 .. n -> Contents]
      BY <1>2, <1>5, <2>2
    <2>4. c \in Seq(Contents) /\ Len(c) = n - 1 /\ d \in Seq(Contents) /\ Len(d) = n
      BY <1>5, <2>3, IsASeq, LenProperties
    <2>5. d[n] = content /\ \A k \in 1 .. n - 1 : d[k] = c[k]
      BY <1>2, <1>5
    <2> HIDE DEF c, d, n
    <2>6. d = Append(c, content)
      BY <2>4, <2>5, SeqEqual, AppendProperties
    <2>7. QED
      BY <1>0, <2>1, <2>4, <2>6, TypeFacts
  <1>8. Tells(WrittenBy(w), Append(WrittenBy(w), content))
    BY <1>1 DEF Tells
  <1>9. QED
    BY <1>2, <1>4, <1>5, <1>6, <1>7, <1>8

-----------------------------------------------------------------------------
(* Each step preserves the invariant.                                      *)

LEMMA RecordKeeps ==
  ASSUME ChainInvariant, NEW w \in Writers, NEW content \in Contents,
         record_audit_event(w, content)
  PROVE  ChainInvariant'
  <1>0. TypeOK /\ tip = written /\ PendingOK(w) /\ RowsOK
    BY DEF ChainInvariant, TipIsTheHistory
  <1>1. PICK i \in Ids :
          /\ Unused(i)
          /\ pending' = [pending EXCEPT ![w] = Append(@, NewEvent(i, w, content, TipOf(w)))]
    BY DEF record_audit_event
  <1>2. /\ UNCHANGED <<events, tip, written, damage>> /\ holder' = w /\ holder \in {NoWriter, w}
        /\ now' \in 0 .. MaxTime
    BY <1>0, AuditAssumption DEF record_audit_event, Tick, TypeOK
  <1> DEFINE n == Len(pending[w]) + 1
             g == WrittenBy(w)
  <1>3. /\ pending' \in [Writers -> Seq(AuditEvent)]
        /\ \A u \in Writers : u # w => pending'[u] = pending[u]
        /\ DOMAIN pending'[w] = 1 .. n /\ DOMAIN pending[w] = 1 .. n - 1 /\ n \in Nat
        /\ \A k \in 1 .. n - 1 : pending'[w][k] = pending[w][k] /\ pending[w][k].id # i
        /\ pending'[w][n].id = i /\ pending'[w][n].content = content
        /\ pending'[w][n].prev_hash = g
        /\ pending'[w][n].hash = Append(g, content)
        /\ WrittenBy(w)' = Append(g, content)
        /\ Tells(g, WrittenBy(w)')
    BY <1>1, <1>2, EventWritten
  <1>4. /\ g \in Seq(Contents) /\ Len(g) = Len(written) + n - 1 /\ Len(written) \in Nat
        /\ n - 1 \in Nat /\ Append(g, content) \in Seq(Contents)
        /\ \A k \in 1 .. n - 1 : pending[w][k] \in AuditEvent
    BY <1>0, <1>3, WrittenByFacts, TypeFacts
  <1> HIDE DEF n, g
  <1>l. (\A j \in 1 .. n : j = n \/ j \in 1 .. n - 1) /\ (\A j \in 1 .. n - 1 : j # n)
    BY <1>3, <1>4
  <1>5. TypeOK' /\ tip' = written'
    BY <1>0, <1>2, <1>3 DEF TypeOK
  <1>6. ASSUME NEW k \in 1 .. n - 1
        PROVE  /\ Depth(pending'[w][k]) = Len(written) + k
               /\ Chained(pending'[w][k], WrittenBy(w)')
               /\ events[pending'[w][k].id] = Fresh
               /\ \A j \in 1 .. n : pending'[w][j].id = pending'[w][k].id => j = k
    <2>1. /\ Depth(pending[w][k]) = Len(written) + k /\ Chained(pending[w][k], g)
          /\ events[pending[w][k].id] = Fresh
          /\ \A j \in 1 .. n - 1 : pending[w][j].id = pending[w][k].id => j = k
      BY <1>0, <1>3 DEF PendingOK, g
    <2>2. Chained(pending[w][k], WrittenBy(w)')
      BY <1>3, <1>4, <2>1, ChainedMore
    <2>3. \A j \in 1 .. n : pending'[w][j].id = pending'[w][k].id => j = k
      <3>1. \A j \in 1 .. n - 1 : pending'[w][j].id = pending'[w][k].id => j = k
        BY <1>3, <2>1
      <3>2. pending'[w][n].id # pending'[w][k].id
        BY <1>3
      <3>3. QED
        BY <1>l, <3>1, <3>2
    <2>4. QED
      BY <1>3, <2>1, <2>2, <2>3
  <1>7. /\ Depth(pending'[w][n]) = Len(written) + n
        /\ Chained(pending'[w][n], WrittenBy(w)')
        /\ events[pending'[w][n].id] = Fresh
        /\ \A j \in 1 .. n : pending'[w][j].id = pending'[w][n].id => j = n
    <2>1. Len(Append(g, content)) = Len(g) + 1 /\ Tells(Append(g, content), Append(g, content))
      BY <1>4 DEF Tells
    <2>2. Depth(pending'[w][n]) = Len(g) + 1 /\ Len(g) + 1 = Len(written) + n
      BY <1>3, <1>4, <2>1 DEF Depth
    <2>3. Chained(pending'[w][n], WrittenBy(w)')
      BY <1>3, <2>1, <2>2 DEF Chained
    <2>4. \A j \in 1 .. n : pending'[w][j].id = pending'[w][n].id => j = n
      <3>1. \A j \in 1 .. n - 1 : pending'[w][j].id # pending'[w][n].id
        BY <1>3
      <3>2. QED
        BY <1>l, <3>1
    <2>5. QED
      BY <1>1, <1>3, <2>2, <2>3, <2>4 DEF Unused
  <1>8. PendingOK(w)'
    <2>1. \A k \in 1 .. n :
            /\ Depth(pending'[w][k]) = Len(written) + k
            /\ Chained(pending'[w][k], WrittenBy(w)')
            /\ events[pending'[w][k].id] = Fresh
            /\ \A j \in 1 .. n : pending'[w][j].id = pending'[w][k].id => j = k
      BY <1>l, <1>6, <1>7
    <2>2. QED
      BY <1>2, <1>3, <2>1 DEF PendingOK, Depth, Chained, Tells
  <1>9. ASSUME NEW u \in Writers, u # w
        PROVE  PendingOK(u)'
    <2>1. pending'[u] = <<>>
      BY <1>2, <1>3, <1>9, OneTransaction
    <2>2. QED
      BY <2>1 DEF PendingOK
  <1>10. RowsOK'
    BY <1>0, <1>2 DEF RowsOK, Rows, Chained, Tells, Depth, Intact
  <1>11. QED
    BY <1>5, <1>8, <1>9, <1>10 DEF ChainInvariant, TipIsTheHistory

\* The end of a transaction leaves none open.
LEMMA NoneOpen ==
  ASSUME ChainInvariant, NEW w \in Writers, pending[w] # <<>>, EndTransaction(w)
  PROVE  /\ pending' \in [Writers -> Seq(AuditEvent)] /\ holder' = NoWriter
         /\ \A u \in Writers : PendingOK(u)'
  <1>1. holder = w /\ pending \in [Writers -> Seq(AuditEvent)]
    BY HolderKnown, TypeFacts DEF ChainInvariant, TipIsTheHistory
  <1>2. pending' = [pending EXCEPT ![w] = <<>>] /\ holder' = NoWriter
    BY DEF EndTransaction
  <1>3. pending' \in [Writers -> Seq(AuditEvent)]
    BY <1>1, <1>2
  <1>4. \A u \in Writers : pending'[u] = <<>>
    BY <1>1, <1>2, OneTransaction
  <1>5. \A u \in Writers : DOMAIN pending'[u] = {}
    BY <1>4
  <1>6. QED
    BY <1>2, <1>3, <1>5 DEF PendingOK

LEMMA RollbackKeeps ==
  ASSUME ChainInvariant, NEW w \in Writers, Rollback(w)
  PROVE  ChainInvariant'
  <1>0. TypeOK /\ tip = written /\ RowsOK
    BY DEF ChainInvariant, TipIsTheHistory
  <1>1. pending[w] # <<>> /\ EndTransaction(w) /\ UNCHANGED <<events, tip, now, written, damage>>
    BY DEF Rollback
  <1>2. /\ pending' \in [Writers -> Seq(AuditEvent)] /\ holder' = NoWriter
        /\ \A u \in Writers : PendingOK(u)'
    BY <1>1, NoneOpen
  <1>3. TypeOK' /\ tip' = written'
    BY <1>0, <1>1, <1>2 DEF TypeOK
  <1>4. RowsOK'
    BY <1>0, <1>1 DEF RowsOK, Rows, Chained, Tells, Depth, Intact
  <1>5. QED
    BY <1>2, <1>3, <1>4 DEF ChainInvariant, TipIsTheHistory

\* A commit adds the transaction's events to the rows, and changes none.
LEMMA RowsCommitted ==
  ASSUME ChainInvariant, NEW w \in Writers, Commit(w)
  PROVE  /\ events' \in [Ids -> AuditEvent \cup {Fresh, Lost}]
         /\ \A i \in Ids : events'[i].state = "row" /\ events[i].state # "row" => events'[i].id = i
         /\ \A i \in Ids : events[i].state = "row" => events'[i] = events[i]
         /\ Rows' = Rows \cup {pending[w][k] : k \in DOMAIN pending[w]}
  <1> DEFINE p == pending[w]
             Has(i) == \E k \in DOMAIN p : p[k].id = i
             Of(i) == CHOOSE k \in DOMAIN p : p[k].id = i
  <1>0. /\ events \in [Ids -> AuditEvent \cup {Fresh, Lost}] /\ PendingOK(w)
        /\ \A k \in DOMAIN p : p[k] \in AuditEvent
    BY TypeFacts, WrittenByFacts DEF ChainInvariant, TipIsTheHistory
  <1>1. events' = [i \in Ids |-> IF Has(i) THEN p[Of(i)] ELSE events[i]]
    BY DEF Commit, Committed
  <1>2. \A k \in DOMAIN p : p[k].id \in Ids /\ p[k].state = "row" /\ events[p[k].id] = Fresh
    BY <1>0 DEF PendingOK, AuditEvent
  <1>3. \A i \in Ids : Has(i) => Of(i) \in DOMAIN p /\ p[Of(i)].id = i
    OBVIOUS
  <1>4. \A k \in DOMAIN p : Has(p[k].id) /\ Of(p[k].id) = k
    <2>1. SUFFICES ASSUME NEW k \in DOMAIN p
                   PROVE  Has(p[k].id) /\ Of(p[k].id) = k
      OBVIOUS
    <2>2. Has(p[k].id)
      OBVIOUS
    <2>3. Of(p[k].id) \in DOMAIN p /\ p[Of(p[k].id)].id = p[k].id
      BY <1>2, <1>3, <2>2
    <2>4. QED
      BY <1>0, <2>2, <2>3 DEF PendingOK
  <1> HIDE DEF Has, Of, p
  <1>5. events' \in [Ids -> AuditEvent \cup {Fresh, Lost}]
    BY <1>0, <1>1, <1>3
  <1>6. \A i \in Ids : Has(i) => events[i] = Fresh
    BY <1>2, <1>3
  <1>7. \A i \in Ids : events[i].state = "row" => ~Has(i) /\ events'[i] = events[i]
    BY <1>1, <1>6 DEF Fresh
  <1>8. \A i \in Ids : events'[i].state = "row" /\ events[i].state # "row" =>
          Has(i) /\ events'[i] = p[Of(i)] /\ events'[i].id = i
    BY <1>1, <1>3
  <1>9. Rows' = Rows \cup {p[k] : k \in DOMAIN p}
    <2>1. Rows' = {events'[i] : i \in {j \in Ids : events'[j].state = "row"}}
      BY DEF Rows
    <2>2. ASSUME NEW e \in Rows'
          PROVE  e \in Rows \cup {p[k] : k \in DOMAIN p}
      <3>1. PICK i \in Ids : events'[i].state = "row" /\ e = events'[i]
        BY <2>1, <2>2
      <3>2. CASE events[i].state = "row"
        BY <1>7, <3>1, <3>2 DEF Rows
      <3>3. CASE events[i].state # "row"
        BY <1>3, <1>8, <3>1, <3>3
      <3>4. QED
        BY <3>2, <3>3
    <2>3. ASSUME NEW e \in Rows
          PROVE  e \in Rows'
      <3>1. PICK i \in Ids : events[i].state = "row" /\ e = events[i]
        BY <2>3 DEF Rows
      <3>2. events'[i] = e
        BY <1>7, <3>1
      <3>3. QED
        BY <2>1, <3>1, <3>2
    <2>4. ASSUME NEW k \in DOMAIN p
          PROVE  p[k] \in Rows'
      <3>1. events'[p[k].id] = p[k] /\ p[k].id \in Ids /\ p[k].state = "row"
        BY <1>1, <1>2, <1>4
      <3>2. QED
        BY <2>1, <3>1
    <2>5. QED
      BY <2>2, <2>3, <2>4
  <1>10. QED
    BY <1>5, <1>7, <1>8, <1>9 DEF p

LEMMA CommitKeeps ==
  ASSUME ChainInvariant, NEW w \in Writers, Commit(w)
  PROVE  ChainInvariant'
  <1> DEFINE p == pending[w]
             g == WrittenBy(w)
             P == {p[k] : k \in DOMAIN p}
  <1>0. /\ TypeOK /\ tip = written /\ PendingOK(w) /\ RowsOK
        /\ written \in Seq(Contents) /\ Len(written) \in Nat
    BY TypeFacts DEF ChainInvariant, TipIsTheHistory
  <1>1. /\ p # <<>> /\ EndTransaction(w) /\ tip' = TipOf(w) /\ written' = g
        /\ UNCHANGED <<now, damage>>
    BY DEF Commit
  <1>2. /\ events' \in [Ids -> AuditEvent \cup {Fresh, Lost}]
        /\ \A i \in Ids : events'[i].state = "row" /\ events[i].state # "row" => events'[i].id = i
        /\ \A i \in Ids : events[i].state = "row" => events'[i] = events[i]
        /\ Rows' = Rows \cup P
    BY RowsCommitted
  <1>3. /\ pending' \in [Writers -> Seq(AuditEvent)] /\ holder' = NoWriter
        /\ \A u \in Writers : PendingOK(u)'
    BY <1>1, NoneOpen
  <1>4. /\ g \in Seq(Contents) /\ Len(p) \in Nat /\ DOMAIN p = 1 .. Len(p)
        /\ Len(g) = Len(written) + Len(p)
        /\ \A k \in 1 .. Len(written) : g[k] = written[k]
        /\ \A k \in DOMAIN p : g[Len(written) + k] = p[k].content
        /\ \A k \in DOMAIN p : p[k] \in AuditEvent
    BY <1>0, WrittenByFacts
  <1>5. tip' = written'
    BY <1>1, TipTells
  <1>6. \A k \in DOMAIN p : Depth(p[k]) = Len(written) + k /\ Chained(p[k], g)
    BY <1>0 DEF PendingOK
  <1> HIDE DEF p, g, P
  <1>7. TypeOK'
    BY <1>0, <1>1, <1>2, <1>3, <1>4, <1>5 DEF TypeOK, Hash
  <1>8. Tells(written, g)
    BY <1>0, <1>4 DEF Tells
  <1>9. \A e \in Rows : /\ e \in AuditEvent /\ Chained(e, g)
                        /\ Depth(e) \in Nat /\ Depth(e) <= Len(written)
    BY <1>0, <1>4, <1>8, RowFacts, ChainedMore
  <1>10. \A e \in P : /\ Chained(e, g) /\ Intact(e)
                      /\ \E k \in DOMAIN p : e = p[k] /\ Depth(e) = Len(written) + k
    <2>1. SUFFICES ASSUME NEW k \in DOMAIN p
                   PROVE  Chained(p[k], g) /\ Intact(p[k]) /\ Depth(p[k]) = Len(written) + k
      BY DEF P
    <2>2. Depth(p[k]) = Len(written) + k /\ Chained(p[k], g)
      BY <1>6
    <2>3. k \in Nat /\ k >= 1 /\ Len(written) + k \in 1 .. Len(p[k].hash)
      BY <1>0, <1>4, <2>2 DEF Depth
    <2>4. p[k].hash[Len(written) + k] = g[Len(written) + k]
      BY <2>2, <2>3 DEF Chained, Tells
    <2>5. QED
      BY <1>4, <2>2, <2>4 DEF Intact
  <1>11. \A i \in Ids : events'[i].state = "row" => events'[i].id = i
    BY <1>0, <1>2 DEF RowsOK
  <1>12. \A e \in Rows' : Chained(e, g)
    BY <1>2, <1>9, <1>10
  <1>13. ASSUME NEW e \in Rows', NEW f \in Rows', Depth(e) = Depth(f)
         PROVE  e = f
    <2>1. CASE e \in Rows /\ f \in Rows
      BY <1>0, <1>13, <2>1 DEF RowsOK
    <2>2. CASE e \in P /\ f \in P
      <3>1. PICK j \in DOMAIN p : e = p[j] /\ Depth(e) = Len(written) + j
        BY <1>10, <2>2
      <3>2. PICK k \in DOMAIN p : f = p[k] /\ Depth(f) = Len(written) + k
        BY <1>10, <2>2
      <3>3. j = k
        BY <1>0, <1>4, <1>13, <3>1, <3>2
      <3>4. QED
        BY <3>1, <3>2, <3>3
    <2>3. \A x \in Rows, y \in P : Depth(x) # Depth(y)
      <3>1. SUFFICES ASSUME NEW x \in Rows, NEW y \in P
                     PROVE  Depth(x) # Depth(y)
        OBVIOUS
      <3>2. PICK k \in DOMAIN p : Depth(y) = Len(written) + k
        BY <1>10
      <3>3. k \in Nat /\ k >= 1 /\ Depth(x) \in Nat /\ Depth(x) <= Len(written)
        BY <1>4, <1>9
      <3>4. QED
        BY <1>0, <3>2, <3>3
    <2>4. QED
      BY <1>2, <1>13, <2>1, <2>2, <2>3
  <1>14. ASSUME damage = 0
         PROVE  /\ \A e \in Rows' : Intact(e)
                /\ \A d \in 1 .. Len(g) : \E e \in Rows' : Depth(e) = d
    <2>1. \A e \in Rows' : Intact(e)
      BY <1>0, <1>2, <1>10, <1>14 DEF RowsOK
    <2>2. ASSUME NEW d \in 1 .. Len(g)
          PROVE  \E e \in Rows' : Depth(e) = d
      <3>1. CASE d \in 1 .. Len(written)
        BY <1>0, <1>2, <1>14, <3>1 DEF RowsOK
      <3>2. CASE d \notin 1 .. Len(written)
        <4>1. d - Len(written) \in DOMAIN p /\ d = Len(written) + (d - Len(written))
          BY <1>0, <1>4, <3>2
        <4>2. Depth(p[d - Len(written)]) = d /\ p[d - Len(written)] \in P
          BY <1>6, <4>1 DEF P
        <4>3. QED
          BY <1>2, <4>2
      <3>3. QED
        BY <3>1, <3>2
    <2>3. QED
      BY <2>1, <2>2
  <1>15. RowsOK'
    BY <1>1, <1>11, <1>12, <1>13, <1>14 DEF RowsOK, Depth, Intact, Chained, Tells
  <1>16. QED
    BY <1>3, <1>5, <1>7, <1>15 DEF ChainInvariant, TipIsTheHistory

\* Damage to a row, done in any way that leaves the other rows and the row's
\* own hashes alone.
LEMMA DamageKeeps ==
  ASSUME ChainInvariant, Damage, NEW i \in Ids, events[i].state = "row",
         NEW r \in AuditEvent \cup {Lost}, events' = [events EXCEPT ![i] = r],
         r # Lost => r.id = i /\ r.hash = events[i].hash /\ r.prev_hash = events[i].prev_hash
  PROVE  ChainInvariant'
  <1>0. /\ TypeOK /\ tip = written /\ RowsOK /\ \A w \in Writers : PendingOK(w)
        /\ events \in [Ids -> AuditEvent \cup {Fresh, Lost}] /\ damage \in Nat
    BY TypeFacts DEF ChainInvariant, TipIsTheHistory
  <1>1. UNCHANGED <<tip, holder, pending, now, written>> /\ damage' \in 1 .. MaxDamage
    BY <1>0, AuditAssumption DEF Damage
  <1>2. /\ events' \in [Ids -> AuditEvent \cup {Fresh, Lost}] /\ events'[i] = r
        /\ \A j \in Ids : j # i => events'[j] = events[j]
    BY <1>0
  <1>3. TypeOK' /\ tip' = written'
    BY <1>0, <1>1, <1>2 DEF TypeOK
  <1>4. ASSUME NEW w \in Writers
        PROVE  PendingOK(w)'
    <2>1. \A k \in DOMAIN pending[w] : pending[w][k].id \in Ids /\ events[pending[w][k].id] = Fresh
      BY <1>0, WrittenByFacts DEF PendingOK, AuditEvent
    <2>2. \A k \in DOMAIN pending[w] : events'[pending[w][k].id] = Fresh
      BY <1>2, <2>1 DEF Fresh
    <2>3. WrittenBy(w)' = WrittenBy(w)
      BY <1>1 DEF WrittenBy
    <2>4. QED
      BY <1>0, <1>1, <2>2, <2>3 DEF PendingOK, Chained, Tells, Depth
  <1>5. \A j \in Ids : events'[j].state = "row" =>
          /\ events[j].state = "row" /\ events'[j].id = j
          /\ events'[j].hash = events[j].hash /\ events'[j].prev_hash = events[j].prev_hash
    BY <1>0, <1>2 DEF RowsOK, Lost
  <1>6. \A e \in Rows' : \E j \in Ids :
          /\ e = events'[j] /\ events[j] \in Rows /\ events[j].id = j
          /\ e.hash = events[j].hash /\ e.prev_hash = events[j].prev_hash
    BY <1>0, <1>5 DEF Rows, RowsOK
  <1>7. \A e \in Rows' : Chained(e, written)
    <2>1. SUFFICES ASSUME NEW e \in Rows'
                   PROVE  Chained(e, written)
      OBVIOUS
    <2>2. PICK j \in Ids : /\ e = events'[j] /\ events[j] \in Rows
                          /\ e.hash = events[j].hash /\ e.prev_hash = events[j].prev_hash
      BY <1>6
    <2>3. Chained(events[j], written)
      BY <1>0, <2>2 DEF RowsOK
    <2>4. QED
      BY <2>2, <2>3 DEF Chained, Depth
  <1>8. ASSUME NEW e \in Rows', NEW f \in Rows', Depth(e) = Depth(f)
        PROVE  e = f
    <2>1. PICK j \in Ids : /\ e = events'[j] /\ events[j] \in Rows /\ events[j].id = j
                          /\ e.hash = events[j].hash
      BY <1>6
    <2>2. PICK k \in Ids : /\ f = events'[k] /\ events[k] \in Rows /\ events[k].id = k
                          /\ f.hash = events[k].hash
      BY <1>6
    <2>3. events[j] = events[k]
      BY <1>0, <1>8, <2>1, <2>2 DEF RowsOK, Depth
    <2>4. QED
      BY <2>1, <2>2, <2>3
  <1>9. RowsOK'
    BY <1>1, <1>5, <1>7, <1>8 DEF RowsOK, Depth, Chained, Tells
  <1>10. QED
    BY <1>3, <1>4, <1>9 DEF ChainInvariant, TipIsTheHistory

LEMMA ChainKept ==
  ASSUME ChainInvariant, [Next]_vars
  PROVE  ChainInvariant'
  <1>1. ASSUME NEW i \in Ids, LoseRow(i)
        PROVE  ChainInvariant'
    BY <1>1, DamageKeeps DEF LoseRow
  <1>2. ASSUME NEW i \in Ids, NEW content \in Contents, AlterRow(i, content)
        PROVE  ChainInvariant'
    <2> DEFINE r == [events[i] EXCEPT !.content = content]
    <2>1. /\ events[i].state = "row" /\ Damage
          /\ events \in [Ids -> AuditEvent \cup {Fresh, Lost}] /\ events[i].id = i
      BY <1>2, TypeFacts DEF AlterRow, ChainInvariant, TipIsTheHistory, RowsOK
    <2>2. events[i] \in AuditEvent
      BY <2>1 DEF Fresh, Lost
    <2>3. events' = [events EXCEPT ![i] = r]
      BY <1>2 DEF AlterRow
    <2>4. /\ r \in AuditEvent /\ r.id = i /\ r.hash = events[i].hash
          /\ r.prev_hash = events[i].prev_hash
      BY <2>1, <2>2 DEF AuditEvent
    <2> HIDE DEF r
    <2>5. QED
      BY <2>1, <2>3, <2>4, DamageKeeps
  <1>3. CASE UNCHANGED vars
    <2>1. TipIsTheHistory'
      BY <1>3 DEF vars, ChainInvariant, TipIsTheHistory, TypeOK
    <2>2. ASSUME NEW w \in Writers
          PROVE  PendingOK(w)'
      <3>1. PendingOK(w) /\ WrittenBy(w)' = WrittenBy(w)
        BY <1>3 DEF vars, ChainInvariant, WrittenBy
      <3>2. QED
        BY <1>3, <3>1 DEF vars, PendingOK, Chained, Tells, Depth
    <2>3. RowsOK'
      BY <1>3 DEF vars, ChainInvariant, RowsOK, Rows, Chained, Tells, Depth, Intact
    <2>4. QED
      BY <2>1, <2>2, <2>3 DEF ChainInvariant
  <1>4. QED
    BY <1>1, <1>2, <1>3, RecordKeeps, CommitKeeps, RollbackKeeps DEF Next

LEMMA ChainInitially ==
  ASSUME Init
  PROVE  ChainInvariant
  <1>1. TypeOK /\ tip = written
    BY AuditAssumption DEF Init, TypeOK, Hash
  <1>2. \A w \in Writers : DOMAIN pending[w] = {}
    BY DEF Init
  <1>3. Rows = {} /\ Len(written) = 0 /\ \A i \in Ids : events[i].state # "row"
    BY DEF Init, Rows, Fresh
  <1>4. QED
    BY <1>1, <1>2, <1>3 DEF ChainInvariant, TipIsTheHistory, PendingOK, RowsOK

-----------------------------------------------------------------------------
(* The theorems.                                                           *)

\* The inductive invariant: every hash, stored or about to be, tells the
\* beginning of the history, and no two rows stand at one place of it.
THEOREM ChainInvariantHolds == Spec => []ChainInvariant
  <1>1. Init => ChainInvariant
    BY ChainInitially
  <1>2. ChainInvariant /\ [Next]_vars => ChainInvariant'
    BY ChainKept
  <1>3. QED
    BY <1>1, <1>2, PTL DEF Spec

\* The tip is the hash of everything committed, in the order of the commits
\* (record_audit_event's lock of the tip).
THEOREM TipHashesTheHistory == Spec => []TipIsTheHistory
  <1>1. ChainInvariant => TipIsTheHistory
    BY DEF ChainInvariant
  <1>2. QED
    BY <1>1, ChainInvariantHolds, PTL

\* verify_audit_chain finds nothing in a chain nobody touched, if and only if
\* the clocks of the writers agree with the order of writing.
THEOREM UntouchedVerifies == Spec => []IntactChainVerifies
  <1>1. ChainInvariant => IntactChainVerifies
    BY IntactVerifies
  <1>2. QED
    BY <1>1, ChainInvariantHolds, PTL

\* Where verify_audit_chain finds nothing, the rows are the beginning of what
\* was written, whatever was altered or lost.
THEOREM VerifiedIsGenuine == Spec => []VerifiedIsAPrefix
  <1>1. ChainInvariant => VerifiedIsAPrefix
    BY VerifiedTells
  <1>2. QED
    BY <1>1, ChainInvariantHolds, PTL

\* verify_audit_chain reports exactly the events that were altered or that do
\* not follow the event they were chained to.
THEOREM ReportIsExact == Spec => []ReportPinpoints
  <1>1. ChainInvariant => ReportPinpoints
    BY Reported DEF ReportPinpoints, PreviousDepth
  <1>2. QED
    BY <1>1, ChainInvariantHolds, PTL
=============================================================================
