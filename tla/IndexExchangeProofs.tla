------------------------ MODULE IndexExchangeProofs ------------------------
(***************************************************************************)
(* Proofs about the index exchange: the delta basis is sound and a         *)
(* truncated view is flagged, for every set of names and peers and every   *)
(* number of writes, sessions, restarts and rebuilds.                      *)
(***************************************************************************)
EXTENDS IndexExchange, TLAPS

\* The operations under which the theorems hold.  What is excluded is what
\* the violation runs of IndexExchange show to break the delta basis: views
\* dropped while the process goes on, and a sequence counter that is derived
\* from the stored rows after some sequence was given up.
SafeOperations ==
    /\ "forget" \notin Operations
    /\ "reload" \notin Operations
    /\ "reopen" \in Operations =>
         Operations \cap {"prune", "release", "putfail"} = {}

----------------------------------------------------------------------------
(* The inductive invariant.                                                *)

\* Stored sequences are below the counter, and while the counter can be
\* derived from the rows it is what the highest row says.
SeqInv ==
    /\ nextSeq >= 1
    /\ \A n \in Names : Present(n) => rows[n].seq >= 1 /\ rows[n].seq < nextSeq
    /\ "reopen" \in Operations =>
         \/ nextSeq = 1
         \/ \E n \in Names : Present(n) /\ rows[n].seq = nextSeq - 1

\* Markers, snapshots and completed exchanges were taken in this order, each
\* from a counter that has only grown within its generation.
Ordered(p) ==
    /\ marker[p].gen <= gen /\ (marker[p].gen = gen => marker[p].seq < nextSeq)
    /\ base[p].gen <= gen /\ (base[p].gen = gen => base[p].seq < nextSeq)
    /\ marker[p].sess <= sess[p]
    /\ connSess[p] <= sess[p]
    /\ phase[p] # "idle" =>
         /\ snapGen[p] <= gen /\ (snapGen[p] = gen => snapSeq[p] < nextSeq)
         /\ marker[p].gen <= snapGen[p]
         /\ marker[p].gen = snapGen[p] => marker[p].seq <= snapSeq[p]
         /\ base[p].gen <= snapGen[p]
         /\ base[p].gen = snapGen[p] => base[p].seq <= snapSeq[p]

\* The shape of a session: which frames can be on the wire, and when.
Shape(p) ==
    /\ phase[p] \in {"idle", "snapped"} =>
         wire[p] = <<>> /\ outbox[p] = NoFiles /\ rx[p] = "wait"
    /\ phase[p] \in {"snapped", "sending", "sent", "active"} => connSess[p] = sess[p]
    /\ wire[p] # <<>> => connSess[p] = sess[p]
    /\ phase[p] = "sending" =>
         rx[p] # "done" /\ \A i \in 1..Len(wire[p]) : ~wire[p][i].final
    /\ phase[p] \in {"active", "closing"} => rx[p] = "done"
    /\ rx[p] = "done" => outbox[p] = NoFiles
    /\ \A i \in 1..Len(wire[p]) :
         /\ wire[p][i].kind = (IF rx[p] = "done" THEN "update" ELSE "index")
         /\ wire[p][i].final => rx[p] # "done" /\ i = Len(wire[p]) /\ outbox[p] = NoFiles
         /\ wire[p][i].kind = "index" => wire[p][i].update = update[p]

\* While a usable marker exists, what is sent or under way is a delta.
DeltaOnly(p) ==
    MarkerUsable(p, sess[p]) =>
      /\ phase[p] = "sending" => update[p]
      /\ \A i \in 1..Len(wire[p]) : wire[p][i].kind = "index" => wire[p][i].update

\* An entry at or below the snapshot has not changed since: nothing older is
\* under way to the peer.
Settled(p, n) == Present(n) /\ rows[n].seq <= snapSeq[p]

Fresh(p) ==
    phase[p] # "idle" /\ snapGen[p] = gen =>
      \A n \in Names : Settled(p, n) =>
        /\ outbox[p][n] \in {0, rows[n].stamp}
        /\ \A i \in 1..Len(wire[p]) : wire[p][i].files[n] \in {0, rows[n].stamp}

\* Every entry at or below the snapshot is still to come or has arrived.
SweepAhead(p) == ~update[p] /\ rx[p] = "wait"

Covered(p, n) ==
    \/ outbox[p][n] # 0
    \/ \E i \in 1..Len(wire[p]) : wire[p][i].kind = "index" /\ wire[p][i].files[n] # 0
    \/ view[p][n] = rows[n].stamp /\ ~SweepAhead(p)

\* The listing was made, and its final frame was or will be sent.
Listing(p) ==
    \/ phase[p] \in {"sending", "sent", "active", "closing"}
    \/ phase[p] = "broken" /\ rx[p] = "done"
    \/ phase[p] = "broken" /\ \E i \in 1..Len(wire[p]) : wire[p][i].final

Coverage(p) ==
    Listing(p) /\ snapGen[p] = gen /\ connSess[p] = sess[p] =>
      \A n \in Names : Settled(p, n) => Covered(p, n)

BasisSound(p) == MarkerUsable(p, sess[p]) => Reflects(p, marker[p].seq)

Flagged(p) ==
    base[p].ok /\ base[p].gen = gen /\ ~viewPending[p] => Reflects(p, base[p].seq)

PeerInv(p) ==
    /\ Ordered(p)
    /\ Shape(p)
    /\ DeltaOnly(p)
    /\ Fresh(p)
    /\ Coverage(p)
    /\ BasisSound(p)
    /\ Flagged(p)

IInv == TypeOK /\ SeqInv /\ \A p \in Peers : PeerInv(p)

----------------------------------------------------------------------------
(* The initial states satisfy the invariant.                               *)

LEMMA InitInv == Init => IInv
<1> SUFFICES ASSUME Init PROVE IInv
  OBVIOUS
<1>1. TypeOK
  BY DEF Init, TypeOK, Rows, Markers, Bases, Files, Frames, Phases, NoRow,
         NoMarker, NoBase, NoFiles
<1>2. SeqInv
  BY DEF Init, SeqInv, Present, NoRow
<1>3. ASSUME NEW p \in Peers PROVE PeerInv(p)
  <2>1. Ordered(p) /\ Shape(p)
    BY <1>3 DEF Init, Ordered, Shape, NoMarker, NoBase
  <2>2. ~MarkerUsable(p, sess[p]) /\ ~base[p].ok /\ ~Listing(p)
    BY <1>3 DEF Init, MarkerUsable, Listing, NoMarker, NoBase
  <2>3. Fresh(p)
    BY <1>3 DEF Init, Fresh
  <2> QED
    BY <2>1, <2>2, <2>3 DEF PeerInv, DeltaOnly, Coverage, BasisSound, Flagged
<1> QED
  BY <1>1, <1>2, <1>3 DEF IInv

----------------------------------------------------------------------------
(* A step that concerns another peer, and leaves the index alone.          *)

SameConn(q) ==
    /\ phase'[q] = phase[q]
    /\ connSess'[q] = connSess[q]
    /\ snapGen'[q] = snapGen[q]
    /\ snapSeq'[q] = snapSeq[q]
    /\ update'[q] = update[q]
    /\ outbox'[q] = outbox[q]
    /\ wire'[q] = wire[q]
    /\ rx'[q] = rx[q]

SameReceiver(q) ==
    /\ sess'[q] = sess[q]
    /\ view'[q] = view[q]
    /\ viewPending'[q] = viewPending[q]
    /\ base'[q] = base[q]


\* A step that writes the index but leaves alone every row whose sequence was
\* allocated before it (or removes it) concerns none of the names that a
\* marker, a snapshot or a completed exchange speaks about.
LEMMA IndexStep ==
    ASSUME TypeOK, NEW q \in Peers, PeerInv(q), SameConn(q), SameReceiver(q),
           marker'[q] = marker[q], gen' = gen,
           rows' \in [Names -> Rows], nextSeq' \in Nat, nextSeq <= nextSeq',
           \A n \in Names : Present(n)' /\ rows'[n].seq < nextSeq => rows'[n] = rows[n]
    PROVE  PeerInv(q)'
<1>0. /\ marker[q] \in Markers /\ base[q] \in Bases /\ nextSeq \in Nat /\ gen \in Nat
      /\ snapSeq[q] \in Nat /\ snapGen[q] \in Nat /\ rows \in [Names -> Rows]
  BY DEF TypeOK
<1>1. Ordered(q)'
  BY <1>0 DEF PeerInv, Ordered, SameConn, SameReceiver, Markers, Bases
<1>2. Shape(q)'
  BY DEF PeerInv, Shape, SameConn, SameReceiver, NoFiles
<1>3. DeltaOnly(q)'
  BY DEF PeerInv, DeltaOnly, MarkerUsable, SameConn, SameReceiver
<1>4. ASSUME NEW n \in Names, NEW k \in Nat, k < nextSeq,
             Present(n)', rows'[n].seq <= k
      PROVE  rows'[n] = rows[n] /\ Present(n) /\ rows[n].seq <= k
  <2>1. rows'[n].seq \in Nat
    BY DEF Rows
  <2>2. rows'[n].seq < nextSeq
    BY <1>0, <1>4, <2>1
  <2> QED
    BY <1>4, <2>2 DEF Present
<1>5. ASSUME phase[q] # "idle", snapGen[q] = gen, NEW n \in Names, Settled(q, n)'
      PROVE  Settled(q, n) /\ rows'[n] = rows[n]
  <2>1. snapSeq[q] < nextSeq /\ snapSeq'[q] = snapSeq[q]
    BY <1>5 DEF PeerInv, Ordered, SameConn
  <2> QED
    BY <1>0, <1>4, <1>5, <2>1 DEF Settled
<1>6. Fresh(q)'
  BY <1>5 DEF PeerInv, Fresh, SameConn
<1>7. Coverage(q)'
  <2> SUFFICES ASSUME Listing(q)', snapGen'[q] = gen', connSess'[q] = sess'[q],
                      NEW n \in Names, Settled(q, n)'
               PROVE  Covered(q, n)'
    BY DEF Coverage
  <2>1. Listing(q) /\ phase[q] # "idle" /\ snapGen[q] = gen /\ connSess[q] = sess[q]
    BY DEF Listing, SameConn, SameReceiver
  <2>2. Covered(q, n) /\ rows'[n] = rows[n]
    BY <1>5, <2>1 DEF PeerInv, Coverage
  <2> QED
    BY <2>2 DEF Covered, SweepAhead, SameConn, SameReceiver
<1>8. BasisSound(q)'
  BY <1>0, <1>4 DEF PeerInv, BasisSound, MarkerUsable, Reflects, Ordered,
                    SameReceiver, Markers
<1>9. Flagged(q)'
  BY <1>0, <1>4 DEF PeerInv, Flagged, Reflects, Ordered, SameReceiver, Bases
<1> QED
  BY <1>1, <1>2, <1>3, <1>6, <1>7, <1>8, <1>9 DEF PeerInv

\* In particular, a step that leaves the index and a peer alone.
LEMMA Untouched ==
    ASSUME TypeOK, NEW q \in Peers, PeerInv(q), SameConn(q), SameReceiver(q),
           marker'[q] = marker[q],
           gen' = gen, rows' = rows, nextSeq' = nextSeq
    PROVE  PeerInv(q)'
<1>1. rows' \in [Names -> Rows] /\ nextSeq' \in Nat /\ nextSeq <= nextSeq'
  BY DEF TypeOK
<1> QED
  BY <1>1, IndexStep

----------------------------------------------------------------------------
(* Steps of the sender's index.                                            *)

LEMMA PutStep ==
    ASSUME IInv, NEW n0 \in Names, NEW del \in BOOLEAN, Put(n0, del),
           UNCHANGED <<marker, receiverVars>>,
           \A q \in Peers : SameConn(q)
    PROVE  SeqInv' /\ \A q \in Peers : PeerInv(q)'
<1>1. /\ rows' = [rows EXCEPT ![n0] = [stamp |-> clock + 1, deleted |-> del, seq |-> nextSeq]]
      /\ nextSeq' = nextSeq + 1 /\ gen' = gen
      /\ nextSeq \in Nat /\ clock \in Nat /\ gen \in Nat
      /\ rows \in [Names -> Rows]
  BY DEF Put, IInv, TypeOK
<1>2. SeqInv'
  BY <1>1 DEF IInv, SeqInv, Present, Rows
<1>3. /\ rows' \in [Names -> Rows] /\ nextSeq' \in Nat /\ nextSeq <= nextSeq'
      /\ \A n \in Names : rows'[n].seq < nextSeq => rows'[n] = rows[n]
  BY <1>1 DEF Rows
<1>4. ASSUME NEW q \in Peers PROVE PeerInv(q)'
  BY <1>1, <1>3, IndexStep DEF receiverVars, SameReceiver, IInv
<1> QED
  BY <1>2, <1>4

LEMMA PutFailsStep ==
    ASSUME IInv, SafeOperations, PutFails
    PROVE  SeqInv' /\ \A q \in Peers : PeerInv(q)'
<1>1. rows' = rows /\ gen' = gen /\ nextSeq' = nextSeq + 1 /\ "reopen" \notin Operations
  BY DEF PutFails, SafeOperations
<1>2. SeqInv'
  BY <1>1 DEF IInv, TypeOK, SeqInv, Present, Rows
<1>3. rows' \in [Names -> Rows] /\ nextSeq' \in Nat /\ nextSeq <= nextSeq'
  BY <1>1 DEF IInv, TypeOK
<1>4. ASSUME NEW q \in Peers PROVE PeerInv(q)'
  <2>1. SameConn(q) /\ SameReceiver(q) /\ marker'[q] = marker[q]
    BY DEF PutFails, connVars, receiverVars, SameConn, SameReceiver
  <2> QED
    BY <1>1, <1>3, <2>1, IndexStep DEF IInv
<1> QED
  BY <1>2, <1>4

\* Rows that are pruned or released are rows nobody speaks about any more.
LEMMA RemoveRowsStep ==
    ASSUME IInv, SafeOperations,
           PruneTombstones \/ \E n \in Names : ReleaseRow(n)
    PROVE  SeqInv' /\ \A q \in Peers : PeerInv(q)'
<1>1. /\ gen' = gen /\ nextSeq' = nextSeq /\ "reopen" \notin Operations
      /\ UNCHANGED <<marker, connVars, receiverVars>>
  BY DEF PruneTombstones, ReleaseRow, SafeOperations
<1>2. /\ rows' \in [Names -> Rows]
      /\ \A n \in Names : Present(n)' => rows'[n] = rows[n]
  <2>0. rows \in [Names -> Rows] /\ NoRow \in Rows /\ NoRow.stamp = 0
    BY DEF IInv, TypeOK, NoRow, Rows
  <2>1. CASE PruneTombstones
    BY <2>0, <2>1 DEF PruneTombstones, Present
  <2>2. CASE \E n \in Names : ReleaseRow(n)
    BY <2>0, <2>2 DEF ReleaseRow, Present
  <2> QED
    BY <2>1, <2>2
<1>3. SeqInv'
  BY <1>1, <1>2 DEF IInv, SeqInv, Present
<1>4. ASSUME NEW q \in Peers PROVE PeerInv(q)'
  <2>1. SameConn(q) /\ SameReceiver(q) /\ marker'[q] = marker[q]
    BY <1>1 DEF connVars, receiverVars, SameConn, SameReceiver
  <2>2. nextSeq' \in Nat /\ nextSeq <= nextSeq'
    BY <1>1 DEF IInv, TypeOK
  <2> QED
    BY <1>1, <1>2, <2>1, <2>2, IndexStep DEF IInv
<1> QED
  BY <1>3, <1>4

\* A new generation makes every marker, snapshot and base a thing of the past.
LEMMA RebuildStep ==
    ASSUME IInv, RebuildIndex
    PROVE  SeqInv' /\ \A q \in Peers : PeerInv(q)'
<1>1. /\ gen' = gen + 1 /\ gen \in Nat /\ nextSeq' = 1
      /\ \A n \in Names : ~Present(n)'
  BY DEF RebuildIndex, IInv, TypeOK, Present, NoRow
<1>2. SeqInv'
  BY <1>1 DEF SeqInv
<1>3. ASSUME NEW q \in Peers PROVE PeerInv(q)'
  <2>0. /\ PeerInv(q) /\ SameReceiver(q) /\ marker'[q] = NoMarker
        /\ connSess'[q] = connSess[q] /\ snapGen'[q] = snapGen[q]
        /\ snapSeq'[q] = snapSeq[q] /\ update'[q] = update[q]
        /\ outbox'[q] = outbox[q] /\ wire'[q] = wire[q] /\ rx'[q] = rx[q]
        /\ phase'[q] = (IF phase[q] = "snapped" THEN "broken" ELSE phase[q])
    BY DEF RebuildIndex, receiverVars, SameReceiver, IInv
  <2>1. /\ snapGen[q] \in Nat /\ base[q] \in Bases /\ snapSeq[q] \in Nat
        /\ sess[q] \in Nat /\ connSess[q] \in Nat
    BY DEF IInv, TypeOK
  <2>2. Ordered(q)'
    BY <1>1, <2>0, <2>1 DEF PeerInv, Ordered, SameReceiver, Bases, NoMarker
  <2>3. Shape(q)'
    BY <2>0 DEF PeerInv, Shape, SameReceiver, NoFiles
  <2>4. DeltaOnly(q)' /\ BasisSound(q)'
    BY <2>0 DEF DeltaOnly, BasisSound, MarkerUsable, NoMarker
  <2>5. Fresh(q)' /\ Coverage(q)' /\ Flagged(q)'
    BY <1>1 DEF Fresh, Coverage, Flagged, Reflects, Settled
  <2> QED
    BY <2>2, <2>3, <2>4, <2>5 DEF PeerInv
<1> QED
  BY <1>2, <1>3

\* A session that breaks: nothing more is sent, and a stream without its
\* final frame promises nothing.
LEMMA BreakStep ==
    ASSUME TypeOK, NEW q \in Peers, PeerInv(q), SameReceiver(q),
           phase[q] # "idle", phase'[q] = "broken",
           connSess'[q] = connSess[q], snapGen'[q] = snapGen[q],
           snapSeq'[q] = snapSeq[q], update'[q] = update[q],
           outbox'[q] = outbox[q], wire'[q] = wire[q], rx'[q] = rx[q],
           marker'[q] = marker[q], gen' = gen, rows' = rows, nextSeq' = nextSeq
    PROVE  PeerInv(q)'
<1> USE DEF SameReceiver
<1>1. Ordered(q)'
  BY DEF PeerInv, Ordered
<1>2. Shape(q)'
  BY DEF PeerInv, Shape, NoFiles
<1>3. DeltaOnly(q)'
  BY DEF PeerInv, DeltaOnly, MarkerUsable
<1>4. Fresh(q)'
  BY DEF PeerInv, Fresh, Settled, Present
<1>5. Coverage(q)'
  <2>1. Listing(q)' => Listing(q)
    <3>1. phase[q] \in Phases
      BY DEF TypeOK
    <3>2. CASE phase[q] = "snapped"
      BY <3>2 DEF PeerInv, Shape, Listing
    <3>3. CASE phase[q] = "sending"
      BY <3>3 DEF Listing
    <3> QED
      BY <3>1, <3>2, <3>3 DEF Listing, Phases
  <2> QED
    BY <2>1 DEF PeerInv, Coverage, Settled, Covered, SweepAhead, Present
<1>6. BasisSound(q)' /\ Flagged(q)'
  BY DEF PeerInv, BasisSound, Flagged, MarkerUsable, Reflects, Present
<1> QED
  BY <1>1, <1>2, <1>3, <1>4, <1>5, <1>6 DEF PeerInv

\* While no sequence is given up, the highest row tells the counter.
LEMMA CounterFromRows ==
    ASSUME TypeOK, SeqInv, "reopen" \in Operations
    PROVE  MaxStoredSeq = nextSeq - 1
<1>1. nextSeq - 1 \in SeqsInUse
  BY DEF TypeOK, SeqInv, SeqsInUse
<1>2. \A k \in SeqsInUse : k \in Nat /\ k <= nextSeq - 1
  BY DEF TypeOK, SeqInv, SeqsInUse, Rows
<1> QED
  BY <1>1, <1>2 DEF MaxStoredSeq

LEMMA ReopenStep ==
    ASSUME IInv, SafeOperations, Reopen
    PROVE  nextSeq' = nextSeq /\ SeqInv' /\ \A q \in Peers : PeerInv(q)'
<1>1. nextSeq' = nextSeq /\ rows' = rows /\ gen' = gen
  BY CounterFromRows DEF Reopen, IInv, TypeOK
<1>2. SeqInv'
  BY <1>1 DEF IInv, SeqInv, Present
<1>3. ASSUME NEW q \in Peers PROVE PeerInv(q)'
  <2>0. /\ PeerInv(q) /\ TypeOK /\ SameReceiver(q) /\ marker'[q] = marker[q]
        /\ connSess'[q] = connSess[q] /\ snapGen'[q] = snapGen[q]
        /\ snapSeq'[q] = snapSeq[q] /\ update'[q] = update[q]
        /\ outbox'[q] = outbox[q] /\ wire'[q] = wire[q] /\ rx'[q] = rx[q]
        /\ phase'[q] = (IF phase[q] = "idle" THEN "idle" ELSE "broken")
    BY DEF Reopen, receiverVars, SameReceiver, IInv
  <2>1. CASE phase[q] = "idle"
    BY <1>1, <2>0, <2>1, Untouched DEF SameConn
  <2>2. CASE phase[q] # "idle"
    BY <1>1, <2>0, <2>2, BreakStep
  <2> QED
    BY <2>1, <2>2
<1> QED
  BY <1>1, <1>2, <1>3

----------------------------------------------------------------------------
(* Steps of one session.  Each lemma is about the peer p of the session;   *)
(* the others are Untouched.                                               *)

LEMMA OpenSessionStep ==
    ASSUME IInv, NEW p \in Peers, NEW r \in {"initiator", "responder"},
           OpenSession(p, r)
    PROVE  PeerInv(p)'
<1>0. /\ TypeOK /\ PeerInv(p) /\ SeqInv
      /\ gen' = gen /\ rows' = rows /\ nextSeq' = nextSeq /\ marker' = marker
      /\ SameReceiver(p) /\ phase[p] = "idle" /\ phase'[p] = "snapped"
      /\ connSess'[p] = sess[p] /\ snapGen'[p] = gen /\ snapSeq'[p] = nextSeq - 1
      /\ outbox'[p] = outbox[p] /\ wire'[p] = wire[p] /\ rx'[p] = rx[p]
      /\ update'[p] = update[p]
  BY DEF OpenSession, senderVars, receiverVars, SameReceiver, IInv, TypeOK, MaxSeq
<1>1. wire'[p] = <<>> /\ outbox'[p] = NoFiles /\ rx'[p] = "wait"
  BY <1>0 DEF PeerInv, Shape
<1>2. Ordered(p)'
  <2>1. /\ nextSeq \in Nat /\ marker[p] \in Markers /\ base[p] \in Bases
        /\ gen \in Nat /\ sess[p] \in Nat
    BY <1>0 DEF TypeOK
  <2> QED
    BY <1>0, <2>1 DEF PeerInv, Ordered, SameReceiver, SeqInv, Markers, Bases
<1>3. Shape(p)'
  BY <1>0, <1>1 DEF Shape, SameReceiver, NoFiles
<1>4. DeltaOnly(p)' /\ Coverage(p)'
  BY <1>0, <1>1 DEF DeltaOnly, Coverage, Listing
<1>5. Fresh(p)'
  BY <1>0, <1>1 DEF Fresh, NoFiles
<1>6. BasisSound(p)' /\ Flagged(p)'
  BY <1>0 DEF PeerInv, BasisSound, Flagged, MarkerUsable, Reflects, Present, SameReceiver
<1> QED
  BY <1>2, <1>3, <1>4, <1>5, <1>6 DEF PeerInv

\* A delta leaves out what the marker covers, and the view has that.
LEMMA ListEntriesStep ==
    ASSUME IInv, NEW p \in Peers, ListEntries(p)
    PROVE  PeerInv(p)'
<1> DEFINE delta == MarkerUsable(p, connSess[p])
<1>0. /\ TypeOK /\ PeerInv(p)
      /\ gen' = gen /\ rows' = rows /\ nextSeq' = nextSeq /\ marker' = marker
      /\ SameReceiver(p) /\ phase[p] = "snapped" /\ phase'[p] = "sending"
      /\ connSess'[p] = connSess[p] /\ snapGen'[p] = snapGen[p]
      /\ snapSeq'[p] = snapSeq[p] /\ wire'[p] = wire[p] /\ rx'[p] = rx[p]
      /\ update'[p] = delta /\ outbox'[p] = Listed(p, delta)
  BY DEF ListEntries, senderVars, receiverVars, SameReceiver, IInv, TypeOK
<1>1. wire[p] = <<>> /\ rx[p] = "wait" /\ connSess[p] = sess[p]
  BY <1>0 DEF PeerInv, Shape
<1>2. Ordered(p)'
  BY <1>0 DEF PeerInv, Ordered, SameReceiver
<1>3. Shape(p)'
  BY <1>0, <1>1 DEF Shape, SameReceiver
<1>4. DeltaOnly(p)'
  BY <1>0, <1>1 DEF DeltaOnly, MarkerUsable, SameReceiver
<1>5. Fresh(p)'
  BY <1>0, <1>1 DEF Fresh, Listed
<1>6. Coverage(p)'
  <2> SUFFICES ASSUME NEW n \in Names, Settled(p, n)'
               PROVE  Covered(p, n)'
    BY DEF Coverage
  <2>1. Present(n) /\ outbox'[p][n] = (IF delta /\ rows[n].seq <= marker[p].seq THEN 0
                                       ELSE rows[n].stamp)
    BY <1>0 DEF Settled, Present, Listed
  <2>2. CASE delta /\ rows[n].seq <= marker[p].seq
    <3>1. view[p][n] = rows[n].stamp
      BY <1>0, <1>1, <2>1, <2>2 DEF PeerInv, BasisSound, Reflects
    <3> QED
      BY <1>0, <2>2, <3>1 DEF Covered, SweepAhead, SameReceiver
  <2>3. CASE ~(delta /\ rows[n].seq <= marker[p].seq)
    BY <2>1, <2>3 DEF Covered, Present
  <2> QED
    BY <2>2, <2>3
<1>7. BasisSound(p)' /\ Flagged(p)'
  BY <1>0 DEF PeerInv, BasisSound, Flagged, MarkerUsable, Reflects, Present, SameReceiver
<1> QED
  BY <1>2, <1>3, <1>4, <1>5, <1>6, <1>7 DEF PeerInv

\* What a frame takes from the outbox it puts on the wire.
LEMMA SendFrameStep ==
    ASSUME IInv, NEW p \in Peers, SendFrame(p)
    PROVE  PeerInv(p)'
<1>0. /\ TypeOK /\ PeerInv(p)
      /\ gen' = gen /\ rows' = rows /\ nextSeq' = nextSeq /\ marker' = marker
      /\ SameReceiver(p) /\ phase[p] = "sending"
      /\ connSess'[p] = connSess[p] /\ snapGen'[p] = snapGen[p]
      /\ snapSeq'[p] = snapSeq[p] /\ rx'[p] = rx[p] /\ update'[p] = update[p]
  BY DEF SendFrame, senderVars, receiverVars, SameReceiver, IInv, TypeOK
<1>1. PICK chunk \in SUBSET Carried(outbox[p]) :
        LET final == chunk = Carried(outbox[p]) IN
         /\ wire' = [wire EXCEPT ![p] = Append(@,
                       [kind |-> "index", update |-> update[p], final |-> final,
                        files |-> Only(outbox[p], chunk)])]
         /\ outbox' = [outbox EXCEPT ![p] = Only(@, Names \ chunk)]
         /\ phase' = [phase EXCEPT ![p] = IF final THEN "sent" ELSE "sending"]
  BY DEF SendFrame
<1> DEFINE final == chunk = Carried(outbox[p])
           frame == [kind |-> "index", update |-> update[p], final |-> final,
                     files |-> Only(outbox[p], chunk)]
           L == Len(wire[p])
<1>2. /\ wire'[p] = Append(wire[p], frame)
      /\ outbox'[p] = Only(outbox[p], Names \ chunk)
      /\ phase'[p] = IF final THEN "sent" ELSE "sending"
      /\ chunk \subseteq Names
  BY <1>0, <1>1 DEF TypeOK, Carried
<1>3. /\ wire[p] \in Seq(Frames) /\ L \in Nat
      /\ Len(wire'[p]) = L + 1 /\ wire'[p][L + 1] = frame
      /\ \A i \in 1..L : wire'[p][i] = wire[p][i]
      /\ outbox[p] \in Files
  BY <1>0, <1>2 DEF TypeOK
<1>4. /\ final => outbox'[p] = NoFiles
      /\ \A n \in Names : outbox'[p][n] = IF n \in chunk THEN 0 ELSE outbox[p][n]
      /\ \A n \in Names : frame.files[n] = IF n \in chunk THEN outbox[p][n] ELSE 0
      /\ \A n \in chunk : outbox[p][n] # 0
  BY <1>2, <1>3 DEF Only, Carried, NoFiles, Files
<1>5. Ordered(p)'
  BY <1>0, <1>2 DEF PeerInv, Ordered, SameReceiver
<1>6. Shape(p)'
  <2>1. /\ rx[p] # "done" /\ connSess[p] = sess[p]
        /\ \A i \in 1..L : ~wire[p][i].final /\ wire[p][i].kind = "index"
                           /\ wire[p][i].update = update[p]
    BY <1>0 DEF PeerInv, Shape
  <2>2. \A i \in 1..Len(wire'[p]) :
          /\ wire'[p][i].kind = "index" /\ wire'[p][i].update = update[p]
          /\ wire'[p][i].final => i = L + 1 /\ final
    <3> SUFFICES ASSUME NEW i \in 1..Len(wire'[p])
                 PROVE  /\ wire'[p][i].kind = "index" /\ wire'[p][i].update = update[p]
                        /\ wire'[p][i].final => i = L + 1 /\ final
      OBVIOUS
    <3>1. CASE i = L + 1
      <4>1. wire'[p][i].kind = "index" /\ wire'[p][i].update = update[p]
        BY <1>3, <3>1
      <4>2. wire'[p][i].final = final
        BY <1>3, <3>1
      <4> QED
        BY <3>1, <4>1, <4>2
    <3>2. CASE i # L + 1
      BY SMTT(30), <1>3, <2>1, <3>2
    <3> QED
      BY <3>1, <3>2
  <2>3. phase'[p] \in {"sending", "sent"} /\ (phase'[p] = "sending" => ~final)
    BY <1>2
  <2>4. rx'[p] # "done" /\ connSess'[p] = sess'[p] /\ update'[p] = update[p]
    BY <1>0, <2>1 DEF SameReceiver
  <2> QED
    BY <1>3, <1>4, <2>2, <2>3, <2>4 DEF Shape
<1>7. DeltaOnly(p)'
  BY <1>0, <1>2, <1>3 DEF PeerInv, DeltaOnly, MarkerUsable, SameReceiver
<1>8. Fresh(p)'
  <2> SUFFICES ASSUME snapGen[p] = gen, NEW n \in Names, Settled(p, n)
               PROVE  /\ outbox'[p][n] \in {0, rows[n].stamp}
                      /\ \A i \in 1..Len(wire'[p]) :
                           wire'[p][i].files[n] \in {0, rows[n].stamp}
    BY <1>0 DEF Fresh, Settled, Present
  <2>1. /\ outbox[p][n] \in {0, rows[n].stamp}
        /\ \A i \in 1..L : wire[p][i].files[n] \in {0, rows[n].stamp}
    BY <1>0 DEF PeerInv, Fresh
  <2>2. outbox'[p][n] \in {0, rows[n].stamp} /\ frame.files[n] \in {0, rows[n].stamp}
    BY <1>4, <2>1
  <2>3. ASSUME NEW i \in 1..Len(wire'[p])
        PROVE  wire'[p][i].files[n] \in {0, rows[n].stamp}
    <3>1. CASE i = L + 1
      BY <1>3, <2>2, <3>1
    <3>2. CASE i # L + 1
      BY SMTT(30), <1>3, <2>1, <2>3, <3>2
    <3> QED
      BY <3>1, <3>2
  <2> QED
    BY <2>2, <2>3
<1>9. Coverage(p)'
  <2> SUFFICES ASSUME snapGen[p] = gen, connSess[p] = sess[p],
                      NEW n \in Names, Settled(p, n)
               PROVE  Covered(p, n)'
    BY <1>0 DEF Coverage, Settled, Present, SameReceiver
  <2>1. Covered(p, n)
    BY <1>0 DEF PeerInv, Coverage, Listing
  <2>2. CASE outbox[p][n] # 0 /\ n \in chunk
    BY <1>3, <1>4, <2>2 DEF Covered
  <2>3. CASE outbox[p][n] # 0 /\ n \notin chunk
    BY <1>4, <2>3 DEF Covered
  <2>4. CASE outbox[p][n] = 0
    BY <1>0, <1>3, <2>1, <2>4 DEF Covered, SweepAhead, SameReceiver
  <2> QED
    BY <2>2, <2>3, <2>4
<1>10. BasisSound(p)' /\ Flagged(p)'
  BY <1>0 DEF PeerInv, BasisSound, Flagged, MarkerUsable, Reflects, Present, SameReceiver
<1> QED
  BY <1>5, <1>6, <1>7, <1>8, <1>9, <1>10 DEF PeerInv

\* Changes of phase after the exchange: rx says what was received.
LEMMA PhaseStep ==
    ASSUME IInv, NEW p \in Peers, ExchangeDone(p) \/ SendClose(p)
    PROVE  PeerInv(p)'
<1>0. /\ TypeOK /\ PeerInv(p)
      /\ gen' = gen /\ rows' = rows /\ nextSeq' = nextSeq /\ marker' = marker
      /\ SameReceiver(p) /\ phase[p] \in {"sent", "active"} /\ rx[p] = "done"
      /\ phase'[p] \in {"active", "closing"}
      /\ connSess'[p] = connSess[p] /\ snapGen'[p] = snapGen[p]
      /\ snapSeq'[p] = snapSeq[p] /\ rx'[p] = rx[p] /\ update'[p] = update[p]
      /\ outbox'[p] = outbox[p] /\ wire'[p] = wire[p]
  <2>1. TypeOK /\ PeerInv(p)
    BY DEF IInv
  <2>2. /\ gen' = gen /\ rows' = rows /\ nextSeq' = nextSeq /\ marker' = marker
        /\ SameReceiver(p)
        /\ connSess'[p] = connSess[p] /\ snapGen'[p] = snapGen[p]
        /\ snapSeq'[p] = snapSeq[p] /\ rx'[p] = rx[p] /\ update'[p] = update[p]
        /\ outbox'[p] = outbox[p] /\ wire'[p] = wire[p]
    BY DEF ExchangeDone, SendClose, senderVars, receiverVars, SameReceiver
  <2>3. DOMAIN phase = Peers
    BY <2>1 DEF TypeOK
  <2>4. phase[p] \in {"sent", "active"} /\ phase'[p] \in {"active", "closing"}
    BY <2>3 DEF ExchangeDone, SendClose
  <2>5. rx[p] = "done"
    BY <2>1 DEF ExchangeDone, SendClose, PeerInv, Shape
  <2> QED
    BY <2>1, <2>2, <2>4, <2>5
<1>1. Ordered(p)'
  BY <1>0 DEF PeerInv, Ordered, SameReceiver
<1>2. Shape(p)'
  BY <1>0 DEF PeerInv, Shape, SameReceiver, NoFiles
<1>3. DeltaOnly(p)'
  BY <1>0 DEF PeerInv, DeltaOnly, MarkerUsable, SameReceiver
<1>4. Fresh(p)'
  BY <1>0 DEF PeerInv, Fresh, Settled, Present
<1>5. Coverage(p)'
  BY <1>0 DEF PeerInv, Coverage, Listing, Settled, Covered, SweepAhead, Present, SameReceiver
<1>6. BasisSound(p)' /\ Flagged(p)'
  BY <1>0 DEF PeerInv, BasisSound, Flagged, MarkerUsable, Reflects, Present, SameReceiver
<1> QED
  BY <1>1, <1>2, <1>3, <1>4, <1>5, <1>6 DEF PeerInv

LEMMA SendIndexUpdateStep ==
    ASSUME IInv, NEW p \in Peers, NEW n0 \in Names, SendIndexUpdate(p, n0)
    PROVE  PeerInv(p)'
<1> DEFINE frame == [kind |-> "update", update |-> TRUE, final |-> FALSE,
                     files |-> Only([m \in Names |-> rows[m].stamp], {n0})]
           L == Len(wire[p])
<1>0. /\ TypeOK /\ PeerInv(p)
      /\ gen' = gen /\ rows' = rows /\ nextSeq' = nextSeq /\ marker' = marker
      /\ SameReceiver(p) /\ phase[p] = "active" /\ phase'[p] = phase[p]
      /\ connSess'[p] = connSess[p] /\ snapGen'[p] = snapGen[p]
      /\ snapSeq'[p] = snapSeq[p] /\ rx'[p] = rx[p] /\ update'[p] = update[p]
      /\ outbox'[p] = outbox[p] /\ wire'[p] = Append(wire[p], frame)
  BY DEF SendIndexUpdate, senderVars, receiverVars, SameReceiver, IInv, TypeOK
<1>1. /\ wire[p] \in Seq(Frames) /\ L \in Nat
      /\ Len(wire'[p]) = L + 1 /\ wire'[p][L + 1] = frame
      /\ \A i \in 1..L : wire'[p][i] = wire[p][i]
  BY <1>0 DEF TypeOK
<1>2. rx[p] = "done" /\ connSess[p] = sess[p] /\ outbox[p] = NoFiles
  BY <1>0 DEF PeerInv, Shape
<1>3. \A i \in 1..Len(wire'[p]) : wire'[p][i].kind = "update" /\ ~wire'[p][i].final
  BY <1>0, <1>1, <1>2 DEF PeerInv, Shape
<1>4. Ordered(p)'
  BY <1>0 DEF PeerInv, Ordered, SameReceiver
<1>5. Shape(p)'
  BY <1>0, <1>2, <1>3 DEF Shape, SameReceiver, NoFiles
<1>6. DeltaOnly(p)'
  BY <1>0, <1>3 DEF PeerInv, DeltaOnly, MarkerUsable, SameReceiver
<1>7. Fresh(p)'
  <2> SUFFICES ASSUME snapGen[p] = gen, NEW n \in Names, Settled(p, n)
               PROVE  /\ outbox'[p][n] \in {0, rows[n].stamp}
                      /\ \A i \in 1..Len(wire'[p]) :
                           wire'[p][i].files[n] \in {0, rows[n].stamp}
    BY <1>0 DEF Fresh, Settled, Present
  <2>1. /\ outbox[p][n] \in {0, rows[n].stamp}
        /\ \A i \in 1..L : wire[p][i].files[n] \in {0, rows[n].stamp}
    BY <1>0 DEF PeerInv, Fresh
  <2>2. frame.files[n] \in {0, rows[n].stamp}
    BY DEF Only
  <2>3. ASSUME NEW i \in 1..Len(wire'[p])
        PROVE  wire'[p][i].files[n] \in {0, rows[n].stamp}
    <3>1. CASE i = L + 1
      BY <1>1, <2>2, <3>1
    <3>2. CASE i # L + 1
      <4>1. i \in 1..L
        BY <1>1, <3>2
      <4>2. wire'[p][i] = wire[p][i]
        BY <1>1, <4>1
      <4> QED
        BY <2>1, <4>1, <4>2
    <3> QED
      BY <3>1, <3>2
  <2> QED
    BY <1>0, <2>1, <2>3
<1>8. Coverage(p)'
  <2> SUFFICES ASSUME snapGen[p] = gen, NEW n \in Names, Settled(p, n)
               PROVE  Covered(p, n)'
    BY <1>0 DEF Coverage, Settled, Present
  <2>1. Covered(p, n)
    BY <1>0, <1>2 DEF PeerInv, Coverage, Listing
  <2>2. view[p][n] = rows[n].stamp /\ ~SweepAhead(p)
    BY <1>0, <1>2, <2>1 DEF Covered, PeerInv, Shape, NoFiles
  <2> QED
    BY <1>0, <2>2 DEF Covered, SweepAhead, SameReceiver
<1>9. BasisSound(p)' /\ Flagged(p)'
  BY <1>0 DEF PeerInv, BasisSound, Flagged, MarkerUsable, Reflects, Present, SameReceiver
<1> QED
  BY <1>4, <1>5, <1>6, <1>7, <1>8, <1>9 DEF PeerInv

\* When the peer has read the final frame, its view has the snapshot.
LEMMA ReceivedReflects ==
    ASSUME NEW p \in Peers, PeerInv(p), rx[p] = "done", Listing(p),
           snapGen[p] = gen, connSess[p] = sess[p]
    PROVE  Reflects(p, snapSeq[p])
<1> SUFFICES ASSUME NEW n \in Names, Settled(p, n) PROVE view[p][n] = rows[n].stamp
  BY DEF Reflects, Settled
<1>1. Covered(p, n)
  BY DEF PeerInv, Coverage
<1>2. outbox[p] = NoFiles /\ \A i \in 1..Len(wire[p]) : wire[p][i].kind = "update"
  BY DEF PeerInv, Shape
<1> QED
  BY <1>1, <1>2 DEF Covered, NoFiles

\* The end of a session, with or without a marker recorded.
LEMMA EndStep ==
    ASSUME IInv, NEW p \in Peers, EndSession(p), SameReceiver(p), phase[p] # "idle",
           gen' = gen, rows' = rows, nextSeq' = nextSeq,
           \/ marker'[p] = marker[p]
           \/ phase[p] \in {"active", "closing"} /\ marker'[p] = Recorded(p)
    PROVE  PeerInv(p)'
<1>0. /\ TypeOK /\ PeerInv(p)
      /\ phase'[p] = "idle" /\ wire'[p] = <<>> /\ outbox'[p] = NoFiles
      /\ rx'[p] = "wait" /\ connSess'[p] = 0
      /\ sess[p] \in Nat
  BY DEF EndSession, IInv, TypeOK
<1>1. Ordered(p)'
  BY <1>0 DEF PeerInv, Ordered, SameReceiver, Recorded
<1>2. Shape(p)'
  BY <1>0 DEF Shape, NoFiles
<1>3. DeltaOnly(p)' /\ Fresh(p)' /\ Coverage(p)'
  BY <1>0 DEF DeltaOnly, Fresh, Coverage, Listing
<1>4. BasisSound(p)'
  <2>1. CASE marker'[p] = marker[p]
    BY <1>0, <2>1 DEF PeerInv, BasisSound, MarkerUsable, Reflects, Present, SameReceiver
  <2>2. CASE phase[p] \in {"active", "closing"} /\ marker'[p] = Recorded(p)
    <3> SUFFICES ASSUME MarkerUsable(p, sess[p])'
                 PROVE  Reflects(p, marker[p].seq)'
      BY DEF BasisSound
    <3>1. snapGen[p] = gen /\ connSess[p] = sess[p] /\ marker'[p].seq = snapSeq[p]
      BY <2>2 DEF MarkerUsable, Recorded, SameReceiver
    <3>2. Reflects(p, snapSeq[p])
      BY <1>0, <2>2, <3>1, ReceivedReflects DEF PeerInv, Shape, Listing
    <3> QED
      BY <3>1, <3>2 DEF Reflects, Present, SameReceiver
  <2> QED
    BY <2>1, <2>2
<1>5. Flagged(p)'
  BY <1>0 DEF PeerInv, Flagged, Reflects, Present, SameReceiver
<1> QED
  BY <1>1, <1>2, <1>3, <1>4, <1>5 DEF PeerInv

----------------------------------------------------------------------------
(* Steps of the receiver.                                                  *)

\* The frame that was first on the wire, and what is left behind it.
LEMMA PoppedWire ==
    ASSUME TypeOK, NEW p \in Peers, wire[p] # <<>>, wire'[p] = Tail(wire[p])
    PROVE  /\ Len(wire[p]) \in Nat /\ Len(wire[p]) >= 1
           /\ Head(wire[p]) = wire[p][1] /\ Head(wire[p]) \in Frames
           /\ Len(wire'[p]) = Len(wire[p]) - 1
           /\ \A i \in 1..Len(wire'[p]) : i + 1 \in 1..Len(wire[p])
                                          /\ wire'[p][i] = wire[p][i + 1]
<1>1. wire[p] \in Seq(Frames)
  BY DEF TypeOK
<1>2. Len(wire[p]) \in Nat /\ Len(wire[p]) >= 1
  BY <1>1
<1> QED
  BY <1>1, <1>2

LEMMA RecvIndexFrameStep ==
    ASSUME IInv, NEW p \in Peers, RecvIndexFrame(p)
    PROVE  PeerInv(p)'
<1> DEFINE frame == Head(wire[p])
           L == Len(wire[p])
<1>0. /\ TypeOK /\ PeerInv(p)
      /\ gen' = gen /\ rows' = rows /\ nextSeq' = nextSeq /\ marker' = marker
      /\ sess'[p] = sess[p] /\ phase'[p] = phase[p]
      /\ connSess'[p] = connSess[p] /\ snapGen'[p] = snapGen[p]
      /\ snapSeq'[p] = snapSeq[p] /\ update'[p] = update[p]
      /\ outbox'[p] = outbox[p] /\ wire'[p] = Tail(wire[p])
      /\ wire[p] # <<>> /\ frame.kind = "index"
  BY DEF RecvIndexFrame, senderVars, IInv, TypeOK
<1>1. /\ view'[p] = ViewAfter(p, frame)
      /\ viewPending'[p] = PendingAfter(p, frame)
      /\ rx'[p] = (IF frame.final THEN "done" ELSE "streaming")
      /\ base'[p] = (IF frame.final
                     THEN [ok |-> TRUE, gen |-> snapGen[p], seq |-> snapSeq[p]]
                     ELSE base[p])
  BY DEF RecvIndexFrame, IInv, TypeOK
<1>2. /\ L \in Nat /\ L >= 1 /\ frame = wire[p][1] /\ frame \in Frames
      /\ Len(wire'[p]) = L - 1
      /\ \A i \in 1..Len(wire'[p]) : i + 1 \in 1..L /\ wire'[p][i] = wire[p][i + 1]
  BY <1>0, PoppedWire
<1> HIDE DEF frame
<1>3. /\ rx[p] # "done" /\ frame.update = update[p] /\ connSess[p] = sess[p]
      /\ frame.final => L = 1 /\ outbox[p] = NoFiles
      /\ phase[p] \notin {"idle", "snapped", "active", "closing"}
      /\ phase[p] = "sending" => ~frame.final
  <2>1. 1 \in 1..L
    BY <1>2
  <2> QED
    BY <1>0, <1>2, <2>1 DEF PeerInv, Shape
<1>4. Ordered(p)'
  <2>1. CASE frame.final
    BY <1>0, <1>1, <1>3, <2>1 DEF PeerInv, Ordered, TypeOK
  <2>2. CASE ~frame.final
    BY <1>0, <1>1, <2>2 DEF PeerInv, Ordered
  <2> QED
    BY <2>1, <2>2
<1>5. Shape(p)'
  <2>1. CASE frame.final
    <3>1. Len(wire'[p]) = 0 /\ rx'[p] = "done" /\ outbox'[p] = NoFiles
      BY <1>0, <1>1, <1>2, <1>3, <2>1
    <3> QED
      BY <1>0, <1>3, <2>1, <3>1 DEF PeerInv, Shape, NoFiles
  <2>2. CASE ~frame.final
    <3>1. rx'[p] = "streaming"
      BY <1>1, <2>2
    <3>2. ASSUME NEW i \in 1..Len(wire'[p])
          PROVE  /\ wire'[p][i].kind = "index" /\ wire'[p][i].update = update[p]
                 /\ wire'[p][i].final => i = Len(wire'[p]) /\ outbox[p] = NoFiles
      <4>1. i + 1 \in 1..L /\ wire'[p][i] = wire[p][i + 1]
        BY <1>2
      <4>2. wire[p][i + 1].final => i + 1 = L
        BY <1>0, <4>1 DEF PeerInv, Shape
      <4>3. /\ wire[p][i + 1].kind = "index" /\ wire[p][i + 1].update = update[p]
            /\ wire[p][i + 1].final => outbox[p] = NoFiles
        BY <1>0, <1>3, <4>1 DEF PeerInv, Shape
      <4> QED
        BY <1>2, <4>1, <4>2, <4>3
    <3>3. phase[p] = "sending" => \A i \in 1..Len(wire'[p]) : ~wire'[p][i].final
      BY <1>0, <1>2 DEF PeerInv, Shape
    <3> QED
      BY <1>0, <1>3, <3>1, <3>2, <3>3 DEF Shape, NoFiles
  <2> QED
    BY <2>1, <2>2
<1>6. DeltaOnly(p)'
  BY <1>0, <1>2 DEF PeerInv, DeltaOnly, MarkerUsable
<1>7. ASSUME snapGen[p] = gen, NEW n \in Names, Settled(p, n)
      PROVE  /\ outbox[p][n] \in {0, rows[n].stamp}
             /\ frame.files[n] \in {0, rows[n].stamp}
             /\ \A i \in 1..L : wire[p][i].files[n] \in {0, rows[n].stamp}
  <2>1. 1 \in 1..L
    BY <1>2
  <2> QED
    BY <1>0, <1>2, <1>3, <1>7, <2>1 DEF PeerInv, Fresh
<1>8. Fresh(p)'
  <2> SUFFICES ASSUME snapGen[p] = gen, NEW n \in Names, Settled(p, n)
               PROVE  /\ outbox'[p][n] \in {0, rows[n].stamp}
                      /\ \A i \in 1..Len(wire'[p]) :
                           wire'[p][i].files[n] \in {0, rows[n].stamp}
    BY <1>0 DEF Fresh, Settled, Present
  <2> QED
    BY <1>0, <1>2, <1>7
<1>9. Coverage(p)'
  <2> SUFFICES ASSUME Listing(p)', snapGen[p] = gen, NEW n \in Names, Settled(p, n)
               PROVE  Covered(p, n)'
    BY <1>0 DEF Coverage, Settled, Present
  <2>1. Listing(p)
    <3>1. CASE phase[p] = "broken" /\ frame.final
      <4>1. 1 \in 1..L /\ wire[p][1].final
        BY <1>2, <3>1
      <4> QED
        BY <3>1, <4>1 DEF Listing
    <3>2. CASE phase[p] = "broken" /\ ~frame.final
      <4>1. PICK i \in 1..Len(wire'[p]) : wire'[p][i].final
        BY <1>0, <1>1, <3>2 DEF Listing
      <4>2. i + 1 \in 1..L /\ wire[p][i + 1].final
        BY <1>2, <4>1
      <4> QED
        BY <3>2, <4>2 DEF Listing
    <3>3. CASE phase[p] # "broken"
      BY <1>0, <3>3 DEF Listing
    <3> QED
      BY <3>1, <3>2, <3>3
  <2>2. Covered(p, n)
    BY <1>0, <1>3, <2>1 DEF PeerInv, Coverage
  <2>3. ~SweepAhead(p)'
    BY <1>1 DEF SweepAhead
  <2>4. rows[n].stamp # 0 /\ frame.files[n] \in {0, rows[n].stamp}
    BY <1>7 DEF Settled, Present
  <2>5. CASE outbox[p][n] # 0
    BY <1>0, <2>5 DEF Covered
  <2>6. CASE frame.files[n] # 0
    <3>1. view'[p][n] = frame.files[n]
      BY <1>1, <2>6 DEF ViewAfter, Merged
    <3> QED
      BY <1>0, <2>3, <2>4, <2>6, <3>1 DEF Covered
  <2>7. CASE frame.files[n] = 0 /\ outbox[p][n] = 0
    <3>1. CASE view[p][n] = rows[n].stamp /\ ~SweepAhead(p)
      <4>1. view'[p][n] = view[p][n]
        BY <1>1, <1>3, <2>7, <3>1, <1>0 DEF ViewAfter, Merged, SweepAhead, TypeOK
      <4> QED
        BY <1>0, <2>3, <3>1, <4>1 DEF Covered
    <3>2. CASE \E i \in 1..L : wire[p][i].kind = "index" /\ wire[p][i].files[n] # 0
      <4>1. PICK i \in 1..L : wire[p][i].kind = "index" /\ wire[p][i].files[n] # 0
        BY <3>2
      <4>2. i # 1
        BY <1>2, <2>7, <4>1
      <4>3. i - 1 \in 1..Len(wire'[p]) /\ wire'[p][i - 1] = wire[p][i]
        BY <1>2, <4>1, <4>2
      <4> QED
        BY <4>1, <4>3 DEF Covered
    <3> QED
      BY <2>2, <2>7, <3>1, <3>2 DEF Covered
  <2> QED
    BY <2>5, <2>6, <2>7
<1>10. BasisSound(p)'
  <2> SUFFICES ASSUME MarkerUsable(p, sess[p]), NEW n \in Names, Present(n),
                      rows[n].seq <= marker[p].seq
               PROVE  view'[p][n] = rows[n].stamp
    BY <1>0 DEF BasisSound, MarkerUsable, Reflects, Present
  <2>1. view[p][n] = rows[n].stamp
    BY <1>0 DEF PeerInv, BasisSound, Reflects
  <2>2. frame.update
    <3>1. 1 \in 1..L
      BY <1>2
    <3> QED
      BY <1>0, <1>2, <3>1 DEF PeerInv, DeltaOnly
  <2>3. snapGen[p] = gen /\ Settled(p, n)
    <3>1. /\ marker[p] \in Markers /\ rows[n] \in Rows /\ snapSeq[p] \in Nat
          /\ snapGen[p] \in Nat /\ gen \in Nat
      BY <1>0 DEF TypeOK
    <3>2. snapGen[p] = gen /\ marker[p].seq <= snapSeq[p]
      BY <1>0, <1>3, <3>1 DEF PeerInv, Ordered, MarkerUsable, Markers
    <3> QED
      BY <3>1, <3>2 DEF Settled, Markers, Rows
  <2> QED
    BY <1>1, <1>7, <2>1, <2>2, <2>3 DEF ViewAfter, Merged
<1>11. Flagged(p)'
  <2>1. CASE frame.final
    <3>1. /\ rx'[p] = "done" /\ base'[p].seq = snapSeq[p] /\ base'[p].gen = snapGen[p]
      BY <1>1, <2>1
    <3>2. snapGen[p] = gen => Listing(p)'
      BY <1>0, <1>3, <3>1 DEF Listing, TypeOK, Phases
    <3>3. snapGen[p] = gen => \A n \in Names : Settled(p, n)' => Covered(p, n)'
      BY <1>0, <1>3, <1>9, <3>2 DEF Coverage
    <3>4. outbox'[p] = NoFiles /\ Len(wire'[p]) = 0
      BY <1>0, <1>2, <1>3, <2>1
    <3> QED
      BY <1>0, <3>1, <3>3, <3>4 DEF Flagged, Reflects, Settled, Covered, NoFiles
  <2>2. CASE ~frame.final
    <3> SUFFICES ASSUME base[p].ok, base[p].gen = gen, ~viewPending'[p],
                        NEW n \in Names, Present(n), rows[n].seq <= base[p].seq
                 PROVE  view'[p][n] = rows[n].stamp
      BY <1>0, <1>1, <2>2 DEF Flagged, Reflects, Present
    <3>1. ~viewPending[p] /\ (rx[p] = "streaming" \/ frame.update)
      BY <1>0, <1>1, <1>3, <2>2 DEF PendingAfter, TypeOK
    <3>2. view[p][n] = rows[n].stamp
      BY <1>0, <3>1 DEF PeerInv, Flagged, Reflects
    <3>3. snapGen[p] = gen /\ Settled(p, n)
      <4>1. /\ base[p] \in Bases /\ rows[n] \in Rows /\ snapSeq[p] \in Nat
            /\ snapGen[p] \in Nat /\ gen \in Nat
        BY <1>0 DEF TypeOK
      <4>2. snapGen[p] = gen /\ base[p].seq <= snapSeq[p]
        BY <1>0, <1>3, <4>1 DEF PeerInv, Ordered, Bases
      <4> QED
        BY <4>1, <4>2 DEF Settled, Bases, Rows
    <3> QED
      BY <1>1, <1>7, <3>1, <3>2, <3>3 DEF ViewAfter, Merged
  <2> QED
    BY <2>1, <2>2
<1> QED
  BY <1>4, <1>5, <1>6, <1>8, <1>9, <1>10, <1>11 DEF PeerInv

LEMMA RecvIndexUpdateStep ==
    ASSUME IInv, NEW p \in Peers, RecvIndexUpdate(p)
    PROVE  PeerInv(p)'
<1> DEFINE frame == Head(wire[p])
           L == Len(wire[p])
<1>0. /\ TypeOK /\ PeerInv(p)
      /\ gen' = gen /\ rows' = rows /\ nextSeq' = nextSeq /\ marker' = marker
      /\ sess'[p] = sess[p] /\ phase'[p] = phase[p]
      /\ viewPending'[p] = viewPending[p] /\ base'[p] = base[p] /\ rx'[p] = rx[p]
      /\ connSess'[p] = connSess[p] /\ snapGen'[p] = snapGen[p]
      /\ snapSeq'[p] = snapSeq[p] /\ update'[p] = update[p]
      /\ outbox'[p] = outbox[p] /\ wire'[p] = Tail(wire[p])
      /\ wire[p] # <<>> /\ frame.kind = "update"
      /\ view'[p] = Merged(p, frame.files)
  BY DEF RecvIndexUpdate, senderVars, IInv, TypeOK
<1>1. /\ L \in Nat /\ L >= 1 /\ frame = wire[p][1] /\ frame \in Frames
      /\ Len(wire'[p]) = L - 1
      /\ \A i \in 1..Len(wire'[p]) : i + 1 \in 1..L /\ wire'[p][i] = wire[p][i + 1]
  BY <1>0, PoppedWire
<1> HIDE DEF frame
<1>2. /\ rx[p] = "done" /\ connSess[p] = sess[p] /\ outbox[p] = NoFiles
      /\ \A i \in 1..L : wire[p][i].kind = "update" /\ ~wire[p][i].final
      /\ phase[p] \notin {"idle", "snapped", "sending"}
  <2>1. 1 \in 1..L
    BY <1>1
  <2> QED
    BY <1>0, <1>1, <2>1 DEF PeerInv, Shape
<1>3. \A i \in 1..Len(wire'[p]) : wire'[p][i].kind = "update" /\ ~wire'[p][i].final
  BY <1>1, <1>2
<1>4. Ordered(p)'
  BY <1>0 DEF PeerInv, Ordered
<1>5. Shape(p)'
  BY <1>0, <1>2, <1>3 DEF Shape, NoFiles
<1>6. DeltaOnly(p)'
  BY <1>0, <1>2, <1>3 DEF DeltaOnly
<1>7. ASSUME snapGen[p] = gen, NEW n \in Names, Settled(p, n)
      PROVE  /\ outbox[p][n] \in {0, rows[n].stamp}
             /\ frame.files[n] \in {0, rows[n].stamp}
             /\ \A i \in 1..L : wire[p][i].files[n] \in {0, rows[n].stamp}
  <2>1. 1 \in 1..L
    BY <1>1
  <2> QED
    BY <1>0, <1>1, <1>2, <1>7, <2>1 DEF PeerInv, Fresh
<1>8. Fresh(p)'
  <2> SUFFICES ASSUME snapGen[p] = gen, NEW n \in Names, Settled(p, n)
               PROVE  /\ outbox'[p][n] \in {0, rows[n].stamp}
                      /\ \A i \in 1..Len(wire'[p]) :
                           wire'[p][i].files[n] \in {0, rows[n].stamp}
    BY <1>0 DEF Fresh, Settled, Present
  <2> QED
    BY <1>0, <1>1, <1>7
<1>9. ASSUME snapGen[p] = gen, NEW n \in Names, Settled(p, n),
             view[p][n] = rows[n].stamp
      PROVE  view'[p][n] = rows[n].stamp
  BY <1>0, <1>7, <1>9 DEF Merged
<1>10. Coverage(p)'
  <2> SUFFICES ASSUME snapGen[p] = gen, NEW n \in Names, Settled(p, n)
               PROVE  Covered(p, n)'
    BY <1>0 DEF Coverage, Settled, Present
  <2>1. Listing(p)
    BY <1>0, <1>2 DEF Listing, TypeOK, Phases
  <2>2. view[p][n] = rows[n].stamp
    BY <1>0, <1>2, <2>1, ReceivedReflects DEF Reflects, Settled
  <2> QED
    BY <1>0, <1>2, <1>9, <2>2 DEF Covered, SweepAhead
<1>11. BasisSound(p)'
  <2> SUFFICES ASSUME MarkerUsable(p, sess[p]), NEW n \in Names, Present(n),
                      rows[n].seq <= marker[p].seq
               PROVE  view'[p][n] = rows[n].stamp
    BY <1>0 DEF BasisSound, MarkerUsable, Reflects, Present
  <2>1. view[p][n] = rows[n].stamp
    BY <1>0 DEF PeerInv, BasisSound, Reflects
  <2>2. /\ marker[p] \in Markers /\ rows[n] \in Rows /\ snapSeq[p] \in Nat
        /\ snapGen[p] \in Nat /\ gen \in Nat
    BY <1>0 DEF TypeOK
  <2>3. snapGen[p] = gen /\ marker[p].seq <= snapSeq[p]
    BY <1>0, <1>2, <2>2 DEF PeerInv, Ordered, MarkerUsable, Markers
  <2>4. Settled(p, n)
    BY <2>2, <2>3 DEF Settled, Markers, Rows
  <2> QED
    BY <1>9, <2>1, <2>3, <2>4
<1>12. Flagged(p)'
  <2> SUFFICES ASSUME base[p].ok, base[p].gen = gen, ~viewPending[p],
                      NEW n \in Names, Present(n), rows[n].seq <= base[p].seq
               PROVE  view'[p][n] = rows[n].stamp
    BY <1>0 DEF Flagged, Reflects, Present
  <2>1. view[p][n] = rows[n].stamp
    BY <1>0 DEF PeerInv, Flagged, Reflects
  <2>2. /\ base[p] \in Bases /\ rows[n] \in Rows /\ snapSeq[p] \in Nat
        /\ snapGen[p] \in Nat /\ gen \in Nat
    BY <1>0 DEF TypeOK
  <2>3. snapGen[p] = gen /\ base[p].seq <= snapSeq[p]
    BY <1>0, <1>2, <2>2 DEF PeerInv, Ordered, Bases
  <2>4. Settled(p, n)
    BY <2>2, <2>3 DEF Settled, Bases, Rows
  <2> QED
    BY <1>9, <2>1, <2>3, <2>4
<1> QED
  BY <1>4, <1>5, <1>6, <1>8, <1>10, <1>11, <1>12 DEF PeerInv

\* A new process id makes every marker unusable.
LEMMA RestartStep ==
    ASSUME IInv, NEW p \in Peers, Restart(p)
    PROVE  PeerInv(p)'
<1>0. /\ TypeOK /\ PeerInv(p)
      /\ gen' = gen /\ rows' = rows /\ nextSeq' = nextSeq /\ marker' = marker
      /\ sess'[p] = sess[p] + 1 /\ base'[p] = NoBase
      /\ wire'[p] = <<>>
      /\ marker[p] \in Markers /\ sess[p] \in Nat /\ connSess[p] \in Nat
      /\ gen \in Nat /\ nextSeq \in Nat /\ snapGen[p] \in Nat /\ snapSeq[p] \in Nat
  BY DEF Restart, senderVars, EndSession, IInv, TypeOK
<1>1. ~MarkerUsable(p, sess[p])' /\ ~base'[p].ok
  BY <1>0 DEF PeerInv, Ordered, MarkerUsable, Markers, NoBase
<1>2. CASE phase[p] = "closing"
  <2>1. /\ phase'[p] = phase[p] /\ connSess'[p] = connSess[p]
        /\ snapGen'[p] = snapGen[p] /\ snapSeq'[p] = snapSeq[p]
        /\ update'[p] = update[p] /\ outbox'[p] = outbox[p] /\ rx'[p] = rx[p]
    BY <1>2 DEF Restart
  <2>2. Ordered(p)'
    BY <1>0, <2>1 DEF PeerInv, Ordered, Markers, NoBase
  <2>3. Shape(p)'
    BY <1>0, <1>2, <2>1 DEF PeerInv, Shape, NoFiles
  <2>4. Fresh(p)'
    BY <1>0, <1>2, <2>1 DEF PeerInv, Fresh, Settled, Present
  <2>5. Coverage(p)'
    BY <1>0, <2>1 DEF PeerInv, Ordered, Coverage
  <2> QED
    BY <1>1, <2>2, <2>3, <2>4, <2>5 DEF PeerInv, DeltaOnly, BasisSound, Flagged
<1>3. CASE phase[p] # "closing"
  <2>1. phase'[p] = "idle" /\ connSess'[p] = 0 /\ outbox'[p] = NoFiles /\ rx'[p] = "wait"
    BY <1>0, <1>3 DEF Restart, EndSession, TypeOK
  <2>2. Ordered(p)'
    BY <1>0, <2>1 DEF PeerInv, Ordered, Markers, NoBase
  <2>3. Shape(p)' /\ Fresh(p)' /\ Coverage(p)'
    BY <1>0, <2>1 DEF Shape, Fresh, Coverage, Listing, NoFiles
  <2> QED
    BY <1>1, <2>2, <2>3 DEF PeerInv, DeltaOnly, BasisSound, Flagged
<1> QED
  BY <1>2, <1>3

LEMMA DropStep ==
    ASSUME IInv, NEW p \in Peers, Drop(p)
    PROVE  PeerInv(p)'
<1>0. /\ TypeOK /\ PeerInv(p)
      /\ gen' = gen /\ rows' = rows /\ nextSeq' = nextSeq /\ marker' = marker
      /\ SameReceiver(p) /\ phase[p] # "idle"
      /\ connSess'[p] = connSess[p] /\ snapGen'[p] = snapGen[p]
      /\ snapSeq'[p] = snapSeq[p] /\ rx'[p] = rx[p] /\ update'[p] = update[p]
      /\ outbox'[p] = outbox[p]
  BY DEF Drop, senderVars, receiverVars, SameReceiver, IInv
<1>1. CASE phase[p] # "closing"
  <2>1. phase'[p] = "broken" /\ wire'[p] = wire[p]
    BY <1>0, <1>1 DEF Drop, TypeOK
  <2> QED
    BY <1>0, <2>1, BreakStep
<1>2. CASE phase[p] = "closing"
  <2>1. phase'[p] = phase[p] /\ wire'[p] = <<>>
    BY <1>0, <1>2 DEF Drop, TypeOK
  <2>2. Ordered(p)'
    BY <1>0, <2>1 DEF PeerInv, Ordered, SameReceiver
  <2>3. Shape(p)'
    BY <1>0, <1>2, <2>1 DEF PeerInv, Shape, SameReceiver, NoFiles
  <2>4. DeltaOnly(p)'
    BY <1>2, <2>1 DEF DeltaOnly
  <2>5. Fresh(p)'
    BY <1>0, <1>2, <2>1 DEF PeerInv, Fresh, Settled, Present
  <2>6. Coverage(p)'
    <3> SUFFICES ASSUME snapGen[p] = gen, connSess[p] = sess[p],
                        NEW n \in Names, Settled(p, n)
                 PROVE  Covered(p, n)'
      BY <1>0 DEF Coverage, Settled, Present, SameReceiver
    <3>1. rx[p] = "done" /\ Listing(p)
      BY <1>0, <1>2 DEF PeerInv, Shape, Listing
    <3>2. view[p][n] = rows[n].stamp
      BY <1>0, <3>1, ReceivedReflects DEF Reflects, Settled
    <3> QED
      BY <1>0, <3>1, <3>2 DEF Covered, SweepAhead, SameReceiver
  <2>7. BasisSound(p)' /\ Flagged(p)'
    BY <1>0 DEF PeerInv, BasisSound, Flagged, MarkerUsable, Reflects, Present, SameReceiver
  <2> QED
    BY <2>2, <2>3, <2>4, <2>5, <2>6, <2>7 DEF PeerInv
<1> QED
  BY <1>1, <1>2

----------------------------------------------------------------------------
(* Every step preserves the types.                                         *)

\* Frames that are cut out of a listing are frames.
LEMMA OnlyType ==
    ASSUME NEW files \in Files, NEW S PROVE Only(files, S) \in Files
BY DEF Only, Files

LEMMA IndexTypes ==
    ASSUME TypeOK, SeqInv,
           \/ \E n \in Names, del \in BOOLEAN : LocalWrite(n, del)
           \/ \E p \in Peers, n \in Names, del \in BOOLEAN : PullEntry(p, n, del)
           \/ PutFails \/ PruneTombstones \/ \E n \in Names : ReleaseRow(n)
           \/ RebuildIndex \/ Reopen
    PROVE  TypeOK'
<1> USE DEF connVars, receiverVars
<1>1. ASSUME NEW n \in Names, NEW del \in BOOLEAN, Put(n, del)
      PROVE  /\ gen' \in Nat /\ rows' \in [Names -> Rows] /\ nextSeq' \in Nat
             /\ clock' \in Nat /\ burnt' \in Nat
  BY <1>1 DEF Put, TypeOK, Rows
<1>2. CASE \E n \in Names, del \in BOOLEAN : LocalWrite(n, del)
  BY <1>1, <1>2 DEF LocalWrite, TypeOK
<1>3. ASSUME NEW p \in Peers, NEW n \in Names, NEW del \in BOOLEAN, PullEntry(p, n, del)
      PROVE  TypeOK'
  BY <1>1, <1>3 DEF PullEntry, TypeOK
<1>4. CASE PutFails
  BY <1>4 DEF PutFails, TypeOK
<1>5. NoRow \in Rows /\ NoMarker \in Markers
  BY DEF NoRow, Rows, NoMarker, Markers
<1>6. CASE PruneTombstones \/ \E n \in Names : ReleaseRow(n)
  <2>1. rows' \in [Names -> Rows]
    BY <1>5, <1>6 DEF PruneTombstones, ReleaseRow, TypeOK
  <2> QED
    BY <1>6, <2>1 DEF PruneTombstones, ReleaseRow, TypeOK
<1>7. CASE RebuildIndex
  <2>1. phase' \in [Peers -> Phases] /\ rows' \in [Names -> Rows]
        /\ marker' \in [Peers -> Markers] /\ gen' \in Nat /\ nextSeq' \in Nat
    BY <1>5, <1>7 DEF RebuildIndex, TypeOK, Phases
  <2> QED
    BY <1>7, <2>1 DEF RebuildIndex, TypeOK
<1>8. CASE Reopen
  <2>1. nextSeq' = nextSeq
    BY <1>8, CounterFromRows DEF Reopen, TypeOK
  <2>2. phase' \in [Peers -> Phases] /\ nextSeq' \in Nat /\ drops' \in Nat
    BY <1>8, <2>1 DEF Reopen, TypeOK, Phases
  <2> QED
    BY <1>8, <2>2 DEF Reopen, TypeOK
<1> QED
  BY <1>2, <1>3, <1>4, <1>6, <1>7, <1>8

\* The end of a session leaves well-typed variables behind.
LEMMA EndTypes ==
    ASSUME TypeOK, NEW p \in Peers, EndSession(p)
    PROVE  /\ phase' \in [Peers -> Phases]
           /\ role' \in [Peers -> {"initiator", "responder"}]
           /\ connSess' \in [Peers -> Nat] /\ snapGen' \in [Peers -> Nat]
           /\ snapSeq' \in [Peers -> Nat] /\ update' \in [Peers -> BOOLEAN]
           /\ outbox' \in [Peers -> Files] /\ wire' \in [Peers -> Seq(Frames)]
           /\ owed' \in [Peers -> SUBSET Names]
           /\ rx' \in [Peers -> {"wait", "streaming", "done"}]
<1>1. "idle" \in Phases /\ NoFiles \in Files
  BY DEF Phases, NoFiles, Files
<1>2. /\ phase' \in [Peers -> Phases]
      /\ role' \in [Peers -> {"initiator", "responder"}]
      /\ connSess' \in [Peers -> Nat] /\ snapGen' \in [Peers -> Nat]
      /\ snapSeq' \in [Peers -> Nat]
      /\ outbox' \in [Peers -> Files]
  BY <1>1 DEF EndSession, TypeOK
<1>3. wire' \in [Peers -> Seq(Frames)] /\ rx' \in [Peers -> {"wait", "streaming", "done"}]
  BY DEF EndSession, TypeOK
<1>4. update' \in [Peers -> BOOLEAN] /\ owed' \in [Peers -> SUBSET Names]
  BY DEF EndSession, TypeOK
<1> QED
  BY <1>2, <1>3, <1>4

LEMMA SendTypes ==
    ASSUME TypeOK, SeqInv, NEW p \in Peers,
           \/ \E r \in {"initiator", "responder"} : OpenSession(p, r)
           \/ ListEntries(p) \/ SendFrame(p) \/ ExchangeDone(p) \/ SendClose(p)
           \/ \E n \in Names : SendIndexUpdate(p, n)
    PROVE  TypeOK'
<1> USE DEF senderVars, receiverVars
<1>1. ASSUME NEW r \in {"initiator", "responder"}, OpenSession(p, r) PROVE TypeOK'
  <2>1. nextSeq - 1 \in Nat
    BY DEF TypeOK, SeqInv
  <2>2. /\ phase' \in [Peers -> Phases] /\ role' \in [Peers -> {"initiator", "responder"}]
        /\ connSess' \in [Peers -> Nat] /\ snapGen' \in [Peers -> Nat]
        /\ snapSeq' \in [Peers -> Nat]
    BY <1>1, <2>1 DEF OpenSession, MaxSeq, TypeOK, Phases
  <2> QED
    BY <1>1, <2>2 DEF OpenSession, TypeOK
<1>2. CASE ListEntries(p)
  <2>1. \A delta : Listed(p, delta) \in Files
    BY DEF Listed, TypeOK, Rows, Files
  <2>2. MarkerUsable(p, connSess[p]) \in BOOLEAN
    BY DEF MarkerUsable, TypeOK, Markers
  <2>3. update' \in [Peers -> BOOLEAN]
    BY <1>2, <2>2 DEF ListEntries, TypeOK
  <2>4. outbox' \in [Peers -> Files] /\ phase' \in [Peers -> Phases]
    BY <1>2, <2>1 DEF ListEntries, TypeOK, Phases
  <2> QED
    BY <1>2, <2>3, <2>4 DEF ListEntries, TypeOK
<1>3. CASE SendFrame(p)
  <2>1. PICK chunk \in SUBSET Carried(outbox[p]) :
          LET final == chunk = Carried(outbox[p])
              frame == [kind |-> "index", update |-> update[p], final |-> final,
                        files |-> Only(outbox[p], chunk)]
          IN  /\ wire' = [wire EXCEPT ![p] = Append(@, frame)]
              /\ outbox' = [outbox EXCEPT ![p] = Only(@, Names \ chunk)]
              /\ phase' = [phase EXCEPT ![p] = IF final THEN "sent" ELSE "sending"]
    BY <1>3 DEF SendFrame
  <2> DEFINE final == chunk = Carried(outbox[p])
             frame == [kind |-> "index", update |-> update[p], final |-> final,
                       files |-> Only(outbox[p], chunk)]
  <2>2. outbox[p] \in Files /\ update[p] \in BOOLEAN /\ final \in BOOLEAN
    BY DEF TypeOK
  <2>3. Only(outbox[p], chunk) \in Files /\ Only(outbox[p], Names \ chunk) \in Files
    BY <2>2, OnlyType
  <2>4. frame \in Frames
    BY <2>2, <2>3 DEF Frames
  <2>5. wire' = [wire EXCEPT ![p] = Append(@, frame)]
    BY <2>1
  <2> HIDE DEF frame
  <2>6. wire' \in [Peers -> Seq(Frames)]
    BY <2>4, <2>5 DEF TypeOK
  <2>7. outbox' \in [Peers -> Files] /\ phase' \in [Peers -> Phases]
    BY <2>1, <2>3 DEF TypeOK, Phases
  <2> QED
    BY <1>3, <2>6, <2>7 DEF SendFrame, TypeOK
<1>4. CASE ExchangeDone(p) \/ SendClose(p)
  <2>1. PICK next \in {"active", "closing"} : phase' = [phase EXCEPT ![p] = next]
    BY <1>4 DEF ExchangeDone, SendClose
  <2>2. phase \in [Peers -> Phases] /\ next \in Phases
    BY DEF TypeOK, Phases
  <2>3. phase' \in [Peers -> Phases]
    BY <2>1, <2>2
  <2> QED
    BY <1>4, <2>3 DEF ExchangeDone, SendClose, TypeOK
<1>5. ASSUME NEW n \in Names, SendIndexUpdate(p, n) PROVE TypeOK'
  <2> DEFINE files == Only([m \in Names |-> rows[m].stamp], {n})
             frame == [kind |-> "update", update |-> TRUE, final |-> FALSE, files |-> files]
  <2>1. [m \in Names |-> rows[m].stamp] \in Files
    BY DEF TypeOK, Rows, Files
  <2>2. files \in Files
    BY <2>1, OnlyType
  <2>3. frame \in Frames
    BY <2>2 DEF Frames
  <2>4. wire' = [wire EXCEPT ![p] = Append(@, frame)]
    BY <1>5 DEF SendIndexUpdate
  <2> HIDE DEF frame
  <2>5. wire' \in [Peers -> Seq(Frames)]
    BY <2>3, <2>4 DEF TypeOK
  <2>6. owed' \in [Peers -> SUBSET Names]
    BY <1>5 DEF SendIndexUpdate, TypeOK
  <2> QED
    BY <1>5, <2>5, <2>6 DEF SendIndexUpdate, TypeOK
<1> QED
  BY <1>1, <1>2, <1>3, <1>4, <1>5

LEMMA ReceiveTypes ==
    ASSUME TypeOK, NEW p \in Peers,
           \/ RecvIndexFrame(p) \/ RecvIndexUpdate(p)
           \/ Restart(p) \/ Drop(p) \/ Hangup(p)
           \/ FinishInitiator(p) \/ FinishResponder(p)
    PROVE  TypeOK'
<1> USE DEF senderVars, receiverVars
<1>1. ASSUME wire[p] # <<>>
      PROVE  Head(wire[p]) \in Frames /\ Tail(wire[p]) \in Seq(Frames)
  BY <1>1 DEF TypeOK
<1>2. ASSUME NEW files \in Files PROVE Merged(p, files) \in Files
  BY DEF Merged, TypeOK, Files
<1>3. CASE RecvIndexFrame(p)
  <2> DEFINE frame == Head(wire[p])
  <2>1. frame \in Frames /\ Tail(wire[p]) \in Seq(Frames)
    BY <1>1, <1>3 DEF RecvIndexFrame
  <2>2. /\ view' = [view EXCEPT ![p] = ViewAfter(p, frame)]
        /\ viewPending' = [viewPending EXCEPT ![p] = PendingAfter(p, frame)]
        /\ rx' = [rx EXCEPT ![p] = IF frame.final THEN "done" ELSE "streaming"]
        /\ base' = IF frame.final
                   THEN [base EXCEPT ![p] = [ok |-> TRUE, gen |-> snapGen[p],
                                             seq |-> snapSeq[p]]]
                   ELSE base
        /\ wire' = [wire EXCEPT ![p] = Tail(@)]
    BY <1>3 DEF RecvIndexFrame
  <2> HIDE DEF frame
  <2>3. frame.files \in Files /\ frame.final \in BOOLEAN /\ frame.update \in BOOLEAN
    BY <2>1 DEF Frames
  <2>4. ViewAfter(p, frame) \in Files
    BY <1>2, <2>3 DEF ViewAfter
  <2>5. PendingAfter(p, frame) \in BOOLEAN
    BY <2>3 DEF PendingAfter, TypeOK
  <2>6. view' \in [Peers -> Files] /\ wire' \in [Peers -> Seq(Frames)]
    BY <2>1, <2>2, <2>4 DEF TypeOK
  <2>7. viewPending' \in [Peers -> BOOLEAN]
    BY <2>2, <2>5 DEF TypeOK
  <2>8. rx' \in [Peers -> {"wait", "streaming", "done"}] /\ base' \in [Peers -> Bases]
    BY <2>2 DEF TypeOK, Bases
  <2> QED
    BY <1>3, <2>6, <2>7, <2>8 DEF RecvIndexFrame, TypeOK
<1>4. CASE RecvIndexUpdate(p)
  <2>1. Head(wire[p]) \in Frames /\ Tail(wire[p]) \in Seq(Frames)
    BY <1>1, <1>4 DEF RecvIndexUpdate
  <2>2. Head(wire[p]).files \in Files
    BY <2>1 DEF Frames
  <2>3. Merged(p, Head(wire[p]).files) \in Files
    BY <1>2, <2>2
  <2>4. view' \in [Peers -> Files] /\ wire' \in [Peers -> Seq(Frames)]
    BY <1>4, <2>1, <2>3 DEF RecvIndexUpdate, TypeOK
  <2> QED
    BY <1>4, <2>4 DEF RecvIndexUpdate, TypeOK
<1>5. CASE Restart(p)
  <2>1. NoFiles \in Files /\ NoBase \in Bases
    BY DEF NoFiles, Files, NoBase, Bases
  <2>2. /\ sess' \in [Peers -> Nat] /\ view' \in [Peers -> Files]
        /\ base' \in [Peers -> Bases]
    BY <1>5, <2>1 DEF Restart, TypeOK
  <2>3. viewPending' \in [Peers -> BOOLEAN]
    BY <1>5 DEF Restart, TypeOK
  <2>4. CASE phase[p] = "closing"
    <3>0. wire' = [wire EXCEPT ![p] = <<>>]
      BY <1>5, <2>4 DEF Restart
    <3>1. wire' \in [Peers -> Seq(Frames)]
      BY <3>0 DEF TypeOK
    <3>2. UNCHANGED <<phase, role, connSess, snapGen, snapSeq, update, outbox, owed, rx>>
      BY <1>5, <2>4 DEF Restart
    <3>3. UNCHANGED <<gen, rows, nextSeq, clock, burnt, marker, drops>>
      BY <1>5 DEF Restart
    <3> QED
      BY <2>2, <2>3, <3>1, <3>2, <3>3 DEF TypeOK
  <2>5. CASE phase[p] # "closing"
    <3>1. EndSession(p)
      BY <1>5, <2>5 DEF Restart
    <3> QED
      BY <1>5, <2>2, <2>3, <3>1, EndTypes DEF Restart, TypeOK
  <2> QED
    BY <2>4, <2>5
<1>6. CASE Drop(p)
  <2>0. /\ UNCHANGED <<gen, rows, nextSeq, clock, burnt, marker, sess, view,
                       viewPending, base>>
        /\ UNCHANGED <<role, connSess, snapGen, snapSeq, update, outbox, owed, rx>>
        /\ drops' \in Nat
    BY <1>6 DEF Drop, TypeOK
  <2>1. CASE phase[p] = "closing"
    <3>1. wire' = [wire EXCEPT ![p] = <<>>] /\ phase' = phase
      BY <1>6, <2>1 DEF Drop
    <3>2. wire' \in [Peers -> Seq(Frames)]
      BY <3>1 DEF TypeOK
    <3> QED
      BY <2>0, <3>1, <3>2 DEF TypeOK
  <2>2. CASE phase[p] # "closing"
    <3>1. phase' = [phase EXCEPT ![p] = "broken"] /\ wire' = wire
      BY <1>6, <2>2 DEF Drop
    <3>2. phase' \in [Peers -> Phases]
      BY <3>1 DEF TypeOK, Phases
    <3> QED
      BY <2>0, <3>1, <3>2 DEF TypeOK
  <2> QED
    BY <2>1, <2>2
<1>7. CASE Hangup(p)
  BY <1>7, EndTypes DEF Hangup, TypeOK
<1>8. CASE FinishInitiator(p) \/ FinishResponder(p)
  <2>1. Recorded(p) \in Markers
    BY DEF Recorded, Markers, TypeOK
  <2>2. /\ marker' = [marker EXCEPT ![p] = Recorded(p)] /\ EndSession(p)
        /\ UNCHANGED <<senderVars, receiverVars, drops>>
    BY <1>8 DEF FinishInitiator, FinishResponder
  <2>3. marker \in [Peers -> Markers]
    BY DEF TypeOK
  <2>4. marker' \in [Peers -> Markers]
    BY <2>1, <2>2, <2>3
  <2> QED
    BY <2>2, <2>4, EndTypes DEF TypeOK
<1> QED
  BY <1>3, <1>4, <1>5, <1>6, <1>7, <1>8

----------------------------------------------------------------------------
(* Every step preserves the invariant.                                     *)

LEMMA NextTypes ==
    ASSUME TypeOK, SeqInv, SafeOperations, Next PROVE TypeOK'
<1>1. ~(\E p \in Peers : ForgetPeer(p) \/ ReloadFolder(p))
  BY DEF SafeOperations, ForgetPeer, ReloadFolder
<1> QED
  BY <1>1, IndexTypes, SendTypes, ReceiveTypes DEF Next, SessionStep

\* A step of one peer's session leaves every other peer alone.
LEMMA OthersUntouched ==
    ASSUME IInv, NEW p \in Peers, NEW q \in Peers, q # p,
           SessionStep(p) \/ Restart(p) \/ Drop(p)
    PROVE  PeerInv(q)' /\ SeqInv'
<1>1. gen' = gen /\ rows' = rows /\ nextSeq' = nextSeq
  BY DEF SessionStep, OpenSession, ListEntries, SendFrame, ExchangeDone,
         SendIndexUpdate, FinishInitiator, SendClose, FinishResponder,
         RecvIndexFrame, RecvIndexUpdate, Hangup, Restart, Drop, senderVars
<1>2. marker'[q] = marker[q] /\ SameReceiver(q)
  <2>1. TypeOK
    BY DEF IInv
  <2>2. CASE RecvIndexFrame(p)
    BY <2>1, <2>2 DEF RecvIndexFrame, SameReceiver, TypeOK
  <2>3. CASE RecvIndexUpdate(p)
    BY <2>1, <2>3 DEF RecvIndexUpdate, SameReceiver, TypeOK
  <2>4. CASE Restart(p)
    BY <2>1, <2>4 DEF Restart, SameReceiver, TypeOK
  <2>5. CASE ~(RecvIndexFrame(p) \/ RecvIndexUpdate(p) \/ Restart(p))
    <3>1. UNCHANGED <<sess, view, viewPending, base>>
      BY <2>5 DEF SessionStep, OpenSession, ListEntries, SendFrame, ExchangeDone,
             SendIndexUpdate, FinishInitiator, SendClose, FinishResponder,
             Hangup, Drop, receiverVars
    <3>2. marker'[q] = marker[q]
      BY <2>1, <2>5 DEF SessionStep, OpenSession, ListEntries, SendFrame,
             ExchangeDone, SendIndexUpdate, FinishInitiator, SendClose,
             FinishResponder, Hangup, Drop, TypeOK
    <3> QED
      BY <3>1, <3>2 DEF SameReceiver
  <2> QED
    BY <2>2, <2>3, <2>4, <2>5
<1>3. SameConn(q)
  <2>1. TypeOK
    BY DEF IInv
  <2>2. ASSUME EndSession(p) PROVE SameConn(q)
    BY <2>1, <2>2 DEF EndSession, SameConn, TypeOK
  <2>3. CASE FinishInitiator(p) \/ FinishResponder(p) \/ Hangup(p)
    BY <2>2, <2>3 DEF FinishInitiator, FinishResponder, Hangup
  <2>4. CASE Restart(p)
    <3>1. CASE phase[p] = "closing"
      BY <2>1, <2>4, <3>1 DEF Restart, SameConn, TypeOK
    <3>2. CASE phase[p] # "closing"
      BY <2>2, <2>4, <3>2 DEF Restart
    <3> QED
      BY <3>1, <3>2
  <2>5. CASE Drop(p)
    <3>1. CASE phase[p] = "closing"
      BY <2>1, <2>5, <3>1 DEF Drop, SameConn, TypeOK
    <3>2. CASE phase[p] # "closing"
      BY <2>1, <2>5, <3>2 DEF Drop, SameConn, TypeOK
    <3> QED
      BY <3>1, <3>2
  <2>6. ASSUME NEW r \in {"initiator", "responder"}, OpenSession(p, r)
        PROVE  SameConn(q)
    BY <2>1, <2>6 DEF OpenSession, SameConn, TypeOK
  <2>7. CASE ListEntries(p)
    BY <2>1, <2>7 DEF ListEntries, SameConn, TypeOK
  <2>8. CASE SendFrame(p)
    BY <2>1, <2>8 DEF SendFrame, SameConn, TypeOK
  <2>9. CASE ExchangeDone(p)
    BY <2>1, <2>9 DEF ExchangeDone, SameConn, TypeOK
  <2>10. CASE SendClose(p)
    BY <2>1, <2>10 DEF SendClose, SameConn, TypeOK
  <2>11. ASSUME NEW n \in Names, SendIndexUpdate(p, n) PROVE SameConn(q)
    BY <2>1, <2>11 DEF SendIndexUpdate, SameConn, TypeOK
  <2>12. CASE RecvIndexFrame(p)
    BY <2>1, <2>12 DEF RecvIndexFrame, SameConn, TypeOK
  <2>13. CASE RecvIndexUpdate(p)
    BY <2>1, <2>13 DEF RecvIndexUpdate, SameConn, TypeOK
  <2> QED
    BY <2>3, <2>4, <2>5, <2>6, <2>7, <2>8, <2>9, <2>10, <2>11, <2>12, <2>13
       DEF SessionStep
<1>4. PeerInv(q)'
  BY <1>1, <1>2, <1>3, Untouched DEF IInv
<1>5. SeqInv'
  BY <1>1 DEF IInv, SeqInv, Present
<1> QED
  BY <1>4, <1>5

\* The peer whose session it is.
LEMMA SessionInv ==
    ASSUME IInv, NEW p \in Peers, SessionStep(p) \/ Restart(p) \/ Drop(p)
    PROVE  PeerInv(p)' /\ SeqInv'
<1>1. ASSUME FinishInitiator(p) \/ FinishResponder(p) \/ Hangup(p)
      PROVE  PeerInv(p)'
  <2>1. /\ EndSession(p) /\ SameReceiver(p) /\ phase[p] # "idle"
        /\ gen' = gen /\ rows' = rows /\ nextSeq' = nextSeq
    BY <1>1 DEF FinishInitiator, FinishResponder, Hangup, senderVars,
                receiverVars, SameReceiver
  <2>2. \/ marker'[p] = marker[p]
        \/ phase[p] \in {"active", "closing"} /\ marker'[p] = Recorded(p)
    BY <1>1 DEF FinishInitiator, FinishResponder, Hangup, IInv, TypeOK
  <2> QED
    BY <2>1, <2>2, EndStep
<1>2. PeerInv(p)'
  BY <1>1, OpenSessionStep, ListEntriesStep, SendFrameStep, PhaseStep,
     SendIndexUpdateStep, RecvIndexFrameStep, RecvIndexUpdateStep, RestartStep,
     DropStep DEF SessionStep
<1>3. gen' = gen /\ rows' = rows /\ nextSeq' = nextSeq
  BY DEF SessionStep, OpenSession, ListEntries, SendFrame, ExchangeDone,
         SendIndexUpdate, FinishInitiator, SendClose, FinishResponder,
         RecvIndexFrame, RecvIndexUpdate, Hangup, Restart, Drop, senderVars
<1>4. SeqInv'
  BY <1>3 DEF IInv, SeqInv, Present
<1> QED
  BY <1>2, <1>4

LEMMA NextInv ==
    ASSUME IInv, SafeOperations, [Next]_vars PROVE IInv'
<1>1. CASE Next
  <2>1. TypeOK'
    BY <1>1, NextTypes DEF IInv
  <2>2. SeqInv' /\ \A q \in Peers : PeerInv(q)'
    <3>1. ASSUME NEW n \in Names, NEW del \in BOOLEAN, LocalWrite(n, del)
          PROVE  SeqInv' /\ \A q \in Peers : PeerInv(q)'
      <4>1. /\ Put(n, del) /\ UNCHANGED <<marker, receiverVars>>
            /\ \A q \in Peers : SameConn(q)
        BY <3>1 DEF LocalWrite, connVars, SameConn
      <4> QED
        BY <4>1, PutStep
    <3>2. ASSUME NEW p \in Peers, NEW n \in Names, NEW del \in BOOLEAN,
                 PullEntry(p, n, del)
          PROVE  SeqInv' /\ \A q \in Peers : PeerInv(q)'
      <4>1. /\ Put(n, del) /\ UNCHANGED <<marker, receiverVars>>
            /\ \A q \in Peers : SameConn(q)
        BY <3>2 DEF PullEntry, SameConn
      <4> QED
        BY <4>1, PutStep
    <3>3. ASSUME NEW p \in Peers, SessionStep(p) \/ Restart(p) \/ Drop(p)
          PROVE  SeqInv' /\ \A q \in Peers : PeerInv(q)'
      BY <3>3, SessionInv, OthersUntouched
    <3>4. ~(\E p \in Peers : ForgetPeer(p) \/ ReloadFolder(p))
      BY DEF SafeOperations, ForgetPeer, ReloadFolder
    <3> QED
      BY <1>1, <3>1, <3>2, <3>3, <3>4, PutFailsStep, RemoveRowsStep, RebuildStep,
         ReopenStep DEF Next
  <2> QED
    BY <2>1, <2>2 DEF IInv
<1>2. CASE UNCHANGED vars
  <2> USE <1>2 DEF vars, senderVars, receiverVars, connVars
  <2>1. TypeOK' /\ SeqInv'
    BY DEF IInv, TypeOK, SeqInv, Present
  <2>2. ASSUME NEW q \in Peers PROVE PeerInv(q)'
    <3>1. /\ SameConn(q) /\ SameReceiver(q) /\ marker'[q] = marker[q]
          /\ gen' = gen /\ rows' = rows /\ nextSeq' = nextSeq
      BY DEF SameConn, SameReceiver
    <3> QED
      BY <3>1, Untouched DEF IInv
  <2> QED
    BY <2>1, <2>2 DEF IInv
<1> QED
  BY <1>1, <1>2

----------------------------------------------------------------------------
(* The theorems.                                                           *)

\* Every reachable state satisfies the inductive invariant, provided that no
\* operation is enabled that the violation runs show to break it.
THEOREM Invariance ==
    ASSUME SafeOperations PROVE Spec => []IInv
<1>1. IInv /\ [Next]_vars => IInv'
  BY NextInv
<1> QED
  BY <1>1, InitInv, PTL DEF Spec

\* The variables of the exchange keep their types: sequences and generations
\* never become negative, the wire only ever holds index frames.
THEOREM TypeCorrect ==
    ASSUME SafeOperations PROVE Spec => []TypeOK
<1>1. IInv => TypeOK
  BY DEF IInv
<1> QED
  BY <1>1, Invariance, PTL

\* A marker that sendIndexes accepts is a sound basis of a delta, for any
\* number of names, peers, writes, sessions, lost connections and restarts:
\* what ListAfter leaves out is in the view of the peer's process already.
THEOREM DeltaBasisIsSound ==
    ASSUME SafeOperations PROVE Spec => []DeltaBasisSound
<1>1. IInv => DeltaBasisSound
  BY DEF IInv, PeerInv, BasisSound, DeltaBasisSound
<1> QED
  BY <1>1, Invariance, PTL

\* A view that recvFullIndexes left unmarked holds all of the last snapshot
\* that was received in full, wherever later streams were cut.
THEOREM TruncatedViewIsFlagged ==
    ASSUME SafeOperations PROVE Spec => []TruncatedViewFlagged
<1>1. IInv => TruncatedViewFlagged
  BY DEF IInv, PeerInv, Flagged, TruncatedViewFlagged
<1> QED
  BY <1>1, Invariance, PTL

\* recordPeerIndex never moves a marker back within one generation of the
\* index and one process of the peer, and only a rebuild drops a marker.
THEOREM MarkerOnlyAdvances ==
    ASSUME SafeOperations PROVE Spec => MarkerAdvances
<1> DEFINE Advance(p) ==
      /\ marker[p].ok /\ gen' = gen => marker'[p].ok
      /\ marker[p].ok /\ marker'[p].ok
         /\ marker[p].gen = marker'[p].gen /\ marker[p].sess = marker'[p].sess
           => marker[p].seq <= marker'[p].seq
<1>1. ASSUME IInv, NEW p \in Peers, marker'[p] = marker[p] PROVE Advance(p)
  BY <1>1 DEF IInv, TypeOK, Markers
<1>2. ASSUME IInv, NEW p \in Peers, FinishInitiator(p) \/ FinishResponder(p)
      PROVE  \A q \in Peers : Advance(q)
  <2>1. /\ marker' = [marker EXCEPT ![p] = Recorded(p)] /\ phase[p] # "idle"
        /\ Ordered(p) /\ marker \in [Peers -> Markers]
    BY <1>2 DEF FinishInitiator, FinishResponder, IInv, PeerInv, TypeOK
  <2>2. Advance(p)
    BY <2>1 DEF Recorded, Ordered, Markers
  <2>3. ASSUME NEW q \in Peers, q # p PROVE Advance(q)
    <3>1. marker'[q] = marker[q]
      BY <2>1, <2>3
    <3> QED
      BY <1>1, <1>2, <3>1
  <2> QED
    BY <2>2, <2>3
<1>3. ASSUME IInv, RebuildIndex, NEW p \in Peers PROVE Advance(p)
  BY <1>3 DEF RebuildIndex, NoMarker, IInv, TypeOK
<1>4. ASSUME IInv, Next, ~RebuildIndex,
             ~(\E p \in Peers : FinishInitiator(p) \/ FinishResponder(p))
      PROVE  marker' = marker
  <2>1. ASSUME NEW n \in Names, NEW del \in BOOLEAN,
               LocalWrite(n, del) \/ \E p \in Peers : PullEntry(p, n, del)
        PROVE  marker' = marker
    BY <2>1 DEF LocalWrite, PullEntry
  <2>2. ASSUME PutFails \/ PruneTombstones \/ Reopen \/ \E n \in Names : ReleaseRow(n)
        PROVE  marker' = marker
    BY <2>2 DEF PutFails, PruneTombstones, Reopen, ReleaseRow
  <2>3. ASSUME NEW p \in Peers,
               \/ \E r \in {"initiator", "responder"} : OpenSession(p, r)
               \/ ListEntries(p) \/ SendFrame(p) \/ ExchangeDone(p) \/ SendClose(p)
               \/ \E n \in Names : SendIndexUpdate(p, n)
        PROVE  marker' = marker
    BY <2>3 DEF OpenSession, ListEntries, SendFrame, ExchangeDone, SendClose,
                SendIndexUpdate
  <2>4. ASSUME NEW p \in Peers,
               RecvIndexFrame(p) \/ RecvIndexUpdate(p) \/ Hangup(p)
        PROVE  marker' = marker
    BY <2>4 DEF RecvIndexFrame, RecvIndexUpdate, Hangup
  <2>5. ASSUME NEW p \in Peers,
               Restart(p) \/ ForgetPeer(p) \/ ReloadFolder(p) \/ Drop(p)
        PROVE  marker' = marker
    BY <2>5 DEF Restart, ForgetPeer, ReloadFolder, Drop
  <2> QED
    BY <1>4, <2>1, <2>2, <2>3, <2>4, <2>5 DEF Next, SessionStep
<1>5. IInv /\ [Next]_vars => [\A p \in Peers : Advance(p)]_vars
  <2> SUFFICES ASSUME IInv, Next PROVE \A p \in Peers : Advance(p)
    OBVIOUS
  <2> QED
    BY <1>1, <1>2, <1>3, <1>4
<1> QED
  BY <1>5, Invariance, PTL DEF Spec, MarkerAdvances

============================================================================
