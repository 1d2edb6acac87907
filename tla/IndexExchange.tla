--------------------------- MODULE IndexExchange ---------------------------
(***************************************************************************)
(* The index exchange of one folder, from the device that owns the index   *)
(* (the sender) to each of its peers (the receivers):                      *)
(*   - internal/index: the sender's file table, its sequence counter, its  *)
(*     generation (IndexID) and the per-peer delta markers, all persisted; *)
(*   - internal/node/session.go: sendIndexes, recvFullIndexes, mergeIndex, *)
(*     sendIndexUpdate and recordPeerIndex, in the order SyncOnce (the     *)
(*     sender dialled) and Serve (the sender was dialled) call them;       *)
(*   - internal/sync: the receiver's in-memory view of the sender's index. *)
(*                                                                         *)
(* An index entry is abstracted to a stamp that identifies one write of    *)
(* one name: 0 stands for "no entry", and two entries with the same stamp  *)
(* have the same version vector and the same content.  The two directions  *)
(* of a session do not share state, so one of them is modelled; what the   *)
(* other direction contributes is the order of the steps.                  *)
(***************************************************************************)
EXTENDS Naturals, Sequences, FiniteSets

CONSTANTS
    Names,       \* paths of the folder
    Peers,       \* devices the folder is shared with
    Operations,  \* the maintenance and operator actions that happen
    ChunkSize,   \* indexChunkSize: entries per index frame
    MaxWrites,   \* bound: writes of the sender's index
    MaxGen,      \* bound: index generations
    MaxSess,     \* bound: process sessions of a receiver
    MaxDrops,    \* bound: connections lost
    MaxInFlight, \* bound: index updates on the wire
    MaxBurnt     \* bound: sequences lost to failed writes

AllOperations ==
    {"prune", "reopen", "rebuild", "release", "putfail", "forget", "reload"}

ASSUME OperationsAssumption == Operations \subseteq AllOperations

ASSUME BoundsAssumption ==
    /\ ChunkSize \in Nat \ {0}
    /\ MaxWrites \in Nat
    /\ MaxGen \in Nat
    /\ MaxSess \in Nat
    /\ MaxDrops \in Nat
    /\ MaxInFlight \in Nat
    /\ MaxBurnt \in Nat

ASSUME PeersAssumption == Peers # {}

VARIABLES
    \* the sender's index database
    gen,          \* IndexID
    rows,         \* name -> [stamp, deleted, seq]; stamp 0: no row
    nextSeq,      \* the next sequence number to allocate
    marker,       \* peer -> [ok, gen, seq, sess]: what the peer was told
    \* each receiver's process
    sess,         \* its session id, fresh in every process
    view,         \* its view of the sender's index: name -> stamp
    viewPending,  \* the view is a partial snapshot
    \* the session with each peer
    phase,        \* how far the sender is
    role,         \* whether the sender dialled or was dialled
    connSess,     \* conn.PeerSession, from the peer's Hello
    snapGen,      \* indexSnapshot.indexID
    snapSeq,      \* indexSnapshot.maxSeq
    update,       \* the frames of this session are a delta
    outbox,       \* listed entries that are not sent yet
    wire,         \* frames in flight, first in first out
    owed,         \* names the sender pulled and has not announced yet
    rx,           \* recvFullIndexes: "wait", "streaming" or "done"
    \* history and bounds
    base,         \* peer -> [ok, gen, seq]: last snapshot fully received
    clock,        \* stamp of the latest write
    drops,        \* connections lost so far
    burnt         \* sequences lost so far

senderVars == <<gen, rows, nextSeq, clock, burnt>>
receiverVars == <<sess, view, viewPending, base>>
connVars == <<phase, role, connSess, snapGen, snapSeq, update, outbox, wire, owed, rx>>
vars == <<senderVars, marker, receiverVars, connVars, drops>>

NoRow == [stamp |-> 0, deleted |-> FALSE, seq |-> 0]
NoMarker == [ok |-> FALSE, gen |-> 0, seq |-> 0, sess |-> 0]
NoBase == [ok |-> FALSE, gen |-> 0, seq |-> 0]
NoFiles == [n \in Names |-> 0]

Phases == {"idle", "snapped", "sending", "sent", "active", "closing", "broken"}

Rows == [stamp : Nat, deleted : BOOLEAN, seq : Nat]
Markers == [ok : BOOLEAN, gen : Nat, seq : Nat, sess : Nat]
Bases == [ok : BOOLEAN, gen : Nat, seq : Nat]
Files == [Names -> Nat]
Frames == [kind : {"index", "update"}, update : BOOLEAN, final : BOOLEAN,
           files : Files]

TypeOK ==
    /\ gen \in Nat
    /\ rows \in [Names -> Rows]
    /\ nextSeq \in Nat
    /\ marker \in [Peers -> Markers]
    /\ sess \in [Peers -> Nat]
    /\ view \in [Peers -> Files]
    /\ viewPending \in [Peers -> BOOLEAN]
    /\ phase \in [Peers -> Phases]
    /\ role \in [Peers -> {"initiator", "responder"}]
    /\ connSess \in [Peers -> Nat]
    /\ snapGen \in [Peers -> Nat]
    /\ snapSeq \in [Peers -> Nat]
    /\ update \in [Peers -> BOOLEAN]
    /\ outbox \in [Peers -> Files]
    /\ wire \in [Peers -> Seq(Frames)]
    /\ owed \in [Peers -> SUBSET Names]
    /\ rx \in [Peers -> {"wait", "streaming", "done"}]
    /\ base \in [Peers -> Bases]
    /\ clock \in Nat
    /\ drops \in Nat
    /\ burnt \in Nat

Init ==
    /\ gen = 1
    /\ rows = [n \in Names |-> NoRow]
    /\ nextSeq = 1
    /\ marker = [p \in Peers |-> NoMarker]
    /\ sess = [p \in Peers |-> 1]
    /\ view = [p \in Peers |-> NoFiles]
    /\ viewPending = [p \in Peers |-> FALSE]
    /\ phase = [p \in Peers |-> "idle"]
    /\ role = [p \in Peers |-> "initiator"]
    /\ connSess = [p \in Peers |-> 0]
    /\ snapGen = [p \in Peers |-> 0]
    /\ snapSeq = [p \in Peers |-> 0]
    /\ update = [p \in Peers |-> FALSE]
    /\ outbox = [p \in Peers |-> NoFiles]
    /\ wire = [p \in Peers |-> <<>>]
    /\ owed = [p \in Peers |-> {}]
    /\ rx = [p \in Peers |-> "wait"]
    /\ base = [p \in Peers |-> NoBase]
    /\ clock = 0
    /\ drops = 0
    /\ burnt = 0

----------------------------------------------------------------------------
(* The sender's index.                                                     *)

Present(n) == rows[n].stamp # 0

\* Index.Put of a new or changed entry, or of a tombstone.  Every caller that
\* changes version or content passes Sequence 0, so Put allocates the next
\* sequence (a row is only ever tombstoned while it is live).  A verified scan
\* that only adopts a stat keeps the sequence, and the stamp.
Put(n, del) ==
    /\ clock < MaxWrites
    /\ del => Present(n) /\ ~rows[n].deleted
    /\ clock' = clock + 1
    /\ rows' = [rows EXCEPT ![n] =
                   [stamp |-> clock + 1, deleted |-> del, seq |-> nextSeq]]
    /\ nextSeq' = nextSeq + 1
    /\ UNCHANGED <<gen, burnt>>

\* A scan, or a session with some other device, writes an entry.
LocalWrite(n, del) ==
    /\ Put(n, del)
    /\ UNCHANGED <<marker, receiverVars, connVars, drops>>

\* A Put whose statement fails: the sequence is allocated, no row is written.
PutFails ==
    /\ "putfail" \in Operations
    /\ burnt < MaxBurnt
    /\ burnt' = burnt + 1
    /\ nextSeq' = nextSeq + 1
    /\ UNCHANGED <<gen, rows, clock, marker, receiverVars, connVars, drops>>

\* tombstoneFloor: the lowest marker among the configured peers, 0 as soon as
\* one of them has no marker.
BelowFloor(seq) == \A p \in Peers : marker[p].ok /\ seq <= marker[p].seq

PruneTombstones ==
    /\ "prune" \in Operations
    /\ \E n \in Names : Present(n) /\ rows[n].deleted /\ BelowFloor(rows[n].seq)
    /\ rows' = [n \in Names |->
                  IF rows[n].deleted /\ BelowFloor(rows[n].seq) THEN NoRow
                  ELSE rows[n]]
    /\ UNCHANGED <<gen, nextSeq, clock, burnt, marker, receiverVars, connVars, drops>>

\* Index.Delete of a row that was released (renamed out of the include gate).
ReleaseRow(n) ==
    /\ "release" \in Operations
    /\ Present(n)
    /\ rows' = [rows EXCEPT ![n] = NoRow]
    /\ UNCHANGED <<gen, nextSeq, clock, burnt, marker, receiverVars, connVars, drops>>

\* RebuildFolder, or a corrupt index found at Open: the database is set aside
\* and a fresh one, with a new IndexID and without markers, takes its place.
\* The scan that fills it again is a sequence of Puts.  A session that was
\* about to list the closed database fails.
RebuildIndex ==
    /\ "rebuild" \in Operations
    /\ gen < MaxGen
    /\ gen' = gen + 1
    /\ rows' = [n \in Names |-> NoRow]
    /\ nextSeq' = 1
    /\ marker' = [p \in Peers |-> NoMarker]
    /\ phase' = [p \in Peers |-> IF phase[p] = "snapped" THEN "broken" ELSE phase[p]]
    /\ UNCHANGED <<clock, burnt, receiverVars, role, connSess, snapGen, snapSeq,
                   update, outbox, wire, owed, rx, drops>>

\* The sender's process restarts and opens its database again: the next
\* sequence is derived from the rows that are left.
SeqsInUse == {0} \cup {rows[n].seq : n \in {m \in Names : Present(m)}}
MaxStoredSeq == CHOOSE m \in SeqsInUse : \A k \in SeqsInUse : k <= m

Reopen ==
    /\ "reopen" \in Operations
    /\ drops < MaxDrops
    /\ drops' = drops + 1
    /\ nextSeq' = MaxStoredSeq + 1
    /\ phase' = [p \in Peers |-> IF phase[p] = "idle" THEN "idle" ELSE "broken"]
    /\ UNCHANGED <<gen, rows, clock, burnt, marker, receiverVars, role, connSess,
                   snapGen, snapSeq, update, outbox, wire, owed, rx>>

----------------------------------------------------------------------------
(* The sender's side of a session.                                         *)

\* sessionValid and the generation check: the persisted marker may serve as
\* the basis of a delta for the process the peer says it is.
MarkerUsable(p, live) ==
    /\ marker[p].ok
    /\ marker[p].gen = gen
    /\ marker[p].sess = live

\* Index.MaxSeq: the highest sequence allocated so far (mutants: one less; the
\* highest that a row still has).
MaxSeqOffByOne == nextSeq - 2
MaxSeqOfRows == MaxStoredSeq
MaxSeq == nextSeq - 1

\* The handshake, then the first half of sendIndexes: IndexID and MaxSeq are
\* read before the entries are listed.
OpenSession(p, r) ==
    /\ phase[p] = "idle"
    /\ phase' = [phase EXCEPT ![p] = "snapped"]
    /\ role' = [role EXCEPT ![p] = r]
    /\ connSess' = [connSess EXCEPT ![p] = sess[p]]
    /\ snapGen' = [snapGen EXCEPT ![p] = gen]
    /\ snapSeq' = [snapSeq EXCEPT ![p] = MaxSeq]
    /\ UNCHANGED <<senderVars, marker, receiverVars, update, outbox, wire, owed, rx, drops>>

\* ListAfter(marker) for a delta, ListAll otherwise.
Listed(p, delta) ==
    [n \in Names |-> IF delta /\ rows[n].seq <= marker[p].seq THEN 0
                     ELSE rows[n].stamp]

ListEntries(p) ==
    /\ phase[p] = "snapped"
    /\ LET delta == MarkerUsable(p, connSess[p]) IN
         /\ update' = [update EXCEPT ![p] = delta]
         /\ outbox' = [outbox EXCEPT ![p] = Listed(p, delta)]
    /\ phase' = [phase EXCEPT ![p] = "sending"]
    /\ UNCHANGED <<senderVars, marker, receiverVars, role, connSess, snapGen,
                   snapSeq, wire, owed, rx, drops>>

Carried(files) == {n \in Names : files[n] # 0}
Only(files, S) == [n \in Names |-> IF n \in S THEN files[n] ELSE 0]

\* One frame of at most ChunkSize entries; the last one is marked final, and
\* an empty listing still sends one (empty, final) frame.
SendFrame(p) ==
    /\ phase[p] = "sending"
    /\ \E chunk \in SUBSET Carried(outbox[p]) :
         LET final == chunk = Carried(outbox[p]) IN
         /\ Cardinality(chunk) <= ChunkSize
         /\ ~final => Cardinality(chunk) = ChunkSize
         /\ wire' = [wire EXCEPT ![p] = Append(@,
                       [kind |-> "index", update |-> update[p], final |-> final,
                        files |-> Only(outbox[p], chunk)])]
         /\ outbox' = [outbox EXCEPT ![p] = Only(@, Names \ chunk)]
         /\ phase' = [phase EXCEPT ![p] = IF final THEN "sent" ELSE "sending"]
    /\ UNCHANGED <<senderVars, marker, receiverVars, role, connSess, snapGen,
                   snapSeq, update, owed, rx, drops>>

\* The peer answers only when it has read the final frame: with its own index
\* (the sender dialled) or with PhaseDone (the sender was dialled).
ExchangeDone(p) ==
    /\ phase[p] = "sent"
    /\ rx[p] = "done"
    /\ phase' = [phase EXCEPT ![p] = "active"]
    /\ UNCHANGED <<senderVars, marker, receiverVars, role, connSess, snapGen,
                   snapSeq, update, outbox, wire, owed, rx, drops>>

\* The sender's own pull phase: a pull, a move or a deletion taken over from
\* the peer writes an entry.
PullEntry(p, n, del) ==
    /\ phase[p] = "active"
    /\ Put(n, del)
    /\ owed' = [owed EXCEPT ![p] = @ \cup {n}]
    /\ UNCHANGED <<marker, receiverVars, phase, role, connSess, snapGen, snapSeq,
                   update, outbox, wire, rx, drops>>

\* sendIndexUpdate: the entry the pulled name has by now goes to the peer; a
\* row that has disappeared is passed over.
SendIndexUpdate(p, n) ==
    /\ phase[p] = "active"
    /\ n \in owed[p]
    /\ Len(wire[p]) < MaxInFlight
    /\ owed' = [owed EXCEPT ![p] = @ \ {n}]
    /\ wire' = [wire EXCEPT ![p] = Append(@,
                  [kind |-> "update", update |-> TRUE, final |-> FALSE,
                   files |-> Only([m \in Names |-> rows[m].stamp], {n})])]
    /\ UNCHANGED <<senderVars, marker, receiverVars, phase, role, connSess,
                   snapGen, snapSeq, update, outbox, rx, drops>>

\* recordPeerIndex: the marker of the snapshot, under the peer's session id
\* (mutant: the sequence is read again when the session is over).
RecordedLate(p) == [ok |-> TRUE, gen |-> snapGen[p], seq |-> MaxSeq,
                    sess |-> connSess[p]]

Recorded(p) == [ok |-> TRUE, gen |-> snapGen[p], seq |-> snapSeq[p],
                sess |-> connSess[p]]

\* The end of a session: what SyncOnce, Serve and recvFullIndexes keep in
\* local variables is gone.
EndSession(p) ==
    /\ phase' = [phase EXCEPT ![p] = "idle"]
    /\ role' = [role EXCEPT ![p] = "initiator"]
    /\ connSess' = [connSess EXCEPT ![p] = 0]
    /\ snapGen' = [snapGen EXCEPT ![p] = 0]
    /\ snapSeq' = [snapSeq EXCEPT ![p] = 0]
    /\ update' = [update EXCEPT ![p] = FALSE]
    /\ wire' = [wire EXCEPT ![p] = <<>>]
    /\ outbox' = [outbox EXCEPT ![p] = NoFiles]
    /\ owed' = [owed EXCEPT ![p] = {}]
    /\ rx' = [rx EXCEPT ![p] = "wait"]

\* SyncOnce: the peer's Close follows everything that was sent to it.
FinishInitiator(p) ==
    /\ phase[p] = "active"
    /\ role[p] = "initiator"
    /\ wire[p] = <<>> /\ owed[p] = {}
    /\ marker' = [marker EXCEPT ![p] = Recorded(p)]
    /\ EndSession(p)
    /\ UNCHANGED <<senderVars, receiverVars, drops>>

\* Serve: Close is sent, then the answer is awaited; a failed Recv counts as
\* the answer.
SendClose(p) ==
    /\ phase[p] = "active"
    /\ role[p] = "responder"
    /\ owed[p] = {}
    /\ phase' = [phase EXCEPT ![p] = "closing"]
    /\ UNCHANGED <<senderVars, marker, receiverVars, role, connSess, snapGen,
                   snapSeq, update, outbox, wire, owed, rx, drops>>

FinishResponder(p) ==
    /\ phase[p] = "closing"
    /\ wire[p] = <<>>
    /\ marker' = [marker EXCEPT ![p] = Recorded(p)]
    /\ EndSession(p)
    /\ UNCHANGED <<senderVars, receiverVars, drops>>

----------------------------------------------------------------------------
(* The receiver's side of a session.                                       *)

Merged(p, files) ==
    [n \in Names |-> IF files[n] # 0 THEN files[n] ELSE view[p][n]]

\* SetPeerIndex: a full frame replaces the view, a delta merges into it;
\* SetPeerIndexAppend merges the later frames of a stream.
ViewAfter(p, frame) ==
    IF rx[p] = "streaming" \/ frame.update THEN Merged(p, frame.files)
    ELSE frame.files

\* BeginPeerViewExchange on the first frame of a full send,
\* EndPeerViewExchange on the final frame of any send (mutants: the view is
\* never marked; the mark is never taken away).
PendingAfterUnmarked(p, frame) == FALSE
PendingAfterSticky(p, frame) == viewPending[p] \/ (rx[p] = "wait" /\ ~frame.update)

PendingAfter(p, frame) ==
    IF frame.final THEN FALSE
    ELSE IF rx[p] = "wait" /\ ~frame.update THEN TRUE
    ELSE viewPending[p]

RecvIndexFrame(p) ==
    /\ wire[p] # <<>>
    /\ Head(wire[p]).kind = "index"
    /\ LET frame == Head(wire[p]) IN
         /\ view' = [view EXCEPT ![p] = ViewAfter(p, frame)]
         /\ viewPending' = [viewPending EXCEPT ![p] = PendingAfter(p, frame)]
         /\ rx' = [rx EXCEPT ![p] = IF frame.final THEN "done" ELSE "streaming"]
         /\ base' = IF frame.final
                    THEN [base EXCEPT ![p] = [ok |-> TRUE, gen |-> snapGen[p],
                                              seq |-> snapSeq[p]]]
                    ELSE base
    /\ wire' = [wire EXCEPT ![p] = Tail(@)]
    /\ UNCHANGED <<senderVars, marker, sess, phase, role, connSess, snapGen,
                   snapSeq, update, outbox, owed, drops>>

\* serveUntil and the pull loop merge an index update as it arrives.
RecvIndexUpdate(p) ==
    /\ wire[p] # <<>>
    /\ Head(wire[p]).kind = "update"
    /\ view' = [view EXCEPT ![p] = Merged(p, Head(wire[p]).files)]
    /\ wire' = [wire EXCEPT ![p] = Tail(@)]
    /\ UNCHANGED <<senderVars, marker, sess, viewPending, base, phase, role,
                   connSess, snapGen, snapSeq, update, outbox, owed, rx, drops>>

\* The receiver's process restarts: its views lived in memory.  The session
\* ends; a sender that only awaits the last Close takes the error for it.
Restart(p) ==
    /\ sess[p] < MaxSess
    /\ sess' = [sess EXCEPT ![p] = @ + 1]
    /\ view' = [view EXCEPT ![p] = NoFiles]
    /\ viewPending' = [viewPending EXCEPT ![p] = FALSE]
    /\ base' = [base EXCEPT ![p] = NoBase]
    /\ IF phase[p] = "closing"
       THEN /\ wire' = [wire EXCEPT ![p] = <<>>]
            /\ UNCHANGED <<phase, role, connSess, snapGen, snapSeq, update, outbox, owed, rx>>
       ELSE EndSession(p)
    /\ UNCHANGED <<senderVars, marker, drops>>

\* CleanupPeerState on the receiver: the operator removed the sender from the
\* receiver's peers and added it again while both processes kept running.
\* The receiver's view goes; the sender's marker for the receiver stays.
ForgetPeer(p) ==
    /\ "forget" \in Operations
    /\ view' = [view EXCEPT ![p] = NoFiles]
    /\ base' = [base EXCEPT ![p] = NoBase]
    /\ UNCHANGED <<senderVars, marker, sess, viewPending, connVars, drops>>

\* RebuildFolder on the receiver: AddFolder creates a fresh engine.
ReloadFolder(p) ==
    /\ "reload" \in Operations
    /\ view' = [view EXCEPT ![p] = NoFiles]
    /\ viewPending' = [viewPending EXCEPT ![p] = FALSE]
    /\ base' = [base EXCEPT ![p] = NoBase]
    /\ UNCHANGED <<senderVars, marker, sess, connVars, drops>>

----------------------------------------------------------------------------
(* The connection.                                                         *)

\* The connection fails: the sender gives up at once, the receiver may still
\* read what is on the wire.  A responder that has sent its Close goes on to
\* record (FinishResponder).
Drop(p) ==
    /\ drops < MaxDrops
    /\ phase[p] \notin {"idle", "broken"}
    /\ drops' = drops + 1
    /\ IF phase[p] = "closing"
       THEN /\ wire' = [wire EXCEPT ![p] = <<>>]
            /\ UNCHANGED phase
       ELSE /\ phase' = [phase EXCEPT ![p] = "broken"]
            /\ UNCHANGED wire
    /\ UNCHANGED <<senderVars, marker, receiverVars, role, connSess, snapGen,
                   snapSeq, update, outbox, owed, rx>>

\* Both sides have left a broken session; unread frames are gone.
Hangup(p) ==
    /\ phase[p] = "broken"
    /\ EndSession(p)
    /\ UNCHANGED <<senderVars, marker, receiverVars, drops>>

----------------------------------------------------------------------------
SessionStep(p) ==
    \/ \E r \in {"initiator", "responder"} : OpenSession(p, r)
    \/ ListEntries(p)
    \/ SendFrame(p)
    \/ ExchangeDone(p)
    \/ \E n \in Names : SendIndexUpdate(p, n)
    \/ FinishInitiator(p)
    \/ SendClose(p)
    \/ FinishResponder(p)
    \/ RecvIndexFrame(p)
    \/ RecvIndexUpdate(p)
    \/ Hangup(p)

Next ==
    \/ \E n \in Names, del \in BOOLEAN : LocalWrite(n, del)
    \/ PutFails
    \/ PruneTombstones
    \/ \E n \in Names : ReleaseRow(n)
    \/ RebuildIndex
    \/ Reopen
    \/ \E p \in Peers :
         \/ SessionStep(p)
         \/ \E n \in Names, del \in BOOLEAN : PullEntry(p, n, del)
         \/ Restart(p)
         \/ ForgetPeer(p)
         \/ ReloadFolder(p)
         \/ Drop(p)

Spec == Init /\ [][Next]_vars

\* Both nodes keep running rounds, and a round that has begun goes on.
Fairness == \A p \in Peers : WF_vars(SessionStep(p))

FairSpec == Spec /\ Fairness

----------------------------------------------------------------------------
(* What the exchange promises.                                             *)

\* The peer's view holds the sender's current entry for every name whose last
\* write is at or below the sequence seq of the sender's current generation.
Reflects(p, seq) ==
    \A n \in Names : Present(n) /\ rows[n].seq <= seq => view[p][n] = rows[n].stamp

\* A marker that sendIndexes would accept is a sound basis for a delta: all
\* that the delta leaves out is already in the view of the peer's process,
\* whatever writes, dropped sessions, restarts and rebuilds came in between.
DeltaBasisSound ==
    \A p \in Peers : MarkerUsable(p, sess[p]) => Reflects(p, marker[p].seq)

\* A view that is not marked as a partial snapshot holds everything of the
\* last snapshot its process received in full: a stream cut in the middle of
\* a full send is never read as the peer's whole index
\* (BeginPeerViewExchange and EndPeerViewExchange).
TruncatedViewFlagged ==
    \A p \in Peers :
        base[p].ok /\ base[p].gen = gen /\ ~viewPending[p] => Reflects(p, base[p].seq)

\* Within one generation and one process of the peer the marker never goes
\* back, so a delta never repeats what a completed session delivered; only a
\* rebuild of the index drops it.
MarkerAdvances ==
    [][\A p \in Peers :
         /\ marker[p].ok /\ gen' = gen => marker'[p].ok
         /\ marker[p].ok /\ marker'[p].ok
            /\ marker[p].gen = marker'[p].gen /\ marker[p].sess = marker'[p].sess
              => marker[p].seq <= marker'[p].seq]_vars

\* Once writes, restarts and lost connections stop, the rounds bring every
\* peer's view up to date for good (a delta may be empty, but it never
\* leaves a peer behind), and no view stays marked as a partial snapshot.
EventuallyCurrent == \A p \in Peers : <>[](Reflects(p, nextSeq) /\ ~viewPending[p])

============================================================================
