------------------------- MODULE GateReleasesProofs -------------------------
(***************************************************************************)
(* Proofs about GateReleases.  Neither property is inductive.  That the    *)
(* rename is not undone needs what can serve the old content: not Self,    *)
(* which has a row at the old path until it stops tracking the rename, and *)
(* not a peer that has given the old file up, which all of them have by    *)
(* then.  That the owners give up first needs that the release waits for   *)
(* every owner that was in view, and that a view which is not half of one  *)
(* never runs ahead of the peer.                                           *)
(***************************************************************************)
EXTENDS GateReleases, TLAPS

Old(d) == row[d]["a"]
Away(d) == row[d]["b"]

\* Before the rename nothing has moved.
NothingYet ==
    ~Renamed =>
       /\ \A d \in Devices : row[d] = Start
       /\ \A p \in Peers : told[p] = Start
       /\ \A p \in Peers : view[p] # NoView => ~view[p]["a"].del
       /\ file["a"] \in {0, 1} /\ (file["b"] = 1 => file["a"] = 0)
       /\ ~release.pending /\ followed = {}

\* Who still has the old content, once Self has recorded the rename.
OldIsGone ==
    /\ Renamed => config \subseteq owners
    /\ Renamed /\ ~hasty => file["a"] # 1 /\ Old(Self).content # 1
    /\ Renamed /\ ~hasty => \A p \in followed : Old(p).content # 1
    /\ Renamed /\ ~dropped => Exists(Old(Self))
    /\ dropped /\ ~hasty => config \subseteq followed

\* The release waits for the owners, and what it will look at is true.
WaitsForOwners ==
    release.pending /\ ~dropped => (owners \cap config) \ missed \subseteq release.peers

ViewsAreTrue ==
    /\ \A p \in Peers : ~Live(Old(p)) => p \in followed
    /\ \A p \in Peers \ halfway : view[p] # NoView =>
          /\ ~Live(view[p]["a"]) => p \in followed
          /\ Live(view[p]["b"]) => Live(Away(p))

IInv == TypeOK /\ NothingYet /\ OldIsGone /\ WaitsForOwners /\ ViewsAreTrue

----------------------------------------------------------------------------
(* Types.                                                                  *)

Row == {e \in Entries : e.content \in 0..2}

LEMMA Types ==
    ASSUME TypeOK
    PROVE  /\ Self \in Devices /\ Peers \subseteq Devices /\ Self \notin Peers
           /\ Devices = Peers \cup {Self}
           /\ file \in [Names -> 0..2]
           /\ row \in [Devices -> [Names -> Row]] /\ told \in [Peers -> [Names -> Row]]
           /\ \A p \in Peers : view[p] # NoView => view[p] \in [Names -> Row]
           /\ view \in [Peers -> Rows \cup {NoView}]
           /\ config \subseteq Peers /\ halfway \subseteq Peers
           /\ release.pending \in BOOLEAN /\ release.peers \subseteq config
           /\ release \in [pending : BOOLEAN, peers : SUBSET config]
           /\ owners \subseteq Peers /\ missed \subseteq owners /\ followed \subseteq Peers
           /\ dropped \in BOOLEAN /\ hasty \in BOOLEAN
           /\ restarts \in Nat /\ removals \in Nat
           /\ "a" \in Names /\ "b" \in Names
BY ReleasesAssumption DEF TypeOK, Rows, Row, Peers, Names

LEMMA BumpType ==
    ASSUME NEW v \in Vectors, NEW d \in Devices
    PROVE  Bump(v, d) \in Vectors /\ Bump(v, d) # New
<1>1. Bump(v, d) \in Vectors /\ Bump(v, d)[d] = v[d] + 1 /\ v[d] \in Nat
  BY DEF Bump, Vectors
<1>2. Bump(v, d)[d] # New[d]
  BY <1>1 DEF New
<1>. QED  BY <1>1, <1>2

LEMMA EntryTypes ==
    /\ New \in Vectors /\ NoEntry \in Row /\ ~Exists(NoEntry) /\ ~NoEntry.del
    /\ \A v \in Vectors : Tombstone(v) \in Row /\ ~Live(Tombstone(v)) /\ Tombstone(v).content = 0
    /\ \A v \in Vectors : Tombstone(v).ver = v /\ Tombstone(v).del
    /\ \A v \in Vectors, c \in 0..2 : File(v, c) \in Row
    /\ \A v, c : File(v, c).ver = v /\ ~File(v, c).del /\ File(v, c).content = c
<1>1. New \in Vectors
  BY DEF New, Vectors
<1>. QED  BY <1>1 DEF NoEntry, Tombstone, File, Row, Entries, Exists, Live

\* The rows everyone starts with.
LEMMA StartRow ==
    ASSUME Self \in Devices
    PROVE  /\ Start \in [Names -> Row]
           /\ Live(Start["a"]) /\ ~Start["a"].del /\ ~Exists(Start["b"])
<1>1. Bump(New, Self) \in Vectors /\ Bump(New, Self) # New
  BY BumpType, EntryTypes
<1>2. Start["a"] = File(Bump(New, Self), 1) /\ Start["b"] = NoEntry
  BY DEF Start, Names
<1>3. Start \in [Names -> Row]
  BY <1>1, EntryTypes DEF Start
<1>. QED  BY <1>1, <1>2, <1>3, EntryTypes DEF Live, Exists

----------------------------------------------------------------------------
(* What the actions write.                                                 *)

peersApart == <<file, told, view, release, config, halfway, recorded, dropped, hasty, bounds>>

\* A peer that follows, deletes or pulls writes rows of its own.  It gives up
\* its old file, or gets at the old path what Self has there, and either way it
\* has followed; under the new name it only gains the file.
LEMMA PeerWrites ==
    ASSUME TypeOK, NEW p \in Peers,
           ApplyMove(p) \/ ReleaseMove(p) \/ ApplyDeletion(p) \/ Pull(p) \/ PullOld(p)
    PROVE  /\ UNCHANGED peersApart
           /\ row' \in [Devices -> [Names -> Row]]
           /\ \A d \in Devices \ {p} : row'[d] = row[d]
           /\ \/ followed' = followed /\ Old(p)' = Old(p)
              \/ /\ followed' = followed \cup {p}
                 /\ \/ ~Live(Old(p)') /\ Old(p)'.content = 0
                    \/ Old(p)'.content = Old(Self).content
           /\ Live(Away(p)) => Live(Away(p)')
<1>. USE Types
<1>1. p \in Devices /\ Old(p).ver \in Vectors
  BY DEF Old, Row, Entries
<1>2. Bump(Old(p).ver, p) \in Vectors /\ Bump(Old(p).ver, p) # New
  BY <1>1, BumpType
<1>. DEFINE gone == Tombstone(Bump(Old(p).ver, p))
<1>3. gone \in Row /\ ~Live(gone) /\ gone.content = 0
  BY <1>2, EntryTypes
<1>4. told[p]["a"] \in Row /\ told[p]["b"] \in Row
  OBVIOUS
<1>5. CASE ApplyMove(p)
  <2>1. /\ UNCHANGED peersApart /\ followed' = followed \cup {p} /\ ~Exists(Away(p))
        /\ row' = [row EXCEPT ![p] = [row[p] EXCEPT !["a"] = gone, !["b"] = told[p]["b"]]]
    BY <1>5 DEF ApplyMove, CanMove, peersApart, Away, Old, recorded, bounds
  <2>2. Old(p)' = gone /\ row' \in [Devices -> [Names -> Row]]
    BY <1>1, <1>3, <1>4, <2>1 DEF Old, Names
  <2>. QED  BY <1>1, <1>3, <2>1, <2>2 DEF Live
<1>6. CASE ReleaseMove(p) \/ ApplyDeletion(p)
  <2>1. /\ UNCHANGED peersApart /\ followed' = followed \cup {p}
        /\ row' = [row EXCEPT ![p] = [row[p] EXCEPT !["a"] = gone]]
    BY <1>6 DEF ReleaseMove, ApplyDeletion, peersApart, Old, recorded, bounds
  <2>2. Old(p)' = gone /\ Away(p)' = Away(p) /\ row' \in [Devices -> [Names -> Row]]
    BY <1>1, <1>3, <2>1 DEF Old, Away, Names
  <2>. QED  BY <1>1, <1>3, <2>1, <2>2
<1>7. CASE Pull(p)
  <2>1. /\ UNCHANGED peersApart /\ followed' = followed /\ ~Exists(Away(p))
        /\ row' = [row EXCEPT ![p] = [row[p] EXCEPT !["b"] = told[p]["b"]]]
    BY <1>7 DEF Pull, peersApart, Away, history, recorded, bounds
  <2>2. Old(p)' = Old(p) /\ row' \in [Devices -> [Names -> Row]]
    BY <1>1, <1>4, <2>1 DEF Old, Names
  <2>. QED  BY <1>1, <2>1, <2>2 DEF Live
<1>8. CASE PullOld(p)
  <2>1. /\ UNCHANGED peersApart /\ followed' = followed \cup {p}
        /\ Old(Self).content = told[p]["a"].content
        /\ row' = [row EXCEPT ![p] = [row[p] EXCEPT !["a"] = told[p]["a"]]]
    BY <1>8 DEF PullOld, Serves, peersApart, Old, recorded, bounds
  <2>2. Old(p)' = told[p]["a"] /\ Away(p)' = Away(p) /\ row' \in [Devices -> [Names -> Row]]
    BY <1>1, <1>4, <2>1 DEF Old, Away, Names
  <2>. QED  BY <1>1, <2>1, <2>2
<1>. QED  BY <1>5, <1>6, <1>7, <1>8

selfApart == <<told, view, release, config, halfway, history>>

\* Self writes a new file, a tombstone or a peer's file at the old path.
LEMMA SelfWrites ==
    ASSUME TypeOK, ScanNew \/ \E p \in Peers : DeleteLocal(p) \/ PullBack(p)
    PROVE  /\ UNCHANGED selfApart
           /\ row' \in [Devices -> [Names -> Row]]
           /\ \A p \in Peers : row'[p] = row[p]
           /\ Away(Self)' = Away(Self)
           /\ file' \in [Names -> 0..2] /\ file'["b"] = file["b"]
           /\ \/ ~Live(Old(Self)) /\ file["a"] = 2 /\ file' = file /\ Old(Self)'.content = 2
                 /\ Exists(Old(Self)')
              \/ /\ \E p \in Peers : view[p] # NoView /\ view[p]["a"].del
                 /\ Old(Self)'.content = 0 /\ file'["a"] = 0 /\ Exists(Old(Self)')
              \/ /\ ~Exists(Old(Self))
                 /\ \E p \in config : /\ file'["a"] = Old(p).content
                                      /\ Old(Self)'.content = Old(p).content
<1>. USE Types
<1>1. Old(Self).ver \in Vectors
  BY DEF Old, Row, Entries
<1>2. Bump(Old(Self).ver, Self) \in Vectors /\ Bump(Old(Self).ver, Self) # New
  BY <1>1, BumpType
<1>3. CASE ScanNew
  <2>. DEFINE new == File(Bump(Old(Self).ver, Self), 2)
  <2>1. /\ UNCHANGED selfApart /\ file' = file /\ ~Live(Old(Self)) /\ file["a"] = 2
        /\ row' = [row EXCEPT ![Self] = [row[Self] EXCEPT !["a"] = new]]
    BY <1>3 DEF ScanNew, selfApart, Old
  <2>2. new \in Row /\ new.content = 2 /\ new.ver # New
    BY <1>2, EntryTypes
  <2>3. row' \in [Devices -> [Names -> Row]] /\ Old(Self)' = new /\ Away(Self)' = Away(Self)
    BY <2>1, <2>2 DEF Old, Away, Names
  <2>. QED  BY <2>1, <2>2, <2>3 DEF Exists
<1>4. ASSUME NEW p \in Peers, DeleteLocal(p)
      PROVE  /\ UNCHANGED selfApart /\ row' \in [Devices -> [Names -> Row]]
             /\ \A q \in Peers : row'[q] = row[q]
             /\ Away(Self)' = Away(Self) /\ file' \in [Names -> 0..2] /\ file'["b"] = file["b"]
             /\ view[p] # NoView /\ view[p]["a"].del
             /\ Old(Self)'.content = 0 /\ file'["a"] = 0 /\ Exists(Old(Self)')
  <2>. DEFINE gone == Tombstone(Bump(Old(Self).ver, Self))
  <2>1. /\ UNCHANGED selfApart /\ file' = [file EXCEPT !["a"] = 0]
        /\ view[p] # NoView /\ view[p]["a"].del
        /\ row' = [row EXCEPT ![Self] = [row[Self] EXCEPT !["a"] = gone]]
    BY <1>4 DEF DeleteLocal, selfApart, Old
  <2>2. gone \in Row /\ gone.content = 0 /\ gone.ver # New
    BY <1>2, EntryTypes
  <2>3. row' \in [Devices -> [Names -> Row]] /\ Old(Self)' = gone /\ Away(Self)' = Away(Self)
    BY <2>1, <2>2 DEF Old, Away, Names
  <2>4. file' \in [Names -> 0..2] /\ file'["a"] = 0 /\ file'["b"] = file["b"]
    BY <2>1
  <2>. QED  BY <2>1, <2>2, <2>3, <2>4 DEF Exists
<1>5. ASSUME NEW p \in Peers, PullBack(p)
      PROVE  /\ UNCHANGED selfApart /\ row' \in [Devices -> [Names -> Row]]
             /\ \A q \in Peers : row'[q] = row[q]
             /\ Away(Self)' = Away(Self) /\ file' \in [Names -> 0..2] /\ file'["b"] = file["b"]
             /\ ~Exists(Old(Self)) /\ p \in config
             /\ file'["a"] = Old(p).content /\ Old(Self)'.content = Old(p).content
  <2>1. /\ UNCHANGED selfApart /\ file' = [file EXCEPT !["a"] = view[p]["a"].content]
        /\ p \in config /\ view[p] # NoView /\ ~Exists(Old(Self))
        /\ Old(p).content = view[p]["a"].content
        /\ row' = [row EXCEPT ![Self] = [row[Self] EXCEPT !["a"] = view[p]["a"]]]
    BY <1>5 DEF PullBack, Serves, selfApart, Old
  <2>2. view[p]["a"] \in Row /\ view[p]["a"].content \in 0..2
    BY <2>1 DEF Row
  <2>3. row' \in [Devices -> [Names -> Row]] /\ Old(Self)' = view[p]["a"] /\ Away(Self)' = Away(Self)
    BY <2>1, <2>2 DEF Old, Away, Names
  <2>4. file' \in [Names -> 0..2] /\ file'["a"] = Old(p).content /\ file'["b"] = file["b"]
    BY <2>1, <2>2
  <2>. QED  BY <2>1, <2>3, <2>4
<1>. QED  BY <1>3, <1>4, <1>5

\* Self records the rename: a tombstone and a live row, and the release is
\* saved, or the process dies first.
LEMMA RenameWrites ==
    ASSUME TypeOK, NEW r \in BOOLEAN, ScanRename(r)
    PROVE  /\ ~Renamed /\ file["b"] = 1
           /\ row' \in [Devices -> [Names -> Row]]
           /\ \A p \in Peers : row'[p] = row[p]
           /\ Exists(Old(Self)') /\ Old(Self)'.content = 0 /\ Exists(Away(Self)')
           /\ owners' = {p \in config : Live(Old(p))} /\ missed' = owners' \ Owners
           /\ UNCHANGED <<file, told, config, followed, dropped, hasty, removals>>
           /\ \/ release' = Recorded /\ UNCHANGED <<view, halfway, restarts>>
              \/ release' = release /\ Reboot
<1>. USE Types
<1>. DEFINE ver == Bump(row[Self]["a"].ver, Self)
<1>1. row[Self]["a"].ver \in Vectors
  BY DEF Row, Entries
<1>2. ver \in Vectors /\ ver # New
  BY <1>1, BumpType
<1>3. RenamedRows = [n \in Names |-> IF n = "a" THEN Tombstone(ver) ELSE File(ver, 1)]
  BY DEF RenamedRows
<1>4. RenamedRows \in [Names -> Row]
  BY <1>2, <1>3, EntryTypes
<1>5. RenamedRows["a"] = Tombstone(ver) /\ RenamedRows["b"] = File(ver, 1)
  BY <1>3 DEF Names
<1>6. row' = [row EXCEPT ![Self] = RenamedRows]
  BY DEF ScanRename
<1>7. row'[Self] = RenamedRows /\ row' \in [Devices -> [Names -> Row]]
      /\ \A p \in Peers : row'[p] = row[p]
  BY <1>4, <1>6
<1>8. Exists(Old(Self)') /\ Old(Self)'.content = 0 /\ Exists(Away(Self)')
  BY <1>2, <1>5, <1>7, EntryTypes DEF Exists, Old, Away
<1>9. ~Renamed /\ file["b"] = 1
  BY DEF ScanRename, Renamed
<1>10. /\ owners' = {p \in config : Live(Old(p))} /\ missed' = owners' \ Owners
       /\ UNCHANGED <<file, told, config, followed, dropped, hasty, removals>>
       /\ \/ release' = Recorded /\ UNCHANGED <<view, halfway, restarts>>
          \/ release' = release /\ Reboot
  BY DEF ScanRename, Old
<1>. QED  BY <1>7, <1>8, <1>9, <1>10

\* Self stops tracking the rename: no row is left, and the list is saved, or the
\* process dies first.
LEMMA ConfirmWrites ==
    ASSUME TypeOK, NEW r \in BOOLEAN, ConfirmGateReleases(r)
    PROVE  /\ release.pending /\ \A p \in release.peers : Confirmed(p)
           /\ row' \in [Devices -> [Names -> Row]] /\ row'[Self] = NoRows
           /\ \A p \in Peers : row'[p] = row[p]
           /\ dropped' /\ hasty' = (hasty \/ ~(owners \cap config \subseteq followed))
           /\ UNCHANGED <<file, told, config, recorded, followed, removals>>
           /\ \/ release' = NoRelease /\ UNCHANGED <<view, halfway, restarts>>
              \/ release' = release /\ Reboot
<1>. USE Types
<1>1. NoRows \in [Names -> Row]
  BY EntryTypes DEF NoRows
<1>2. row' = [row EXCEPT ![Self] = NoRows]
  BY DEF ConfirmGateReleases, ConfirmReleases
<1>3. row' \in [Devices -> [Names -> Row]] /\ row'[Self] = NoRows /\ \A p \in Peers : row'[p] = row[p]
  BY <1>1, <1>2
<1>4. dropped' /\ hasty' = (hasty \/ ~(owners \cap config \subseteq followed))
  BY DEF ConfirmGateReleases, ConfirmReleases
<1>5. /\ release.pending /\ \A p \in release.peers : Confirmed(p)
      /\ UNCHANGED <<file, told, config, recorded, followed, removals>>
  BY DEF ConfirmGateReleases, ConfirmReleases
<1>6. \/ release' = NoRelease /\ UNCHANGED <<view, halfway, restarts>>
      \/ release' = release /\ Reboot
  BY DEF ConfirmGateReleases, ConfirmReleases
<1>. QED  BY <1>3, <1>4, <1>5, <1>6

peerStep(p) == ApplyMove(p) \/ ReleaseMove(p) \/ ApplyDeletion(p) \/ Pull(p) \/ PullOld(p)
selfStep == ScanNew \/ \E p \in Peers : DeleteLocal(p) \/ PullBack(p)

\* Every step, by what it writes.
LEMMA Kinds ==
    ASSUME [Next]_vars
    PROVE  \/ \E p \in Peers : \/ peerStep(p) \/ SendIndex(p) \/ ReceiveIndex(p)
                               \/ ReceiveFrame(p) \/ RemovePeer(p)
           \/ selfStep \/ UserRenames \/ UserRecreates \/ Restart
           \/ \E r \in BOOLEAN : ScanRename(r) \/ ConfirmGateReleases(r)
           \/ UNCHANGED vars
BY DEF Next, Round, peerStep, selfStep

\* A reboot keeps the views' type.
LEMMA RebootType ==
    ASSUME TypeOK, Reboot
    PROVE  /\ view' = [p \in Peers |-> NoView] /\ halfway' = {} /\ restarts' \in Nat
           /\ view' \in [Peers -> Rows \cup {NoView}]
           /\ \A p \in Peers : view'[p] = NoView
BY Types DEF Reboot

LEMMA TypeStep == TypeOK /\ [Next]_vars => TypeOK'
<1> SUFFICES ASSUME TypeOK, [Next]_vars PROVE TypeOK'
  OBVIOUS
<1>. USE Types
<1>0. Rows = [Names -> Row]
  BY DEF Rows, Row
<1>1. ASSUME row' \in [Devices -> [Names -> Row]], told' \in [Peers -> [Names -> Row]],
             view' \in [Peers -> Rows \cup {NoView}], file' \in [Names -> 0..2],
             UNCHANGED <<config, release, owners, missed>>, followed' \subseteq Peers,
             halfway' \subseteq Peers,
             dropped' \in BOOLEAN, hasty' \in BOOLEAN, restarts' \in Nat, removals' \in Nat
      PROVE  TypeOK'
  BY <1>0, <1>1 DEF TypeOK
<1>2. ASSUME NEW p \in Peers, peerStep(p) PROVE TypeOK'
  <2>1. UNCHANGED peersApart /\ row' \in [Devices -> [Names -> Row]] /\ followed' \subseteq Peers
    BY <1>2, PeerWrites DEF peerStep
  <2>. QED  BY <1>1, <2>1 DEF peersApart, recorded, bounds
<1>3. CASE selfStep
  <2>1. /\ UNCHANGED selfApart /\ row' \in [Devices -> [Names -> Row]]
        /\ file' \in [Names -> 0..2]
    BY <1>3, SelfWrites DEF selfStep
  <2>. QED  BY <1>1, <2>1 DEF selfApart, history, recorded, bounds
<1>4. ASSUME NEW p \in Peers, SendIndex(p) PROVE TypeOK'
  <2>1. told' = [told EXCEPT ![p] = [n \in Names |->
                   IF Exists(row[Self][n]) THEN row[Self][n] ELSE told[p][n]]]
    BY <1>4 DEF SendIndex
  <2>2. told' \in [Peers -> [Names -> Row]]
    BY <2>1
  <2>3. UNCHANGED <<file, row, view, release, config, halfway, history>>
    BY <1>4 DEF SendIndex
  <2>. QED  BY <1>1, <2>2, <2>3 DEF history, recorded, bounds
<1>5. ASSUME NEW p \in Peers, ReceiveIndex(p) \/ ReceiveFrame(p) PROVE TypeOK'
  <2>1. NoRows \in Rows /\ row[p] \in Rows
    BY <1>0, EntryTypes DEF NoRows
  <2>2. view' = [view EXCEPT ![p] = row[p]] \/ view' = [view EXCEPT ![p] = NoRows]
    BY <1>5 DEF ReceiveIndex, ReceiveFrame
  <2>3. view' \in [Peers -> Rows \cup {NoView}]
    BY <2>1, <2>2
  <2>4. UNCHANGED <<file, row, told, release, config, history>> /\ halfway' \subseteq Peers
    BY <1>5 DEF ReceiveIndex, ReceiveFrame
  <2>. QED  BY <1>1, <2>3, <2>4 DEF history, recorded, bounds
<1>6. ASSUME NEW p \in Peers, RemovePeer(p) PROVE TypeOK'
  <2>1. /\ config' = config \ {p} /\ view' = [view EXCEPT ![p] = NoView]
        /\ release' = [release EXCEPT !.peers = release.peers \ {p}] /\ removals' = removals + 1
        /\ UNCHANGED <<file, row, told, halfway, recorded, followed, dropped, hasty, restarts>>
    BY <1>6 DEF RemovePeer, WithoutPeer
  <2>2. view' \in [Peers -> Rows \cup {NoView}]
    BY <2>1
  <2>3. release' \in [pending : BOOLEAN, peers : SUBSET config'] /\ config' \subseteq Peers
    BY <2>1
  <2>. QED  BY <1>0, <2>1, <2>2, <2>3 DEF TypeOK, recorded
<1>7. CASE UserRenames \/ UserRecreates
  <2>1. /\ UNCHANGED <<row, told, view, release, config, halfway, history>>
        /\ \/ file' = [file EXCEPT !["a"] = 0, !["b"] = 1]
           \/ file' = [file EXCEPT !["a"] = 2]
    BY <1>7 DEF UserRenames, UserRecreates
  <2>2. 0 \in 0..2 /\ 1 \in 0..2 /\ 2 \in 0..2
    OBVIOUS
  <2>3. file' \in [Names -> 0..2]
    <3>1. [file EXCEPT !["a"] = 0, !["b"] = 1] \in [Names -> 0..2]
      BY <2>2
    <3>2. [file EXCEPT !["a"] = 2] \in [Names -> 0..2]
      BY <2>2
    <3>. QED  BY <2>1, <3>1, <3>2
  <2>. QED  BY <1>1, <2>1, <2>3 DEF history, recorded, bounds
<1>8. CASE Restart
  <2>1. Reboot /\ UNCHANGED <<file, row, told, release, config, recorded, followed, dropped, hasty, removals>>
    BY <1>8 DEF Restart
  <2>. QED  BY <1>1, <2>1, RebootType DEF recorded
<1>9. ASSUME NEW r \in BOOLEAN, ScanRename(r) PROVE TypeOK'
  <2>1. /\ row' \in [Devices -> [Names -> Row]]
        /\ owners' \subseteq Peers /\ missed' \subseteq owners'
        /\ UNCHANGED <<file, told, config, followed, dropped, hasty, removals>>
        /\ \/ release' = Recorded /\ UNCHANGED <<view, halfway, restarts>>
           \/ release' = release /\ Reboot
    BY <1>9, RenameWrites
  <2>2. Recorded \in [pending : BOOLEAN, peers : SUBSET config]
    BY DEF Recorded, Owners
  <2>3. view' \in [Peers -> Rows \cup {NoView}] /\ halfway' \subseteq Peers /\ restarts' \in Nat
    BY <2>1, RebootType
  <2>4. release' \in [pending : BOOLEAN, peers : SUBSET config']
    BY <2>1, <2>2
  <2>. QED  BY <1>0, <2>1, <2>3, <2>4 DEF TypeOK
<1>10. ASSUME NEW r \in BOOLEAN, ConfirmGateReleases(r) PROVE TypeOK'
  <2>1. /\ row' \in [Devices -> [Names -> Row]] /\ dropped' \in BOOLEAN /\ hasty' \in BOOLEAN
        /\ UNCHANGED <<file, told, config, recorded, followed, removals>>
        /\ \/ release' = NoRelease /\ UNCHANGED <<view, halfway, restarts>>
           \/ release' = release /\ Reboot
    BY <1>10, ConfirmWrites
  <2>2. view' \in [Peers -> Rows \cup {NoView}] /\ halfway' \subseteq Peers /\ restarts' \in Nat
    BY <2>1, RebootType
  <2>3. NoRelease \in [pending : BOOLEAN, peers : SUBSET config]
    BY DEF NoRelease
  <2>4. release' \in [pending : BOOLEAN, peers : SUBSET config']
    BY <2>1, <2>3
  <2>. QED  BY <1>0, <2>1, <2>2, <2>4 DEF TypeOK, recorded
<1>11. CASE UNCHANGED vars
  BY <1>1, <1>11 DEF vars, history, recorded, bounds
<1>. QED
  BY <1>2, <1>3, <1>4, <1>5, <1>6, <1>7, <1>8, <1>9, <1>10, <1>11, Kinds

----------------------------------------------------------------------------
(* The old path.                                                           *)

LEMMA RenamedStays ==
    ASSUME TypeOK, [Next]_vars, Renamed
    PROVE  Renamed'
<1>1. ASSUME NEW p \in Peers, peerStep(p) PROVE Renamed'
  <2>1. row'[Self] = row[Self] /\ dropped' = dropped
    BY <1>1, PeerWrites, Types DEF peerStep, peersApart
  <2>. QED  BY <2>1 DEF Renamed
<1>2. CASE selfStep
  <2>1. Away(Self)' = Away(Self) /\ dropped' = dropped
    BY <1>2, SelfWrites DEF selfStep, selfApart, history
  <2>. QED  BY <2>1 DEF Renamed, Away
<1>3. ASSUME NEW r \in BOOLEAN, ScanRename(r) \/ ConfirmGateReleases(r) PROVE Renamed'
  BY <1>3, RenameWrites, ConfirmWrites DEF Renamed, Away
<1>4. ASSUME row' = row, dropped' = dropped PROVE Renamed'
  BY <1>4 DEF Renamed
<1>5. ASSUME NEW p \in Peers, SendIndex(p) \/ ReceiveIndex(p) \/ ReceiveFrame(p) \/ RemovePeer(p)
      PROVE  row' = row /\ dropped' = dropped
  BY <1>5 DEF SendIndex, ReceiveIndex, ReceiveFrame, RemovePeer, history
<1>6. ASSUME UserRenames \/ UserRecreates \/ Restart \/ UNCHANGED vars
      PROVE  row' = row /\ dropped' = dropped
  BY <1>6 DEF UserRenames, UserRecreates, Restart, vars, history
<1>. QED  BY <1>1, <1>2, <1>3, <1>4, <1>5, <1>6, Kinds

LEMMA NothingStep ==
    TypeOK /\ NothingYet /\ [Next]_vars => NothingYet'
<1> SUFFICES ASSUME TypeOK, NothingYet, [Next]_vars, ~Renamed' PROVE NothingYet'
  BY DEF NothingYet
<1>. USE Types
<1>1. ~Renamed
  BY RenamedStays
<1>2. /\ \A d \in Devices : row[d] = Start
      /\ \A p \in Peers : told[p] = Start
      /\ \A p \in Peers : view[p] # NoView => ~view[p]["a"].del
      /\ file["a"] \in {0, 1} /\ (file["b"] = 1 => file["a"] = 0)
      /\ ~release.pending /\ followed = {}
  BY <1>1 DEF NothingYet
<1>3. Start \in [Names -> Row] /\ Live(Start["a"]) /\ ~Start["a"].del /\ ~Exists(Start["b"])
  BY StartRow
<1>4. ASSUME NEW p \in Peers PROVE ~peerStep(p)
  <2>1. Compare(Start["a"].ver, Start["a"].ver) # 1
    BY DEF Compare
  <2>2. row[p] = Start /\ told[p] = Start
    BY <1>2
  <2>. QED
    BY <1>3, <2>1, <2>2
    DEF peerStep, ApplyMove, ReleaseMove, ApplyDeletion, Pull, PullOld, CanMove, Live
<1>5. ~selfStep
  BY <1>2, <1>3 DEF selfStep, ScanNew, DeleteLocal, PullBack, Live
<1>6. ASSUME NEW r \in BOOLEAN PROVE ~ScanRename(r) /\ ~ConfirmGateReleases(r)
  BY <1>2, RenameWrites, ConfirmWrites DEF Renamed, Away
<1>7. ASSUME NEW p \in Peers, SendIndex(p) PROVE NothingYet'
  <2>1. /\ told' = [told EXCEPT ![p] = [n \in Names |->
                   IF Exists(row[Self][n]) THEN row[Self][n] ELSE told[p][n]]]
        /\ UNCHANGED <<file, row, view, release, followed>>
    BY <1>7 DEF SendIndex, history
  <2>2. row[Self] = Start /\ told[p] = Start
    BY <1>2
  <2>3. Start = [n \in Names |-> Start[n]]
    BY <1>3
  <2>4. [n \in Names |-> IF Exists(row[Self][n]) THEN row[Self][n] ELSE told[p][n]] = Start
    BY <2>2, <2>3
  <2>5. \A q \in Peers : told'[q] = Start
    BY <1>2, <2>1, <2>4
  <2>. QED  BY <1>2, <2>1, <2>5 DEF NothingYet
<1>8. ASSUME NEW p \in Peers, ReceiveIndex(p) \/ ReceiveFrame(p) \/ RemovePeer(p) PROVE NothingYet'
  <2>1. \E v \in {row[p], NoRows, NoView} : view' = [view EXCEPT ![p] = v]
                                            /\ (v # NoView => ~v["a"].del)
    <3>1. ~row[p]["a"].del
      BY <1>2, <1>3
    <3>2. ~NoRows["a"].del
      BY EntryTypes DEF NoRows
    <3>. QED  BY <1>8, <3>1, <3>2 DEF ReceiveIndex, ReceiveFrame, RemovePeer
  <2>2. \A q \in Peers : view'[q] # NoView => ~view'[q]["a"].del
    BY <1>2, <2>1
  <2>3. UNCHANGED <<file, row, told, followed>> /\ release'.pending = release.pending
    <3>1. UNCHANGED <<file, row, told, followed>>
      BY <1>8 DEF ReceiveIndex, ReceiveFrame, RemovePeer, history
    <3>2. release' = release \/ release' = [release EXCEPT !.peers = release.peers \ {p}]
      BY <1>8 DEF ReceiveIndex, ReceiveFrame, RemovePeer, WithoutPeer
    <3>. QED  BY <3>1, <3>2
  <2>. QED  BY <1>2, <2>2, <2>3 DEF NothingYet
<1>9. CASE UserRenames
  <2>1. /\ file' = [file EXCEPT !["a"] = 0, !["b"] = 1]
        /\ UNCHANGED <<row, told, view, release, followed>>
    BY <1>9 DEF UserRenames, history
  <2>2. file'["a"] = 0
    BY <2>1
  <2>. QED  BY <1>2, <2>1, <2>2 DEF NothingYet
<1>10. ~UserRecreates
  BY <1>1 DEF UserRecreates
<1>11. CASE Restart
  <2>1. Reboot /\ UNCHANGED <<file, row, told, release, followed>>
    BY <1>11 DEF Restart
  <2>. QED  BY <1>2, <2>1, RebootType DEF NothingYet
<1>12. CASE UNCHANGED vars
  BY <1>2, <1>12 DEF NothingYet, vars, history
<1>. QED
  BY <1>4, <1>5, <1>6, <1>7, <1>8, <1>9, <1>10, <1>11, <1>12, Kinds

LEMMA OldStep ==
    TypeOK /\ NothingYet /\ OldIsGone /\ [Next]_vars => OldIsGone'
<1> SUFFICES ASSUME TypeOK, NothingYet, OldIsGone, [Next]_vars PROVE OldIsGone'
  OBVIOUS
<1>. USE Types
<1>0. Renamed /\ dropped /\ ~hasty => config \subseteq followed
  BY DEF OldIsGone
<1>1. ASSUME NEW p \in Peers, peerStep(p) PROVE OldIsGone'
  <2>1. /\ UNCHANGED <<file, config, owners, dropped, hasty>>
        /\ row'[Self] = row[Self] /\ \A q \in Peers \ {p} : Old(q)' = Old(q)
        /\ \/ followed' = followed /\ Old(p)' = Old(p)
           \/ /\ followed' = followed \cup {p}
              /\ Old(p)'.content \in {0, Old(Self).content}
    BY <1>1, PeerWrites DEF peerStep, peersApart, recorded, Old
  <2>2. Renamed' <=> Renamed
    BY <2>1 DEF Renamed
  <2>3. Old(Self)' = Old(Self)
    BY <2>1 DEF Old
  <2>4. ASSUME Renamed, ~hasty PROVE \A q \in followed' : Old(q)'.content # 1
    <3>1. Old(Self).content # 1 /\ \A q \in followed : Old(q).content # 1
      BY <2>4 DEF OldIsGone
    <3>2. ASSUME NEW q \in followed' PROVE Old(q)'.content # 1
      <4>1. CASE q = p /\ followed' = followed \cup {p} /\ Old(p)'.content \in {0, Old(Self).content}
        BY <3>1, <4>1
      <4>2. CASE q = p /\ followed' = followed /\ Old(p)' = Old(p)
        BY <3>1, <3>2, <4>2
      <4>3. CASE q # p
        <5>1. q \in followed /\ Old(q)' = Old(q)
          BY <2>1, <3>2, <4>3
        <5>. QED  BY <3>1, <5>1
      <4>. QED  BY <2>1, <4>1, <4>2, <4>3
    <3>. QED  BY <3>2
  <2>5. followed \subseteq followed'
    BY <2>1
  <2>. QED  BY <2>1, <2>2, <2>3, <2>4, <2>5 DEF OldIsGone
<1>2. CASE selfStep
  <2>1. /\ UNCHANGED <<config, owners, dropped, hasty, followed>>
        /\ \A p \in Peers : Old(p)' = Old(p)
        /\ Away(Self)' = Away(Self)
    BY <1>2, SelfWrites DEF selfStep, selfApart, history, recorded, Old
  <2>2. Renamed' <=> Renamed
    BY <2>1 DEF Renamed, Away
  <2>3. \A q \in followed' : Old(q)' = Old(q)
    BY <2>1
  <2>4. ASSUME Renamed, ~hasty
        PROVE  file'["a"] # 1 /\ Old(Self)'.content # 1 /\ (~dropped => Exists(Old(Self)'))
    <3>1. /\ file["a"] # 1 /\ (~dropped => Exists(Old(Self)))
          /\ \A q \in followed : Old(q).content # 1
          /\ dropped => config \subseteq followed
      BY <2>4 DEF OldIsGone
    <3>2. \/ file'["a"] # 1 /\ Old(Self)'.content # 1 /\ Exists(Old(Self)')
          \/ /\ ~Exists(Old(Self))
             /\ \E p \in config : file'["a"] = Old(p).content /\ Old(Self)'.content = Old(p).content
      BY <1>2, SelfWrites DEF selfStep
    <3>. QED  BY <3>1, <3>2
  <2>5. ASSUME Renamed, hasty, ~dropped PROVE Exists(Old(Self)')
    <3>1. Exists(Old(Self))
      BY <2>5 DEF OldIsGone
    <3>. QED  BY <1>2, <3>1, SelfWrites DEF selfStep
  <2>. QED  BY <2>1, <2>2, <2>3, <2>4, <2>5 DEF OldIsGone
<1>3. ASSUME NEW r \in BOOLEAN, ScanRename(r) PROVE OldIsGone'
  <2>1. /\ ~Renamed /\ file["b"] = 1 /\ owners' = {p \in config : Live(Old(p))}
        /\ UNCHANGED <<file, config, followed, dropped>>
        /\ Exists(Old(Self)') /\ Old(Self)'.content = 0
    BY <1>3, RenameWrites
  <2>2. /\ \A p \in config : Live(Old(p))
        /\ file["a"] = 0 /\ followed = {} /\ ~dropped
    BY <2>1, StartRow DEF NothingYet, Old, Renamed
  <2>. QED  BY <2>1, <2>2 DEF OldIsGone
<1>4. ASSUME NEW r \in BOOLEAN, ConfirmGateReleases(r) PROVE OldIsGone'
  <2>1. /\ release.pending /\ row'[Self] = NoRows /\ dropped'
        /\ hasty' = (hasty \/ ~(owners \cap config \subseteq followed))
        /\ UNCHANGED <<file, config, owners, followed>>
        /\ \A p \in Peers : row'[p] = row[p]
    BY <1>4, ConfirmWrites DEF recorded
  <2>2. Renamed
    BY <2>1 DEF NothingYet
  <2>3. Old(Self)'.content = 0
    BY <2>1 DEF Old, NoRows, NoEntry
  <2>4. \A q \in followed : Old(q)' = Old(q)
    BY <2>1 DEF Old
  <2>5. config \subseteq owners
    BY <2>2 DEF OldIsGone
  <2>6. ~hasty' => ~hasty /\ config \subseteq followed
    BY <2>1, <2>5
  <2>. QED  BY <2>1, <2>2, <2>3, <2>4, <2>5, <2>6 DEF OldIsGone
<1>5. ASSUME UNCHANGED <<row, owners, followed, dropped, hasty>>, config' \subseteq config,
             file' = file \/ UserRenames \/ UserRecreates
      PROVE  OldIsGone'
  <2>1. (Renamed' <=> Renamed) /\ \A d : Old(d)' = Old(d)
    BY <1>5 DEF Renamed, Old
  <2>2. Renamed /\ file["a"] # 1 => file'["a"] # 1
    BY <1>5 DEF UserRenames, UserRecreates
  <2>. QED  BY <1>5, <2>1, <2>2 DEF OldIsGone
<1>6. ASSUME NEW p \in Peers, SendIndex(p) \/ ReceiveIndex(p) \/ ReceiveFrame(p) \/ RemovePeer(p)
      PROVE  UNCHANGED <<row, owners, followed, dropped, hasty, file>> /\ config' \subseteq config
  BY <1>6 DEF SendIndex, ReceiveIndex, ReceiveFrame, RemovePeer, history, recorded
<1>7. ASSUME UserRenames \/ UserRecreates \/ Restart \/ UNCHANGED vars
      PROVE  /\ UNCHANGED <<row, owners, followed, dropped, hasty, config>>
             /\ file' = file \/ UserRenames \/ UserRecreates
  BY <1>7 DEF UserRenames, UserRecreates, Restart, vars, history, recorded
<1>. QED  BY <1>1, <1>2, <1>3, <1>4, <1>5, <1>6, <1>7, Kinds

----------------------------------------------------------------------------
(* The owners.                                                             *)

LEMMA OwnersStep ==
    TypeOK /\ NothingYet /\ WaitsForOwners /\ [Next]_vars => WaitsForOwners'
<1> SUFFICES ASSUME TypeOK, NothingYet, WaitsForOwners, [Next]_vars PROVE WaitsForOwners'
  OBVIOUS
<1>. USE Types
<1>1. ASSUME UNCHANGED <<release, dropped, owners, config, missed>> PROVE WaitsForOwners'
  BY <1>1 DEF WaitsForOwners
<1>2. ASSUME NEW r \in BOOLEAN, ScanRename(r) PROVE WaitsForOwners'
  <2>1. ~release.pending
    BY <1>2, RenameWrites DEF NothingYet
  <2>2. missed' = owners' \ Owners /\ (release' = Recorded \/ release' = release)
    BY <1>2, RenameWrites
  <2>. QED  BY <2>1, <2>2 DEF WaitsForOwners, Recorded
<1>3. ASSUME NEW r \in BOOLEAN, ConfirmGateReleases(r) PROVE WaitsForOwners'
  BY <1>3, ConfirmWrites DEF WaitsForOwners
<1>4. ASSUME NEW p \in Peers, RemovePeer(p) PROVE WaitsForOwners'
  <2>1. /\ config' = config \ {p} /\ release' = [release EXCEPT !.peers = release.peers \ {p}]
        /\ UNCHANGED <<dropped, owners, missed>>
    BY <1>4 DEF RemovePeer, WithoutPeer, recorded
  <2>2. release'.pending = release.pending /\ release'.peers = release.peers \ {p}
    BY <2>1
  <2>. QED  BY <2>1, <2>2 DEF WaitsForOwners
<1>5. ASSUME NEW p \in Peers, peerStep(p) PROVE UNCHANGED <<release, dropped, owners, config, missed>>
  BY <1>5, PeerWrites DEF peerStep, peersApart, recorded
<1>6. ASSUME selfStep PROVE UNCHANGED <<release, dropped, owners, config, missed>>
  BY <1>6, SelfWrites DEF selfStep, selfApart, history, recorded
<1>7. ASSUME NEW p \in Peers, SendIndex(p) \/ ReceiveIndex(p) \/ ReceiveFrame(p)
      PROVE  UNCHANGED <<release, dropped, owners, config, missed>>
  BY <1>7 DEF SendIndex, ReceiveIndex, ReceiveFrame, history, recorded
<1>8. ASSUME UserRenames \/ UserRecreates \/ Restart \/ UNCHANGED vars
      PROVE  UNCHANGED <<release, dropped, owners, config, missed>>
  BY <1>8 DEF UserRenames, UserRecreates, Restart, vars, history, recorded
<1>. QED  BY <1>1, <1>2, <1>3, <1>4, <1>5, <1>6, <1>7, <1>8, Kinds

LEMMA ViewsStep == TypeOK /\ ViewsAreTrue /\ [Next]_vars => ViewsAreTrue'
<1> SUFFICES ASSUME TypeOK, ViewsAreTrue, [Next]_vars PROVE ViewsAreTrue'
  OBVIOUS
<1>. USE Types
<1>1. ASSUME NEW p \in Peers, peerStep(p) PROVE ViewsAreTrue'
  <2>1. /\ UNCHANGED <<view, halfway>> /\ followed \subseteq followed'
        /\ \A q \in Peers \ {p} : Old(q)' = Old(q) /\ Away(q)' = Away(q)
        /\ Old(p)' = Old(p) \/ p \in followed'
        /\ Live(Away(p)) => Live(Away(p)')
    BY <1>1, PeerWrites DEF peerStep, peersApart, Old, Away
  <2>2. \A q \in Peers : /\ Old(q)' = Old(q) \/ q \in followed'
                         /\ Live(Away(q)) => Live(Away(q)')
    BY <2>1
  <2>. QED  BY <2>1, <2>2 DEF ViewsAreTrue
<1>2. ASSUME followed' = followed, \A q \in Peers : row'[q] = row[q],
             \/ view' = view /\ halfway' = halfway
             \/ \A q \in Peers : view'[q] = NoView
      PROVE  ViewsAreTrue'
  <2>1. \A q \in Peers : Old(q)' = Old(q) /\ Away(q)' = Away(q)
    BY <1>2 DEF Old, Away
  <2>. QED  BY <1>2, <2>1 DEF ViewsAreTrue
<1>3. ASSUME selfStep
      PROVE  followed' = followed /\ view' = view /\ halfway' = halfway
             /\ \A q \in Peers : row'[q] = row[q]
  BY <1>3, SelfWrites DEF selfStep, selfApart, history
<1>4. ASSUME NEW r \in BOOLEAN, ScanRename(r) \/ ConfirmGateReleases(r)
      PROVE  /\ followed' = followed /\ \A q \in Peers : row'[q] = row[q]
             /\ \/ view' = view /\ halfway' = halfway
                \/ \A q \in Peers : view'[q] = NoView
  BY <1>4, RenameWrites, ConfirmWrites, RebootType
<1>5. ASSUME NEW p \in Peers, ReceiveIndex(p) PROVE ViewsAreTrue'
  <2>1. /\ view' = [view EXCEPT ![p] = row[p]] /\ halfway' = halfway \ {p}
        /\ row' = row /\ followed' = followed
    BY <1>5 DEF ReceiveIndex, history
  <2>2. \A q \in Peers : Old(q)' = Old(q) /\ Away(q)' = Away(q)
    BY <2>1 DEF Old, Away
  <2>3. view'[p] = row[p] /\ \A q \in Peers \ {p} : view'[q] = view[q]
    BY <2>1
  <2>4. ASSUME NEW q \in Peers \ halfway', view'[q] # NoView
        PROVE  /\ ~Live(view'[q]["a"]) => q \in followed
               /\ Live(view'[q]["b"]) => Live(Away(q))
    <3>1. CASE q = p
      BY <2>3, <3>1 DEF ViewsAreTrue, Old, Away
    <3>2. CASE q # p
      BY <2>1, <2>3, <2>4, <3>2 DEF ViewsAreTrue
    <3>. QED  BY <3>1, <3>2
  <2>. QED  BY <2>1, <2>2, <2>4 DEF ViewsAreTrue
<1>6. ASSUME NEW p \in Peers, ReceiveFrame(p) \/ RemovePeer(p) PROVE ViewsAreTrue'
  <2>1. /\ row' = row /\ followed' = followed /\ halfway \subseteq halfway'
        /\ \E v : view' = [view EXCEPT ![p] = v] /\ (p \in halfway' \/ v = NoView)
    BY <1>6 DEF ReceiveFrame, RemovePeer, history
  <2>2. \A q \in Peers : Old(q)' = Old(q) /\ Away(q)' = Away(q)
    BY <2>1 DEF Old, Away
  <2>3. \A q \in Peers \ halfway' : view'[q] # NoView => view'[q] = view[q] /\ q \notin halfway
    BY <2>1
  <2>. QED  BY <2>1, <2>2, <2>3 DEF ViewsAreTrue
<1>7. ASSUME Restart \/ UserRenames \/ UserRecreates \/ UNCHANGED vars \/ \E p \in Peers : SendIndex(p)
      PROVE  /\ followed' = followed /\ row' = row
             /\ \/ view' = view /\ halfway' = halfway
                \/ \A q \in Peers : view'[q] = NoView
  <2>1. CASE Restart
    BY <2>1, RebootType DEF Restart
  <2>2. CASE ~Restart
    BY <1>7, <2>2 DEF UserRenames, UserRecreates, SendIndex, vars, history
  <2>. QED  BY <2>1, <2>2
<1>. QED  BY <1>1, <1>2, <1>3, <1>4, <1>5, <1>6, <1>7, Kinds

----------------------------------------------------------------------------
(* The invariant, and what it gives.                                       *)

LEMMA InitInv == Init => IInv
<1> SUFFICES ASSUME Init PROVE IInv
  OBVIOUS
<1>0. Self \in Devices
  BY ReleasesAssumption
<1>. USE StartRow, <1>0
<1>1. Rows = [Names -> Row]
  BY DEF Rows, Row
<1>2. /\ \A d \in Devices : row[d] = Start /\ \A p \in Peers : told[p] = Start /\ view[p] = Start
      /\ Peers \subseteq Devices
  BY DEF Init, Peers
<1>3. file["a"] = 1 /\ file["b"] = 0 /\ file \in [Names -> 0..2]
  BY DEF Init, Names
<1>4. ~release.pending /\ release \in [pending : BOOLEAN, peers : SUBSET config]
  BY DEF Init, NoRelease
<1>5. /\ config = Peers /\ halfway = {} /\ owners = {} /\ missed = {} /\ followed = {}
      /\ dropped = FALSE /\ hasty = FALSE /\ restarts = 0 /\ removals = 0
  BY DEF Init
<1>6. /\ row \in [Devices -> Rows] /\ told \in [Peers -> Rows]
      /\ view \in [Peers -> Rows \cup {NoView}]
  BY <1>1 DEF Init
<1>7. TypeOK
  BY <1>3, <1>4, <1>5, <1>6 DEF TypeOK
<1>8. ~Renamed
  BY <1>2, <1>5 DEF Renamed
<1>9. NothingYet
  BY <1>2, <1>3, <1>4, <1>5 DEF NothingYet
<1>10. OldIsGone
  BY <1>5, <1>8 DEF OldIsGone
<1>11. WaitsForOwners /\ ViewsAreTrue
  BY <1>2, <1>4 DEF WaitsForOwners, ViewsAreTrue, Old, Live
<1>. QED  BY <1>7, <1>9, <1>10, <1>11 DEF IInv

LEMMA Inductive == Spec => []IInv
<1>1. IInv /\ [Next]_vars => IInv'
  BY TypeStep, NothingStep, OldStep, OwnersStep, ViewsStep DEF IInv
<1>. QED  BY <1>1, InitInv, PTL DEF Spec

\* Every variable keeps its type, and a release waits for configured peers only
\* (dropPeerFromReleasesLocked).
THEOREM TypeCorrect == Spec => []TypeOK
<1>1. IInv => TypeOK
  BY DEF IInv
<1>. QED  BY <1>1, Inductive, PTL

\* Self never fetches the old file back at the old path, unless it stopped
\* tracking the rename before an owner had given the file up (releaseConfirmedLocked,
\* ConfirmReleases): whatever peers follow, fall back or are removed, and
\* whenever it restarts.
THEOREM RenameStays == Spec => []RenameNotUndone
<1>1. IInv => RenameNotUndone
  BY DEF IInv, OldIsGone, RenameNotUndone
<1>. QED  BY <1>1, Inductive, PTL

\* When Self stops tracking the rename, every configured peer that owned the old
\* path has given it up or has the new file, except those Self could not see
\* then or sees half of now (recordReleaseLocked, releaseConfirmedLocked).
THEOREM OwnersFirst == Spec => OwnersGiveUpFirst
<1>1. IInv /\ [Next]_vars =>
        [dropped' /\ ~dropped =>
           \A p \in owners \cap config :
              p \in followed \cup missed \cup halfway \/ Live(row[p]["b"])]_vars
  <2> SUFFICES ASSUME IInv, [Next]_vars, dropped', ~dropped, NEW p \in owners \cap config,
                      p \notin followed \cup missed \cup halfway
               PROVE  Live(row[p]["b"])
    OBVIOUS
  <2>. USE Types DEF IInv
  <2>1. \E r \in BOOLEAN : ConfirmGateReleases(r)
    <3>1. ASSUME NEW q \in Peers, peerStep(q) PROVE dropped' = dropped
      BY <3>1, PeerWrites DEF peerStep, peersApart
    <3>2. ASSUME selfStep PROVE dropped' = dropped
      BY <3>2, SelfWrites DEF selfStep, selfApart, history
    <3>3. ASSUME NEW q \in Peers, SendIndex(q) \/ ReceiveIndex(q) \/ ReceiveFrame(q) \/ RemovePeer(q)
          PROVE  dropped' = dropped
      BY <3>3 DEF SendIndex, ReceiveIndex, ReceiveFrame, RemovePeer, history
    <3>4. ASSUME UserRenames \/ UserRecreates \/ Restart \/ UNCHANGED vars PROVE dropped' = dropped
      BY <3>4 DEF UserRenames, UserRecreates, Restart, vars, history
    <3>5. ASSUME NEW r \in BOOLEAN, ScanRename(r) PROVE dropped' = dropped
      BY <3>5, RenameWrites
    <3>. QED  BY <3>1, <3>2, <3>3, <3>4, <3>5, Kinds
  <2>2. release.pending /\ \A q \in release.peers : Confirmed(q)
    BY <2>1, ConfirmWrites
  <2>3. Confirmed(p)
    BY <2>2 DEF WaitsForOwners
  <2>4. p \in Peers \ halfway /\ view[p] # NoView
    BY <2>3 DEF Confirmed
  <2>5. Live(view[p]["b"])
    BY <2>3, <2>4 DEF Confirmed, ViewsAreTrue
  <2>. QED  BY <2>4, <2>5 DEF ViewsAreTrue, Away
<1>. QED  BY <1>1, Inductive, PTL DEF Spec, OwnersGiveUpFirst

=============================================================================
