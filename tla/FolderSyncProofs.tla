-------------------------- MODULE FolderSyncProofs --------------------------
(***************************************************************************)
(* Proofs about modules GlobalModel and FolderSync, for every set of       *)
(* devices, every set of names and every bound.                            *)
(*                                                                         *)
(* Version vectors: Compare is an order, Bump and Merge go up in it, of    *)
(* two entries with different vectors exactly one displaces the other, and *)
(* a chosen entry displaces the rest.                                      *)
(*                                                                         *)
(* The folder: its state has its types, an upload that one device counts   *)
(* is a file the other one pulls, what the marker of a live process lets a *)
(* delta leave out is in the peer's view, a pair that has exchanged        *)
(* everything agrees on the winners, and a row's version goes back only at *)
(* the end of a pull or in a rebuild.                                      *)
(***************************************************************************)
EXTENDS FolderSync, FiniteSetTheorems, TLAPS

----------------------------------------------------------------------------
(* Version vectors and the choice of a winner.                             *)

\* The two arguments of Compare may be swapped: what one device sees as newer
\* the other sees as older, and a conflict is one for both.
THEOREM CompareSwaps ==
    ASSUME NEW v \in Vectors, NEW o \in Vectors
    PROVE  /\ Compare(v, o) = 1 <=> Compare(o, v) = -1
           /\ Compare(v, o) = 2 <=> Compare(o, v) = 2
           /\ Compare(v, o) = 0 <=> v = o
<1> DEFINE gt == \E d \in Devices : v[d] > o[d]
           lt == \E d \in Devices : v[d] < o[d]
           gtSwapped == \E d \in Devices : o[d] > v[d]
           ltSwapped == \E d \in Devices : o[d] < v[d]
<1>1. gtSwapped <=> lt
  BY DEF Vectors
<1>2. ltSwapped <=> gt
  BY DEF Vectors
<1>3. ~gt /\ ~lt <=> v = o
  <2>1. ASSUME ~gt, ~lt PROVE v = o
    <3>1. \A d \in Devices : v[d] = o[d]
      BY <2>1 DEF Vectors
    <3>. QED  BY <3>1 DEF Vectors
  <2>2. ASSUME v = o PROVE ~gt /\ ~lt
    BY <2>2 DEF Vectors
  <2>. QED  BY <2>1, <2>2
<1>4. Compare(v, o) = IF gt /\ ~lt THEN 1 ELSE IF lt /\ ~gt THEN -1
                      ELSE IF ~gt /\ ~lt THEN 0 ELSE 2
  BY DEF Compare
<1>5. Compare(o, v) = IF gtSwapped /\ ~ltSwapped THEN 1 ELSE IF ltSwapped /\ ~gtSwapped THEN -1
                      ELSE IF ~gtSwapped /\ ~ltSwapped THEN 0 ELSE 2
  BY DEF Compare
<1> HIDE DEF gt, lt, gtSwapped, ltSwapped
<1>. QED  BY <1>1, <1>2, <1>3, <1>4, <1>5

\* Compare returns one of four values.
LEMMA CompareType ==
    ASSUME NEW v \in Vectors, NEW o \in Vectors
    PROVE  Compare(v, o) \in {1, -1, 0, 2}
BY DEF Compare

\* A version that a local change bumps dominates the one it replaces, so a
\* peer that holds the old entry takes the new one.
THEOREM BumpDominates ==
    ASSUME NEW v \in Vectors, NEW d \in Devices
    PROVE  Bump(v, d) \in Vectors /\ Compare(Bump(v, d), v) = 1
<1>1. Bump(v, d) \in Vectors
  BY DEF Bump, Vectors
<1>2. Bump(v, d)[d] > v[d]
  BY DEF Bump, Vectors
<1>3. \A e \in Devices : ~(Bump(v, d)[e] < v[e])
  BY DEF Bump, Vectors
<1>. QED  BY <1>1, <1>2, <1>3 DEF Compare

\* The vector that JoinIdentical gives two copies of one content dominates or
\* equals both, and nothing below it does.
THEOREM MergeIsJoin ==
    ASSUME NEW v \in Vectors, NEW o \in Vectors
    PROVE  /\ Merge(v, o) \in Vectors
           /\ Compare(Merge(v, o), v) \in {0, 1}
           /\ Compare(Merge(v, o), o) \in {0, 1}
           /\ \A w \in Vectors :
                Compare(w, v) \in {0, 1} /\ Compare(w, o) \in {0, 1}
                   => Compare(w, Merge(v, o)) \in {0, 1}
<1>1. Merge(v, o) \in Vectors
  BY DEF Merge, Vectors
<1>2. ASSUME NEW a \in Vectors, NEW b \in Vectors
      PROVE  Compare(a, b) \in {0, 1} <=> \A d \in Devices : ~(a[d] < b[d])
  BY DEF Compare
<1>3. \A d \in Devices : ~(Merge(v, o)[d] < v[d]) /\ ~(Merge(v, o)[d] < o[d])
  BY DEF Merge, Vectors
<1>4. ASSUME NEW w \in Vectors,
             \A d \in Devices : ~(w[d] < v[d]), \A d \in Devices : ~(w[d] < o[d])
      PROVE  \A d \in Devices : ~(w[d] < Merge(v, o)[d])
  BY <1>4 DEF Merge, Vectors
<1>. QED  BY <1>1, <1>2, <1>3, <1>4

\* The devices where two different vectors differ have a first one.
LEMMA FirstDifferenceExists ==
    ASSUME NEW v \in Vectors, NEW o \in Vectors, v # o
    PROVE  /\ FirstDifference(v, o) \in Devices
           /\ v[FirstDifference(v, o)] # o[FirstDifference(v, o)]
           /\ \A e \in Devices : v[e] # o[e] => FirstDifference(v, o) <= e
<1> DEFINE Diff == {d \in Devices : v[d] # o[d]}
<1>1. Diff # {}
  BY DEF Vectors
<1>2. Diff \subseteq 1..15
  BY DevicesAssumption
<1>3. \E d \in Diff : \A e \in Diff : d <= e
  <2> SUFFICES ASSUME \A d \in Diff : \E e \in Diff : e < d
               PROVE  FALSE
    BY <1>2
  <2> HIDE DEF Diff
  <2>1. 1 \notin Diff /\ 2 \notin Diff /\ 3 \notin Diff
    BY <1>2
  <2>2. 4 \notin Diff /\ 5 \notin Diff /\ 6 \notin Diff
    BY <1>2, <2>1
  <2>3. 7 \notin Diff /\ 8 \notin Diff /\ 9 \notin Diff
    BY <1>2, <2>1, <2>2
  <2>4. 10 \notin Diff /\ 11 \notin Diff /\ 12 \notin Diff
    BY <1>2, <2>1, <2>2, <2>3
  <2>5. 13 \notin Diff /\ 14 \notin Diff /\ 15 \notin Diff
    BY <1>2, <2>1, <2>2, <2>3, <2>4
  <2>6. PICK x \in Diff : TRUE
    BY <1>1, Zenon
  <2>7. x \in 1..15
    BY <1>2
  <2>8. \A i \in 1..15 : i \in {1, 2, 3, 4, 5, 6, 7, 8, 9, 10, 11, 12, 13, 14, 15}
    OBVIOUS
  <2>. QED  BY <2>1, <2>2, <2>3, <2>4, <2>5, <2>6, <2>7, <2>8, Zenon
<1>4. \E d \in Devices : v[d] # o[d] /\ \A e \in Devices : v[e] # o[e] => d <= e
  BY <1>3
<1>5. PICK least \in Devices :
         v[least] # o[least] /\ \A e \in Devices : v[e] # o[e] => least <= e
  BY <1>4
<1>6. FirstDifference(v, o) = CHOOSE d \in Devices :
         v[d] # o[d] /\ \A e \in Devices : v[e] # o[e] => d <= e
  BY DEF FirstDifference
<1>. QED  BY <1>5, <1>6, Zenon

\* The tie-breaker is total and strict: of two different vectors exactly one
\* has the greater canonical string, whichever device compares them.
THEOREM CanonicalDecides ==
    ASSUME NEW v \in Vectors, NEW o \in Vectors, v # o
    PROVE  CanonicalGreater(v, o) <=> ~CanonicalGreater(o, v)
<1> DEFINE d == FirstDifference(v, o)
<1>1. d \in Devices /\ v[d] # o[d] /\ \A e \in Devices : v[e] # o[e] => d <= e
  BY FirstDifferenceExists
<1>2. FirstDifference(o, v) = d
  BY DEF FirstDifference
<1>3. v[d] \in Nat /\ o[d] \in Nat
  BY <1>1 DEF Vectors
<1>4. ASSUME v[d] = 0, o[d] # 0 PROVE CanonicalGreater(v, o) <=> ~CanonicalGreater(o, v)
  BY <1>2, <1>4 DEF CanonicalGreater
<1>5. ASSUME v[d] # 0, o[d] = 0 PROVE CanonicalGreater(v, o) <=> ~CanonicalGreater(o, v)
  BY <1>2, <1>5 DEF CanonicalGreater
<1>6. ASSUME v[d] # 0, o[d] # 0 PROVE CanonicalGreater(v, o) <=> ~CanonicalGreater(o, v)
  <2>1. CanonicalGreater(v, o) <=> v[d] > o[d]
    BY <1>6 DEF CanonicalGreater
  <2>2. CanonicalGreater(o, v) <=> o[d] > v[d]
    BY <1>2, <1>6 DEF CanonicalGreater
  <2>. QED  BY <1>1, <1>3, <2>1, <2>2
<1>. QED  BY <1>1, <1>4, <1>5, <1>6

\* Of two entries with different vectors exactly one displaces the other: two
\* devices that know each other's entry agree on the winner, whichever of the
\* two globalFrom starts from.
THEOREM OneEntryWins ==
    ASSUME NEW a \in Entries, NEW b \in Entries, a.ver # b.ver
    PROVE  Displaces(a, b) <=> ~Displaces(b, a)
<1>1. a.ver \in Vectors /\ b.ver \in Vectors /\ a.time \in Nat /\ b.time \in Nat
  BY DEF Entries
<1>2. /\ Compare(a.ver, b.ver) = 1 <=> Compare(b.ver, a.ver) = -1
      /\ Compare(b.ver, a.ver) = 1 <=> Compare(a.ver, b.ver) = -1
      /\ Compare(a.ver, b.ver) = 2 <=> Compare(b.ver, a.ver) = 2
      /\ Compare(a.ver, b.ver) # 0 /\ Compare(b.ver, a.ver) # 0
  BY <1>1, CompareSwaps
<1>3. newerOrGreater(a, b) <=> ~newerOrGreater(b, a)
  <2>1. CASE a.time # b.time
    BY <1>1, <2>1 DEF newerOrGreater
  <2>2. CASE a.time = b.time
    BY <1>1, <2>2, CanonicalDecides DEF newerOrGreater
  <2>. QED  BY <2>1, <2>2
<1>4. Compare(a.ver, b.ver) \in {1, -1, 0, 2}
  BY <1>1, CompareType
<1>5. Displaces(a, b) <=> Compare(a.ver, b.ver) = 1
                          \/ (Compare(a.ver, b.ver) = 2 /\ newerOrGreater(a, b))
  BY <1>2 DEF Displaces
<1>6. Displaces(b, a) <=> Compare(b.ver, a.ver) = 1
                          \/ (Compare(b.ver, a.ver) = 2 /\ newerOrGreater(b, a))
  BY <1>2 DEF Displaces
<1>. QED  BY <1>2, <1>3, <1>4, <1>5, <1>6

\* A version that dominates keeps its place: it displaces every entry it
\* dominates and none of those displaces it, whatever their times are.
THEOREM NewestIsKept ==
    ASSUME NEW a \in Entries, NEW b \in Entries, Compare(a.ver, b.ver) = 1
    PROVE  Displaces(a, b) /\ ~Displaces(b, a)
<1>1. Compare(b.ver, a.ver) = -1
  BY CompareSwaps DEF Entries
<1>. QED  BY <1>1 DEF Displaces

\* There is one order in which a single view can be visited.
LEMMA OneOrder ==
    ASSUME NEW d
    PROVE  Orders({d}) = {[i \in 1..1 |-> d]}
<1>1. Cardinality({d}) = 1
  BY FS_Singleton
<1>2. [1..1 -> {d}] = {[i \in 1..1 |-> d]}
  OBVIOUS
<1>. QED  BY <1>1, <1>2 DEF Orders

\* The pass of globalFrom over one entry that exists.
LEMMA OneEntryPass ==
    ASSUME NEW local, NEW e, Exists(e)
    PROVE  WinnerOf(local, <<e>>) = IF ~Exists(local) \/ Displaces(e, local) THEN e ELSE local
<1> DEFINE step(b, i) ==
      IF i = 0 THEN local
      ELSE IF Exists(<<e>>[i]) /\ (~Exists(b[i - 1]) \/ Displaces(<<e>>[i], b[i - 1]))
           THEN <<e>>[i]
           ELSE b[i - 1]
    pass == CHOOSE b : b = [i \in 0..1 |-> step(b, i)]
    found == IF ~Exists(local) \/ Displaces(e, local) THEN e ELSE local
    made == [i \in 0..1 |-> IF i = 0 THEN local ELSE found]
<1>1. made = [i \in 0..1 |-> step(made, i)]
  <2>1. made[0] = local
    OBVIOUS
  <2>2. ASSUME NEW i \in 0..1 PROVE (IF i = 0 THEN local ELSE found) = step(made, i)
    <3>1. CASE i = 0
      BY <3>1
    <3>2. CASE i = 1
      BY <2>1, <3>2
    <3>. QED  BY <3>1, <3>2
  <2>. QED  BY <2>2
<1>2. pass = [i \in 0..1 |-> step(pass, i)]
  BY <1>1
<1>3. Len(<<e>>) = 1
  OBVIOUS
<1>4. WinnerOf(local, <<e>>) = pass[1]
  BY <1>3 DEF WinnerOf
<1> HIDE DEF pass
<1>5. pass[0] = local
  BY <1>2
<1>6. pass[1] = found
  BY <1>2, <1>5
<1>. QED  BY <1>4, <1>6

\* What a device counts as an upload (PendingUploads) is a file the peer pulls:
\* told of the entry, the peer chooses it and lists the name (NeedPulls), so no
\* upload is shown that the peer will never ask for.
THEOREM UploadIsPulled ==
    ASSUME NEW d, NEW p, NEW mine \in Entries, NEW theirs \in Entries,
           NEW hers, DOMAIN hers = {p}, hers[p] = theirs, uploadWanted(mine, hers),
           NEW views, DOMAIN views = {d}, views[d] = mine
    PROVE  \A g \in globalFrom(theirs, views) : g = mine /\ pullWanted(theirs, g)
<1> DEFINE order == [i \in 1..1 |-> d]
<1>1. /\ Live(mine)
      /\ \/ ~Exists(theirs)
         \/ theirs.del /\ Compare(mine.ver, theirs.ver) = 1
         \/ Live(theirs) /\ Compare(mine.ver, theirs.ver) = 1 /\ ~sameContent(mine, theirs)
  BY DEF uploadWanted
<1>2. pullWanted(theirs, mine)
  BY <1>1 DEF pullWanted, sameContent
<1>3. ~Exists(theirs) \/ Displaces(mine, theirs)
  BY <1>1, NewestIsKept
<1>4. WinnerOf(theirs, <<mine>>) = mine
  BY <1>1, <1>3, OneEntryPass DEF Live
<1>5. globalFrom(theirs, views) = {WinnerOf(theirs, [i \in DOMAIN order |-> views[order[i]]])}
  <2>2. Orders({d}) = {order}
    BY OneOrder
  <2>3. globalFrom(theirs, views)
          = {WinnerOf(theirs, [i \in DOMAIN o |-> views[o[i]]]) : o \in Orders(DOMAIN views)}
    BY DEF globalFrom
  <2> HIDE DEF order
  <2>4. globalFrom(theirs, views)
          = {WinnerOf(theirs, [i \in DOMAIN o |-> views[o[i]]]) : o \in {order}}
    BY <2>2, <2>3
  <2>. QED  BY <2>4
<1>6. [i \in DOMAIN order |-> views[order[i]]] = <<mine>>
  OBVIOUS
<1>. QED  BY <1>2, <1>4, <1>5, <1>6

----------------------------------------------------------------------------
(* The pass of globalFrom over any number of views.  The induction runs on *)
(* the set of the positions up to which the claim holds.                   *)

Below == {m \in Nat \X Nat : m[1] < m[2]}

LEMMA LeastOf ==
    ASSUME NEW T \in SUBSET Nat, T # {}
    PROVE  \E x \in T : \A y \in T : x <= y
<1>1. IsWellFoundedOn(Below, Nat)
  BY NatLessThanWellFounded DEF OpToRel, Below
<1>2. PICK x \in T : \A y \in T : <<y, x>> \notin Below
  BY <1>1, WFMin
<1>3. \A y \in T : ~(y < x)
  BY <1>2 DEF Below
<1>. QED  BY <1>3

LEMMA SetInduction ==
    ASSUME NEW S \in SUBSET Nat, 0 \in S, \A n \in S : n + 1 \in S
    PROVE  S = Nat
<1> SUFFICES ASSUME Nat \ S # {} PROVE FALSE
  OBVIOUS
<1>1. PICK x \in Nat \ S : \A y \in Nat \ S : x <= y
  BY LeastOf
<1>2. x # 0 /\ x - 1 \in Nat /\ (x - 1) + 1 = x
  BY <1>1
<1>3. x - 1 \in S
  BY <1>1, <1>2
<1>. QED  BY <1>1, <1>2, <1>3

LEMMA IntervalInduction ==
    ASSUME NEW n \in Nat, NEW S, 0 \in S, \A i \in 1..n : i - 1 \in S => i \in S
    PROVE  \A i \in 0..n : i \in S
<1>. DEFINE T == {i \in Nat : i <= n => i \in S}
<1>1. 0 \in T
  OBVIOUS
<1>2. ASSUME NEW i \in T PROVE i + 1 \in T
  <2>1. CASE i + 1 <= n
    BY <2>1
  <2>2. CASE ~(i + 1 <= n)
    BY <2>2
  <2>. QED  BY <2>1, <2>2
<1>3. T = Nat
  <2>. HIDE DEF T
  <2>1. T \in SUBSET Nat
    BY DEF T
  <2>. QED  BY <1>1, <1>2, <2>1, SetInduction
<1>. QED  BY <1>3

\* One step of the pass: what becomes of the best entry so far.
Better(e, best) == IF Exists(e) /\ (~Exists(best) \/ Displaces(e, best)) THEN e ELSE best

IsPass(b, local, entries, n) ==
    b = [i \in 0..n |-> IF i = 0 THEN local ELSE Better(entries[i], b[i - 1])]

\* The recursive definition has a solution, however long the list.
LEMMA PassExists ==
    ASSUME NEW local, NEW entries, NEW n \in Nat
    PROVE  \E b : IsPass(b, local, entries, n)
<1>. DEFINE step(b, i) == IF i = 0 THEN local ELSE Better(entries[i], b[i - 1])
            S == {m \in Nat : \E b : b = [i \in 0..m |-> step(b, i)]}
<1>1. 0 \in S
  <2>. DEFINE b == [i \in 0..0 |-> local]
  <2>1. b = [i \in 0..0 |-> step(b, i)]
    OBVIOUS
  <2>. QED  BY <2>1
<1>2. ASSUME NEW m \in S PROVE m + 1 \in S
  <2>1. PICK b : b = [i \in 0..m |-> step(b, i)]
    OBVIOUS
  <2>. DEFINE c == [i \in 0..(m + 1) |-> IF i \in 0..m THEN b[i] ELSE step(b, m + 1)]
  <2>2. ASSUME NEW i \in 0..(m + 1) PROVE c[i] = step(c, i)
    <3>1. CASE i = 0
      BY <2>1, <3>1
    <3>2. CASE i \in 1..m
      <4>1. i - 1 \in 0..m /\ i \in 0..m /\ i # 0
        BY <3>2
      <4>2. c[i - 1] = b[i - 1] /\ c[i] = b[i]
        BY <4>1
      <4>3. b[i] = step(b, i)
        BY <2>1, <4>1
      <4>4. step(c, i) = Better(entries[i], c[i - 1]) /\ step(b, i) = Better(entries[i], b[i - 1])
        BY <4>1
      <4>. QED  BY <4>2, <4>3, <4>4
    <3>3. CASE i = m + 1
      <4>1. i - 1 = m /\ m \in 0..m /\ i \notin 0..m /\ i # 0
        BY <3>3
      <4>2. c[i - 1] = b[i - 1] /\ c[i] = step(b, i)
        BY <3>3, <4>1
      <4>3. step(c, i) = Better(entries[i], c[i - 1]) /\ step(b, i) = Better(entries[i], b[i - 1])
        BY <4>1
      <4>. QED  BY <4>2, <4>3
    <3>. QED  BY <3>1, <3>2, <3>3
  <2>3. c = [i \in 0..(m + 1) |-> step(c, i)]
    <3>1. c = [i \in 0..(m + 1) |-> c[i]]
      OBVIOUS
    <3>. HIDE DEF c, step
    <3>. QED  BY <2>2, <3>1
  <2>. HIDE DEF c
  <2>. QED  BY <2>3
<1>3. S = Nat
  <2>. HIDE DEF S
  <2>1. S \in SUBSET Nat
    BY DEF S
  <2>. QED  BY <1>1, <1>2, <2>1, SetInduction
<1>. QED  BY <1>3 DEF IsPass

\* The pass, step by step.
LEMMA WinnerPass ==
    ASSUME NEW local, NEW entries, Len(entries) \in Nat
    PROVE  \E b : /\ b[0] = local
                  /\ \A i \in 1..Len(entries) : b[i] = Better(entries[i], b[i - 1])
                  /\ WinnerOf(local, entries) = b[Len(entries)]
<1>. DEFINE n == Len(entries)
            step(b, i) == IF i = 0 THEN local
                          ELSE IF Exists(entries[i])
                                  /\ (~Exists(b[i - 1]) \/ Displaces(entries[i], b[i - 1]))
                               THEN entries[i]
                               ELSE b[i - 1]
            pass == CHOOSE b : b = [i \in 0..n |-> step(b, i)]
<1>1. \E b : b = [i \in 0..n |-> step(b, i)]
  <2>1. n \in Nat
    OBVIOUS
  <2>. HIDE DEF n
  <2>2. \E b : IsPass(b, local, entries, n)
    BY <2>1, PassExists
  <2>. QED  BY <2>2 DEF IsPass, Better
<1>2. pass = [i \in 0..n |-> step(pass, i)]
  BY <1>1
<1>3. WinnerOf(local, entries) = pass[n]
  BY DEF WinnerOf
<1>. HIDE DEF pass
<1>4. pass[0] = local
  BY <1>2
<1>5. ASSUME NEW i \in 1..n PROVE pass[i] = Better(entries[i], pass[i - 1])
  <2>1. i \in 0..n /\ i # 0
    OBVIOUS
  <2>2. pass[i] = step(pass, i)
    BY <1>2, <2>1
  <2>. QED  BY <2>1, <2>2 DEF Better
<1>. QED  BY <1>3, <1>4, <1>5

\* The winner is the local entry or one of those in the list.
LEMMA WinnerIsOneOf ==
    ASSUME NEW local, NEW entries, Len(entries) \in Nat
    PROVE  \/ WinnerOf(local, entries) = local
           \/ \E i \in 1..Len(entries) : WinnerOf(local, entries) = entries[i]
<1>. DEFINE n == Len(entries)
            All == {local} \cup {entries[i] : i \in 1..n}
<1>1. PICK b : /\ b[0] = local
               /\ \A i \in 1..n : b[i] = Better(entries[i], b[i - 1])
               /\ WinnerOf(local, entries) = b[n]
  BY WinnerPass
<1>. DEFINE S == {i \in 0..n : b[i] \in All}
<1>2. 0 \in S
  BY <1>1
<1>3. ASSUME NEW i \in 1..n, i - 1 \in S PROVE i \in S
  <2>1. b[i] \in {entries[i], b[i - 1]}
    BY <1>1 DEF Better
  <2>. QED  BY <1>3, <2>1
<1>4. n \in S
  <2>1. n \in Nat /\ n \in 0..n
    OBVIOUS
  <2>. HIDE DEF S, n
  <2>2. \A i \in 0..n : i \in S
    BY <1>2, <1>3, <2>1, IntervalInduction
  <2>. QED  BY <2>1, <2>2
<1>. QED  BY <1>1, <1>4

\* What globalFrom returns is the local entry or one of the views'.
LEMMA GlobalIsOneOf ==
    ASSUME NEW local, NEW views, IsFiniteSet(DOMAIN views), NEW g \in globalFrom(local, views)
    PROVE  g = local \/ \E p \in DOMAIN views : g = views[p]
<1>. DEFINE n == Cardinality(DOMAIN views)
<1>1. n \in Nat
  BY FS_CardinalityType
<1>2. PICK o \in Orders(DOMAIN views) : g = WinnerOf(local, [i \in DOMAIN o |-> views[o[i]]])
  BY DEF globalFrom
<1>3. o \in [1..n -> DOMAIN views]
  BY <1>2 DEF Orders
<1>. DEFINE entries == [i \in 1..n |-> views[o[i]]]
<1>4. g = WinnerOf(local, entries) /\ Len(entries) = n
  BY <1>1, <1>2, <1>3
<1>5. \A i \in 1..n : o[i] \in DOMAIN views /\ entries[i] = views[o[i]]
  BY <1>3
<1>. HIDE DEF entries
<1>. QED  BY <1>1, <1>4, <1>5, WinnerIsOneOf

\* A version that dominates every other one the device has heard of is chosen,
\* however many views there are and in whatever order the map yields them
\* (globalFrom), although Displaces is no order on the entries in conflict.
THEOREM LatestIsChosen ==
    ASSUME NEW local \in Entries, NEW views, IsFiniteSet(DOMAIN views),
           \A p \in DOMAIN views : views[p] \in Entries,
           NEW top, Exists(top),
           top = local \/ \E p \in DOMAIN views : top = views[p],
           \A e \in {local} \cup {views[p] : p \in DOMAIN views} :
              e = top \/ ~Exists(e) \/ Compare(top.ver, e.ver) = 1
    PROVE  \A g \in globalFrom(local, views) : g = top
<1>. DEFINE n == Cardinality(DOMAIN views)
            All == {local} \cup {views[p] : p \in DOMAIN views}
<1> SUFFICES ASSUME NEW o \in Orders(DOMAIN views)
             PROVE  WinnerOf(local, [i \in DOMAIN o |-> views[o[i]]]) = top
  BY DEF globalFrom
<1>1. n \in Nat
  BY FS_CardinalityType
<1>2. o \in [1..n -> DOMAIN views] /\ \A i, j \in 1..n : o[i] = o[j] => i = j
  BY DEF Orders
<1>3. \A p \in DOMAIN views : \E i \in 1..n : o[i] = p
  <2>1. o \in Injection(1..n, DOMAIN views)
    BY <1>2 DEF Injection, IsInjective
  <2>2. IsFiniteSet(1..n) /\ Cardinality(1..n) = n
    BY <1>1, FS_Interval
  <2>3. o \in Surjection(1..n, DOMAIN views)
    BY <2>1, <2>2, FS_Injection
  <2>. QED  BY <2>3 DEF Surjection
<1>. DEFINE entries == [i \in 1..n |-> views[o[i]]]
<1>4. [i \in DOMAIN o |-> views[o[i]]] = entries /\ Len(entries) = n
  BY <1>1, <1>2
<1>5. \A i \in 1..n : entries[i] \in All
  BY <1>2
<1>6. top \in Entries /\ \A e \in All : e \in Entries
  OBVIOUS
<1>. HIDE DEF entries
<1>7. PICK b : /\ b[0] = local
               /\ \A i \in 1..n : b[i] = Better(entries[i], b[i - 1])
               /\ WinnerOf(local, entries) = b[n]
  BY <1>1, <1>4, WinnerPass
<1>. DEFINE Looked(i) == {local} \cup {entries[j] : j \in 1..i}
            S == {i \in 0..n : b[i] \in All /\ (top \in Looked(i) => b[i] = top)}
<1>8. 0 \in S
  <2>1. Looked(0) = {local}
    OBVIOUS
  <2>. QED  BY <1>1, <1>7, <2>1
<1>9. ASSUME NEW i \in 1..n, i - 1 \in S PROVE i \in S
  <2>. DEFINE e == entries[i]
              old == b[i - 1]
  <2>1. e \in All /\ old \in All /\ (top \in Looked(i - 1) => old = top) /\ b[i] = Better(e, old)
    BY <1>5, <1>7, <1>9
  <2>2. Looked(i) = Looked(i - 1) \cup {e}
    <3>1. 1..i = (1..(i - 1)) \cup {i}
      OBVIOUS
    <3>. QED  BY <3>1
  <2>3. \A x \in All : x = top \/ ~Exists(x) \/ (Displaces(top, x) /\ ~Displaces(x, top))
    BY <1>6, NewestIsKept
  <2>. HIDE DEF e, old, Looked, All
  <2>4. b[i] \in All
    BY <2>1 DEF Better
  <2>5. ASSUME top \in Looked(i) PROVE b[i] = top
    <3>1. CASE e = top
      BY <2>1, <2>3, <3>1 DEF Better
    <3>2. CASE e # top
      <4>1. old = top
        BY <2>1, <2>2, <2>5, <3>2
      <4>. QED  BY <2>1, <2>3, <3>2, <4>1 DEF Better
    <3>. QED  BY <3>1, <3>2
  <2>. QED  BY <2>4, <2>5
<1>10. n \in S
  <2>. HIDE DEF S
  <2>. QED  BY <1>1, <1>8, <1>9, IntervalInduction
<1>11. top \in Looked(n)
  <2>1. CASE top = local
    BY <2>1
  <2>2. ASSUME NEW p \in DOMAIN views, top = views[p] PROVE top \in Looked(n)
    <3>1. PICK i \in 1..n : o[i] = p
      BY <1>3
    <3>2. entries[i] = views[p]
      BY <1>2, <3>1 DEF entries
    <3>. QED  BY <2>2, <3>2
  <2>. QED  BY <2>1, <2>2
<1>. QED  BY <1>4, <1>7, <1>10, <1>11

----------------------------------------------------------------------------
(* Pairs of devices, and entries.                                          *)

LEMMA DevicesAreFinite == IsFiniteSet(Devices)
<1>1. Devices \in SUBSET Nat /\ \A d \in Devices : d <= 15
  BY DevicesAssumption
<1>. QED  BY <1>1, FS_BoundedSetOfNaturals

LEMMA LinkFacts ==
    ASSUME NEW l \in Links, NEW d \in l
    PROVE  /\ d \in Devices /\ Other(l, d) \in Devices
           /\ Other(l, d) \in l /\ Other(l, d) # d
           /\ l = {d, Other(l, d)}
           /\ \A p \in l : p # d => p = Other(l, d)
<1>1. l \in SUBSET Devices /\ Cardinality(l) = 2 /\ IsFiniteSet(l)
  BY DevicesAreFinite, FS_Subset DEF Links
<1>2. IsFiniteSet(l \ {d}) /\ Cardinality(l \ {d}) = 1
  BY <1>1, FS_RemoveElement
<1>3. PICK p \in l : p # d
  <2>1. l \ {d} # {}
    BY <1>2, FS_EmptySet
  <2>. QED  BY <2>1
<1>4. Other(l, d) \in l /\ Other(l, d) # d
  BY <1>3 DEF Other
<1>. DEFINE o == Other(l, d)
            rest == l \ {d}
<1>5. IsFiniteSet(rest \ {o}) /\ Cardinality(rest \ {o}) = 0
  <2>1. o \in rest /\ IsFiniteSet(rest) /\ Cardinality(rest) = 1
    BY <1>2, <1>4
  <2>. HIDE DEF o, rest
  <2>. QED  BY <2>1, FS_RemoveElement
<1>6. (l \ {d}) \ {o} = {}
  BY <1>5, FS_EmptySet
<1>. HIDE DEF o
<1>7. l = {d, o}
  BY <1>4, <1>6 DEF o
<1>. QED  BY <1>1, <1>4, <1>7 DEF o

LEMMA PairIsLink ==
    ASSUME NEW d \in Devices, NEW p \in Devices, d # p
    PROVE  {d, p} \in Links
<1>1. IsFiniteSet({p}) /\ Cardinality({p}) = 1
  BY FS_Singleton
<1>2. Cardinality({p} \cup {d}) = 2
  BY <1>1, FS_AddElement
<1>3. {p} \cup {d} = {d, p}
  OBVIOUS
<1>. QED  BY <1>2, <1>3 DEF Links

\* The two ends of a running session are the two devices of its pair.
LEMMA SessionEnds ==
    ASSUME TypeOK, NEW l \in Links, link[l].phase # 0
    PROVE  /\ Puller(l) \in l /\ Server(l) \in l
           /\ Puller(l) \in Devices /\ Server(l) \in Devices
           /\ Puller(l) # Server(l)
           /\ l = {Puller(l), Server(l)}
<1>1. link[l].first \in l
  BY DEF TypeOK, NoLink
<1>2. Puller(l) \in l
  BY <1>1, LinkFacts DEF Puller
<1>. QED  BY <1>2, LinkFacts DEF Server

LEMMA SizeType == ASSUME NEW c \in Nat PROVE SizeOf(c) \in Nat
BY DEF SizeOf

LEMMA BumpType ==
    ASSUME NEW v \in Vectors, NEW d \in Devices
    PROVE  Bump(v, d) \in Vectors /\ Bump(v, d) # New
<1>1. Bump(v, d) \in Vectors
  BY DEF Bump, Vectors
<1>2. Bump(v, d)[d] = v[d] + 1 /\ v[d] \in Nat
  BY DEF Bump, Vectors
<1>3. New[d] = 0
  BY DEF New
<1>. QED  BY <1>1, <1>2, <1>3

LEMMA NewType == New \in Vectors
BY DEF New, Vectors

LEMMA NoEntryType == NoEntry \in Rows /\ ~Exists(NoEntry)
BY NewType, FolderAssumption DEF NoEntry, Rows, Entries, WellFormed, Live, Exists

LEMMA RowFields ==
    ASSUME NEW e \in Rows
    PROVE  /\ e.ver \in Vectors /\ e.del \in BOOLEAN /\ e.time \in Nat
           /\ e.content \in 0..MaxEdits /\ e.size \in Nat
           /\ e.content # 0 <=> Live(e)
           /\ e \in Entries
BY DEF Rows, Entries, WellFormed

LEMMA TombstoneType ==
    ASSUME NEW v \in Vectors
    PROVE  Tombstone(v) \in Rows
BY FolderAssumption DEF Tombstone, Rows, Entries, WellFormed, Live, Exists

LEMMA FileEntryType ==
    ASSUME NEW v \in Vectors, v # New, NEW f \in Files, f.content # 0
    PROVE  FileEntry(v, f) \in Rows
<1>1. f.content \in 0..MaxEdits /\ f.time \in Nat /\ f.content \in Nat
  BY FolderAssumption DEF Files
<1>2. SizeOf(f.content) \in Nat
  BY <1>1, SizeType
<1>. QED  BY <1>1, <1>2 DEF FileEntry, Rows, Entries, WellFormed, Live, Exists

\* A row whose stat is adopted is a row.
LEMMA RestampedType ==
    ASSUME NEW e \in Rows, NEW t \in Nat, NEW s \in Nat
    PROVE  [e EXCEPT !.time = t, !.size = s] \in Rows
<1>1. /\ [e EXCEPT !.time = t, !.size = s] \in Entries
      /\ [e EXCEPT !.time = t, !.size = s].content = e.content
      /\ [e EXCEPT !.time = t, !.size = s].ver = e.ver
      /\ [e EXCEPT !.time = t, !.size = s].del = e.del
  BY DEF Rows, Entries
<1>. QED  BY <1>1 DEF Rows, WellFormed, Live, Exists

LEMMA ResizedType ==
    ASSUME NEW e \in Rows, NEW s \in Nat
    PROVE  [e EXCEPT !.size = s] \in Rows
<1>1. /\ [e EXCEPT !.size = s] \in Entries
      /\ [e EXCEPT !.size = s].content = e.content
      /\ [e EXCEPT !.size = s].ver = e.ver
      /\ [e EXCEPT !.size = s].del = e.del
  BY DEF Rows, Entries
<1>. QED  BY <1>1 DEF Rows, WellFormed, Live, Exists

LEMMA NewVersionType ==
    ASSUME NEW d \in Devices, NEW e \in Rows
    PROVE  NewVersion(d, e) \in Vectors /\ NewVersion(d, e) # New
BY BumpType, RowFields DEF NewVersion

----------------------------------------------------------------------------
(* Joins and winners.                                                      *)

\* A finite set of numbers has an upper bound: by induction on its size.
LEMMA FiniteIsBounded ==
    ASSUME NEW S \in SUBSET Nat, IsFiniteSet(S)
    PROVE  \E b \in Nat : \A x \in S : x <= b
<1>. DEFINE Bounded(T) == \E b \in Nat : \A x \in T : x <= b
            Good == {n \in Nat : \A T \in SUBSET Nat :
                        IsFiniteSet(T) /\ Cardinality(T) = n => Bounded(T)}
<1>1. 0 \in Good
  <2>1. ASSUME NEW T \in SUBSET Nat, IsFiniteSet(T), Cardinality(T) = 0 PROVE Bounded(T)
    BY <2>1, FS_EmptySet
  <2>. QED  BY <2>1
<1>2. ASSUME NEW n \in Good PROVE n + 1 \in Good
  <2>1. ASSUME NEW T \in SUBSET Nat, IsFiniteSet(T), Cardinality(T) = n + 1 PROVE Bounded(T)
    <3>1. n \in Nat /\ n + 1 # 0 /\ (n + 1) - 1 = n
      OBVIOUS
    <3>2. PICK t \in T : TRUE
      <4>. HIDE DEF Good
      <4>1. T # {}
        BY <2>1, <3>1, FS_EmptySet
      <4>. QED  BY <4>1
    <3>3. PICK b \in Nat : \A x \in T \ {t} : x <= b
      <4>1. IsFiniteSet(T \ {t}) /\ Cardinality(T \ {t}) = n
        <5>. HIDE DEF Good
        <5>. QED  BY <2>1, <3>1, FS_RemoveElement
      <4>. DEFINE rest == T \ {t}
      <4>2. rest \in SUBSET Nat
        OBVIOUS
      <4>3. IsFiniteSet(rest) /\ Cardinality(rest) = n
        BY <4>1
      <4>. HIDE DEF rest
      <4>4. Bounded(rest)
        BY <4>2, <4>3
      <4>. QED  BY <4>4 DEF rest
    <3>4. \A x \in T : x <= t + b
      BY <3>3
    <3>. QED  BY <3>4
  <2>. QED  BY <2>1
<1>3. Good = Nat
  <2>1. Good \in SUBSET Nat
    OBVIOUS
  <2>. HIDE DEF Good
  <2>. QED  BY <1>1, <1>2, <2>1, SetInduction
<1>4. Cardinality(S) \in Good
  <2>. HIDE DEF Good
  <2>. QED  BY <1>3, FS_CardinalityType
<1>. QED  BY <1>4

LEMMA MaxFacts ==
    ASSUME NEW S \in SUBSET Nat, IsFiniteSet(S), S # {}
    PROVE  Max(S) \in S /\ \A y \in S : y <= Max(S)
<1>. DEFINE Bounds == {b \in Nat : \A x \in S : x <= b}
<1>1. PICK b \in Bounds : \A c \in Bounds : b <= c
  BY FiniteIsBounded, LeastOf
<1>2. b \in S
  <2>. SUFFICES ASSUME b \notin S PROVE FALSE
    OBVIOUS
  <2>1. PICK x \in S : TRUE
    OBVIOUS
  <2>2. b # 0 /\ b - 1 \in Nat
    BY <1>1, <2>1
  <2>3. b - 1 \in Bounds
    BY <1>1, <2>2
  <2>. QED  BY <1>1, <2>2, <2>3
<1>3. \E x \in S : \A y \in S : x >= y
  BY <1>1, <1>2
<1>. QED  BY <1>3 DEF Max

\* JoinIdentical leaves a row: no counter goes back, and nothing but the
\* vector changes.
LEMMA JoinedFacts ==
    ASSUME TypeOK, NEW d \in Devices, NEW n \in Names, NEW row \in Rows, NEW file
    PROVE  /\ Joined(d, n, row, file) \in Rows
           /\ Joined(d, n, row, file) = row \/ Exists(Joined(d, n, row, file))
           /\ \A x \in Devices : ~(Joined(d, n, row, file).ver[x] < row.ver[x])
<1>. DEFINE with == {p \in Peers(d) : Identical(row, view[d][p][n])}
            heard(x) == {view[d][p][n].ver[x] : p \in with}
            v == [x \in Devices |-> Max({row.ver[x]} \cup heard(x))]
            e == [row EXCEPT !.ver = v]
<1>1. CASE Joined(d, n, row, file) = row
  BY <1>1, RowFields DEF Vectors
<1>2. CASE Joined(d, n, row, file) = e /\ Live(row)
  <2>1. row.ver \in Vectors /\ row.ver # New
    BY <1>2, RowFields DEF Live, Exists
  <2>2. IsFiniteSet(with)
    BY DevicesAreFinite, FS_Subset DEF Peers
  <2>3. ASSUME NEW x \in Devices
        PROVE  v[x] \in Nat /\ v[x] >= row.ver[x]
    <3>1. IsFiniteSet(heard(x))
      <4>1. [p \in with |-> view[d][p][n].ver[x]] \in Surjection(with, heard(x))
        BY DEF Surjection
      <4>. HIDE DEF with, heard
      <4>. QED  BY <2>2, <4>1, FS_Surjection
    <3>2. \A p \in with : view[d][p][n] \in Rows
      BY DEF Peers, TypeOK
    <3>3. heard(x) \in SUBSET Nat
      BY <3>2, RowFields DEF Vectors
    <3>4. row.ver[x] \in Nat
      BY <2>1 DEF Vectors
    <3>5. IsFiniteSet({row.ver[x]} \cup heard(x))
      BY <3>1, FS_Singleton, FS_Union
    <3>. HIDE DEF heard
    <3>6. Max({row.ver[x]} \cup heard(x)) \in Nat /\ Max({row.ver[x]} \cup heard(x)) >= row.ver[x]
      BY <3>3, <3>4, <3>5, MaxFacts
    <3>. QED  BY <3>6
  <2>. HIDE DEF heard
  <2>4. v \in Vectors /\ \A x \in Devices : ~(v[x] < row.ver[x])
    <3>1. \A x \in Devices : row.ver[x] \in Nat
      BY <2>1 DEF Vectors
    <3>. QED  BY <2>3, <3>1 DEF Vectors
  <2>5. v # New
    <3>1. PICK x \in Devices : row.ver[x] # 0
      BY <2>1 DEF Vectors, New
    <3>2. v[x] # 0
      BY <2>1, <2>3, <3>1 DEF Vectors
    <3>. QED  BY <3>2 DEF New
  <2>. HIDE DEF v
  <2>6. e \in Entries /\ e.ver = v /\ e.del = row.del /\ e.content = row.content
    BY <2>4 DEF Rows, Entries
  <2>7. row.content \in 0..MaxEdits /\ row.content # 0 /\ ~row.del
    BY <1>2, RowFields DEF Live
  <2>. HIDE DEF e
  <2>8. e \in Rows /\ Exists(e)
    BY <2>5, <2>6, <2>7 DEF Rows, WellFormed, Live, Exists
  <2>. QED  BY <1>2, <2>4, <2>6, <2>8
<1>3. \/ Joined(d, n, row, file) = row
      \/ Joined(d, n, row, file) = e /\ Live(row)
  BY DEF Joined
<1>. QED  BY <1>1, <1>2, <1>3

\* An entry with an older version than the row it replaces.
TurnsBack(new, old) == Exists(old) /\ Exists(new) /\ Compare(new.ver, old.ver) = -1

\* Three ways of writing a row that do not turn it back: the version stays,
\* is bumped, or grows in every counter.
LEMMA DoesNotTurnBack ==
    ASSUME NEW old \in Rows, NEW new \in Rows, NEW d \in Devices,
           \/ new.ver = old.ver
           \/ new.ver = Bump(old.ver, d)
           \/ \A x \in Devices : ~(new.ver[x] < old.ver[x])
    PROVE  ~TurnsBack(new, old)
<1>1. old.ver \in Vectors /\ new.ver \in Vectors
  BY RowFields
<1>2. CASE new.ver = old.ver
  BY <1>1, <1>2, CompareSwaps DEF TurnsBack
<1>3. CASE new.ver = Bump(old.ver, d)
  BY <1>1, <1>3, BumpDominates DEF TurnsBack
<1>4. CASE \A x \in Devices : ~(new.ver[x] < old.ver[x])
  BY <1>4 DEF TurnsBack, Compare
<1>. QED  BY <1>2, <1>3, <1>4

\* The winner of a name is a row of the device or of one of its views.
LEMMA WinnerType ==
    ASSUME TypeOK, NEW d \in Devices, NEW n \in Names, NEW g \in Winners(d, n)
    PROVE  g \in Rows
<1>. DEFINE views == [p \in Peers(d) |-> view[d][p][n]]
<1>1. IsFiniteSet(DOMAIN views)
  BY DevicesAreFinite, FS_Subset DEF Peers
<1>2. idx[d][n] \in Rows /\ \A p \in DOMAIN views : views[p] \in Rows
  BY DEF TypeOK, Peers
<1>3. g \in globalFrom(idx[d][n], views)
  BY DEF Winners, Best
<1>. HIDE DEF views
<1>. QED  BY <1>1, <1>2, <1>3, GlobalIsOneOf

----------------------------------------------------------------------------
(* Type correctness, one lemma for every group of actions.                 *)

USE FolderAssumption

LEMMA InitTypes == ASSUME Init PROVE TypeOK
<1>1. NoFile \in Files /\ NoFiles \in [Names -> Files]
  BY DEF NoFile, NoFiles, Files
<1>2. NoRows \in [Names -> Rows]
  BY NoEntryType DEF NoRows
<1>3. NoScan \in [on : BOOLEAN, verify : BOOLEAN, seen : [Names -> Files],
                  rows : [Names -> Rows]]
  BY <1>1, <1>2 DEF NoScan
<1>4. NoLink \in [phase : 0..2, first : Devices \cup {0}, planned : BOOLEAN]
  BY DEF NoLink
<1>5. disk \in [Devices -> [Names -> Files]] /\ idx \in [Devices -> [Names -> Rows]]
  BY <1>1, <1>2 DEF Init
<1>6. view \in [Devices -> [Devices -> [Names -> Rows]]]
  BY <1>2 DEF Init
<1>7. scan \in [Devices -> [on : BOOLEAN, verify : BOOLEAN, seen : [Names -> Files],
                            rows : [Names -> Rows]]]
  BY <1>3 DEF Init
<1>8. /\ told \in [Devices -> [Devices -> SUBSET Names]]
      /\ snap \in [Devices -> [Devices -> SUBSET Names]]
      /\ met \in [Devices -> [Devices -> BOOLEAN]]
  BY DEF Init
<1>9. /\ link \in [Links -> [phase : 0..2, first : Devices \cup {0}, planned : BOOLEAN]]
      /\ \A l \in Links : link[l] = NoLink
      /\ needs \in [Links -> SUBSET Names]
      /\ job \in [Links -> [Names -> Rows]]
  BY <1>2, <1>4 DEF Init
<1>10. /\ paused \subseteq Devices /\ saved \cup gone \subseteq 1..MaxEdits
       /\ edits \in 0..MaxEdits /\ newest \in 0..edits /\ drops \in 0..MaxDrops
  BY DEF Init
<1>. QED  BY <1>5, <1>6, <1>7, <1>8, <1>9, <1>10 DEF TypeOK

\* What the actions of the user write.
DiskTypes ==
    /\ disk \in [Devices -> [Names -> Files]]
    /\ saved \cup gone \subseteq 1..MaxEdits
    /\ edits \in 0..MaxEdits
    /\ newest \in 0..edits

FileFields ==
    \A d \in Devices, n \in Names :
        /\ disk[d][n] \in Files /\ disk[d][n].content \in 0..MaxEdits
        /\ disk[d][n].time \in Nat

LEMMA FilesAreFiles == ASSUME TypeOK PROVE FileFields
<1>1. ASSUME NEW d \in Devices, NEW n \in Names PROVE disk[d][n] \in Files
  BY DEF TypeOK
<1>. QED  BY <1>1 DEF FileFields, Files

LEMMA EditTypes ==
    ASSUME TypeOK, NEW d \in Devices, NEW n \in Names, Edit(d, n)
    PROVE  TypeOK'
<1>. USE FilesAreFiles DEF FileFields
<1>1. DiskTypes'
  <2>1. ASSUME NEW c \in 1..(newest + 1), NEW t \in Times, UserWrite(d, n, c, t)
        PROVE  DiskTypes'
    <3>1. newest \in 0..edits /\ edits \in 0..MaxEdits /\ edits < MaxEdits
          /\ edits' = edits + 1 /\ newest' = IF c > newest THEN c ELSE newest
      BY <2>1 DEF TypeOK, UserWrite, MayEdit
    <3>2. [content |-> c, time |-> t] \in Files
      <4>1. edits \in Nat /\ newest \in Nat /\ newest + 1 <= MaxEdits /\ MaxEdits \in Nat
        BY <3>1
      <4>2. c \in 0..MaxEdits
        BY <4>1
      <4>3. t \in Nat
        BY <2>1
      <4>. QED  BY <4>2, <4>3 DEF Files
    <3>3. disk' = [disk EXCEPT ![d][n] = [content |-> c, time |-> t]]
          /\ disk \in [Devices -> [Names -> Files]]
      BY <2>1 DEF UserWrite, TypeOK
    <3>4. disk' \in [Devices -> [Names -> Files]]
      BY <3>2, <3>3
    <3>5. gone' = (gone \cup {disk[d][n].content}) \ {0} /\ saved' = saved
          /\ saved \cup gone \subseteq 1..MaxEdits
      BY <2>1 DEF UserWrite, TypeOK
    <3>6. saved' \cup gone' \subseteq 1..MaxEdits
      BY <3>5
    <3>7. edits' \in 0..MaxEdits /\ newest' \in 0..edits'
      BY <3>1
    <3>. QED  BY <3>4, <3>6, <3>7 DEF DiskTypes
  <2>2. ASSUME UserDelete(d, n) PROVE DiskTypes'
    <3>1. newest \in 0..edits /\ edits \in 0..MaxEdits /\ edits < MaxEdits
          /\ edits' = edits + 1 /\ newest' = newest
      BY <2>2 DEF TypeOK, UserDelete, MayEdit
    <3>2. disk' = [disk EXCEPT ![d][n] = NoFile] /\ disk \in [Devices -> [Names -> Files]]
          /\ NoFile \in Files
      BY <2>2 DEF UserDelete, TypeOK, Files, NoFile
    <3>3. disk' \in [Devices -> [Names -> Files]]
      BY <3>2
    <3>4. gone' = gone \cup {disk[d][n].content} /\ saved' = saved
          /\ saved \cup gone \subseteq 1..MaxEdits /\ disk[d][n].content # 0
      BY <2>2 DEF UserDelete, OnDisk, TypeOK
    <3>5. saved' \cup gone' \subseteq 1..MaxEdits
      <4>1. disk[d][n].content \in 1..MaxEdits
        BY <3>4
      <4>. QED  BY <3>4, <4>1
    <3>. QED  BY <3>1, <3>3, <3>5 DEF DiskTypes
  <2>3. ASSUME NEW g \in Names, UserRename(d, n, g) PROVE DiskTypes'
    <3>1. newest \in 0..edits /\ edits \in 0..MaxEdits /\ edits < MaxEdits
          /\ edits' = edits + 1 /\ newest' = newest /\ saved' = saved /\ gone' = gone
          /\ saved \cup gone \subseteq 1..MaxEdits
      BY <2>3 DEF TypeOK, UserRename, MayEdit
    <3>2. disk' = [disk EXCEPT ![d] = [@ EXCEPT ![g] = disk[d][n], ![n] = NoFile]]
          /\ disk \in [Devices -> [Names -> Files]] /\ NoFile \in Files
      BY <2>3 DEF UserRename, TypeOK, Files, NoFile
    <3>3. disk' \in [Devices -> [Names -> Files]]
      BY <3>2
    <3>. QED  BY <3>1, <3>3 DEF DiskTypes
  <2>4. ASSUME NEW t \in Times, UserTouch(d, n, t) PROVE DiskTypes'
    <3>1. newest \in 0..edits /\ edits \in 0..MaxEdits /\ edits < MaxEdits
          /\ edits' = edits + 1 /\ newest' = newest /\ saved' = saved /\ gone' = gone
          /\ saved \cup gone \subseteq 1..MaxEdits
      BY <2>4 DEF TypeOK, UserTouch, MayEdit
    <3>2. disk' = [disk EXCEPT ![d][n].time = t] /\ disk \in [Devices -> [Names -> Files]]
      BY <2>4 DEF UserTouch, TypeOK
    <3>3. [disk[d][n] EXCEPT !.time = t] \in Files
      BY DEF Files
    <3>4. disk' \in [Devices -> [Names -> Files]]
      BY <3>2, <3>3
    <3>. QED  BY <3>1, <3>4 DEF DiskTypes
  <2>. QED  BY <2>1, <2>2, <2>3, <2>4 DEF Edit
<1>2. UNCHANGED <<scan, indexVars, view, met, linkVars, paused, drops>>
  BY DEF Edit, UserWrite, UserDelete, UserRename, UserTouch
<1>. QED  BY <1>1, <1>2 DEF TypeOK, DiskTypes, indexVars, linkVars

Scans == [on : BOOLEAN, verify : BOOLEAN, seen : [Names -> Files], rows : [Names -> Rows]]

\* What a scan leaves in a row is a row, and one that is not rewritten keeps
\* its vector.
LEMMA AppliedFacts ==
    ASSUME TypeOK, NEW d \in Devices, NEW s \in Scans, NEW n \in Names
    PROVE  /\ Applied(d, s, n) \in Rows
           /\ n \notin (Deleted(s) \cup Added(s) \cup Differs(s)) \ Touched(s)
                => Applied(d, s, n).ver = idx[d][n].ver
           /\ ~s.verify =>
                \/ Applied(d, s, n) = idx[d][n]
                \/ /\ n \in (Deleted(s) \cup Added(s) \cup Differs(s)) \ Touched(s)
                   /\ Exists(Applied(d, s, n))
<1>. DEFINE row == idx[d][n]
            source == {f \in Names : <<f, n>> \in Renames(s) /\ RenameHolds(d, s, f, n)}
            changed == (Deleted(s) \cup Added(s) \cup Differs(s)) \ Touched(s)
            result == Applied(d, s, n)
<1>1. row \in Rows /\ \A f \in Names : idx[d][f] \in Rows
  BY DEF TypeOK
<1>2. s.seen[n] \in Files /\ s.seen[n].time \in Nat /\ s.seen[n].content \in Nat
  BY DEF Scans, Files
<1>3. source # {} => n \in Added(s)
  BY DEF Renames, Fresh
<1>4. /\ Touched(s) \subseteq Differs(s)
      /\ Deleted(s) \cap Touched(s) = {} /\ Added(s) \cap Touched(s) = {}
      /\ n \in Added(s) \cup Differs(s) => s.seen[n].content # 0
  BY DEF Touched, Differs, Deleted, Added, Seen
<1>5. CASE n \in Deleted(s)
  <2>1. result = Tombstone(NewVersion(d, row))
    BY <1>5 DEF Applied
  <2>2. result \in Rows /\ Exists(result)
    <3>1. NewVersion(d, row) \in Vectors /\ NewVersion(d, row) # New
      BY <1>1, NewVersionType
    <3>2. Exists(Tombstone(NewVersion(d, row)))
      BY <3>1 DEF Exists, Tombstone
    <3>. HIDE DEF result
    <3>. QED  BY <2>1, <3>1, <3>2, TombstoneType
  <2>. QED  BY <1>4, <1>5, <2>2
<1>6. CASE n \notin Deleted(s) /\ source # {}
  <2>1. PICK f \in Names : result = FileEntry(NewVersion(d, idx[d][f]), s.seen[n])
    <3>1. (CHOOSE f \in source : TRUE) \in source
      BY <1>6
    <3>2. result = FileEntry(NewVersion(d, idx[d][CHOOSE f \in source : TRUE]), s.seen[n])
      BY <1>6 DEF Applied
    <3>. HIDE DEF result
    <3>. QED  BY <3>1, <3>2
  <2>2. result \in Rows /\ Exists(result)
    <3>1. NewVersion(d, idx[d][f]) \in Vectors /\ NewVersion(d, idx[d][f]) # New
      BY <1>1, NewVersionType
    <3>2. Exists(FileEntry(NewVersion(d, idx[d][f]), s.seen[n]))
      BY <3>1 DEF Exists, FileEntry
    <3>. HIDE DEF result
    <3>. QED  BY <1>2, <1>3, <1>4, <1>6, <2>1, <3>1, <3>2, FileEntryType
  <2>. QED  BY <1>3, <1>4, <1>6, <2>2
<1>7. CASE n \notin Deleted(s) /\ source = {} /\ n \in Touched(s)
  <2>1. result = IF Exists(row)
                 THEN [row EXCEPT !.time = s.seen[n].time, !.size = SizeOf(s.seen[n].content)]
                 ELSE row
    BY <1>7 DEF Applied
  <2>2. SizeOf(s.seen[n].content) \in Nat
    BY <1>2, SizeType
  <2>3. result \in Rows
    <3>. HIDE DEF result
    <3>. QED  BY <1>1, <1>2, <2>1, <2>2, RestampedType
  <2>4. result.ver = row.ver
    <3>. HIDE DEF result
    <3>. QED  BY <1>1, <2>1 DEF Rows, Entries
  <2>5. s.verify
    BY <1>7 DEF Touched
  <2>. QED  BY <2>3, <2>4, <2>5
<1>8. CASE n \notin Deleted(s) /\ source = {} /\ n \notin Touched(s)
           /\ n \in Added(s) \cup Differs(s)
  <2>1. result = FileEntry(NewVersion(d, row), s.seen[n])
    BY <1>8 DEF Applied
  <2>2. result \in Rows /\ Exists(result)
    <3>1. NewVersion(d, row) \in Vectors /\ NewVersion(d, row) # New
      BY <1>1, NewVersionType
    <3>2. Exists(FileEntry(NewVersion(d, row), s.seen[n]))
      BY <3>1 DEF Exists, FileEntry
    <3>. HIDE DEF result
    <3>. QED  BY <1>2, <1>4, <1>8, <2>1, <3>1, <3>2, FileEntryType
  <2>. QED  BY <1>8, <2>2
<1>9. CASE n \notin Deleted(s) /\ source = {} /\ n \notin Touched(s)
           /\ n \notin Added(s) \cup Differs(s)
  <2>1. result = row
    BY <1>9 DEF Applied
  <2>. QED  BY <1>1, <2>1
<1>. QED  BY <1>5, <1>6, <1>7, <1>8, <1>9

\* Rows that are rewritten leave the markers.
LEMMA RewrittenTypes ==
    ASSUME TypeOK, NEW d \in Devices, NEW S, Rewritten(d, S)
    PROVE  /\ told' \in [Devices -> [Devices -> SUBSET Names]]
           /\ snap' \in [Devices -> [Devices -> SUBSET Names]]
<1>1. /\ told \in [Devices -> [Devices -> SUBSET Names]]
      /\ snap \in [Devices -> [Devices -> SUBSET Names]]
  BY DEF TypeOK
<1>2. /\ [p \in Devices |-> told[d][p] \ S] \in [Devices -> SUBSET Names]
      /\ [p \in Devices |-> snap[d][p] \ S] \in [Devices -> SUBSET Names]
  BY <1>1
<1>3. /\ told' = [told EXCEPT ![d] = [p \in Devices |-> told[d][p] \ S]]
      /\ snap' = [snap EXCEPT ![d] = [p \in Devices |-> snap[d][p] \ S]]
  BY DEF Rewritten
<1>. QED  BY <1>1, <1>2, <1>3

LEMMA ScanTypes ==
    ASSUME TypeOK, NEW d \in Devices, ScanStep(d)
    PROVE  TypeOK'
<1>1. scan \in [Devices -> Scans] /\ idx \in [Devices -> [Names -> Rows]]
      /\ disk \in [Devices -> [Names -> Files]]
  BY DEF TypeOK, Scans
<1>2. ASSUME NEW verify \in BOOLEAN, ScanWalk(d, verify) PROVE TypeOK'
  <2>1. [on |-> TRUE, verify |-> verify, seen |-> disk[d], rows |-> idx[d]] \in Scans
    BY <1>1 DEF Scans
  <2>2. scan' = [scan EXCEPT ![d] = [on |-> TRUE, verify |-> verify, seen |-> disk[d],
                                     rows |-> idx[d]]]
    BY <1>2 DEF ScanWalk
  <2>3. scan' \in [Devices -> Scans]
    BY <1>1, <2>1, <2>2
  <2>4. UNCHANGED <<diskVars, indexVars, view, met, linkVars, paused, drops>>
    BY <1>2 DEF ScanWalk
  <2>. QED  BY <2>3, <2>4 DEF TypeOK, Scans, diskVars, indexVars, linkVars
<1>3. ASSUME ScanApply(d) PROVE TypeOK'
  <2>. DEFINE s == scan[d]
              rows == [n \in Names |-> Applied(d, s, n)]
  <2>1. s \in Scans
    BY <1>1
  <2>2. idx' = [idx EXCEPT ![d] = rows]
    BY <1>3 DEF ScanApply
  <2>3. rows \in [Names -> Rows]
    <3>. HIDE DEF s
    <3>. QED  BY <2>1, AppliedFacts
  <2>. HIDE DEF rows
  <2>4. idx' \in [Devices -> [Names -> Rows]]
    BY <1>1, <2>2, <2>3
  <2>5. /\ told' \in [Devices -> [Devices -> SUBSET Names]]
        /\ snap' \in [Devices -> [Devices -> SUBSET Names]]
    BY <1>3, RewrittenTypes DEF ScanApply
  <2>6. NoScan \in Scans
    BY NoEntryType DEF NoScan, Scans, NoFiles, NoFile, NoRows, Files
  <2>7. scan' \in [Devices -> Scans]
    <3>1. scan' = [scan EXCEPT ![d] = NoScan]
      BY <1>3 DEF ScanApply
    <3>. QED  BY <1>1, <2>6, <3>1
  <2>8. UNCHANGED <<diskVars, view, met, linkVars, paused, drops>>
    BY <1>3 DEF ScanApply
  <2>. QED  BY <2>4, <2>5, <2>7, <2>8 DEF TypeOK, Scans, diskVars, linkVars
<1>. QED  BY <1>2, <1>3 DEF ScanStep

\* The parts of the type invariant that sessions and failures write.
LinkTypes ==
    /\ link \in [Links -> [phase : 0..2, first : Devices \cup {0}, planned : BOOLEAN]]
    /\ \A l \in Links : link[l] = NoLink \/ (link[l].phase # 0 /\ link[l].first \in l)
    /\ needs \in [Links -> SUBSET Names]
    /\ job \in [Links -> [Names -> Rows]]

LEMMA NothingTypes ==
    /\ NoRows \in [Names -> Rows]
    /\ NoScan \in Scans
    /\ NoLink \in [phase : 0..2, first : Devices \cup {0}, planned : BOOLEAN]
BY NoEntryType DEF NoScan, Scans, NoFiles, NoFile, NoRows, Files, NoLink

LEMMA BrokenTypes ==
    ASSUME TypeOK, NEW L, Broken(L)
    PROVE  LinkTypes'
<1>1. /\ link' = [l \in Links |-> IF l \in L THEN NoLink ELSE link[l]]
      /\ needs' = [l \in Links |-> IF l \in L THEN {} ELSE needs[l]]
      /\ job' = [l \in Links |-> IF l \in L THEN NoRows ELSE job[l]]
  BY DEF Broken
<1>2. LinkTypes
  BY DEF TypeOK, LinkTypes
<1>3. link' \in [Links -> [phase : 0..2, first : Devices \cup {0}, planned : BOOLEAN]]
  BY <1>1, <1>2, NothingTypes DEF LinkTypes
<1>4. \A l \in Links : link'[l] = NoLink \/ (link'[l].phase # 0 /\ link'[l].first \in l)
  BY <1>1, <1>2 DEF LinkTypes
<1>5. needs' \in [Links -> SUBSET Names] /\ job' \in [Links -> [Names -> Rows]]
  BY <1>1, <1>2, NothingTypes DEF LinkTypes
<1>. QED  BY <1>3, <1>4, <1>5 DEF LinkTypes

LEMMA UnsnappedType ==
    ASSUME TypeOK, NEW L
    PROVE  Unsnapped(snap, L) \in [Devices -> [Devices -> SUBSET Names]]
BY DEF TypeOK, Unsnapped

LEMMA UnmetType ==
    ASSUME TypeOK, NEW d \in Devices
    PROVE  Unmet(d) \in [Devices -> [Devices -> BOOLEAN]]
<1>1. ASSUME NEW x \in Devices, NEW y \in Devices
      PROVE  (IF y = d THEN FALSE ELSE met[x][y]) \in BOOLEAN
  <2>1. met[x][y] \in BOOLEAN
    BY DEF TypeOK
  <2>. QED  BY <2>1
<1>. QED  BY <1>1 DEF Unmet

LEMMA FailureTypes ==
    ASSUME TypeOK,
           \/ \E l \in Links : Drop(l)
           \/ \E d \in Devices :
                Restart(d) \/ Rebuild(d) \/ Prune(d) \/ Pause(d) \/ Resume(d)
    PROVE  TypeOK'
<1>1. ASSUME NEW l \in Links, Drop(l) PROVE TypeOK'
  <2>1. LinkTypes' /\ snap' \in [Devices -> [Devices -> SUBSET Names]]
    BY <1>1, BrokenTypes, UnsnappedType DEF Drop
  <2>2. drops' \in 0..MaxDrops /\ UNCHANGED <<diskVars, scan, idx, told, view, met, paused>>
    BY <1>1 DEF Drop, TypeOK
  <2>. QED  BY <2>1, <2>2 DEF TypeOK, LinkTypes, diskVars
<1>2. ASSUME NEW d \in Devices, Restart(d) PROVE TypeOK'
  <2>1. LinkTypes' /\ snap' \in [Devices -> [Devices -> SUBSET Names]]
    BY <1>2, BrokenTypes, UnsnappedType DEF Restart
  <2>2. drops' \in 0..MaxDrops /\ UNCHANGED <<diskVars, idx, told, paused>>
    BY <1>2 DEF Restart, TypeOK
  <2>3. view' \in [Devices -> [Devices -> [Names -> Rows]]]
    <3>1. view' = [view EXCEPT ![d] = [p \in Devices |-> NoRows]]
      BY <1>2 DEF Restart
    <3>. QED  BY <3>1, NothingTypes DEF TypeOK
  <2>4. met' \in [Devices -> [Devices -> BOOLEAN]]
    BY <1>2, UnmetType DEF Restart
  <2>5. scan' \in [Devices -> Scans]
    <3>1. scan' = [scan EXCEPT ![d] = NoScan] /\ scan \in [Devices -> Scans]
      BY <1>2 DEF Restart, TypeOK, Scans
    <3>. QED  BY <3>1, NothingTypes
  <2>. QED  BY <2>1, <2>2, <2>3, <2>4, <2>5 DEF TypeOK, LinkTypes, diskVars, Scans
<1>3. ASSUME NEW d \in Devices, Rebuild(d) PROVE TypeOK'
  <2>1. LinkTypes' /\ snap' \in [Devices -> [Devices -> SUBSET Names]]
    BY <1>3, BrokenTypes, UnsnappedType DEF Rebuild
  <2>2. drops' \in 0..MaxDrops /\ UNCHANGED <<diskVars, paused>>
    BY <1>3 DEF Rebuild, TypeOK
  <2>3. view' \in [Devices -> [Devices -> [Names -> Rows]]]
    <3>1. view' = [view EXCEPT ![d] = [p \in Devices |-> NoRows]]
      BY <1>3 DEF Rebuild
    <3>. QED  BY <3>1, NothingTypes DEF TypeOK
  <2>4. met' \in [Devices -> [Devices -> BOOLEAN]]
    <3>1. Unmet(d) \in [Devices -> [Devices -> BOOLEAN]]
      BY UnmetType
    <3>2. met' = [Unmet(d) EXCEPT ![d] = [p \in Devices |-> FALSE]]
      BY <1>3 DEF Rebuild
    <3>. QED  BY <3>1, <3>2
  <2>5. scan' \in [Devices -> Scans]
    <3>1. scan' = [scan EXCEPT ![d] = NoScan] /\ scan \in [Devices -> Scans]
      BY <1>3 DEF Rebuild, TypeOK, Scans
    <3>. QED  BY <3>1, NothingTypes
  <2>6. told' \in [Devices -> [Devices -> SUBSET Names]]
    BY <1>3 DEF Rebuild, TypeOK
  <2>7. idx' \in [Devices -> [Names -> Rows]]
    <3>1. ASSUME NEW n \in Names PROVE Rebuilt(d, n) \in Rows
      <4>1. CASE OnDisk(d, n)
        <5>1. disk[d][n] \in Files /\ disk[d][n].content # 0
          BY <4>1, FilesAreFiles DEF FileFields, OnDisk
        <5>2. Bump(New, d) \in Vectors /\ Bump(New, d) # New
          BY NewType, BumpType
        <5>. QED  BY <4>1, <5>1, <5>2, FileEntryType DEF Rebuilt
      <4>2. CASE ~OnDisk(d, n)
        BY <4>2, NoEntryType DEF Rebuilt
      <4>. QED  BY <4>1, <4>2
    <3>2. idx' = [idx EXCEPT ![d] = [n \in Names |-> Rebuilt(d, n)]]
      BY <1>3 DEF Rebuild
    <3>. QED  BY <3>1, <3>2 DEF TypeOK
  <2>. QED  BY <2>1, <2>2, <2>3, <2>4, <2>5, <2>6, <2>7 DEF TypeOK, LinkTypes, diskVars, Scans
<1>4. ASSUME NEW d \in Devices, Prune(d) PROVE TypeOK'
  <2>1. idx' = [idx EXCEPT ![d] = [n \in Names |-> IF Prunable(d, n) THEN NoEntry
                                                     ELSE idx[d][n]]]
        /\ idx \in [Devices -> [Names -> Rows]]
    BY <1>4 DEF Prune, TypeOK
  <2>2. idx' \in [Devices -> [Names -> Rows]]
    BY <2>1, NoEntryType
  <2>3. UNCHANGED <<diskVars, scan, told, snap, view, met, linkVars, paused, drops>>
    BY <1>4 DEF Prune
  <2>. QED  BY <2>2, <2>3 DEF TypeOK, diskVars, linkVars
<1>5. ASSUME NEW d \in Devices, Pause(d) \/ Resume(d) PROVE TypeOK'
  <2>1. /\ UNCHANGED <<diskVars, scan, indexVars, view, met, linkVars>>
        /\ drops' \in 0..MaxDrops /\ paused' \subseteq Devices
    BY <1>5 DEF Pause, Resume, TypeOK
  <2>. QED  BY <2>1 DEF TypeOK, diskVars, indexVars, linkVars
<1>. QED  BY <1>1, <1>2, <1>3, <1>4, <1>5

\* What the moves of a peer leave behind.
LEMMA MovedTypes ==
    ASSUME TypeOK, NEW d \in Devices, NEW p \in Devices, NEW moves \in SUBSET (Names \X Names),
           moves \subseteq Moves(d, p)
    PROVE  /\ MovedFiles(d, p, moves) \in [Names -> Files]
           /\ MovedRows(d, p, moves, MovedFiles(d, p, moves)) \in [Names -> Rows]
           /\ \A n \in Names :
                 LET e == MovedRows(d, p, moves, MovedFiles(d, p, moves))[n] IN
                 e = idx[d][n] \/ Exists(e)
<1>. DEFINE files == MovedFiles(d, p, moves)
<1>1. ASSUME NEW n \in Names PROVE files[n] \in Files
  <2>1. CASE \E m \in moves : m[1] = n
    BY <2>1 DEF MovedFiles, NoFile, Files
  <2>2. CASE ~(\E m \in moves : m[1] = n) /\ (\E m \in moves : m[2] = n)
    <3>. DEFINE f == (CHOOSE m \in moves : m[2] = n)[1]
    <3>1. f \in Names
      <4>1. (CHOOSE m \in moves : m[2] = n) \in moves
        BY <2>2
      <4>. QED  BY <4>1
    <3>2. files[n] = [content |-> disk[d][f].content, time |-> view[d][p][n].time]
      BY <2>2 DEF MovedFiles
    <3>. HIDE DEF f, files
    <3>3. disk[d][f].content \in 0..MaxEdits
      BY <3>1, FilesAreFiles DEF FileFields
    <3>4. view[d][p][n].time \in Nat
      BY RowFields DEF TypeOK
    <3>. QED  BY <3>2, <3>3, <3>4 DEF Files
  <2>3. CASE ~(\E m \in moves : m[1] = n) /\ ~(\E m \in moves : m[2] = n)
    BY <2>3, FilesAreFiles DEF MovedFiles, FileFields
  <2>. QED  BY <2>1, <2>2, <2>3
<1>2. files \in [Names -> Files]
  BY <1>1 DEF MovedFiles
<1>. HIDE DEF files
<1>. DEFINE rows == MovedRows(d, p, moves, files)
<1>3. ASSUME NEW n \in Names PROVE rows[n] \in Rows /\ (rows[n] = idx[d][n] \/ Exists(rows[n]))
  <2>1. idx[d][n] \in Rows /\ view[d][p][n] \in Rows
    BY DEF TypeOK
  <2>2. CASE \E m \in moves : m[1] = n
    <3>1. rows[n] = Tombstone(Bump(idx[d][n].ver, d))
      BY <2>2 DEF MovedRows
    <3>2. Bump(idx[d][n].ver, d) \in Vectors /\ Bump(idx[d][n].ver, d) # New
      BY <2>1, RowFields, BumpType
    <3>3. Exists(Tombstone(Bump(idx[d][n].ver, d)))
      BY <3>2 DEF Tombstone, Exists
    <3>. HIDE DEF rows
    <3>. QED  BY <3>1, <3>2, <3>3, TombstoneType
  <2>3. CASE ~(\E m \in moves : m[1] = n) /\ (\E m \in moves : m[2] = n)
    <3>1. rows[n] = [view[d][p][n] EXCEPT !.size = SizeOf(files[n].content)]
      BY <2>3 DEF MovedRows
    <3>2. SizeOf(files[n].content) \in Nat
      <4>1. files[n].content \in 0..MaxEdits
        BY <1>2 DEF Files
      <4>. QED  BY <4>1, SizeType
    <3>3. Exists(view[d][p][n])
      BY <2>3 DEF Moves, Live
    <3>4. Exists([view[d][p][n] EXCEPT !.size = SizeOf(files[n].content)])
      BY <2>1, <3>3 DEF Exists, Rows, Entries
    <3>. HIDE DEF rows
    <3>. QED  BY <2>1, <3>1, <3>2, <3>4, ResizedType
  <2>4. CASE ~(\E m \in moves : m[1] = n) /\ ~(\E m \in moves : m[2] = n)
    BY <2>1, <2>4 DEF MovedRows
  <2>. QED  BY <2>2, <2>3, <2>4
<1>4. rows \in [Names -> Rows] /\ \A n \in Names : rows[n] = idx[d][n] \/ Exists(rows[n])
  BY <1>3 DEF MovedRows
<1>. QED  BY <1>2, <1>4 DEF files

\* A move bumps its source, and its target has no row.
LEMMA MovedRow ==
    ASSUME NEW d, NEW p, NEW n \in Names, NEW files, NEW moves, moves = AppliedMoves(d, p),
           NEW row, row = MovedRows(d, p, moves, files)[n]
    PROVE  \/ row = idx[d][n]
           \/ row = Tombstone(Bump(idx[d][n].ver, d))
           \/ ~Exists(idx[d][n])
<1>1. CASE \E m \in moves : m[1] = n
  BY <1>1 DEF MovedRows
<1>2. CASE \E m \in moves : m[2] = n
  BY <1>2 DEF AppliedMoves
<1>3. CASE ~(\E m \in moves : m[1] = n) /\ ~(\E m \in moves : m[2] = n)
  BY <1>3 DEF MovedRows
<1>. QED  BY <1>1, <1>2, <1>3

LEMMA QuietDrops == ASSUME TypeOK, NEW d, Quiet(d) PROVE drops' \in 0..MaxDrops
BY DEF TypeOK, Quiet, Overtakes

\* The plan of a puller, with its parts named.
IsPlan(l, d, p, files, rows, S) ==
    /\ disk' = [disk EXCEPT ![d] = files]
    /\ idx' = [idx EXCEPT ![d] = rows]
    /\ Rewritten(d, {n \in Names : rows[n] # idx[d][n]})
    /\ needs' = [needs EXCEPT ![l] = S]
    /\ \A n \in Names : rows[n] = idx[d][n] \/ Exists(rows[n])
    /\ \A n \in Names : ~TurnsBack(rows[n], idx[d][n])

LEMMA PlanFacts ==
    ASSUME TypeOK, NEW l \in Links, Plan(l)
    PROVE  \E files \in [Names -> Files], rows \in [Names -> Rows], S \in SUBSET Names :
              IsPlan(l, Puller(l), Server(l), files, rows, S)
<1>. DEFINE d == Puller(l)
            p == Server(l)
            moves == AppliedMoves(d, p)
            files == MovedFiles(d, p, moves)
            moved == MovedRows(d, p, moves, files)
            rows == JoinedRows(d, moved, files)
<1>1. link[l].phase # 0
  BY DEF Plan
<1>2. d \in Devices /\ p \in Devices
  BY <1>1, SessionEnds
<1>3. moves \in SUBSET (Names \X Names) /\ moves \subseteq Moves(d, p)
  BY DEF AppliedMoves, Moves
<1>4. /\ files \in [Names -> Files] /\ moved \in [Names -> Rows]
      /\ \A n \in Names : moved[n] = idx[d][n] \/ Exists(moved[n])
  <2>. HIDE DEF d, p, moves
  <2>. QED  BY <1>2, <1>3, MovedTypes
<1>5. /\ rows \in [Names -> Rows]
      /\ \A n \in Names : rows[n] = idx[d][n] \/ Exists(rows[n])
  <2>. HIDE DEF moved, files, d
  <2>1. ASSUME NEW n \in Names
        PROVE  /\ Joined(d, n, moved[n], files[n]) \in Rows
               /\ \/ Joined(d, n, moved[n], files[n]) = moved[n]
                  \/ Exists(Joined(d, n, moved[n], files[n]))
    BY <1>2, <1>4, JoinedFacts
  <2>. QED  BY <1>4, <2>1 DEF JoinedRows
<1>51. ASSUME NEW n \in Names PROVE ~TurnsBack(rows[n], idx[d][n])
  <2>1. \/ moved[n] = idx[d][n]
        \/ moved[n] = Tombstone(Bump(idx[d][n].ver, d))
        \/ ~Exists(idx[d][n])
    BY MovedRow
  <2>. HIDE DEF moved, files, d
  <2>2. rows[n] = Joined(d, n, moved[n], files[n])
    BY DEF JoinedRows
  <2>3. idx[d][n] \in Rows /\ moved[n] \in Rows /\ rows[n] \in Rows
    BY <1>2, <1>4, <1>5 DEF TypeOK
  <2>. HIDE DEF rows
  <2>4. CASE moved[n] = idx[d][n]
    <3>1. \A x \in Devices : ~(rows[n].ver[x] < moved[n].ver[x])
      BY <1>2, <2>2, <2>3, JoinedFacts
    <3>. QED  BY <1>2, <2>3, <2>4, <3>1, DoesNotTurnBack
  <2>5. CASE moved[n] = Tombstone(Bump(idx[d][n].ver, d))
    <3>1. ~Live(moved[n])
      BY <2>5 DEF Live, Tombstone
    <3>2. rows[n] = moved[n]
      BY <2>2, <3>1 DEF Joined
    <3>3. rows[n].ver = Bump(idx[d][n].ver, d)
      BY <2>5, <3>2 DEF Tombstone
    <3>. QED  BY <1>2, <2>3, <3>3, DoesNotTurnBack
  <2>6. CASE ~Exists(idx[d][n])
    BY <2>6 DEF TurnsBack
  <2>. QED  BY <2>1, <2>4, <2>5, <2>6
<1>6. /\ disk' = [disk EXCEPT ![d] = files]
      /\ idx' = [idx EXCEPT ![d] = rows]
      /\ Rewritten(d, {n \in Names : rows[n] # idx[d][n]})
      /\ \E S \in Wanted(d, rows) : needs' = [needs EXCEPT ![l] = IF d \in paused THEN {} ELSE S]
  <2>. DEFINE Body(x, fl, rw) ==
                /\ disk' = [disk EXCEPT ![x] = fl]
                /\ idx' = [idx EXCEPT ![x] = rw]
                /\ Rewritten(x, {n \in Names : rw[n] # idx[x][n]})
                /\ \E S \in Wanted(x, rw) :
                     needs' = [needs EXCEPT ![l] = IF x \in paused THEN {} ELSE S]
  <2>1. \E x, y \in l :
           /\ x = d /\ y = p
           /\ \E mv \in {AppliedMoves(x, y)} : \E fl \in {MovedFiles(x, y, mv)} :
              \E md \in {MovedRows(x, y, mv, fl)} : \E rw \in {JoinedRows(x, md, fl)} :
                 Body(x, fl, rw)
    BY Zenon DEF Plan
  <2>. HIDE DEF Body
  <2>2. Body(d, files, rows)
    <3>. HIDE DEF d, p
    <3>. QED  BY <2>1
  <2>. QED  BY <2>2 DEF Body
<1>. HIDE DEF d, p, files, rows
<1>7. \E S \in SUBSET Names : needs' = [needs EXCEPT ![l] = S]
  <2>1. PICK S \in Wanted(d, rows) :
           needs' = [needs EXCEPT ![l] = IF d \in paused THEN {} ELSE S]
    BY <1>6
  <2>2. (IF d \in paused THEN {} ELSE S) \in SUBSET Names
    BY DEF Wanted
  <2>. QED  BY <2>1, <2>2
<1>8. PICK S \in SUBSET Names : needs' = [needs EXCEPT ![l] = S]
  BY <1>7
<1>9. IsPlan(l, d, p, files, rows, S)
  BY <1>5, <1>51, <1>6, <1>8 DEF IsPlan
<1>. QED  BY <1>4, <1>5, <1>9 DEF d, p

LEMMA PlanTypes ==
    ASSUME TypeOK, NEW l \in Links, Plan(l)
    PROVE  TypeOK'
<1>. DEFINE d == Puller(l)
<1>1. PICK files \in [Names -> Files], rows \in [Names -> Rows], S \in SUBSET Names :
         IsPlan(l, d, Server(l), files, rows, S)
  BY PlanFacts
<1>2. d \in Devices /\ link[l].phase # 0 /\ Quiet(d)
  BY SessionEnds DEF Plan
<1>. HIDE DEF d
<1>3. disk' \in [Devices -> [Names -> Files]]
  BY <1>1 DEF IsPlan, TypeOK
<1>4. idx' \in [Devices -> [Names -> Rows]]
  BY <1>1 DEF IsPlan, TypeOK
<1>5. /\ told' \in [Devices -> [Devices -> SUBSET Names]]
      /\ snap' \in [Devices -> [Devices -> SUBSET Names]]
  BY <1>1, <1>2, RewrittenTypes DEF IsPlan
<1>6. needs' \in [Links -> SUBSET Names]
  BY <1>1 DEF IsPlan, TypeOK
<1>7. drops' \in 0..MaxDrops
  BY <1>2, QuietDrops
<1>8. /\ link' \in [Links -> [phase : 0..2, first : Devices \cup {0}, planned : BOOLEAN]]
      /\ \A k \in Links : link'[k] = NoLink \/ (link'[k].phase # 0 /\ link'[k].first \in k)
  <2>1. /\ link' = [link EXCEPT ![l].planned = TRUE]
        /\ link \in [Links -> [phase : 0..2, first : Devices \cup {0}, planned : BOOLEAN]]
        /\ \A k \in Links : link[k] = NoLink \/ (link[k].phase # 0 /\ link[k].first \in k)
    BY DEF Plan, TypeOK
  <2>2. link[l].first \in l
    BY <1>2, <2>1 DEF NoLink
  <2>3. \A k \in Links : k # l => link'[k] = link[k]
    BY <2>1
  <2>4. link'[l].phase = link[l].phase /\ link'[l].first = link[l].first
    BY <2>1
  <2>5. \A k \in Links : link'[k] = NoLink \/ (link'[k].phase # 0 /\ link'[k].first \in k)
    BY <1>2, <2>1, <2>2, <2>3, <2>4
  <2>6. link' \in [Links -> [phase : 0..2, first : Devices \cup {0}, planned : BOOLEAN]]
    <3>1. [link[l] EXCEPT !.planned = TRUE]
            \in [phase : 0..2, first : Devices \cup {0}, planned : BOOLEAN]
      <4>1. link[l] \in [phase : 0..2, first : Devices \cup {0}, planned : BOOLEAN]
        BY <2>1
      <4>. QED  BY <4>1
    <3>. QED  BY <2>1, <3>1
  <2>. QED  BY <2>5, <2>6
<1>9. UNCHANGED <<saved, gone, newest, edits, scan, view, met, job, paused>>
  BY DEF Plan
<1>. QED  BY <1>3, <1>4, <1>5, <1>6, <1>7, <1>8, <1>9 DEF TypeOK

LEMMA OpenTypes ==
    ASSUME TypeOK, NEW l \in Links, NEW d \in l, OpenLink(l, d)
    PROVE  TypeOK'
<1>. DEFINE p == Other(l, d)
<1>1. d \in Devices /\ p \in Devices
  BY LinkFacts
<1>2. ASSUME NEW x \in Devices, NEW y \in Devices PROVE Exchanged(x, y) \in [Names -> Rows]
  BY DEF Exchanged, TypeOK
<1>3. /\ link' = [link EXCEPT ![l] = [phase |-> 1, first |-> d, planned |-> FALSE]]
      /\ view' = [view EXCEPT ![p][d] = Exchanged(d, p), ![d][p] = Exchanged(p, d)]
      /\ snap' = [snap EXCEPT ![d][p] = Names, ![p][d] = Names]
  BY DEF OpenLink
<1>. HIDE DEF p
<1>4. view' \in [Devices -> [Devices -> [Names -> Rows]]]
  BY <1>1, <1>2, <1>3 DEF TypeOK
<1>5. snap' \in [Devices -> [Devices -> SUBSET Names]]
  BY <1>1, <1>3 DEF TypeOK
<1>6. /\ link' \in [Links -> [phase : 0..2, first : Devices \cup {0}, planned : BOOLEAN]]
      /\ \A k \in Links : link'[k] = NoLink \/ (link'[k].phase # 0 /\ link'[k].first \in k)
  BY <1>1, <1>3 DEF TypeOK
<1>7. UNCHANGED <<diskVars, scan, idx, told, met, needs, job, paused, drops>>
  BY DEF OpenLink
<1>. QED  BY <1>4, <1>5, <1>6, <1>7 DEF TypeOK, diskVars

LEMMA RecordTypes ==
    ASSUME TypeOK, NEW d \in Devices, NEW p \in Devices, NEW n \in Names, NEW e \in Rows,
           Record(d, p, n, e)
    PROVE  /\ idx' \in [Devices -> [Names -> Rows]]
           /\ view' \in [Devices -> [Devices -> [Names -> Rows]]]
           /\ told' \in [Devices -> [Devices -> SUBSET Names]]
           /\ snap' \in [Devices -> [Devices -> SUBSET Names]]
<1>1. idx' = [idx EXCEPT ![d][n] = e] /\ view' = [view EXCEPT ![p][d][n] = e]
  BY DEF Record
<1>. QED  BY <1>1, RewrittenTypes DEF TypeOK, Record

LEMMA StartTypes ==
    ASSUME TypeOK, NEW l \in Links, NEW n \in Names, Start(l, n)
    PROVE  /\ link[l].phase # 0
           /\ Puller(l) \in Devices /\ Server(l) \in Devices /\ Puller(l) # Server(l)
           /\ needs' \in [Links -> SUBSET Names]
<1>1. link[l].phase # 0
  BY DEF TypeOK, Start, NoLink
<1>. QED  BY <1>1, SessionEnds DEF TypeOK, Start

LEMMA PullTypes ==
    ASSUME TypeOK, NEW l \in Links, NEW n \in Names,
           StartPull(l, n) \/ SkipPull(l, n) \/ AbandonPull(l, n)
    PROVE  TypeOK'
<1>. DEFINE d == Puller(l)
<1>1. ASSUME StartPull(l, n) PROVE TypeOK'
  <2>1. d \in Devices /\ needs' \in [Links -> SUBSET Names] /\ drops' \in 0..MaxDrops
    BY <1>1, StartTypes, QuietDrops DEF StartPull
  <2>2. PICK g \in Winners(d, n) :
           /\ job' = [job EXCEPT ![l][n] = g]
           /\ \/ UNCHANGED <<disk, saved>>
              \/ /\ OnDisk(d, n)
                 /\ disk' = [disk EXCEPT ![d][n] = NoFile]
                 /\ saved' = saved \cup {disk[d][n].content}
    BY <1>1 DEF StartPull
  <2>3. UNCHANGED <<gone, newest, edits, scan, indexVars, view, met, link, paused>>
    BY <1>1 DEF StartPull
  <2>. HIDE DEF d
  <2>4. job' \in [Links -> [Names -> Rows]]
    <3>1. g \in Rows
      BY <2>1, WinnerType
    <3>. QED  BY <2>2, <3>1 DEF TypeOK
  <2>5. disk' \in [Devices -> [Names -> Files]]
    <3>1. disk \in [Devices -> [Names -> Files]] /\ NoFile \in Files
      BY DEF TypeOK, NoFile, Files
    <3>. QED  BY <2>2, <3>1
  <2>6. saved' \cup gone' \subseteq 1..MaxEdits
    <3>1. disk[d][n].content \in 0..MaxEdits
      BY <2>1, FilesAreFiles DEF FileFields
    <3>2. UNCHANGED saved \/ (saved' = saved \cup {disk[d][n].content} /\ disk[d][n].content # 0)
      BY <2>2 DEF OnDisk
    <3>3. saved \cup gone \subseteq 1..MaxEdits /\ gone' = gone
      BY <2>3 DEF TypeOK
    <3>. QED  BY <3>1, <3>2, <3>3
  <2>. QED  BY <2>1, <2>3, <2>4, <2>5, <2>6 DEF TypeOK, indexVars
<1>2. ASSUME SkipPull(l, n) PROVE TypeOK'
  <2>1. needs' \in [Links -> SUBSET Names] /\ drops' \in 0..MaxDrops
    BY <1>2, StartTypes, QuietDrops DEF SkipPull
  <2>2. UNCHANGED <<diskVars, scan, indexVars, view, met, link, job, paused>>
    BY <1>2 DEF SkipPull
  <2>. QED  BY <2>1, <2>2 DEF TypeOK, diskVars, indexVars
<1>3. ASSUME AbandonPull(l, n) PROVE TypeOK'
  <2>1. job' \in [Links -> [Names -> Rows]]
    BY <1>3, NoEntryType DEF AbandonPull, TypeOK
  <2>2. UNCHANGED <<diskVars, scan, indexVars, view, met, link, needs, paused, drops>>
    BY <1>3 DEF AbandonPull
  <2>. QED  BY <2>1, <2>2 DEF TypeOK, diskVars, indexVars
<1>. QED  BY <1>1, <1>2, <1>3

\* The three endings of a deletion: announced only, failed, carried out.
LEMMA DeletionEndings ==
    ASSUME NEW l, NEW n, StartDeletion(l, n)
    PROVE  LET d == Puller(l)
               p == Server(l)
           IN  \/ UNCHANGED indexVars /\ view' = [view EXCEPT ![p][d][n] = idx[d][n]]
               \/ UNCHANGED <<indexVars, view>>
               \/ Record(d, p, n, Tombstone(Bump(idx[d][n].ver, d)))
BY DEF StartDeletion

LEMMA DeletionTypes ==
    ASSUME TypeOK, NEW l \in Links, NEW n \in Names, StartDeletion(l, n)
    PROVE  TypeOK'
<1>. DEFINE d == Puller(l)
            p == Server(l)
<1>1. /\ d \in Devices /\ p \in Devices
      /\ needs' \in [Links -> SUBSET Names] /\ drops' \in 0..MaxDrops
  BY StartTypes, QuietDrops DEF StartDeletion
<1>2. idx[d][n] \in Rows
  BY <1>1 DEF TypeOK
<1>3. /\ idx' \in [Devices -> [Names -> Rows]]
      /\ view' \in [Devices -> [Devices -> [Names -> Rows]]]
      /\ told' \in [Devices -> [Devices -> SUBSET Names]]
      /\ snap' \in [Devices -> [Devices -> SUBSET Names]]
  <2>1. CASE UNCHANGED indexVars /\ view' = [view EXCEPT ![p][d][n] = idx[d][n]]
    BY <1>1, <1>2, <2>1 DEF TypeOK, indexVars
  <2>2. CASE UNCHANGED <<indexVars, view>>
    BY <2>2 DEF TypeOK, indexVars
  <2>3. CASE Record(d, p, n, Tombstone(Bump(idx[d][n].ver, d)))
    <3>. HIDE DEF d, p
    <3>1. Tombstone(Bump(idx[d][n].ver, d)) \in Rows
      BY <1>1, <1>2, RowFields, BumpType, TombstoneType
    <3>. QED  BY <1>1, <2>3, <3>1, RecordTypes
  <2>. QED  BY <2>1, <2>2, <2>3, DeletionEndings
<1>4. /\ UNCHANGED saved \/ (saved' = saved \cup {disk[d][n].content} /\ OnDisk(d, n))
      /\ UNCHANGED disk \/ disk' = [disk EXCEPT ![d][n] = NoFile]
      /\ UNCHANGED <<gone, newest, edits, scan, met, link, job, paused>>
  BY DEF StartDeletion
<1>. HIDE DEF d, p
<1>5. disk' \in [Devices -> [Names -> Files]]
  <2>1. disk \in [Devices -> [Names -> Files]] /\ NoFile \in Files
    BY DEF TypeOK, NoFile, Files
  <2>. QED  BY <1>4, <2>1
<1>6. saved' \cup gone' \subseteq 1..MaxEdits
  <2>1. disk[d][n].content \in 0..MaxEdits
    BY <1>1, FilesAreFiles DEF FileFields
  <2>2. saved \cup gone \subseteq 1..MaxEdits /\ gone' = gone
    BY <1>4 DEF TypeOK
  <2>. QED  BY <1>4, <2>1, <2>2 DEF OnDisk
<1>. QED  BY <1>1, <1>3, <1>4, <1>5, <1>6 DEF TypeOK

LEMMA FinishTypes ==
    ASSUME TypeOK, NEW l \in Links, NEW n \in Names, FinishPull(l, n)
    PROVE  TypeOK'
<1>. DEFINE d == Puller(l)
            p == Server(l)
            e == [job[l][n] EXCEPT !.size = SizeOf(job[l][n].content)]
<1>1. link[l].phase # 0
  BY DEF FinishPull, TypeOK, NoLink
<1>2. d \in Devices /\ p \in Devices /\ drops' \in 0..MaxDrops
  BY <1>1, SessionEnds, QuietDrops DEF FinishPull
<1>3. job[l][n] \in Rows
  BY DEF TypeOK
<1>4. e \in Rows
  <2>1. SizeOf(job[l][n].content) \in Nat
    BY <1>3, RowFields, SizeType
  <2>. QED  BY <1>3, <2>1, ResizedType
<1>5. Record(d, p, n, e)
  BY DEF FinishPull
<1>6. /\ disk' = [disk EXCEPT ![d][n] = [content |-> job[l][n].content,
                                         time |-> job[l][n].time]]
      /\ job' = [job EXCEPT ![l][n] = NoEntry]
      /\ UNCHANGED <<saved, gone, newest, edits, scan, met, link, needs, paused>>
  BY DEF FinishPull
<1>. HIDE DEF d, p, e
<1>7. /\ idx' \in [Devices -> [Names -> Rows]]
      /\ view' \in [Devices -> [Devices -> [Names -> Rows]]]
      /\ told' \in [Devices -> [Devices -> SUBSET Names]]
      /\ snap' \in [Devices -> [Devices -> SUBSET Names]]
  BY <1>2, <1>4, <1>5, RecordTypes
<1>8. disk' \in [Devices -> [Names -> Files]]
  <2>1. [content |-> job[l][n].content, time |-> job[l][n].time] \in Files
    BY <1>3, RowFields DEF Files
  <2>. QED  BY <1>6, <2>1 DEF TypeOK
<1>9. job' \in [Links -> [Names -> Rows]]
  BY <1>6, NoEntryType DEF TypeOK
<1>. QED  BY <1>2, <1>6, <1>7, <1>8, <1>9 DEF TypeOK

LEMMA EndTypes ==
    ASSUME TypeOK, NEW l \in Links, EndPhase(l)
    PROVE  TypeOK'
<1>. DEFINE d == Puller(l)
            p == Server(l)
<1>1. link[l].phase # 0 /\ link[l].first \in l
  BY DEF EndPhase, TypeOK, NoLink
<1>2. d \in Devices /\ p \in Devices
  BY <1>1, SessionEnds
<1>3. UNCHANGED <<diskVars, scan, idx, view, needs, job, paused, drops>>
  BY DEF EndPhase
<1>4. CASE link[l].phase = 1
  <2>1. /\ link' = [link EXCEPT ![l].phase = 2, ![l].planned = FALSE]
        /\ UNCHANGED <<told, met, snap>>
    BY <1>4 DEF EndPhase
  <2>2. /\ link \in [Links -> [phase : 0..2, first : Devices \cup {0}, planned : BOOLEAN]]
        /\ \A k \in Links : link[k] = NoLink \/ (link[k].phase # 0 /\ link[k].first \in k)
    BY DEF TypeOK
  <2>3. link' \in [Links -> [phase : 0..2, first : Devices \cup {0}, planned : BOOLEAN]]
    <3>1. [link[l] EXCEPT !.phase = 2, !.planned = FALSE]
            \in [phase : 0..2, first : Devices \cup {0}, planned : BOOLEAN]
      <4>1. link[l] \in [phase : 0..2, first : Devices \cup {0}, planned : BOOLEAN]
        BY <2>2
      <4>2. [link[l] EXCEPT !.phase = 2] \in [phase : 0..2, first : Devices \cup {0},
                                              planned : BOOLEAN]
        BY <4>1
      <4>3. [link[l] EXCEPT !.phase = 2, !.planned = FALSE]
              = [[link[l] EXCEPT !.phase = 2] EXCEPT !.planned = FALSE]
        OBVIOUS
      <4>. QED  BY <4>2, <4>3
    <3>. QED  BY <2>1, <2>2, <3>1
  <2>4. link'[l].phase # 0 /\ link'[l].first \in l /\ \A k \in Links : k # l => link'[k] = link[k]
    BY <1>1, <2>1, <2>2
  <2>5. \A k \in Links : link'[k] = NoLink \/ (link'[k].phase # 0 /\ link'[k].first \in k)
    BY <2>2, <2>4
  <2>. QED  BY <1>3, <2>1, <2>3, <2>5 DEF TypeOK, diskVars
<1>5. CASE link[l].phase # 1
  <2>1. /\ link' = [link EXCEPT ![l] = NoLink]
        /\ told' = [told EXCEPT ![d][p] = snap[d][p], ![p][d] = snap[p][d]]
        /\ met' = [met EXCEPT ![d][p] = TRUE, ![p][d] = TRUE]
        /\ snap' = [snap EXCEPT ![d][p] = {}, ![p][d] = {}]
    BY <1>5 DEF EndPhase
  <2>. HIDE DEF d, p
  <2>2. link' \in [Links -> [phase : 0..2, first : Devices \cup {0}, planned : BOOLEAN]]
        /\ \A k \in Links : link'[k] = NoLink \/ (link'[k].phase # 0 /\ link'[k].first \in k)
    <3>1. /\ link \in [Links -> [phase : 0..2, first : Devices \cup {0}, planned : BOOLEAN]]
          /\ \A k \in Links : link[k] = NoLink \/ (link[k].phase # 0 /\ link[k].first \in k)
      BY DEF TypeOK
    <3>2. \A k \in Links : link'[k] = IF k = l THEN NoLink ELSE link[k]
      BY <2>1, <3>1
    <3>3. DOMAIN link' = Links /\ link' = [k \in Links |-> link'[k]]
      BY <2>1, <3>1
    <3>. QED  BY <3>1, <3>2, <3>3, NothingTypes
  <2>3. told' \in [Devices -> [Devices -> SUBSET Names]]
    <3>1. /\ told \in [Devices -> [Devices -> SUBSET Names]]
          /\ snap[d][p] \in SUBSET Names /\ snap[p][d] \in SUBSET Names
      BY <1>2 DEF TypeOK
    <3>2. told' = [told EXCEPT ![d][p] = snap[d][p], ![p][d] = snap[p][d]]
      BY <2>1
    <3>. QED  BY <1>2, <3>1, <3>2
  <2>4. snap' \in [Devices -> [Devices -> SUBSET Names]]
    BY <1>2, <2>1 DEF TypeOK
  <2>5. met' \in [Devices -> [Devices -> BOOLEAN]]
    BY <1>2, <2>1 DEF TypeOK
  <2>. QED  BY <1>3, <2>2, <2>3, <2>4, <2>5 DEF TypeOK, diskVars
<1>. QED  BY <1>4, <1>5

LEMMA TypeStep == ASSUME TypeOK, [Next]_vars PROVE TypeOK'
<1>1. ASSUME NEW d \in Devices, NEW n \in Names, Edit(d, n) PROVE TypeOK'
  BY <1>1, EditTypes
<1>2. ASSUME NEW d \in Devices, ScanStep(d) PROVE TypeOK'
  BY <1>2, ScanTypes
<1>3. ASSUME NEW d \in Devices,
             Restart(d) \/ Rebuild(d) \/ Prune(d) \/ Pause(d) \/ Resume(d)
      PROVE  TypeOK'
  BY <1>3, FailureTypes
<1>4. ASSUME NEW l \in Links, SessionStep(l) PROVE TypeOK'
  <2>1. ASSUME NEW n \in Names,
               \/ StartPull(l, n) \/ StartDeletion(l, n) \/ SkipPull(l, n)
               \/ FinishPull(l, n) \/ AbandonPull(l, n)
        PROVE  TypeOK'
    BY <2>1, PullTypes, DeletionTypes, FinishTypes
  <2>. QED  BY <1>4, <2>1, OpenTypes, PlanTypes, EndTypes DEF SessionStep
<1>5. ASSUME NEW l \in Links, Drop(l) PROVE TypeOK'
  BY <1>5, FailureTypes
<1>6. ASSUME UNCHANGED vars PROVE TypeOK'
  BY <1>6 DEF TypeOK, vars, diskVars, indexVars, linkVars
<1>. QED  BY <1>1, <1>2, <1>3, <1>4, <1>5, <1>6 DEF Next

\* Every variable keeps its type: no step, in whatever order scans, sessions,
\* failures and the operator take theirs, leaves a row with a content but no
\* live version, a session without two ends, or a content nobody wrote.
THEOREM TypeCorrect == Spec => []TypeOK
<1>. QED  BY InitTypes, TypeStep, PTL DEF Spec

\* What a device counts as an upload for a peer (PendingUploads) is a file that
\* peer lists for pulling once it is told (NeedPulls), in every reachable state
\* of the folder.
THEOREM CountedUploadsArePulled == Spec => []UploadsArePulled
<1>1. ASSUME TypeOK PROVE UploadsArePulled
  <2>1. ASSUME NEW l \in Links, NEW d \in l, NEW p \in l, NEW n \in Names,
               uploadWanted(idx[d][n], [q \in {p} |-> idx[p][n]])
        PROVE  \A g \in globalFrom(idx[p][n], [q \in {d} |-> idx[d][n]]) :
                  pullWanted(idx[p][n], g)
    <3>1. d \in Devices /\ p \in Devices
      BY LinkFacts
    <3>. DEFINE mine == idx[d][n]
                theirs == idx[p][n]
    <3>2. mine \in Entries /\ theirs \in Entries
      BY <1>1, <3>1 DEF TypeOK, Rows
    <3>. DEFINE hers == [q \in {p} |-> theirs]
                views == [q \in {d} |-> mine]
    <3>3. /\ DOMAIN hers = {p} /\ hers[p] = theirs /\ uploadWanted(mine, hers)
          /\ DOMAIN views = {d} /\ views[d] = mine
      BY <2>1
    <3>. HIDE DEF mine, theirs, hers, views
    <3>4. \A g \in globalFrom(theirs, views) : pullWanted(theirs, g)
      BY <3>2, <3>3, UploadIsPulled
    <3>. QED  BY <3>4 DEF mine, theirs, views
  <2>2. ASSUME NEW l \in Links
        PROVE  \A d, p \in l : d # p => \A n \in Names :
                  uploadWanted(idx[d][n], [q \in {p} |-> idx[p][n]])
                    => \A g \in globalFrom(idx[p][n], [q \in {d} |-> idx[d][n]]) :
                           pullWanted(idx[p][n], g)
    <3>. SUFFICES ASSUME NEW d \in l, NEW p \in l, NEW n \in Names,
                         uploadWanted(idx[d][n], [q \in {p} |-> idx[p][n]])
                  PROVE  \A g \in globalFrom(idx[p][n], [q \in {d} |-> idx[d][n]]) :
                            pullWanted(idx[p][n], g)
      OBVIOUS
    <3>. QED  BY <2>1, Zenon
  <2>. QED  BY <2>2, Zenon DEF UploadsArePulled
<1>. QED  BY <1>1, TypeCorrect, PTL

----------------------------------------------------------------------------
(* Markers.  A marker is recorded only when a session ends, from what its  *)
(* snapshot still covers; so the invariant is kept for the snapshots of    *)
(* running sessions too.                                                   *)

\* The peer's view of a row is of the row's version.
Agrees(d, p, n) == Exists(idx[d][n]) => view[p][d][n].ver = idx[d][n].ver

SnapshotsMatchViews == \A d, p \in Devices : \A n \in snap[d][p] : Agrees(d, p, n)

\* No device has a session with itself.
NoSelfSession == \A d \in Devices : snap[d][d] = {}

Matching == MarkersMatchViews /\ SnapshotsMatchViews /\ NoSelfSession

IInv == TypeOK /\ Matching

\* A step that adds nothing to a marker or a snapshot keeps the invariant when
\* the rows that stay covered agree as before.
LEMMA CoverShrinks ==
    ASSUME TypeOK, Matching,
           \A d, p \in Devices : /\ met'[d][p] => met[d][p]
                                 /\ told'[d][p] \subseteq told[d][p]
                                 /\ snap'[d][p] \subseteq snap[d][p],
           \A d, p \in Devices, n \in Names :
              /\ (met'[d][p] /\ n \in told'[d][p]) \/ n \in snap'[d][p]
              /\ Agrees(d, p, n)
              => Agrees(d, p, n)'
    PROVE  Matching'
<1>1. \A d, p \in Devices : told[d][p] \subseteq Names /\ snap[d][p] \subseteq Names
  BY DEF TypeOK
<1>2. ASSUME NEW d \in Devices, NEW p \in Devices, met'[d][p], NEW n \in told'[d][p]
      PROVE  Agrees(d, p, n)'
  <2>1. met[d][p] /\ n \in told[d][p] /\ n \in Names
    BY <1>1, <1>2
  <2>2. Agrees(d, p, n)
    BY <2>1 DEF Matching, MarkersMatchViews, Agrees
  <2>. QED  BY <1>2, <2>1, <2>2
<1>3. ASSUME NEW d \in Devices, NEW p \in Devices, NEW n \in snap'[d][p]
      PROVE  Agrees(d, p, n)'
  <2>1. n \in snap[d][p] /\ n \in Names
    BY <1>1, <1>3
  <2>2. Agrees(d, p, n)
    BY <2>1 DEF Matching, SnapshotsMatchViews
  <2>. QED  BY <1>3, <2>1, <2>2
<1>4. MarkersMatchViews'
  BY <1>2 DEF MarkersMatchViews, Agrees
<1>5. SnapshotsMatchViews'
  BY <1>3 DEF SnapshotsMatchViews
<1>6. NoSelfSession'
  BY DEF Matching, NoSelfSession
<1>. QED  BY <1>4, <1>5, <1>6 DEF Matching

\* What the rewritten rows S of device d leave covered.
CoversWithout(d, S) ==
    \A x, p \in Devices :
        /\ told'[x][p] = IF x = d THEN told[x][p] \ S ELSE told[x][p]
        /\ snap'[x][p] = IF x = d THEN snap[x][p] \ S ELSE snap[x][p]

LEMMA RewrittenCover ==
    ASSUME TypeOK, NEW d \in Devices, NEW S, Rewritten(d, S)
    PROVE  CoversWithout(d, S)
<1>1. /\ told' = [told EXCEPT ![d] = [p \in Devices |-> told[d][p] \ S]]
      /\ snap' = [snap EXCEPT ![d] = [p \in Devices |-> snap[d][p] \ S]]
  BY DEF Rewritten
<1>2. /\ told \in [Devices -> [Devices -> SUBSET Names]]
      /\ snap \in [Devices -> [Devices -> SUBSET Names]]
  BY DEF TypeOK
<1>. QED  BY <1>1, <1>2 DEF CoversWithout

\* Rows of device d that keep their version unless they are rewritten: a scan
\* and the plan of a session.
RowsRewritten(d, S, rows) ==
    /\ Rewritten(d, S)
    /\ idx' = [idx EXCEPT ![d] = rows]
    /\ \A n \in Names : n \notin S => rows[n].ver = idx[d][n].ver
    /\ UNCHANGED <<view, met>>

LEMMA RewriteKeepsMatch ==
    ASSUME TypeOK, Matching, NEW d \in Devices, NEW S, NEW rows, RowsRewritten(d, S, rows)
    PROVE  Matching'
<1>. USE DEF RowsRewritten
<1>1. \A x, p \in Devices :
         /\ told'[x][p] = IF x = d THEN told[x][p] \ S ELSE told[x][p]
         /\ snap'[x][p] = IF x = d THEN snap[x][p] \ S ELSE snap[x][p]
  <2>1. CoversWithout(d, S)
    BY RewrittenCover
  <2>. QED  BY <2>1 DEF CoversWithout
<1>2. ASSUME NEW x \in Devices, NEW p \in Devices, NEW n \in Names,
             n \in told'[x][p] \cup snap'[x][p], Agrees(x, p, n)
      PROVE  Agrees(x, p, n)'
  <2>1. idx'[x][n].ver = idx[x][n].ver
    <3>1. CASE x = d
      <4>1. n \notin S
        BY <1>1, <1>2, <3>1
      <4>2. idx'[d] = rows
        BY DEF TypeOK
      <4>. QED  BY <3>1, <4>1, <4>2
    <3>2. CASE x # d
      BY <3>2 DEF TypeOK
    <3>. QED  BY <3>1, <3>2
  <2>. QED  BY <1>2, <2>1 DEF Agrees, Exists
<1>3. \A x, p \in Devices : /\ met'[x][p] => met[x][p]
                            /\ told'[x][p] \subseteq told[x][p]
                            /\ snap'[x][p] \subseteq snap[x][p]
  BY <1>1
<1>. QED  BY <1>2, <1>3, CoverShrinks

LEMMA ScanMatch ==
    ASSUME TypeOK, Matching, NEW d \in Devices, ScanApply(d)
    PROVE  Matching'
<1>. DEFINE s == scan[d]
            rows == [n \in Names |-> Applied(d, s, n)]
            S == (Deleted(s) \cup Added(s) \cup Differs(s)) \ Touched(s)
<1>1. s \in Scans
  BY DEF TypeOK, Scans
<1>2. /\ idx' = [idx EXCEPT ![d] = rows] /\ Rewritten(d, S)
      /\ UNCHANGED <<view, met>>
  BY DEF ScanApply
<1>3. \A n \in Names : n \notin S => rows[n].ver = idx[d][n].ver
  <2>. HIDE DEF s
  <2>. QED  BY <1>1, AppliedFacts
<1>. HIDE DEF rows, S
<1>4. RowsRewritten(d, S, rows)
  BY <1>2, <1>3 DEF RowsRewritten
<1>. QED  BY <1>4, RewriteKeepsMatch

LEMMA PlanMatch ==
    ASSUME TypeOK, Matching, NEW l \in Links, Plan(l)
    PROVE  Matching'
<1>. DEFINE d == Puller(l)
<1>1. PICK files \in [Names -> Files], rows \in [Names -> Rows], S \in SUBSET Names :
         IsPlan(l, d, Server(l), files, rows, S)
  BY PlanFacts
<1>2. d \in Devices /\ UNCHANGED <<view, met>>
  BY SessionEnds DEF Plan
<1>. DEFINE R == {n \in Names : rows[n] # idx[d][n]}
<1>3. idx' = [idx EXCEPT ![d] = rows] /\ Rewritten(d, R)
  BY <1>1 DEF IsPlan
<1>4. \A n \in Names : n \notin R => rows[n].ver = idx[d][n].ver
  OBVIOUS
<1>. HIDE DEF d, R
<1>5. RowsRewritten(d, R, rows)
  BY <1>2, <1>3, <1>4 DEF RowsRewritten
<1>. QED  BY <1>2, <1>5, RewriteKeepsMatch

\* A pulled or deleted row leaves every cover, and is announced to the server.
LEMMA RecordMatch ==
    ASSUME TypeOK, Matching, NEW d \in Devices, NEW p \in Devices, NEW n \in Names,
           NEW e, Record(d, p, n, e), UNCHANGED met
    PROVE  Matching'
<1>1. \A x, q \in Devices :
         /\ told'[x][q] = IF x = d THEN told[x][q] \ {n} ELSE told[x][q]
         /\ snap'[x][q] = IF x = d THEN snap[x][q] \ {n} ELSE snap[x][q]
  <2>1. Rewritten(d, {n})
    BY DEF Record
  <2>2. CoversWithout(d, {n})
    BY <2>1, RewrittenCover
  <2>. QED  BY <2>2 DEF CoversWithout
<1>2. idx' = [idx EXCEPT ![d][n] = e] /\ view' = [view EXCEPT ![p][d][n] = e]
  BY DEF Record
<1>3. ASSUME NEW x \in Devices, NEW q \in Devices, NEW m \in Names,
             m \in told'[x][q] \cup snap'[x][q], Agrees(x, q, m)
      PROVE  Agrees(x, q, m)'
  <2>1. x # d \/ m # n
    <3>. SUFFICES ASSUME x = d, m = n PROVE FALSE
      OBVIOUS
    <3>1. told'[x][q] = told[x][q] \ {n} /\ snap'[x][q] = snap[x][q] \ {n}
      BY <1>1
    <3>. QED  BY <1>3, <3>1
  <2>2. idx'[x][m] = idx[x][m] /\ view'[q][x][m] = view[q][x][m]
    BY <1>2, <2>1 DEF TypeOK
  <2>. QED  BY <1>3, <2>2 DEF Agrees
<1>4. \A x, q \in Devices : /\ met'[x][q] => met[x][q]
                            /\ told'[x][q] \subseteq told[x][q]
                            /\ snap'[x][q] \subseteq snap[x][q]
  BY <1>1
<1>. QED  BY <1>3, <1>4, CoverShrinks

LEMMA DeletionMatch ==
    ASSUME TypeOK, Matching, NEW l \in Links, NEW n \in Names, StartDeletion(l, n)
    PROVE  Matching'
<1>. DEFINE d == Puller(l)
            p == Server(l)
<1>1. d \in Devices /\ p \in Devices /\ UNCHANGED met
  BY StartTypes DEF StartDeletion
<1>2. CASE UNCHANGED indexVars /\ view' = [view EXCEPT ![p][d][n] = idx[d][n]]
  <2>. HIDE DEF d, p
  <2>1. ASSUME NEW x \in Devices, NEW q \in Devices, NEW m \in Names, Agrees(x, q, m)
        PROVE  Agrees(x, q, m)'
    <3>1. idx' = idx
      BY <1>2 DEF indexVars
    <3>2. view'[q][x][m] = IF q = p /\ x = d /\ m = n THEN idx[d][n] ELSE view[q][x][m]
      BY <1>1, <1>2 DEF TypeOK
    <3>. QED  BY <2>1, <3>1, <3>2 DEF Agrees
  <2>. QED  BY <1>1, <1>2, <2>1, CoverShrinks DEF indexVars
<1>3. CASE UNCHANGED <<indexVars, view>>
  BY <1>1, <1>3 DEF indexVars, Matching, MarkersMatchViews, SnapshotsMatchViews,
                    NoSelfSession, Agrees
<1>4. CASE Record(d, p, n, Tombstone(Bump(idx[d][n].ver, d)))
  <2>. HIDE DEF d, p
  <2>. QED  BY <1>1, <1>4, RecordMatch
<1>. QED  BY <1>2, <1>3, <1>4, DeletionEndings

\* The exchange that opens a session brings the peer's view up to date: the
\* rows the delta leaves out are those the marker covers.
LEMMA OpenMatch ==
    ASSUME TypeOK, Matching, NEW l \in Links, NEW d \in l, OpenLink(l, d)
    PROVE  Matching'
<1>. DEFINE p == Other(l, d)
<1>1. d \in Devices /\ p \in Devices /\ d # p
  BY LinkFacts
<1>2. /\ view' = [view EXCEPT ![p][d] = Exchanged(d, p), ![d][p] = Exchanged(p, d)]
      /\ snap' = [snap EXCEPT ![d][p] = Names, ![p][d] = Names]
      /\ UNCHANGED <<idx, told, met>>
  BY DEF OpenLink
<1>. HIDE DEF p
<1>3. ASSUME NEW x \in Devices, NEW y \in Devices
      PROVE  /\ view'[y][x] = IF {x, y} = {d, p} /\ x # y THEN Exchanged(x, y) ELSE view[y][x]
             /\ snap'[x][y] = IF {x, y} = {d, p} /\ x # y THEN Names ELSE snap[x][y]
  <2>1. {x, y} = {d, p} /\ x # y <=> (x = d /\ y = p) \/ (x = p /\ y = d)
    BY <1>1
  <2>2. view \in [Devices -> [Devices -> [Names -> Rows]]]
        /\ snap \in [Devices -> [Devices -> SUBSET Names]]
    BY DEF TypeOK
  <2>3. CASE x = d /\ y = p
    BY <1>1, <1>2, <2>2, <2>3
  <2>4. CASE x = p /\ y = d
    BY <1>1, <1>2, <2>2, <2>4
  <2>5. CASE ~(x = d /\ y = p) /\ ~(x = p /\ y = d)
    <3>1. view'[y][x] = view[y][x]
      BY <1>1, <1>2, <2>2, <2>5
    <3>2. snap'[x][y] = snap[x][y]
      BY <1>1, <1>2, <2>2, <2>5
    <3>. QED  BY <2>1, <2>5, <3>1, <3>2
  <2>. QED  BY <2>3, <2>4, <2>5
<1>4. ASSUME NEW x \in Devices, NEW y \in Devices, NEW n \in Names
      PROVE  Exists(idx[x][n]) => Exchanged(x, y)[n].ver = idx[x][n].ver
  <2>1. met[x][y] /\ n \in told[x][y] /\ Exists(idx[x][n])
          => view[y][x][n].ver = idx[x][n].ver
    BY DEF Matching, MarkersMatchViews
  <2>. QED  BY <2>1 DEF Exchanged
<1>5. ASSUME NEW x \in Devices, NEW y \in Devices, NEW n \in Names, Agrees(x, y, n)
      PROVE  Agrees(x, y, n)'
  <2>1. CASE {x, y} = {d, p} /\ x # y
    <3>1. view'[y][x] = Exchanged(x, y)
      BY <1>3, <2>1
    <3>. QED  BY <1>2, <1>4, <3>1 DEF Agrees
  <2>2. CASE ~({x, y} = {d, p} /\ x # y)
    <3>1. view'[y][x] = view[y][x]
      BY <1>3, <2>2
    <3>. QED  BY <1>2, <1>5, <3>1 DEF Agrees
  <2>. QED  BY <2>1, <2>2
<1>6. ASSUME NEW x \in Devices, NEW y \in Devices, NEW n \in snap'[x][y]
      PROVE  Agrees(x, y, n)'
  <2>1. CASE {x, y} = {d, p} /\ x # y
    <3>1. view'[y][x] = Exchanged(x, y) /\ snap'[x][y] = Names
      BY <1>3, <2>1
    <3>2. n \in Names
      BY <1>6, <3>1
    <3>. QED  BY <1>2, <1>4, <3>1, <3>2 DEF Agrees
  <2>2. CASE ~({x, y} = {d, p} /\ x # y)
    <3>1. n \in snap[x][y] /\ view'[y][x] = view[y][x]
      BY <1>3, <1>6, <2>2
    <3>2. Agrees(x, y, n)
      BY <3>1 DEF Matching, SnapshotsMatchViews
    <3>. QED  BY <1>2, <3>1, <3>2 DEF Agrees
  <2>. QED  BY <2>1, <2>2
<1>7. ASSUME NEW x \in Devices, NEW y \in Devices, met'[x][y], NEW n \in told'[x][y]
      PROVE  Agrees(x, y, n)'
  <2>1. met[x][y] /\ n \in told[x][y] /\ n \in Names
    BY <1>2, <1>7 DEF TypeOK
  <2>2. Agrees(x, y, n)
    BY <2>1 DEF Matching, MarkersMatchViews, Agrees
  <2>. QED  BY <1>5, <2>1, <2>2
<1>8. NoSelfSession'
  BY <1>3 DEF Matching, NoSelfSession
<1>9. MarkersMatchViews'
  BY <1>7 DEF MarkersMatchViews, Agrees
<1>10. SnapshotsMatchViews'
  BY <1>6 DEF SnapshotsMatchViews
<1>. QED  BY <1>8, <1>9, <1>10 DEF Matching

\* The end of a session records its snapshots as the markers.
LEMMA EndMatch ==
    ASSUME TypeOK, Matching, NEW l \in Links, EndPhase(l)
    PROVE  Matching'
<1>. DEFINE d == Puller(l)
            p == Server(l)
<1>1. link[l].phase # 0
  BY DEF EndPhase, TypeOK, NoLink
<1>2. d \in Devices /\ p \in Devices /\ d # p
  BY <1>1, SessionEnds
<1>3. UNCHANGED <<idx, view>>
  BY DEF EndPhase
<1>4. CASE UNCHANGED <<told, met, snap>>
  BY <1>3, <1>4 DEF Matching, MarkersMatchViews, SnapshotsMatchViews, NoSelfSession, Agrees
<1>5. CASE /\ told' = [told EXCEPT ![d][p] = snap[d][p], ![p][d] = snap[p][d]]
           /\ met' = [met EXCEPT ![d][p] = TRUE, ![p][d] = TRUE]
           /\ snap' = [snap EXCEPT ![d][p] = {}, ![p][d] = {}]
  <2>. HIDE DEF d, p
  <2>1. ASSUME NEW x \in Devices, NEW y \in Devices
        PROVE  \/ told'[x][y] = snap[x][y] /\ snap'[x][y] = {}
               \/ told'[x][y] = told[x][y] /\ met'[x][y] = met[x][y]
                  /\ snap'[x][y] = snap[x][y]
    <3>. USE DEF TypeOK
    <3>1. CASE (x = d /\ y = p) \/ (x = p /\ y = d)
      <4>1. told'[x][y] = snap[x][y]
        BY <1>2, <1>5, <3>1
      <4>2. snap'[x][y] = {}
        BY <1>2, <1>5, <3>1
      <4>. QED  BY <4>1, <4>2
    <3>2. CASE ~((x = d /\ y = p) \/ (x = p /\ y = d))
      <4>1. told'[x][y] = told[x][y]
        BY <1>2, <1>5, <3>2 DEF TypeOK
      <4>2. met'[x][y] = met[x][y]
        BY <1>2, <1>5, <3>2 DEF TypeOK
      <4>3. snap'[x][y] = snap[x][y]
        BY <1>2, <1>5, <3>2 DEF TypeOK
      <4>. QED  BY <4>1, <4>2, <4>3
    <3>. QED  BY <3>1, <3>2
  <2>2. ASSUME NEW x \in Devices, NEW y \in Devices, met'[x][y], NEW n \in told'[x][y]
        PROVE  Agrees(x, y, n)'
    <3>1. n \in snap[x][y] \/ (met[x][y] /\ n \in told[x][y])
      BY <2>1, <2>2
    <3>2. Agrees(x, y, n)
      BY <3>1 DEF Matching, MarkersMatchViews, SnapshotsMatchViews, Agrees
    <3>. QED  BY <1>3, <3>2 DEF Agrees
  <2>3. ASSUME NEW x \in Devices, NEW y \in Devices, NEW n \in snap'[x][y]
        PROVE  Agrees(x, y, n)'
    <3>1. n \in snap[x][y]
      BY <2>1, <2>3
    <3>2. Agrees(x, y, n)
      BY <3>1 DEF Matching, SnapshotsMatchViews
    <3>. QED  BY <1>3, <3>2 DEF Agrees
  <2>4. NoSelfSession'
    BY <2>1 DEF Matching, NoSelfSession
  <2>5. MarkersMatchViews'
    BY <2>2 DEF MarkersMatchViews, Agrees
  <2>6. SnapshotsMatchViews'
    BY <2>3 DEF SnapshotsMatchViews
  <2>. QED  BY <2>4, <2>5, <2>6 DEF Matching
<1>. QED  BY <1>4, <1>5 DEF EndPhase

\* The snapshots of sessions that break are dropped.
LEMMA UnsnappedCover ==
    ASSUME TypeOK, NEW L, snap' = Unsnapped(snap, L)
    PROVE  \A x, p \in Devices :
              snap'[x][p] \subseteq snap[x][p] /\ ({x, p} \in L => snap'[x][p] = {})
BY DEF TypeOK, Unsnapped

LEMMA LinksOfBoth ==
    ASSUME NEW d \in Devices, NEW x \in Devices, x # d
    PROVE  {x, d} \in LinksOf(d) /\ {d, x} \in LinksOf(d)
BY PairIsLink DEF LinksOf

LEMMA FailureMatch ==
    ASSUME TypeOK, Matching,
           \/ \E l \in Links : Drop(l)
           \/ \E d \in Devices : Restart(d) \/ Rebuild(d) \/ Prune(d) \/ Pause(d) \/ Resume(d)
    PROVE  Matching'
<1>1. ASSUME NEW l \in Links, Drop(l) PROVE Matching'
  <2>1. snap' = Unsnapped(snap, {l}) /\ UNCHANGED <<idx, told, view, met>>
    BY <1>1 DEF Drop
  <2>2. \A x, p \in Devices : snap'[x][p] \subseteq snap[x][p]
    BY <2>1, UnsnappedCover
  <2>. QED  BY <2>1, <2>2, CoverShrinks DEF Agrees
<1>2. ASSUME NEW d \in Devices, Restart(d) PROVE Matching'
  <2>1. /\ snap' = Unsnapped(snap, LinksOf(d)) /\ UNCHANGED <<idx, told>>
        /\ met' = Unmet(d) /\ view' = [view EXCEPT ![d] = [p \in Devices |-> NoRows]]
    BY <1>2 DEF Restart
  <2>2. \A x, p \in Devices : /\ snap'[x][p] \subseteq snap[x][p]
                              /\ {x, p} \in LinksOf(d) => snap'[x][p] = {}
    BY <2>1, UnsnappedCover
  <2>3. \A x, p \in Devices : met'[x][p] => met[x][p] /\ p # d
    BY <2>1 DEF Unmet
  <2>4. ASSUME NEW x \in Devices, NEW p \in Devices, NEW n \in Names,
               (met'[x][p] /\ n \in told'[x][p]) \/ n \in snap'[x][p], Agrees(x, p, n)
        PROVE  Agrees(x, p, n)'
    <3>1. p # d
      <4>1. CASE n \in snap'[x][p]
        <5>1. x # p
          BY <2>2, <4>1 DEF Matching, NoSelfSession
        <5>. QED  BY <2>2, <4>1, <5>1, LinksOfBoth
      <4>2. CASE met'[x][p]
        BY <2>3, <4>2
      <4>. QED  BY <2>4, <4>1, <4>2
    <3>2. view'[p] = view[p]
      BY <2>1, <3>1 DEF TypeOK
    <3>. QED  BY <2>1, <2>4, <3>2 DEF Agrees
  <2>. QED  BY <2>1, <2>2, <2>3, <2>4, CoverShrinks
<1>3. ASSUME NEW d \in Devices, Rebuild(d) PROVE Matching'
  <2>1. /\ snap' = Unsnapped(snap, LinksOf(d))
        /\ met' = [Unmet(d) EXCEPT ![d] = [p \in Devices |-> FALSE]]
        /\ view' = [view EXCEPT ![d] = [p \in Devices |-> NoRows]]
        /\ idx' = [idx EXCEPT ![d] = [n \in Names |-> Rebuilt(d, n)]]
        /\ told' = [told EXCEPT ![d] = [p \in Devices |-> {}]]
    BY <1>3 DEF Rebuild
  <2>2. \A x, p \in Devices : /\ snap'[x][p] \subseteq snap[x][p]
                              /\ {x, p} \in LinksOf(d) => snap'[x][p] = {}
    BY <2>1, UnsnappedCover
  <2>3. \A x, p \in Devices : met'[x][p] => met[x][p] /\ p # d /\ x # d
    BY <2>1 DEF Unmet
  <2>4. \A x, p \in Devices : told'[x][p] \subseteq told[x][p]
    BY <2>1 DEF TypeOK
  <2>5. ASSUME NEW x \in Devices, NEW p \in Devices, NEW n \in Names,
               (met'[x][p] /\ n \in told'[x][p]) \/ n \in snap'[x][p], Agrees(x, p, n)
        PROVE  Agrees(x, p, n)'
    <3>1. p # d /\ x # d
      <4>1. CASE n \in snap'[x][p]
        <5>1. x # p
          BY <2>2, <4>1 DEF Matching, NoSelfSession
        <5>. QED  BY <2>2, <4>1, <5>1, LinksOfBoth
      <4>2. CASE met'[x][p]
        BY <2>3, <4>2
      <4>. QED  BY <2>5, <4>1, <4>2
    <3>2. view'[p] = view[p] /\ idx'[x] = idx[x]
      BY <2>1, <3>1 DEF TypeOK
    <3>. QED  BY <2>5, <3>2 DEF Agrees
  <2>. QED  BY <2>2, <2>3, <2>4, <2>5, CoverShrinks
<1>4. ASSUME NEW d \in Devices, Prune(d) PROVE Matching'
  <2>1. /\ idx' = [idx EXCEPT ![d] = [n \in Names |-> IF Prunable(d, n) THEN NoEntry
                                                      ELSE idx[d][n]]]
        /\ UNCHANGED <<told, snap, view, met>>
    BY <1>4 DEF Prune
  <2>2. ASSUME NEW x \in Devices, NEW p \in Devices, NEW n \in Names, Agrees(x, p, n)
        PROVE  Agrees(x, p, n)'
    <3>1. idx'[x][n] \in {idx[x][n], NoEntry}
      BY <2>1 DEF TypeOK
    <3>. QED  BY <2>1, <2>2, <3>1, NoEntryType DEF Agrees
  <2>. QED  BY <2>1, <2>2, CoverShrinks
<1>5. ASSUME NEW d \in Devices, Pause(d) \/ Resume(d) PROVE Matching'
  <2>1. UNCHANGED <<indexVars, view, met>>
    BY <1>5 DEF Pause, Resume
  <2>. QED  BY <2>1, CoverShrinks DEF indexVars, Agrees
<1>. QED  BY <1>1, <1>2, <1>3, <1>4, <1>5

LEMMA MatchStep == ASSUME IInv, [Next]_vars PROVE Matching'
<1>. USE DEF IInv
<1>1. ASSUME UNCHANGED <<indexVars, view, met>> PROVE Matching'
  BY <1>1, CoverShrinks DEF indexVars, Agrees
<1>2. ASSUME NEW d \in Devices, NEW n \in Names, Edit(d, n) PROVE Matching'
  BY <1>1, <1>2 DEF Edit, UserWrite, UserDelete, UserRename, UserTouch
<1>3. ASSUME NEW d \in Devices, ScanStep(d) PROVE Matching'
  <2>1. ASSUME NEW verify \in BOOLEAN, ScanWalk(d, verify) PROVE Matching'
    BY <1>1, <2>1 DEF ScanWalk
  <2>. QED  BY <1>3, <2>1, ScanMatch DEF ScanStep
<1>4. ASSUME NEW d \in Devices,
             Restart(d) \/ Rebuild(d) \/ Prune(d) \/ Pause(d) \/ Resume(d)
      PROVE  Matching'
  BY <1>4, FailureMatch
<1>5. ASSUME NEW l \in Links, SessionStep(l) PROVE Matching'
  <2>1. ASSUME NEW n \in Names, StartPull(l, n) \/ SkipPull(l, n) \/ AbandonPull(l, n)
        PROVE  Matching'
    BY <1>1, <2>1 DEF StartPull, SkipPull, AbandonPull
  <2>2. ASSUME NEW n \in Names, FinishPull(l, n) PROVE Matching'
    <3>1. link[l].phase # 0
      BY <2>2 DEF FinishPull, TypeOK, NoLink
    <3>2. Puller(l) \in Devices /\ Server(l) \in Devices
      BY <3>1, SessionEnds
    <3>3. /\ Record(Puller(l), Server(l), n,
                    [job[l][n] EXCEPT !.size = SizeOf(job[l][n].content)])
          /\ UNCHANGED met
      BY <2>2 DEF FinishPull
    <3>. QED  BY <3>2, <3>3, RecordMatch
  <2>. QED  BY <1>5, <2>1, <2>2, OpenMatch, PlanMatch, DeletionMatch, EndMatch DEF SessionStep
<1>6. ASSUME NEW l \in Links, Drop(l) PROVE Matching'
  BY <1>6, FailureMatch
<1>7. CASE UNCHANGED vars
  BY <1>1, <1>7 DEF vars
<1>. QED  BY <1>2, <1>3, <1>4, <1>5, <1>6, <1>7 DEF Next

\* What the marker of a live process lets a delta leave out is in the peer's
\* view, whichever of scan, join, move, pull, deletion, prune or rebuild wrote
\* the row last and whenever the sessions broke (recordPeerIndex).
THEOREM MarkersAreTrue == Spec => []MarkersMatchViews
<1>1. Init => IInv
  BY InitTypes DEF Init, IInv, Matching, MarkersMatchViews, SnapshotsMatchViews, NoSelfSession
<1>2. IInv /\ [Next]_vars => IInv'
  BY TypeStep, MatchStep DEF IInv
<1>3. IInv => MarkersMatchViews
  BY DEF IInv, Matching
<1>. QED  BY <1>1, <1>2, <1>3, PTL DEF Spec

----------------------------------------------------------------------------
(* Winners.  A verified scan changes the time of a row under its vector,   *)
(* and a pruned row leaves its tombstone in the views; without the two, a  *)
(* view is equal to the rows its device was told of, whole entries and not *)
(* only their versions.                                                    *)

PlainOperations == Operations \cap {"verify", "prune"} = {}

InSession(d, p) == {d, p} \in Links /\ link[{d, p}].phase # 0

\* Device p has been told of the row of d, or of its absence.
Covered(d, p, n) ==
    \/ met[d][p] /\ n \in told[d][p]
    \/ n \in snap[d][p]
    \/ (met[d][p] \/ InSession(d, p)) /\ ~Exists(idx[d][n])

SentRows ==
    \A d, p \in Devices, n \in Names :
        d # p /\ Covered(d, p, n) => view[p][d][n] = idx[d][n]

PlainScans == \A d \in Devices : ~scan[d].verify

SentInv == TypeOK /\ SentRows /\ PlainScans

\* What one step may do to the row that p was told of: nothing, or it no longer
\* counts as told, or it has been told anew.
Told(d, p, n) ==
    \/ ~Covered(d, p, n)'
    \/ view'[p][d][n] = idx'[d][n]
    \/ Covered(d, p, n) /\ view'[p][d][n] = view[p][d][n] /\ idx'[d][n] = idx[d][n]

LEMMA SentKept ==
    ASSUME SentRows, \A d, p \in Devices, n \in Names : d # p => Told(d, p, n)
    PROVE  SentRows'
<1>1. ASSUME NEW d \in Devices, NEW p \in Devices, NEW n \in Names, d # p, Covered(d, p, n)'
      PROVE  view'[p][d][n] = idx'[d][n]
  <2>1. Told(d, p, n)
    BY <1>1
  <2>2. Covered(d, p, n) => view[p][d][n] = idx[d][n]
    BY <1>1 DEF SentRows
  <2>. QED  BY <1>1, <2>1, <2>2 DEF Told
<1>. QED  BY <1>1 DEF SentRows

SamePhases == \A d, p \in Devices : InSession(d, p)' => InSession(d, p)

\* A step that leaves rows and views alone and tells nobody anything.
LEMMA QuietSent ==
    ASSUME SentRows, SamePhases, UNCHANGED <<idx, view>>,
           \A d, p \in Devices : /\ met'[d][p] => met[d][p]
                                 /\ told'[d][p] \subseteq told[d][p]
                                 /\ snap'[d][p] \subseteq snap[d][p]
    PROVE  SentRows'
<1>1. ASSUME NEW d \in Devices, NEW p \in Devices, NEW n \in Names
      PROVE  Told(d, p, n)
  <2>1. Covered(d, p, n)' => Covered(d, p, n)
    BY DEF Covered, SamePhases
  <2>. QED  BY <2>1 DEF Told
<1>. QED  BY <1>1, SentKept

\* Rows of device d are replaced: those that change exist and are uncovered.
RowsReplaced(d, S, rows) ==
    /\ Rewritten(d, S)
    /\ idx' = [idx EXCEPT ![d] = rows]
    /\ \A n \in Names : rows[n] = idx[d][n] \/ (n \in S /\ Exists(rows[n]))
    /\ UNCHANGED <<view, met>>

LEMMA ReplacedSent ==
    ASSUME TypeOK, SentRows, SamePhases, NEW d \in Devices, NEW S, NEW rows,
           RowsReplaced(d, S, rows)
    PROVE  SentRows'
<1>1. CoversWithout(d, S)
  BY RewrittenCover DEF RowsReplaced
<1>2. ASSUME NEW x \in Devices, NEW p \in Devices, NEW n \in Names
      PROVE  Told(x, p, n)
  <2>1. told'[x][p] = (IF x = d THEN told[x][p] \ S ELSE told[x][p])
        /\ snap'[x][p] = (IF x = d THEN snap[x][p] \ S ELSE snap[x][p])
    BY <1>1 DEF CoversWithout
  <2>2. UNCHANGED <<view, met>> /\ idx' = [idx EXCEPT ![d] = rows]
    BY DEF RowsReplaced
  <2>3. CASE idx'[x][n] = idx[x][n]
    <3>1. Covered(x, p, n)' => Covered(x, p, n)
      BY <2>1, <2>2, <2>3 DEF Covered, SamePhases
    <3>. QED  BY <2>2, <2>3, <3>1 DEF Told
  <2>4. CASE idx'[x][n] # idx[x][n]
    <3>1. x = d /\ idx'[x][n] = rows[n]
      BY <2>2, <2>4 DEF TypeOK
    <3>2. n \in S /\ Exists(idx'[x][n])
      BY <2>4, <3>1 DEF RowsReplaced
    <3>3. n \notin told'[x][p] /\ n \notin snap'[x][p]
      BY <2>1, <3>1, <3>2
    <3>4. ~Covered(x, p, n)'
      BY <3>2, <3>3 DEF Covered
    <3>. QED  BY <3>4 DEF Told
  <2>. QED  BY <2>3, <2>4
<1>. QED  BY <1>2, SentKept

LEMMA ScanSent ==
    ASSUME SentInv, NEW d \in Devices, ScanApply(d)
    PROVE  SentRows'
<1>. USE DEF SentInv
<1>. DEFINE s == scan[d]
            rows == [n \in Names |-> Applied(d, s, n)]
            S == (Deleted(s) \cup Added(s) \cup Differs(s)) \ Touched(s)
<1>1. s \in Scans /\ ~s.verify
  BY DEF TypeOK, Scans, PlainScans
<1>2. /\ idx' = [idx EXCEPT ![d] = rows] /\ Rewritten(d, S)
      /\ UNCHANGED <<view, met, link>>
  BY DEF ScanApply, linkVars
<1>3. \A n \in Names : rows[n] = idx[d][n] \/ (n \in S /\ Exists(rows[n]))
  <2>. HIDE DEF s
  <2>. QED  BY <1>1, AppliedFacts
<1>. HIDE DEF rows, S
<1>4. RowsReplaced(d, S, rows)
  BY <1>2, <1>3 DEF RowsReplaced
<1>5. SamePhases
  BY <1>2 DEF SamePhases, InSession
<1>. QED  BY <1>4, <1>5, ReplacedSent

LEMMA PlanSent ==
    ASSUME SentInv, NEW l \in Links, Plan(l)
    PROVE  SentRows'
<1>. USE DEF SentInv
<1>. DEFINE d == Puller(l)
<1>1. PICK files \in [Names -> Files], rows \in [Names -> Rows], S \in SUBSET Names :
         IsPlan(l, d, Server(l), files, rows, S)
  BY PlanFacts
<1>2. d \in Devices /\ UNCHANGED <<view, met>>
  BY SessionEnds DEF Plan
<1>. DEFINE R == {n \in Names : rows[n] # idx[d][n]}
<1>3. idx' = [idx EXCEPT ![d] = rows] /\ Rewritten(d, R)
  BY <1>1 DEF IsPlan
<1>4. \A n \in Names : rows[n] = idx[d][n] \/ (n \in R /\ Exists(rows[n]))
  BY <1>1 DEF IsPlan
<1>5. SamePhases
  <2>1. link' = [link EXCEPT ![l].planned = TRUE]
    BY DEF Plan
  <2>2. \A k \in Links : link'[k].phase = link[k].phase
    BY <2>1 DEF TypeOK
  <2>. QED  BY <2>2 DEF SamePhases, InSession
<1>. HIDE DEF d, R
<1>6. RowsReplaced(d, R, rows)
  BY <1>2, <1>3, <1>4 DEF RowsReplaced
<1>. QED  BY <1>2, <1>5, <1>6, ReplacedSent

LEMMA RecordSent ==
    ASSUME TypeOK, SentRows, SamePhases, NEW d \in Devices, NEW p \in Devices, NEW n \in Names,
           NEW e, Exists(e), Record(d, p, n, e), UNCHANGED met
    PROVE  SentRows'
<1>1. CoversWithout(d, {n})
  <2>1. Rewritten(d, {n})
    BY DEF Record
  <2>. QED  BY <2>1, RewrittenCover
<1>2. idx' = [idx EXCEPT ![d][n] = e] /\ view' = [view EXCEPT ![p][d][n] = e]
  BY DEF Record
<1>3. ASSUME NEW x \in Devices, NEW q \in Devices, NEW m \in Names
      PROVE  Told(x, q, m)
  <2>1. told'[x][q] = (IF x = d THEN told[x][q] \ {n} ELSE told[x][q])
        /\ snap'[x][q] = (IF x = d THEN snap[x][q] \ {n} ELSE snap[x][q])
    BY <1>1 DEF CoversWithout
  <2>2. CASE x = d /\ m = n
    <3>1. n \notin told'[x][q] /\ n \notin snap'[x][q]
      BY <2>1, <2>2
    <3>2. idx'[x][m] = e
      BY <1>2, <2>2 DEF TypeOK
    <3>3. ~Covered(x, q, m)'
      BY <2>2, <3>1, <3>2 DEF Covered
    <3>. QED  BY <3>3 DEF Told
  <2>3. CASE ~(x = d /\ m = n)
    <3>1. idx'[x][m] = idx[x][m] /\ view'[q][x][m] = view[q][x][m]
      BY <1>2, <2>3 DEF TypeOK
    <3>2. told'[x][q] \subseteq told[x][q] /\ snap'[x][q] \subseteq snap[x][q]
      BY <2>1
    <3>3. Covered(x, q, m)' => Covered(x, q, m)
      BY <3>1, <3>2 DEF Covered, SamePhases
    <3>. QED  BY <3>1, <3>3 DEF Told
  <2>. QED  BY <2>2, <2>3
<1>. QED  BY <1>3, SentKept

LEMMA DeletionSent ==
    ASSUME SentInv, NEW l \in Links, NEW n \in Names, StartDeletion(l, n)
    PROVE  SentRows'
<1>. USE DEF SentInv
<1>. DEFINE d == Puller(l)
            p == Server(l)
<1>1. d \in Devices /\ p \in Devices /\ UNCHANGED <<met, link>>
  BY StartTypes DEF StartDeletion
<1>2. SamePhases
  BY <1>1 DEF SamePhases, InSession
<1>3. CASE UNCHANGED indexVars /\ view' = [view EXCEPT ![p][d][n] = idx[d][n]]
  <2>. HIDE DEF d, p
  <2>1. ASSUME NEW x \in Devices, NEW q \in Devices, NEW m \in Names
        PROVE  Told(x, q, m)
    <3>1. UNCHANGED <<idx, told, snap, met>>
      BY <1>1, <1>3 DEF indexVars
    <3>2. view'[q][x][m] = IF q = p /\ x = d /\ m = n THEN idx[d][n] ELSE view[q][x][m]
      BY <1>1, <1>3 DEF TypeOK
    <3>3. Covered(x, q, m)' => Covered(x, q, m)
      BY <1>2, <3>1 DEF Covered, SamePhases
    <3>. QED  BY <3>1, <3>2, <3>3 DEF Told
  <2>. QED  BY <2>1, SentKept
<1>4. CASE UNCHANGED <<indexVars, view>>
  BY <1>1, <1>2, <1>4, QuietSent DEF indexVars
<1>5. CASE Record(d, p, n, Tombstone(Bump(idx[d][n].ver, d)))
  <2>. HIDE DEF d, p
  <2>1. Exists(Tombstone(Bump(idx[d][n].ver, d)))
    <3>1. idx[d][n] \in Rows
      BY <1>1 DEF TypeOK
    <3>2. Bump(idx[d][n].ver, d) # New
      BY <1>1, <3>1, RowFields, BumpType
    <3>. QED  BY <3>2 DEF Tombstone, Exists
  <2>. QED  BY <1>1, <1>2, <1>5, <2>1, RecordSent
<1>. QED  BY <1>3, <1>4, <1>5, DeletionEndings


\* An exchange tells both sides every row of the other.
LEMMA OpenSent ==
    ASSUME SentInv, NEW l \in Links, NEW d \in l, OpenLink(l, d)
    PROVE  SentRows'
<1>. USE DEF SentInv
<1>. DEFINE p == Other(l, d)
<1>1. d \in Devices /\ p \in Devices /\ d # p /\ l = {d, p}
  BY LinkFacts
<1>2. /\ view' = [view EXCEPT ![p][d] = Exchanged(d, p), ![d][p] = Exchanged(p, d)]
      /\ snap' = [snap EXCEPT ![d][p] = Names, ![p][d] = Names]
      /\ link' = [link EXCEPT ![l] = [phase |-> 1, first |-> d, planned |-> FALSE]]
      /\ UNCHANGED <<idx, told, met>>
  BY DEF OpenLink
<1>. HIDE DEF p
<1>3. ASSUME NEW x \in Devices, NEW y \in Devices, NEW n \in Names, x # y
      PROVE  Exchanged(x, y)[n] = idx[x][n]
  <2>1. Covered(x, y, n) => view[y][x][n] = idx[x][n]
    BY <1>3 DEF SentRows
  <2>2. met[x][y] /\ (n \in told[x][y] \/ ~Exists(idx[x][n])) => Covered(x, y, n)
    BY DEF Covered
  <2>. QED  BY <2>1, <2>2 DEF Exchanged
<1>4. ASSUME NEW x \in Devices, NEW y \in Devices, NEW n \in Names, x # y
      PROVE  Told(x, y, n)
  <2>1. view \in [Devices -> [Devices -> [Names -> Rows]]]
        /\ snap \in [Devices -> [Devices -> SUBSET Names]]
        /\ link \in [Links -> [phase : 0..2, first : Devices \cup {0}, planned : BOOLEAN]]
    BY DEF TypeOK
  <2>2. CASE (x = d /\ y = p) \/ (x = p /\ y = d)
    <3>1. view'[y][x] = Exchanged(x, y)
      BY <1>1, <1>2, <2>1, <2>2
    <3>. QED  BY <1>2, <1>3, <1>4, <3>1 DEF Told
  <2>3. CASE ~(x = d /\ y = p) /\ ~(x = p /\ y = d)
    <3>1. view'[y][x] = view[y][x]
      BY <1>1, <1>2, <2>1, <2>3
    <3>2. snap'[x][y] = snap[x][y]
      BY <1>1, <1>2, <2>1, <2>3
    <3>3. InSession(x, y)' => InSession(x, y)
      <4>1. {x, y} # l
        BY <1>1, <1>4, <2>3
      <4>. QED  BY <1>2, <2>1, <4>1 DEF InSession
    <3>4. Covered(x, y, n)' => Covered(x, y, n)
      BY <1>2, <3>2, <3>3 DEF Covered
    <3>. QED  BY <1>2, <3>1, <3>4 DEF Told
  <2>. QED  BY <2>2, <2>3
<1>. QED  BY <1>4, SentKept

\* What the end of a session records as told had been told.
LEMMA EndSent ==
    ASSUME SentInv, NEW l \in Links, EndPhase(l)
    PROVE  SentRows'
<1>. USE DEF SentInv
<1>. DEFINE d == Puller(l)
            p == Server(l)
<1>1. link[l].phase # 0
  BY DEF EndPhase, TypeOK, NoLink
<1>2. d \in Devices /\ p \in Devices /\ d # p /\ l = {d, p}
  BY <1>1, SessionEnds
<1>3. UNCHANGED <<idx, view>>
  BY DEF EndPhase
<1>4. SamePhases
  <2>1. link \in [Links -> [phase : 0..2, first : Devices \cup {0}, planned : BOOLEAN]]
    BY DEF TypeOK
  <2>2. \/ link' = [link EXCEPT ![l].phase = 2, ![l].planned = FALSE]
        \/ link' = [link EXCEPT ![l] = NoLink]
    BY DEF EndPhase
  <2>3. \A k \in Links : k # l => link'[k] = link[k]
    BY <2>1, <2>2
  <2>4. \A k \in Links : link'[k].phase # 0 => link[k].phase # 0
    BY <1>1, <2>3
  <2>. QED  BY <2>4 DEF SamePhases, InSession
<1>5. CASE UNCHANGED <<told, met, snap>>
  BY <1>3, <1>4, <1>5, QuietSent
<1>6. CASE /\ told' = [told EXCEPT ![d][p] = snap[d][p], ![p][d] = snap[p][d]]
           /\ met' = [met EXCEPT ![d][p] = TRUE, ![p][d] = TRUE]
           /\ snap' = [snap EXCEPT ![d][p] = {}, ![p][d] = {}]
  <2>. HIDE DEF d, p
  <2>1. ASSUME NEW x \in Devices, NEW y \in Devices, NEW n \in Names, x # y
        PROVE  Told(x, y, n)
    <3>1. CASE (x = d /\ y = p) \/ (x = p /\ y = d)
      <4>1. told'[x][y] = snap[x][y]
        BY <1>2, <1>6, <3>1 DEF TypeOK
      <4>2. snap'[x][y] = {}
        BY <1>2, <1>6, <3>1 DEF TypeOK
      <4>3. InSession(x, y)
        <5>1. {x, y} = l
          BY <1>2, <3>1
        <5>. QED  BY <1>1, <5>1 DEF InSession
      <4>4. Covered(x, y, n)' => Covered(x, y, n)
        BY <1>3, <4>1, <4>2, <4>3 DEF Covered
      <4>. QED  BY <1>3, <4>4 DEF Told
    <3>2. CASE ~((x = d /\ y = p) \/ (x = p /\ y = d))
      <4>1. told'[x][y] = told[x][y]
        BY <1>2, <1>6, <3>2 DEF TypeOK
      <4>2. met'[x][y] = met[x][y]
        <5>1. met \in [Devices -> [Devices -> BOOLEAN]]
          BY DEF TypeOK
        <5>2. met' = [met EXCEPT ![d][p] = TRUE, ![p][d] = TRUE]
          BY <1>6
        <5>. QED  BY <1>2, <3>2, <5>1, <5>2
      <4>3. snap'[x][y] = snap[x][y]
        BY <1>2, <1>6, <3>2 DEF TypeOK
      <4>4. Covered(x, y, n)' => Covered(x, y, n)
        BY <1>3, <1>4, <4>1, <4>2, <4>3 DEF Covered, SamePhases
      <4>. QED  BY <1>3, <4>4 DEF Told
    <3>. QED  BY <3>1, <3>2
  <2>. QED  BY <2>1, SentKept
<1>. QED  BY <1>5, <1>6 DEF EndPhase

LEMMA FinishSent ==
    ASSUME SentInv, NEW l \in Links, NEW n \in Names, FinishPull(l, n)
    PROVE  SentRows'
<1>. USE DEF SentInv
<1>. DEFINE d == Puller(l)
            p == Server(l)
            e == [job[l][n] EXCEPT !.size = SizeOf(job[l][n].content)]
<1>1. link[l].phase # 0
  BY DEF FinishPull, TypeOK, NoLink
<1>2. d \in Devices /\ p \in Devices
  BY <1>1, SessionEnds
<1>3. Record(d, p, n, e) /\ UNCHANGED <<met, link>>
  BY DEF FinishPull
<1>4. Exists(e)
  <2>1. job[l][n] \in Rows /\ Exists(job[l][n])
    BY DEF FinishPull, TypeOK
  <2>2. e.ver = job[l][n].ver
    BY <2>1 DEF Rows, Entries
  <2>. QED  BY <2>1, <2>2 DEF Exists
<1>5. SamePhases
  BY <1>3 DEF SamePhases, InSession
<1>. HIDE DEF d, p, e
<1>. QED  BY <1>2, <1>3, <1>4, <1>5, RecordSent

LEMMA BrokenPhases ==
    ASSUME TypeOK, NEW L, Broken(L)
    PROVE  SamePhases /\ \A x, p \in Devices : {x, p} \in L => ~InSession(x, p)'
<1>1. ASSUME NEW k \in Links
      PROVE  link'[k].phase # 0 => k \notin L /\ link[k].phase # 0
  BY DEF Broken, NoLink
<1>. QED  BY <1>1 DEF SamePhases, InSession

LEMMA FailureSent ==
    ASSUME SentInv, PlainOperations,
           \/ \E l \in Links : Drop(l)
           \/ \E d \in Devices : Restart(d) \/ Rebuild(d) \/ Prune(d) \/ Pause(d) \/ Resume(d)
    PROVE  SentRows'
<1>. USE DEF SentInv
<1>1. ASSUME NEW l \in Links, Drop(l) PROVE SentRows'
  <2>1. snap' = Unsnapped(snap, {l}) /\ Broken({l}) /\ UNCHANGED <<idx, told, view, met>>
    BY <1>1 DEF Drop
  <2>2. SamePhases /\ \A x, p \in Devices : snap'[x][p] \subseteq snap[x][p]
    BY <2>1, UnsnappedCover, BrokenPhases
  <2>. QED  BY <2>1, <2>2, QuietSent
<1>2. ASSUME NEW d \in Devices, Restart(d) \/ Rebuild(d) PROVE SentRows'
  <2>1. snap' = Unsnapped(snap, LinksOf(d)) /\ Broken(LinksOf(d))
        /\ view' = [view EXCEPT ![d] = [p \in Devices |-> NoRows]]
    BY <1>2 DEF Restart, Rebuild
  <2>2. SamePhases /\ \A x, p \in Devices :
             /\ snap'[x][p] \subseteq snap[x][p]
             /\ {x, p} \in LinksOf(d) => snap'[x][p] = {} /\ ~InSession(x, p)'
    BY <2>1, UnsnappedCover, BrokenPhases
  <2>3. \A x, p \in Devices : met'[x][p] => met[x][p] /\ p # d
    <3>1. \/ met' = Unmet(d)
          \/ met' = [Unmet(d) EXCEPT ![d] = [p \in Devices |-> FALSE]]
      BY <1>2 DEF Restart, Rebuild
    <3>2. CASE met' = Unmet(d)
      BY <3>2 DEF Unmet
    <3>3. CASE met' = [Unmet(d) EXCEPT ![d] = [p \in Devices |-> FALSE]]
      BY <3>3 DEF Unmet
    <3>. QED  BY <3>1, <3>2, <3>3
  <2>4. \A x, p \in Devices : told'[x][p] \subseteq told[x][p]
    <3>1. \/ told' = told
          \/ told' = [told EXCEPT ![d] = [p \in Devices |-> {}]]
      BY <1>2 DEF Restart, Rebuild
    <3>2. told \in [Devices -> [Devices -> SUBSET Names]]
      BY DEF TypeOK
    <3>. QED  BY <3>1, <3>2
  <2>5. \A x \in Devices : idx'[x] = idx[x] \/ (x = d /\ \A p \in Devices : ~met'[x][p])
    <3>1. CASE Restart(d)
      BY <3>1 DEF Restart
    <3>2. CASE Rebuild(d)
      <4>1. idx' = [idx EXCEPT ![d] = [n \in Names |-> Rebuilt(d, n)]]
            /\ met' = [Unmet(d) EXCEPT ![d] = [p \in Devices |-> FALSE]]
        BY <3>2 DEF Rebuild
      <4>2. \A x \in Devices : x # d => idx'[x] = idx[x]
        BY <4>1 DEF TypeOK
      <4>3. \A p \in Devices : ~met'[d][p]
        BY <4>1 DEF Unmet
      <4>. QED  BY <4>2, <4>3
    <3>. QED  BY <1>2, <3>1, <3>2
  <2>6. ASSUME NEW x \in Devices, NEW y \in Devices, NEW n \in Names, x # y
        PROVE  Told(x, y, n)
    <3>1. CASE y = d
      <4>1. {x, y} \in LinksOf(d)
        BY <2>6, <3>1, LinksOfBoth
      <4>2. ~Covered(x, y, n)'
        BY <2>2, <2>3, <3>1, <4>1 DEF Covered
      <4>. QED  BY <4>2 DEF Told
    <3>2. CASE y # d /\ idx'[x] = idx[x]
      <4>1. view'[y] = view[y]
        BY <2>1, <3>2 DEF TypeOK
      <4>2. Covered(x, y, n)' => Covered(x, y, n)
        BY <2>2, <2>3, <2>4, <3>2 DEF Covered, SamePhases
      <4>. QED  BY <3>2, <4>1, <4>2 DEF Told
    <3>3. CASE y # d /\ x = d /\ ~met'[x][y]
      <4>1. {x, y} \in LinksOf(d)
        BY <2>6, <3>3, LinksOfBoth
      <4>2. ~Covered(x, y, n)'
        BY <2>2, <3>3, <4>1 DEF Covered
      <4>. QED  BY <4>2 DEF Told
    <3>. QED  BY <2>5, <3>1, <3>2, <3>3
  <2>. QED  BY <2>6, SentKept
<1>3. ASSUME NEW d \in Devices, Prune(d) PROVE FALSE
  BY <1>3 DEF Prune, PlainOperations
<1>4. ASSUME NEW d \in Devices, Pause(d) \/ Resume(d) PROVE SentRows'
  <2>1. UNCHANGED <<indexVars, view, met, link>>
    BY <1>4 DEF Pause, Resume, linkVars
  <2>. QED  BY <2>1, QuietSent DEF indexVars, SamePhases, InSession
<1>. QED  BY <1>1, <1>2, <1>3, <1>4

LEMMA PlainStep ==
    ASSUME TypeOK, PlainScans, PlainOperations, [Next]_vars
    PROVE  PlainScans'
<1>1. ASSUME UNCHANGED scan PROVE PlainScans'
  BY <1>1 DEF PlainScans
<1>2. ASSUME NEW d \in Devices, scan' = [scan EXCEPT ![d] = NoScan] PROVE PlainScans'
  BY <1>2 DEF PlainScans, NoScan, TypeOK
<1>3. ASSUME NEW d \in Devices, NEW verify \in BOOLEAN, ScanWalk(d, verify) PROVE PlainScans'
  <2>1. ~verify
    BY <1>3 DEF ScanWalk, PlainOperations
  <2>2. scan' = [scan EXCEPT ![d] = [on |-> TRUE, verify |-> verify, seen |-> disk[d],
                                    rows |-> idx[d]]]
    BY <1>3 DEF ScanWalk
  <2>. QED  BY <2>1, <2>2 DEF PlainScans, TypeOK
<1>4. ASSUME NEW d \in Devices, NEW n \in Names, Edit(d, n) PROVE PlainScans'
  BY <1>1, <1>4 DEF Edit, UserWrite, UserDelete, UserRename, UserTouch
<1>5. ASSUME NEW d \in Devices, ScanStep(d) PROVE PlainScans'
  BY <1>2, <1>3, <1>5 DEF ScanStep, ScanApply
<1>6. ASSUME NEW d \in Devices,
             Restart(d) \/ Rebuild(d) \/ Prune(d) \/ Pause(d) \/ Resume(d)
      PROVE  PlainScans'
  BY <1>1, <1>2, <1>6 DEF Restart, Rebuild, Prune, Pause, Resume
<1>7. ASSUME NEW l \in Links, SessionStep(l) PROVE PlainScans'
  BY <1>1, <1>7 DEF SessionStep, OpenLink, Plan, StartPull, StartDeletion, SkipPull,
                    FinishPull, AbandonPull, EndPhase
<1>8. ASSUME NEW l \in Links, Drop(l) PROVE PlainScans'
  BY <1>1, <1>8 DEF Drop
<1>9. CASE UNCHANGED vars
  BY <1>1, <1>9 DEF vars
<1>. QED  BY <1>4, <1>5, <1>6, <1>7, <1>8, <1>9 DEF Next

LEMMA SentStep ==
    ASSUME SentInv, PlainOperations, [Next]_vars
    PROVE  SentRows'
<1>. USE DEF SentInv
<1>1. ASSUME UNCHANGED <<indexVars, view, met, link>> PROVE SentRows'
  BY <1>1, QuietSent DEF indexVars, SamePhases, InSession
<1>2. ASSUME NEW d \in Devices, NEW n \in Names, Edit(d, n) PROVE SentRows'
  BY <1>1, <1>2 DEF Edit, UserWrite, UserDelete, UserRename, UserTouch, linkVars
<1>3. ASSUME NEW d \in Devices, ScanStep(d) PROVE SentRows'
  <2>1. ASSUME NEW verify \in BOOLEAN, ScanWalk(d, verify) PROVE SentRows'
    BY <1>1, <2>1 DEF ScanWalk, linkVars
  <2>. QED  BY <1>3, <2>1, ScanSent DEF ScanStep
<1>4. ASSUME NEW d \in Devices,
             Restart(d) \/ Rebuild(d) \/ Prune(d) \/ Pause(d) \/ Resume(d)
      PROVE  SentRows'
  BY <1>4, FailureSent
<1>5. ASSUME NEW l \in Links, SessionStep(l) PROVE SentRows'
  <2>1. ASSUME NEW n \in Names, StartPull(l, n) \/ SkipPull(l, n) \/ AbandonPull(l, n)
        PROVE  SentRows'
    BY <1>1, <2>1 DEF StartPull, SkipPull, AbandonPull
  <2>. QED  BY <1>5, <2>1, OpenSent, PlanSent, DeletionSent, FinishSent, EndSent
            DEF SessionStep
<1>6. ASSUME NEW l \in Links, Drop(l) PROVE SentRows'
  BY <1>6, FailureSent
<1>7. CASE UNCHANGED vars
  BY <1>1, <1>7 DEF vars, linkVars
<1>. QED  BY <1>2, <1>3, <1>4, <1>5, <1>6, <1>7 DEF Next

\* The winner between a device's row and the only other entry.
LEMMA WinnerOfTwo ==
    ASSUME NEW a, NEW b, NEW p, NEW views, DOMAIN views = {p}, views[p] = b,
           NEW g \in globalFrom(a, views)
    PROVE  g = Better(b, a)
<1>. DEFINE order == [i \in 1..1 |-> p]
<1>1. Orders({p}) = {order}
  BY OneOrder
<1>. HIDE DEF order
<1>2. PICK o \in Orders(DOMAIN views) : g = WinnerOf(a, [i \in DOMAIN o |-> views[o[i]]])
  BY DEF globalFrom
<1>3. o = order
  BY <1>1, <1>2
<1>4. [i \in DOMAIN order |-> views[order[i]]] = <<b>>
  BY DEF order
<1>5. g = WinnerOf(a, <<b>>)
  BY <1>2, <1>3, <1>4
<1>6. Len(<<b>>) = 1 /\ <<b>>[1] = b
  OBVIOUS
<1>7. PICK best : /\ best[0] = a
                  /\ \A i \in 1..Len(<<b>>) : best[i] = Better(<<b>>[i], best[i - 1])
                  /\ WinnerOf(a, <<b>>) = best[Len(<<b>>)]
  BY <1>6, WinnerPass
<1>8. best[1] = Better(b, best[0])
  BY <1>6, <1>7
<1>. QED  BY <1>5, <1>6, <1>7, <1>8

\* Two devices that know each other's row pick the same winner, whichever side
\* makes the choice.
LEMMA SameWinner ==
    ASSUME NEW a \in Entries, NEW b \in Entries,
           a.ver = b.ver => a.del = b.del /\ a.content = b.content
    PROVE  /\ Better(b, a).del = Better(a, b).del
           /\ Better(b, a).content = Better(a, b).content
<1>1. CASE a.ver = b.ver
  BY <1>1 DEF Better
<1>2. CASE a.ver # b.ver
  <2>1. Displaces(a, b) <=> ~Displaces(b, a)
    BY <1>2, OneEntryWins
  <2>2. Exists(a) \/ Exists(b)
    BY <1>2 DEF Exists
  <2>. QED  BY <2>1, <2>2 DEF Better
<1>. QED  BY <1>1, <1>2

LEMMA AllToldRows ==
    ASSUME SentInv, NEW l \in Links, AllTold(l), NEW d \in l, NEW p \in l, d # p,
           NEW n \in Names
    PROVE  view[p][d][n] = idx[d][n]
<1>1. d \in Devices /\ p \in Devices
  BY LinkFacts
<1>2. Covered(d, p, n)
  BY DEF AllTold, Covered
<1>. QED  BY <1>1, <1>2 DEF SentInv, SentRows

LEMMA PeersOfPair ==
    ASSUME Cardinality(Devices) = 2, NEW l \in Links, NEW d \in l
    PROVE  Peers(d) = {Other(l, d)}
<1>1. l = Devices
  BY DevicesAreFinite, FS_Subset DEF Links
<1>. QED  BY <1>1, LinkFacts DEF Peers

\* Two devices that have told each other every row pick the same winner for
\* every name, whatever the order in which scans, exchanges, pulls, deletions,
\* restarts and rebuilds came, as long as a version identifies a content
\* (globalFrom on both sides of a pair).
THEOREM PairAgreesOnWinners ==
    ASSUME PlainOperations, Cardinality(Devices) = 2
    PROVE  Spec => [](VersionIdentifiesContent => WinnersAgree)
<1>1. Init => SentInv
  <2>. SUFFICES ASSUME Init PROVE SentInv
    OBVIOUS
  <2>1. TypeOK
    BY InitTypes
  <2>2. SentRows
    BY DEF Init, SentRows, NoRows
  <2>3. PlainScans
    BY DEF Init, PlainScans, NoScan
  <2>. QED  BY <2>1, <2>2, <2>3 DEF SentInv
<1>2. SentInv /\ [Next]_vars => SentInv'
  BY TypeStep, PlainStep, SentStep DEF SentInv
<1>3. SentInv => (VersionIdentifiesContent => WinnersAgree)
  <2>. SUFFICES ASSUME SentInv, VersionIdentifiesContent,
                       NEW l \in Links, AllTold(l), NEW d \in l, NEW p \in l, NEW n \in Names,
                       NEW g \in Winners(d, n), NEW h \in Winners(p, n)
                PROVE  g.del = h.del /\ g.content = h.content
    BY DEF WinnersAgree
  <2>. DEFINE a == idx[d][n]
              q == Other(l, d)
              b == idx[q][n]
              mine == [x \in Peers(d) |-> view[d][x][n]]
              hers == [x \in Peers(q) |-> view[q][x][n]]
  <2>1. /\ d \in Devices /\ q \in Devices /\ q \in l /\ q # d /\ Other(l, q) = d
        /\ p = d \/ p = q
    BY LinkFacts
  <2>2. Peers(d) = {q} /\ Peers(q) = {d}
    BY <2>1, PeersOfPair
  <2>3. view[d][q][n] = b /\ view[q][d][n] = a
    BY <2>1, AllToldRows
  <2>4. /\ DOMAIN mine = {q} /\ mine[q] = b
        /\ DOMAIN hers = {d} /\ hers[d] = a
    BY <2>2, <2>3
  <2>5. Winners(d, n) = globalFrom(a, mine) /\ Winners(q, n) = globalFrom(b, hers)
    BY DEF Winners, Best
  <2>6. a \in Entries /\ b \in Entries
    BY <2>1, RowFields DEF SentInv, TypeOK
  <2>7. a.ver = b.ver => a.del = b.del /\ a.content = b.content
    BY <2>1 DEF VersionIdentifiesContent, Copies
  <2>. HIDE DEF a, b, q, mine, hers
  <2>8. ASSUME NEW w \in Winners(d, n) PROVE w = Better(b, a)
    <3>1. w \in globalFrom(a, mine) /\ DOMAIN mine = {q} /\ mine[q] = b
      BY <2>4, <2>5, <2>8
    <3>. QED  BY <3>1, WinnerOfTwo
  <2>9. ASSUME NEW w \in Winners(q, n) PROVE w = Better(a, b)
    <3>1. w \in globalFrom(b, hers) /\ DOMAIN hers = {d} /\ hers[d] = a
      BY <2>4, <2>5, <2>9
    <3>. QED  BY <3>1, WinnerOfTwo
  <2>. QED  BY <2>1, <2>6, <2>7, <2>8, <2>9, SameWinner
<1>. QED  BY <1>1, <1>2, <1>3, PTL DEF Spec

----------------------------------------------------------------------------
(* Versions only grow, but for pulls.                                      *)

\* A scan bumps the row it replaces, gives a path without a row the bumped
\* version of another, or leaves the version.
LEMMA AppliedRow ==
    ASSUME TypeOK, NEW d \in Devices, NEW s \in Scans, NEW n \in Names
    PROVE  ~TurnsBack(Applied(d, s, n), idx[d][n])
<1>. DEFINE row == idx[d][n]
            source == {f \in Names : <<f, n>> \in Renames(s) /\ RenameHolds(d, s, f, n)}
            result == Applied(d, s, n)
<1>1. row \in Rows /\ result \in Rows
  BY AppliedFacts DEF TypeOK
<1>2. \A e \in Rows : e.ver \in Vectors
  BY RowFields
<1>3. CASE n \in Deleted(s)
  <2>1. result = Tombstone(Bump(row.ver, d))
    BY <1>3 DEF Applied, NewVersion
  <2>2. result.ver = Bump(row.ver, d)
    <3>. HIDE DEF result
    <3>. QED  BY <2>1 DEF Tombstone
  <2>. HIDE DEF result, row
  <2>. QED  BY <1>1, <2>2, DoesNotTurnBack DEF row, result
<1>4. CASE source # {}
  <2>1. ~Exists(row)
    BY <1>4 DEF RenameHolds
  <2>. QED  BY <2>1 DEF TurnsBack
<1>5. CASE n \notin Deleted(s) /\ source = {}
  <2>1. \/ result.ver = row.ver
        \/ result = FileEntry(NewVersion(d, row), s.seen[n])
    <3>1. CASE n \in Touched(s) /\ Exists(row)
      <4>1. result = [row EXCEPT !.time = s.seen[n].time, !.size = SizeOf(s.seen[n].content)]
        BY <1>5, <3>1 DEF Applied
      <4>. HIDE DEF result
      <4>. QED  BY <1>1, <4>1 DEF Rows, Entries
    <3>2. CASE ~(n \in Touched(s) /\ Exists(row))
      BY <1>5, <3>2 DEF Applied
    <3>. QED  BY <3>1, <3>2
  <2>2. result.ver = row.ver \/ result.ver = Bump(row.ver, d)
    <3>. HIDE DEF result
    <3>. QED  BY <2>1 DEF FileEntry, NewVersion
  <2>. HIDE DEF result, row
  <2>. QED  BY <1>1, <2>2, DoesNotTurnBack DEF row, result
<1>. QED  BY <1>3, <1>4, <1>5

\* One device's rows, all of them replaced.
LEMMA NoneTurnsBack ==
    ASSUME TypeOK, NEW e \in Devices, NEW rows, idx' = [idx EXCEPT ![e] = rows],
           \A n \in Names : ~TurnsBack(rows[n], idx[e][n])
    PROVE  \A d \in Devices, n \in Names : ~TurnsBack(idx'[d][n], idx[d][n])
<1>. SUFFICES ASSUME NEW d \in Devices, NEW n \in Names
              PROVE  ~TurnsBack(idx'[d][n], idx[d][n])
  OBVIOUS
<1>1. idx[d][n] \in Rows /\ idx \in [Devices -> [Names -> Rows]]
  BY DEF TypeOK
<1>2. CASE d = e
  BY <1>1, <1>2
<1>3. CASE d # e
  <2>1. idx'[d][n] = idx[d][n]
    BY <1>1, <1>3
  <2>. QED  BY <1>1, <2>1, DoesNotTurnBack
<1>. QED  BY <1>2, <1>3

LEMMA SessionRows ==
    ASSUME TypeOK, NEW l \in Links, SessionStep(l), NEW d \in Devices, NEW n \in Names,
           TurnsBack(idx'[d][n], idx[d][n])
    PROVE  FinishPull(l, n) /\ d = Puller(l)
<1>1. idx[d][n] \in Rows /\ idx \in [Devices -> [Names -> Rows]]
  BY DEF TypeOK
<1>2. idx' # idx
  BY <1>1, DoesNotTurnBack
<1>3. CASE Plan(l)
  <2>1. PICK files \in [Names -> Files], rows \in [Names -> Rows], S \in SUBSET Names :
           IsPlan(l, Puller(l), Server(l), files, rows, S)
    BY <1>3, PlanFacts
  <2>2. Puller(l) \in Devices
    BY <1>3, SessionEnds DEF Plan
  <2>3. /\ idx' = [idx EXCEPT ![Puller(l)] = rows]
        /\ \A m \in Names : ~TurnsBack(rows[m], idx[Puller(l)][m])
    BY <2>1 DEF IsPlan
  <2>. QED  BY <2>2, <2>3, NoneTurnsBack
<1>4. ASSUME NEW m \in Names, StartDeletion(l, m) PROVE FALSE
  <2>. DEFINE x == Puller(l)
  <2>1. x \in Devices
    BY <1>4, StartTypes DEF StartDeletion
  <2>2. Record(x, Server(l), m, Tombstone(Bump(idx[x][m].ver, x)))
    BY <1>2, <1>4, DeletionEndings DEF indexVars
  <2>. HIDE DEF x
  <2>3. idx' = [idx EXCEPT ![x][m] = Tombstone(Bump(idx[x][m].ver, x))]
    BY <2>2 DEF Record
  <2>4. CASE d = x /\ n = m
    <3>1. idx'[d][n] = Tombstone(Bump(idx[d][n].ver, d))
      BY <1>1, <2>3, <2>4
    <3>2. idx'[d][n] \in Rows
      BY <1>1, <3>1, RowFields, BumpType, TombstoneType
    <3>3. idx'[d][n].ver = Bump(idx[d][n].ver, d)
      BY <3>1 DEF Tombstone
    <3>. QED  BY <1>1, <3>2, <3>3, DoesNotTurnBack
  <2>5. CASE ~(d = x /\ n = m)
    <3>1. idx'[d][n] = idx[d][n]
      BY <1>1, <2>3, <2>5
    <3>. QED  BY <1>1, <3>1, DoesNotTurnBack
  <2>. QED  BY <2>4, <2>5
<1>5. ASSUME NEW m \in Names, FinishPull(l, m) PROVE FinishPull(l, n) /\ d = Puller(l)
  <2>. DEFINE x == Puller(l)
              e == [job[l][m] EXCEPT !.size = SizeOf(job[l][m].content)]
  <2>1. idx' = [idx EXCEPT ![x][m] = e]
    BY <1>5 DEF FinishPull, Record
  <2>. HIDE DEF x, e
  <2>2. CASE d = x /\ n = m
    BY <1>5, <2>2 DEF x
  <2>3. CASE ~(d = x /\ n = m)
    <3>1. idx'[d][n] = idx[d][n]
      BY <1>1, <2>1, <2>3
    <3>. QED  BY <1>1, <3>1, DoesNotTurnBack
  <2>. QED  BY <2>2, <2>3
<1>6. ASSUME \/ \E e \in l : OpenLink(l, e)
             \/ \E m \in Names : StartPull(l, m) \/ SkipPull(l, m) \/ AbandonPull(l, m)
             \/ EndPhase(l)
      PROVE  FALSE
  BY <1>2, <1>6 DEF OpenLink, StartPull, SkipPull, AbandonPull, EndPhase, indexVars
<1>. QED  BY <1>3, <1>4, <1>5, <1>6 DEF SessionStep

LEMMA OtherRows ==
    ASSUME TypeOK, NEW e \in Devices, NEW d \in Devices, NEW n \in Names,
           TurnsBack(idx'[d][n], idx[d][n]),
           \/ \E m \in Names : Edit(e, m)
           \/ ScanStep(e) \/ Restart(e) \/ Rebuild(e) \/ Prune(e) \/ Pause(e) \/ Resume(e)
    PROVE  Rebuild(d)
<1>1. idx[d][n] \in Rows /\ idx \in [Devices -> [Names -> Rows]]
  BY DEF TypeOK
<1>2. idx'[d][n] # idx[d][n]
  BY <1>1, DoesNotTurnBack
<1>3. CASE ScanApply(e)
  <2>. DEFINE s == scan[e]
              rows == [m \in Names |-> Applied(e, s, m)]
  <2>1. s \in Scans
    BY DEF TypeOK, Scans
  <2>2. idx' = [idx EXCEPT ![e] = rows]
    BY <1>3 DEF ScanApply
  <2>. HIDE DEF s
  <2>3. \A m \in Names : ~TurnsBack(rows[m], idx[e][m])
    BY <2>1, AppliedRow
  <2>. HIDE DEF rows
  <2>. QED  BY <2>2, <2>3, NoneTurnsBack
<1>4. CASE Rebuild(e)
  <2>1. e = d
    BY <1>1, <1>2, <1>4 DEF Rebuild
  <2>. QED  BY <1>4, <2>1
<1>5. CASE Prune(e)
  <2>1. idx' = [idx EXCEPT ![e] = [m \in Names |-> IF Prunable(e, m) THEN NoEntry ELSE @[m]]]
    BY <1>5 DEF Prune
  <2>2. idx'[d][n] = NoEntry
    BY <1>1, <1>2, <2>1
  <2>. QED  BY <2>2, NoEntryType DEF TurnsBack
<1>6. ASSUME \/ \E m \in Names : Edit(e, m)
             \/ \E verify \in BOOLEAN : ScanWalk(e, verify)
             \/ Restart(e) \/ Pause(e) \/ Resume(e)
      PROVE  FALSE
  <2>1. idx' = idx
    BY <1>6 DEF Edit, UserWrite, UserDelete, UserRename, UserTouch, ScanWalk, Restart,
                Pause, Resume, indexVars
  <2>. QED  BY <1>2, <2>1
<1>. QED  BY <1>3, <1>4, <1>5, <1>6 DEF ScanStep

\* No scan, move, join or deletion puts back a version that its row had
\* superseded, whatever other rows and views changed between the walk and the
\* application, and whichever vectors the peers sent.  The one step that may is
\* the end of a pull (Pull.Finish), which writes the winner chosen when the pull
\* began; and a rebuild starts the vectors again.
THEOREM OnlyPullsTurnBack ==
    Spec => [][\A d \in Devices, n \in Names :
                 /\ Exists(idx[d][n]) /\ Exists(idx'[d][n])
                 /\ Compare(idx'[d][n].ver, idx[d][n].ver) = -1
                 => Rebuild(d) \/ \E l \in Links : FinishPull(l, n) /\ d = Puller(l)]_vars
<1>1. ASSUME TypeOK, Next, NEW d \in Devices, NEW n \in Names,
             TurnsBack(idx'[d][n], idx[d][n])
      PROVE  Rebuild(d) \/ \E l \in Links : FinishPull(l, n) /\ d = Puller(l)
  <2>1. ASSUME NEW e \in Devices,
               \/ \E m \in Names : Edit(e, m)
               \/ ScanStep(e) \/ Restart(e) \/ Rebuild(e) \/ Prune(e) \/ Pause(e) \/ Resume(e)
        PROVE  Rebuild(d)
    BY <1>1, <2>1, OtherRows
  <2>2. ASSUME NEW l \in Links, SessionStep(l)
        PROVE  FinishPull(l, n) /\ d = Puller(l)
    BY <1>1, <2>2, SessionRows
  <2>3. ASSUME NEW l \in Links, Drop(l) PROVE FALSE
    <3>1. idx' = idx /\ idx[d][n] \in Rows
      BY <1>1, <2>3 DEF Drop, TypeOK
    <3>. QED  BY <1>1, <3>1, DoesNotTurnBack
  <2>. QED  BY <1>1, <2>1, <2>2, <2>3 DEF Next
<1>2. TypeOK /\ [Next]_vars
        => [\A d \in Devices, n \in Names :
              /\ Exists(idx[d][n]) /\ Exists(idx'[d][n])
              /\ Compare(idx'[d][n].ver, idx[d][n].ver) = -1
              => Rebuild(d) \/ \E l \in Links : FinishPull(l, n) /\ d = Puller(l)]_vars
  BY <1>1 DEF TurnsBack
<1>. QED  BY <1>2, TypeCorrect, PTL DEF Spec
=============================================================================
