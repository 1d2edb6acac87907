------------------------- MODULE PullSessionProofs -------------------------
(***************************************************************************)
(* Proofs about the pull phase of a session.                               *)
(*                                                                         *)
(* What there is to pull: the incremental pending lists are what a full    *)
(* walk would compute, and the calls implement PendingPromise, for every   *)
(* set of names, peers and rows and every interleaving of writers and      *)
(* walks.                                                                  *)
(*                                                                         *)
(* How it is pulled: a batch leaves the wire drained, counts the blocks it *)
(* has written, never is owed more than it thinks, and leaves a file with  *)
(* no request only when the others fill the budget, for every plan, window,*)
(* budget and peer.                                                        *)
(***************************************************************************)
EXTENDS PendingLists, PullBatch, FiniteSetTheorems, TLAPS

----------------------------------------------------------------------------
(* The inductive invariant.                                                *)

Pull(n) == PullWanted(n, idx[n])
Up(n) == UploadWanted(n, idx[n])

\* Names whose place in the lists nothing but a change can make wrong.
Settled == Names \ (dirty \cup Unmarked \cup lost)

\* What a call in progress has yet to decide before its sets are complete.
Undecided == IF walk.pc = "names" THEN walk.todo ELSE walk.taken

Between ==
    Unlocked => walk = Idle /\ since = {}

\* A call starts with nothing queued, so what is queued moved since.
During ==
    ~Unlocked => /\ ~all
                 /\ dirty \cup Unmarked \subseteq since
                 /\ walk.pc \in {"names", "current"} => cache.valid
                 /\ walk.pc = "current" => walk.taken = {}

\* The published lists hold except for the names the call has taken ...
ListsKept ==
    cache.valid /\ ~all =>
        \A n \in Settled \ walk.taken :
            (n \in cache.pulls <=> Pull(n)) /\ (n \in cache.ups <=> Up(n))

\* ... and the sets behind them except for those it has not looked at.
SetsKept ==
    cache.valid /\ ~all =>
        \A n \in Settled \ Undecided :
            (n \in cache.pullSet <=> Pull(n)) /\ (n \in cache.upSet <=> Up(n))

\* The listing of a walk is right about what did not move since.
ListingRight ==
    walk.pc \in {"pulls", "ups"} =>
        /\ walk.snap \in [Names -> Entry]
        /\ \A n \in Names \ since : walk.snap[n] = idx[n]

PullsRight ==
    walk.pc \in {"listUps", "ups"} =>
        \A n \in Names \ since : n \in walk.pulls <=> Pull(n)

IInv == TypeOK /\ Between /\ During /\ ListsKept /\ SetsKept /\ ListingRight /\ PullsRight

----------------------------------------------------------------------------
(* When a name stays in or out of the lists.                               *)

\* Membership depends on the row, the views and the gates, and on nothing else.
LEMMA Steady ==
    ASSUME NEW n \in Names, idx'[n] = idx[n], n \in inflight' <=> n \in inflight,
           view' = view, halfway' = halfway
    PROVE  (Pull(n)' <=> Pull(n)) /\ (Up(n)' <=> Up(n))
<1>1. Known' = Known /\ Authoritative' = Authoritative
  BY DEF Known, Authoritative
<1>2. Pull(n)' <=> Pull(n)
  BY <1>1 DEF Pull, PullWanted, EntryOf
<1>3. Up(n)' <=> Up(n)
  BY <1>1 DEF Up, UploadWanted, EntryOf
<1>. QED  BY <1>2, <1>3

\* What a frame does not mention it does not change (SetPeerIndex).
LEMMA SteadyUnderFrame ==
    ASSUME NEW n \in Names, TypeOK, NEW p \in Peers, NEW files \in [Names -> Entry],
           NEW update \in BOOLEAN, SetPeerIndex(p, files, update),
           view[p] # NoView, n \notin Reconsider(p, files, update)
    PROVE  (Pull(n)' <=> Pull(n)) /\ (Up(n)' <=> Up(n))
<1>1. /\ view' = [view EXCEPT ![p] = Received(p, files, update)]
      /\ idx' = idx /\ inflight' = inflight /\ halfway' = halfway
  BY DEF SetPeerIndex
<1>2. Received(p, files, update)[n] = view[p][n]
  BY DEF Reconsider, Received
<1>3. Received(p, files, update) # NoView
  <2>1. n \in DOMAIN Received(p, files, update)
    BY DEF Received
  <2>2. n \notin DOMAIN NoView
    BY DEF NoView
  <2>. QED  BY <2>1, <2>2
<1>4. \A q \in Peers : view'[q][n] = view[q][n] /\ (view'[q] = NoView <=> view[q] = NoView)
  BY <1>1, <1>2, <1>3 DEF TypeOK
<1>5. Known' = Known /\ Authoritative' = Authoritative
  BY <1>1, <1>4 DEF Known, Authoritative
<1>6. [q \in Known' |-> EntryOf(q, n)'] = [q \in Known |-> EntryOf(q, n)]
  BY <1>4, <1>5 DEF EntryOf, Known
<1>7. [q \in Authoritative' |-> EntryOf(q, n)'] = [q \in Authoritative |-> EntryOf(q, n)]
  BY <1>4, <1>5 DEF EntryOf, Known, Authoritative
<1>8. Pull(n)' <=> Pull(n)
  BY <1>1, <1>6 DEF Pull, PullWanted
<1>9. Up(n)' <=> Up(n)
  BY <1>1, <1>7 DEF Up, UploadWanted
<1>. QED  BY <1>8, <1>9

----------------------------------------------------------------------------
(* The initial states satisfy the invariant.                               *)

LEMMA InitInv == Init => IInv
<1> SUFFICES ASSUME Init PROVE IInv
  OBVIOUS
<1>1. 0 \in {Cardinality(S) : S \in SUBSET Names}
  BY FS_EmptySet
<1>2. TypeOK
  BY <1>1 DEF Init, TypeOK, Caches, Walks, Idle, Entry, Writers
<1>. QED
  BY <1>2 DEF Init, IInv, Between, During, ListsKept, SetsKept, ListingRight, PullsRight,
              Unlocked, Idle, Unmarked

----------------------------------------------------------------------------
(* Types.                                                                  *)

LEMMA IdleType == Idle \in Walks /\ Idle.todo \subseteq Idle.taken
BY DEF Idle, Walks

LEMMA TypeStep == TypeOK /\ [Next]_vars => TypeOK'
<1> SUFFICES ASSUME TypeOK, [Next]_vars PROVE TypeOK'
  OBVIOUS
<1> USE DEF TypeOK, inputs, bookkeeping
<1>1. ASSUME NEW S \in SUBSET Names, NEW e \in Entry, Commit(S, e) PROVE TypeOK'
  BY <1>1 DEF Commit, Changed, Writers
<1>2. ASSUME NEW S \in SUBSET Names, SetInFlight(S) PROVE TypeOK'
  BY <1>2 DEF SetInFlight, Changed, GateMoved, Writers
<1>3. ASSUME NEW w \in Writers, NEW n \in Names, Mark(w, n) PROVE TypeOK'
  BY <1>3 DEF Mark
<1>4. ASSUME NEW S \in SUBSET Names, Prune(S) PROVE TypeOK'
  BY <1>4 DEF Prune, Changed, Entry
<1>5. ASSUME NEW q \in Peers, NEW files \in [Names -> Entry], NEW update \in BOOLEAN,
             SetPeerIndex(q, files, update)
      PROVE  TypeOK'
  <2>1. Received(q, files, update) \in [Names -> Entry]
    BY DEF Received, Entry
  <2>2. Reconsider(q, files, update) \subseteq Names
    BY DEF Reconsider
  <2>. QED  BY <1>5, <2>1, <2>2 DEF SetPeerIndex
<1>6. ASSUME NEW q \in Peers, NEW begins \in BOOLEAN, MarkExchange(q, begins) PROVE TypeOK'
  BY <1>6 DEF MarkExchange
<1>7. ASSUME NEW q \in Peers, CleanupPeerIndex(q) PROVE TypeOK'
  BY <1>7 DEF CleanupPeerIndex
<1>8. ASSUME Begin PROVE TypeOK'
  <2>1. walk' \in Walks /\ walk'.todo \subseteq walk'.taken
    BY <1>8 DEF Begin, Idle, Walks
  <2>2. Unmarked \subseteq Names
    BY DEF Unmarked, Writers
  <2>. QED  BY <1>8, <2>1, <2>2 DEF Begin
<1>9. ASSUME Current \/ LookDone PROVE TypeOK'
  <2>1. walk' = Idle
    BY <1>9 DEF Current, LookDone
  <2>2. cache' \in Caches
    BY <1>9 DEF Current, LookDone, Caches
  <2>. QED  BY <1>9, <2>1, <2>2, IdleType DEF Current, LookDone
<1>10. ASSUME NEW n \in Names, Look(n) PROVE TypeOK'
  BY <1>10 DEF Look, With, Walks, Caches
<1>11. ASSUME ListPulls \/ ListUps PROVE TypeOK'
  BY <1>11 DEF ListPulls, ListUps, List, Walks
<1>12. ASSUME EvalPulls PROVE TypeOK'
  BY <1>12 DEF EvalPulls, Walks, Caches
<1>13. ASSUME Publish PROVE TypeOK'
  BY <1>13 DEF Publish, Idle, Walks, Caches
<1>14. ASSUME Fail \/ Age PROVE TypeOK'
  <2>1. CASE Fail
    BY <2>1, IdleType DEF Fail, Walks
  <2>2. CASE Age
    BY <2>2 DEF Age, Caches
  <2>. QED  BY <1>14, <2>1, <2>2
<1>15. ASSUME UNCHANGED vars PROVE TypeOK'
  BY <1>15 DEF vars
<1>. QED
  BY <1>1, <1>2, <1>3, <1>4, <1>5, <1>6, <1>7, <1>8, <1>9, <1>10, <1>11, <1>12, <1>13,
     <1>14, <1>15
     DEF Next, Write, Gate, Marking, Pruning, ViewChange, Compute

\* Every variable keeps its type, the cache and the call in progress included.
THEOREM TypeCorrect == Spec => []TypeOK
<1>1. Init => TypeOK
  BY InitInv DEF IInv
<1>. QED  BY <1>1, TypeStep, PTL DEF Spec

----------------------------------------------------------------------------
(* Changes from outside a call.                                            *)

\* A change keeps the invariant when every name it moves stays queued, about to
\* be queued or lost, and a call in progress hears of it.
LEMMA Moved ==
    ASSUME IInv, TypeOK', NEW M \in SUBSET Names,
           walk' = walk, cache' = cache, all' = all,
           since' = IF Unlocked THEN {} ELSE since \cup M,
           Settled' \subseteq Settled \ M,
           ~Unlocked => (dirty \cup Unmarked)' \subseteq dirty \cup Unmarked \cup M,
           \A n \in Names \ M : idx'[n] = idx[n] /\ (Pull(n)' <=> Pull(n)) /\ (Up(n)' <=> Up(n))
    PROVE  IInv'
<1> USE DEF IInv
<1>1. Unlocked' = Unlocked /\ Undecided' = Undecided
  BY DEF Unlocked, Undecided
<1>2. Settled \subseteq Names
  BY DEF Settled
<1>3. Between'
  BY <1>1 DEF Between
<1>4. During'
  BY <1>1 DEF During
<1>5. ListsKept'
  BY <1>1, <1>2 DEF ListsKept
<1>6. SetsKept'
  BY <1>1, <1>2 DEF SetsKept
<1>7. ListingRight'
  BY DEF ListingRight, Unlocked
<1>8. PullsRight'
  BY DEF PullsRight, Unlocked
<1>. QED  BY <1>3, <1>4, <1>5, <1>6, <1>7, <1>8

LEMMA WriterStep ==
    ASSUME IInv, TypeOK', Write \/ Gate \/ Marking \/ Pruning
    PROVE  IInv'
<1> USE DEF inputs, bookkeeping
<1>1. ASSUME NEW S \in SUBSET Names, NEW e \in Entry, Commit(S, e) PROVE IInv'
  <2>1. \A n \in Names \ S : idx'[n] = idx[n]
    BY <1>1 DEF Commit
  <2>2. \A n \in Names \ S : (Pull(n)' <=> Pull(n)) /\ (Up(n)' <=> Up(n))
    BY <1>1, <2>1, Steady DEF Commit
  <2>3. Unmarked' = Unmarked \cup S
    BY <1>1 DEF Commit, Unmarked, IInv, TypeOK, Writers
  <2>4. Settled' \subseteq Settled \ S
    BY <1>1, <2>3 DEF Commit, Settled
  <2>. QED  BY <1>1, <2>1, <2>2, <2>3, <2>4, Moved DEF Commit, Changed
<1>2. ASSUME NEW S \in SUBSET Names, SetInFlight(S) PROVE IInv'
  <2> DEFINE M == (S \ inflight) \cup (inflight \ S)
  <2>1. M \in SUBSET Names
    BY DEF IInv, TypeOK
  <2>2. \A n \in Names \ M : (Pull(n)' <=> Pull(n)) /\ (Up(n)' <=> Up(n))
    BY <1>2, Steady DEF SetInFlight
  <2>3. Unmarked' = Unmarked \cup M
    BY <1>2 DEF SetInFlight, GateMoved, Unmarked, IInv, TypeOK, Writers
  <2>4. Settled' \subseteq Settled \ M
    BY <1>2, <2>3 DEF SetInFlight, Settled
  <2> HIDE DEF M
  <2>5. since' = IF Unlocked THEN {} ELSE since \cup M
    BY <1>2 DEF SetInFlight, Changed, M
  <2>. QED  BY <1>2, <2>1, <2>2, <2>3, <2>4, <2>5, Moved DEF SetInFlight
<1>3. ASSUME NEW w \in Writers, NEW n \in Names, Mark(w, n) PROVE IInv'
  <2>1. \A m \in Names : idx'[m] = idx[m] /\ (Pull(m)' <=> Pull(m)) /\ (Up(m)' <=> Up(m))
    BY <1>3, Steady DEF Mark
  <2>2. (dirty \cup Unmarked)' = dirty \cup Unmarked
    BY <1>3 DEF Mark, Unmarked, IInv, TypeOK, Writers
  <2>3. Settled' \subseteq Settled
    BY <1>3, <2>2 DEF Mark, Settled
  <2>4. since' = IF Unlocked THEN {} ELSE since \cup {}
    BY <1>3 DEF Mark, IInv, Between
  <2>. QED  BY <1>3, <2>1, <2>2, <2>3, <2>4, Moved DEF Mark
<1>4. ASSUME NEW S \in SUBSET Names, Prune(S) PROVE IInv'
  <2>1. \A n \in Names \ S : idx'[n] = idx[n]
    BY <1>4 DEF Prune
  <2>2. \A n \in Names \ S : (Pull(n)' <=> Pull(n)) /\ (Up(n)' <=> Up(n))
    BY <1>4, <2>1, Steady DEF Prune
  <2>3. Unmarked' = Unmarked
    BY <1>4 DEF Prune, Unmarked
  <2>4. Settled' \subseteq Settled \ S
    BY <1>4, <2>3 DEF Prune, Settled
  <2>. QED  BY <1>4, <2>1, <2>2, <2>3, <2>4, Moved DEF Prune, Changed
<1>. QED  BY <1>1, <1>2, <1>3, <1>4 DEF Write, Gate, Marking, Pruning

LEMMA ViewStep ==
    ASSUME IInv, TypeOK', ViewChange \/ Age
    PROVE  IInv'
<1> USE DEF inputs, bookkeeping
<1>1. ASSUME NEW p \in Peers, NEW files \in [Names -> Entry], NEW update \in BOOLEAN,
             SetPeerIndex(p, files, update)
      PROVE  IInv'
  <2>1. CASE view[p] = NoView
    <3>1. Unlocked /\ Unlocked' /\ all' /\ walk' = walk /\ since' = since
      BY <1>1, <2>1 DEF SetPeerIndex, Unlocked
    <3>. QED
      BY <3>1 DEF IInv, Between, During, ListsKept, SetsKept, ListingRight, PullsRight, Unlocked
  <2>2. CASE view[p] # NoView
    <3> DEFINE M == Reconsider(p, files, update)
    <3>1. M \in SUBSET Names
      BY DEF Reconsider
    <3>2. \A n \in Names \ M : idx'[n] = idx[n] /\ (Pull(n)' <=> Pull(n)) /\ (Up(n)' <=> Up(n))
      BY <1>1, <2>2, SteadyUnderFrame DEF SetPeerIndex, IInv
    <3> HIDE DEF M
    <3>3. /\ Unlocked /\ walk' = walk /\ cache' = cache /\ all' = all /\ since' = since
          /\ unmarked' = unmarked /\ lost' = lost /\ dirty' = dirty \cup M
      BY <1>1, <2>2 DEF SetPeerIndex, M, IInv, TypeOK
    <3>4. Settled' \subseteq Settled \ M
      BY <3>3 DEF Settled, Unmarked
    <3>5. since' = IF Unlocked THEN {} ELSE since \cup M
      BY <3>3 DEF IInv, Between
    <3>. QED  BY <3>1, <3>2, <3>3, <3>4, <3>5, Moved
  <2>. QED  BY <2>1, <2>2
<1>2. ASSUME NEW p \in Peers,
             \/ \E begins \in BOOLEAN : MarkExchange(p, begins)
             \/ CleanupPeerIndex(p)
      PROVE  IInv'
  <2>1. Unlocked /\ Unlocked' /\ all' /\ walk' = walk /\ since' = since
    BY <1>2 DEF MarkExchange, CleanupPeerIndex, Unlocked
  <2>. QED
    BY <2>1 DEF IInv, Between, During, ListsKept, SetsKept, ListingRight, PullsRight, Unlocked
<1>3. ASSUME Age PROVE IInv'
  <2>1. \A n \in Names : (Pull(n)' <=> Pull(n)) /\ (Up(n)' <=> Up(n))
    BY <1>3, Steady DEF Age
  <2>2. /\ Unlocked /\ Unlocked' /\ walk' = walk /\ since' = since /\ all' = all
        /\ Settled' = Settled
    BY <1>3 DEF Age, Unlocked, Settled, Unmarked
  <2>3. /\ cache'.valid = cache.valid /\ cache'.pulls = cache.pulls /\ cache'.ups = cache.ups
        /\ cache'.pullSet = cache.pullSet /\ cache'.upSet = cache.upSet
    BY <1>3 DEF Age, IInv, TypeOK, Caches
  <2>4. Settled \subseteq Names
    BY DEF Settled
  <2>. QED
    BY <2>1, <2>2, <2>3, <2>4
       DEF IInv, Between, During, ListsKept, SetsKept, ListingRight, PullsRight, Unlocked, Undecided
<1>. QED  BY <1>1, <1>2, <1>3 DEF ViewChange

----------------------------------------------------------------------------
(* The steps of a call.                                                    *)

\* Nothing a call does changes what a walk would compute.
LEMMA SteadyInCall ==
    ASSUME UNCHANGED inputs
    PROVE  \A n \in Names : (Pull(n)' <=> Pull(n)) /\ (Up(n)' <=> Up(n))
BY Steady DEF inputs

LEMMA BeginStep ==
    ASSUME IInv, TypeOK', Begin
    PROVE  IInv'
<1>1. /\ Unlocked /\ UNCHANGED inputs /\ unmarked' = unmarked /\ cache' = cache /\ lost' = lost
      /\ dirty' = {} /\ all' = FALSE /\ since' = Unmarked
  BY DEF Begin
<1>2. /\ walk'.pc = IF NeedsRebuild THEN "list" ELSE IF dirty = {} THEN "current" ELSE "names"
      /\ walk'.todo = dirty /\ walk'.taken = IF all THEN Names ELSE dirty
  BY DEF Begin, Idle
<1>3. ~Unlocked'
  BY <1>2 DEF Unlocked
<1>4. ~NeedsRebuild => cache.valid /\ ~all
  BY DEF NeedsRebuild
<1>5. Unmarked' = Unmarked
  BY <1>1 DEF Unmarked
<1>6. \A n \in Names : (Pull(n)' <=> Pull(n)) /\ (Up(n)' <=> Up(n))
  BY <1>1, SteadyInCall
<1>7. walk.taken = {} /\ walk.todo = {}
  BY <1>1 DEF IInv, Between, Idle
<1>8. During'
  BY <1>1, <1>2, <1>4, <1>5 DEF During
<1>9. ~all => Settled' \ walk'.taken \subseteq Settled \ walk.taken
  BY <1>1, <1>2, <1>5, <1>7 DEF Settled
<1>10. ListsKept'
  <2>1. CASE all
    <3>1. Settled' \ walk'.taken = {}
      BY <1>2, <2>1 DEF Settled
    <3>. QED  BY <3>1 DEF ListsKept
  <2>2. CASE ~all
    BY <1>1, <1>6, <1>9, <2>2 DEF ListsKept, IInv, Settled
  <2>. QED  BY <2>1, <2>2
<1>11. SetsKept'
  <2>1. CASE all
    <3>1. NeedsRebuild
      BY <2>1 DEF NeedsRebuild
    <3>2. Settled' \ Undecided' = {}
      BY <1>2, <2>1, <3>1 DEF Settled, Undecided
    <3>. QED  BY <3>2 DEF SetsKept
  <2>2. CASE ~all
    <3>1. Settled' \ Undecided' \subseteq Settled \ Undecided
      BY <1>1, <1>2, <1>5, <1>7, <2>2 DEF Settled, Undecided
    <3>. QED  BY <1>1, <1>6, <2>2, <3>1 DEF SetsKept, IInv, Settled
  <2>. QED  BY <2>1, <2>2
<1>12. ListingRight' /\ PullsRight'
  BY <1>2 DEF ListingRight, PullsRight
<1>. QED  BY <1>3, <1>8, <1>10, <1>11, <1>12 DEF IInv, Between

LEMMA LookStep ==
    ASSUME IInv, TypeOK', NEW n \in Names, Look(n)
    PROVE  IInv'
<1>1. /\ walk.pc = "names" /\ UNCHANGED inputs /\ n \in walk.todo
      /\ unmarked' = unmarked /\ dirty' = dirty /\ all' = all /\ since' = since
      /\ lost' = lost \ {n}
  BY DEF Look
<1>2. /\ walk'.pc = "names" /\ walk'.todo = walk.todo \ {n} /\ walk'.taken = walk.taken
  BY DEF Look, IInv, TypeOK, Walks
<1>3. /\ cache'.valid = cache.valid /\ cache'.pulls = cache.pulls /\ cache'.ups = cache.ups
      /\ cache'.pullSet = With(cache.pullSet, n, PullWanted(n, idx[n]))
      /\ cache'.upSet = With(cache.upSet, n, UploadWanted(n, idx[n]))
  BY DEF Look, IInv, TypeOK, Caches
<1>4. n \in walk.taken
  BY <1>1 DEF IInv, TypeOK
<1>5. ~Unlocked /\ ~Unlocked'
  BY <1>1, <1>2 DEF Unlocked
<1>6. Unmarked' = Unmarked
  BY <1>1 DEF Unmarked
<1>7. \A m \in Names : (Pull(m)' <=> Pull(m)) /\ (Up(m)' <=> Up(m))
  BY <1>1, SteadyInCall
<1>8. During'
  BY <1>1, <1>2, <1>3, <1>5, <1>6 DEF During, IInv
<1>9. Settled' \subseteq Settled \cup {n}
  BY <1>1, <1>6 DEF Settled
<1>10. ListsKept'
  BY <1>1, <1>2, <1>3, <1>4, <1>7, <1>9 DEF ListsKept, IInv, Settled
<1>11. SetsKept'
  <2>1. Settled' \ Undecided' \subseteq (Settled \ Undecided) \cup {n}
    BY <1>1, <1>2, <1>9 DEF Undecided
  <2>2. (n \in cache'.pullSet <=> Pull(n)) /\ (n \in cache'.upSet <=> Up(n))
    BY <1>3 DEF With, Pull, Up
  <2>3. \A m \in Names \ {n} : /\ m \in cache'.pullSet <=> m \in cache.pullSet
                               /\ m \in cache'.upSet <=> m \in cache.upSet
    BY <1>3 DEF With
  <2>4. Settled \subseteq Names
    BY DEF Settled
  <2>. QED  BY <1>1, <1>3, <1>7, <2>1, <2>2, <2>3, <2>4 DEF SetsKept, IInv
<1>12. ListingRight' /\ PullsRight'
  BY <1>2 DEF ListingRight, PullsRight
<1>. QED  BY <1>5, <1>8, <1>10, <1>11, <1>12 DEF IInv, Between

\* Every way a call ends.
LEMMA EndStep ==
    ASSUME IInv, TypeOK', Current \/ LookDone \/ Publish \/ Fail
    PROVE  IInv'
<1>1. ~Unlocked /\ walk' = Idle /\ since' = {} /\ UNCHANGED inputs /\ unmarked' = unmarked
  BY DEF Current, LookDone, Publish, Fail, Unlocked
<1>2. Unlocked' /\ walk'.taken = {} /\ Undecided' = {}
  BY <1>1 DEF Unlocked, Idle, Undecided
<1>3. Unmarked' = Unmarked
  BY <1>1 DEF Unmarked
<1>4. \A n \in Names : (Pull(n)' <=> Pull(n)) /\ (Up(n)' <=> Up(n))
  BY <1>1, SteadyInCall
<1>5. SUFFICES ListsKept' /\ SetsKept'
  BY <1>1, <1>2 DEF IInv, Between, During, ListingRight, PullsRight, Unlocked, Idle
<1>6. CASE Current
  <2>1. Settled' = Settled /\ cache' = cache /\ all' = all /\ walk.taken = {} /\ Undecided = {}
    BY <1>1, <1>3, <1>6 DEF Current, Settled, IInv, During, Undecided
  <2>. QED  BY <1>2, <1>4, <2>1 DEF ListsKept, SetsKept, IInv, Settled
<1>7. CASE LookDone
  <2>1. Settled' = Settled /\ all' = all /\ Undecided = {}
    BY <1>3, <1>7 DEF LookDone, Settled, Undecided
  <2>2. /\ cache'.valid = cache.valid
        /\ cache'.pulls = cache.pullSet /\ cache'.pullSet = cache.pullSet
        /\ cache'.ups = cache.upSet /\ cache'.upSet = cache.upSet
    BY <1>7 DEF LookDone, IInv, TypeOK, Caches
  <2>. QED  BY <1>2, <1>4, <2>1, <2>2 DEF ListsKept, SetsKept, IInv, Settled
<1>8. CASE Publish
  <2> DEFINE ups == {n \in Names : UploadWanted(n, walk.snap[n])}
  <2>1. Settled' \subseteq Names \ since
    BY <1>3, <1>8 DEF Publish, Settled
  <2>2. /\ cache'.pulls = walk.pulls /\ cache'.pullSet = walk.pulls
        /\ cache'.ups = ups /\ cache'.upSet = ups
    BY <1>8 DEF Publish, IInv, TypeOK, Caches
  <2>3. \A n \in Names \ since : n \in walk.pulls <=> Pull(n)
    BY <1>8 DEF Publish, IInv, PullsRight
  <2>4. \A n \in Names \ since : n \in ups <=> Up(n)
    BY <1>8 DEF Publish, IInv, ListingRight, Up
  <2> HIDE DEF ups
  <2>. QED  BY <1>4, <2>1, <2>2, <2>3, <2>4 DEF ListsKept, SetsKept
<1>9. CASE Fail
  <2>1. Settled' = Settled \ walk.taken /\ cache' = cache /\ all' = all
    BY <1>3, <1>9 DEF Fail, Settled
  <2>2. Undecided \subseteq walk.taken
    BY DEF Undecided, IInv, TypeOK
  <2>. QED  BY <1>2, <1>4, <2>1, <2>2 DEF ListsKept, SetsKept, IInv, Settled
<1>. QED  BY <1>6, <1>7, <1>8, <1>9

\* The two listings of a rebuild and the decision between them.
LEMMA RebuildStep ==
    ASSUME IInv, TypeOK', ListPulls \/ EvalPulls \/ ListUps
    PROVE  IInv'
<1>1. /\ ~Unlocked /\ UNCHANGED inputs /\ since' = since /\ all' = all
      /\ dirty' = dirty /\ unmarked' = unmarked /\ lost' = lost
  BY DEF ListPulls, ListUps, List, EvalPulls, Unlocked
<1>2. /\ walk.pc \in {"list", "pulls", "listUps"} /\ walk'.pc \in {"pulls", "listUps", "ups"}
      /\ walk'.taken = walk.taken
  BY DEF ListPulls, ListUps, List, EvalPulls, IInv, TypeOK, Walks
<1>3. /\ cache'.valid = cache.valid /\ cache'.pulls = cache.pulls /\ cache'.ups = cache.ups
      /\ cache'.pullSet = cache.pullSet /\ cache'.upSet = cache.upSet
  BY DEF ListPulls, ListUps, List, EvalPulls, IInv, TypeOK, Caches
<1>4. ~Unlocked' /\ Undecided' = Undecided
  BY <1>2 DEF Unlocked, Undecided
<1>5. Settled' = Settled /\ Unmarked' = Unmarked
  BY <1>1 DEF Settled, Unmarked
<1>6. \A n \in Names : (Pull(n)' <=> Pull(n)) /\ (Up(n)' <=> Up(n))
  BY <1>1, SteadyInCall
<1>7. Between' /\ During'
  BY <1>1, <1>2, <1>3, <1>4, <1>5 DEF Between, During, IInv
<1>8. ListsKept' /\ SetsKept'
  BY <1>1, <1>2, <1>3, <1>4, <1>5, <1>6 DEF ListsKept, SetsKept, IInv, Settled
<1>9. CASE ListPulls \/ ListUps
  <2>1. walk'.snap = idx /\ walk'.pulls = walk.pulls
    BY <1>9 DEF ListPulls, ListUps, List, IInv, TypeOK, Walks
  <2>2. ListingRight'
    BY <1>1, <2>1 DEF ListingRight, inputs, IInv, TypeOK
  <2>3. PullsRight'
    BY <1>1, <1>6, <1>9, <2>1 DEF PullsRight, ListPulls, ListUps, List, IInv, TypeOK, Walks
  <2>. QED  BY <1>7, <1>8, <2>2, <2>3 DEF IInv
<1>10. CASE EvalPulls
  <2>1. walk'.pc = "listUps" /\ walk'.pulls = {n \in Names : PullWanted(n, walk.snap[n])}
    BY <1>10 DEF EvalPulls, IInv, TypeOK, Walks
  <2>2. \A n \in Names \ since : n \in walk'.pulls <=> Pull(n)
    BY <1>10, <2>1 DEF EvalPulls, ListingRight, IInv, Pull
  <2>3. ListingRight' /\ PullsRight'
    BY <1>1, <1>6, <2>1, <2>2 DEF ListingRight, PullsRight
  <2>. QED  BY <1>7, <1>8, <2>3 DEF IInv
<1>. QED  BY <1>9, <1>10

----------------------------------------------------------------------------
(* The lists are right between calls.                                      *)

LEMMA NextInv == IInv /\ [Next]_vars => IInv'
<1> SUFFICES ASSUME IInv, [Next]_vars PROVE IInv'
  OBVIOUS
<1>1. TypeOK'
  BY TypeStep DEF IInv
<1>2. CASE UNCHANGED vars
  <2>1. \A n \in Names : (Pull(n)' <=> Pull(n)) /\ (Up(n)' <=> Up(n))
    BY <1>2, SteadyInCall DEF vars, inputs
  <2>2. Settled' = Settled /\ Undecided' = Undecided /\ Unmarked' = Unmarked /\ Unlocked' = Unlocked
    BY <1>2 DEF vars, Settled, Undecided, Unmarked, Unlocked
  <2>. QED
    BY <1>1, <1>2, <2>1, <2>2
       DEF vars, IInv, Between, During, ListsKept, SetsKept, ListingRight, PullsRight, Settled
<1>. QED
  BY <1>1, <1>2, WriterStep, ViewStep, BeginStep, LookStep, EndStep, RebuildStep
     DEF Next, Compute

LEMMA Inductive == Spec => []IInv
BY InitInv, NextInv, PTL DEF Spec

\* Between calls both lists name exactly what a full walk would, for every name
\* whose change is not queued, about to be queued or lost: whatever writers,
\* frames of peers and gates did while earlier calls walked.
THEOREM ListsAreCurrent == Spec => []ListsCurrent
<1>1. IInv => ListsCurrent
  BY DEF IInv, Between, Idle, ListsKept, ListsCurrent, Settled, Wanted, Pull, Up
<1>. QED  BY <1>1, Inductive, PTL

----------------------------------------------------------------------------
(* The calls implement PendingPromise.                                     *)

\* With no views the pass over them keeps the local entry.
LEMMA EmptyPass ==
    ASSUME NEW local
    PROVE  WinnerOf(local, << >>) = local
<1> DEFINE step(b, i) ==
      IF i = 0 THEN local
      ELSE IF Exists(<< >>[i]) /\ (~Exists(b[i - 1]) \/ Displaces(<< >>[i], b[i - 1]))
           THEN << >>[i]
           ELSE b[i - 1]
    pass == CHOOSE b : b = [i \in 0..0 |-> step(b, i)]
    made == [i \in 0..0 |-> local]
<1>1. made = [i \in 0..0 |-> step(made, i)]
  OBVIOUS
<1>2. pass = [i \in 0..0 |-> step(pass, i)]
  BY <1>1
<1>3. Len(<< >>) = 0
  OBVIOUS
<1>4. WinnerOf(local, << >>) = pass[0]
  BY <1>3 DEF WinnerOf
<1> HIDE DEF pass
<1>. QED  BY <1>2, <1>4

LEMMA NoViewsNoWinner ==
    ASSUME NEW local, NEW views, DOMAIN views = {}
    PROVE  globalFrom(local, views) \subseteq {local}
<1> SUFFICES ASSUME NEW o \in Orders({})
             PROVE  WinnerOf(local, [i \in DOMAIN o |-> views[o[i]]]) = local
  BY DEF globalFrom
<1>1. DOMAIN o = {}
  BY FS_EmptySet DEF Orders
<1>2. [i \in DOMAIN o |-> views[o[i]]] = << >>
  BY <1>1
<1>. QED  BY <1>2, EmptyPass

LEMMA InitPromised == Init => Promise!Init
<1> SUFFICES ASSUME Init PROVE Promise!Init
  OBVIOUS
<1>1. Known = {} /\ Authoritative = {}
  BY DEF Init, Known, Authoritative
<1>2. ~Exists(NoEntry)
  BY DEF Exists, NoEntry
<1>3. ASSUME NEW n \in Names PROVE ~PullWanted(n, idx[n]) /\ ~UploadWanted(n, idx[n])
  <2> DEFINE views == [p \in Known |-> EntryOf(p, n)]
  <2>1. idx[n] = NoEntry
    BY DEF Init
  <2>2. globalFrom(NoEntry, views) \subseteq {NoEntry}
    BY <1>1, NoViewsNoWinner
  <2>3. ~pullWanted(NoEntry, NoEntry)
    BY <1>2 DEF pullWanted, Live, NoEntry
  <2>. QED  BY <1>2, <2>1, <2>2, <2>3 DEF PullWanted, UploadWanted, uploadWanted, Live
<1>4. Wanted = [pulls |-> {}, ups |-> {}]
  BY <1>3 DEF Wanted
<1>. QED  BY <1>4 DEF Promise!Init, Init, Unmarked, Unlocked, Idle, Writers

LEMMA SteadyWanted ==
    ASSUME UNCHANGED inputs
    PROVE  Wanted' = Wanted
<1>1. \A n \in Names : (Pull(n)' <=> Pull(n)) /\ (Up(n)' <=> Up(n))
  BY SteadyInCall
<1>. QED  BY <1>1 DEF Wanted, Pull, Up

\* What moves names is a Change, provided a call in progress hears of them.
LEMMA ChangePromised ==
    ASSUME IInv, TypeOK', NEW M \in SUBSET Names,
           Unlocked' = Unlocked, cache' = cache,
           Unmarked \subseteq Unmarked', lost \subseteq lost',
           since' = IF Unlocked THEN {} ELSE since \cup M,
           ~Unlocked => \A n \in Names \ M : (Pull(n)' <=> Pull(n)) /\ (Up(n)' <=> Up(n))
    PROVE  Promise!Change
<1>1. Wanted' \in Promise!Lists
  BY DEF Wanted, Promise!Lists
<1>2. Unmarked' \in SUBSET Names /\ lost' \in SUBSET Names /\ since' \in SUBSET Names
  BY DEF TypeOK, Unmarked, Writers
<1>3. ~Unlocked => Promise!Agree(Wanted, Wanted', Names \ since')
  BY DEF Promise!Agree, Wanted, Pull, Up
<1>4. ~Unlocked => since \subseteq since'
  OBVIOUS
<1>5. Unlocked => since' = since
  BY DEF IInv, Between
<1>. QED  BY <1>1, <1>2, <1>3, <1>4, <1>5 DEF Promise!Change

LEMMA WriterPromised ==
    ASSUME IInv, TypeOK', Write \/ Gate \/ Pruning
    PROVE  Promise!Change
<1> USE DEF inputs, bookkeeping
<1>1. ASSUME NEW S \in SUBSET Names, NEW e \in Entry, Commit(S, e) PROVE Promise!Change
  <2>1. \A n \in Names \ S : (Pull(n)' <=> Pull(n)) /\ (Up(n)' <=> Up(n))
    BY <1>1, Steady DEF Commit
  <2>2. Unmarked \subseteq Unmarked' /\ lost' = lost /\ Unlocked' = Unlocked /\ cache' = cache
    BY <1>1 DEF Commit, Unmarked, IInv, TypeOK, Writers, Unlocked
  <2>. QED  BY <1>1, <2>1, <2>2, ChangePromised DEF Commit, Changed
<1>2. ASSUME NEW S \in SUBSET Names, SetInFlight(S) PROVE Promise!Change
  <2> DEFINE M == (S \ inflight) \cup (inflight \ S)
  <2>1. \A n \in Names \ M : (Pull(n)' <=> Pull(n)) /\ (Up(n)' <=> Up(n))
    BY <1>2, Steady DEF SetInFlight
  <2>2. Unmarked \subseteq Unmarked' /\ lost' = lost /\ Unlocked' = Unlocked /\ cache' = cache
    BY <1>2 DEF SetInFlight, Unmarked, IInv, TypeOK, Writers, Unlocked
  <2>3. M \in SUBSET Names /\ since' = IF Unlocked THEN {} ELSE since \cup M
    BY <1>2 DEF SetInFlight, Changed, IInv, TypeOK
  <2> HIDE DEF M
  <2>. QED  BY <2>1, <2>2, <2>3, ChangePromised
<1>3. ASSUME NEW S \in SUBSET Names, Prune(S) PROVE Promise!Change
  <2>1. \A n \in Names \ S : (Pull(n)' <=> Pull(n)) /\ (Up(n)' <=> Up(n))
    BY <1>3, Steady DEF Prune
  <2>2. Unmarked' = Unmarked /\ lost \subseteq lost' /\ Unlocked' = Unlocked /\ cache' = cache
    BY <1>3 DEF Prune, Unmarked, Unlocked
  <2>. QED  BY <1>3, <2>1, <2>2, ChangePromised DEF Prune, Changed
<1>. QED  BY <1>1, <1>2, <1>3 DEF Write, Gate, Pruning

LEMMA ViewPromised ==
    ASSUME IInv, TypeOK', ViewChange
    PROVE  Promise!Change
<1>1. /\ Unlocked /\ Unlocked' /\ cache' = cache /\ unmarked' = unmarked /\ lost' = lost
      /\ since' = since
  BY DEF ViewChange, SetPeerIndex, MarkExchange, CleanupPeerIndex, Unlocked, bookkeeping
<1>2. Unmarked' = Unmarked
  BY <1>1 DEF Unmarked
<1>. QED  BY <1>1, <1>2, ChangePromised DEF IInv, Between

LEMMA CallPromised ==
    ASSUME IInv, TypeOK', Compute \/ Fail
    PROVE  [Promise!Next]_Promise!vars
<1>1. UNCHANGED inputs /\ unmarked' = unmarked
  BY DEF Compute, Begin, Current, LookDone, ListPulls, ListUps, List, EvalPulls, Publish, Look, Fail
<1>2. Wanted' = Wanted /\ Unmarked' = Unmarked
  BY <1>1, SteadyWanted DEF Unmarked
<1>3. CASE Begin
  BY <1>2, <1>3 DEF Promise!Next, Promise!Call, Begin, Unlocked, Idle
<1>4. CASE Current \/ LookDone
  <2>1. ~Unlocked /\ Unlocked' /\ since' = {} /\ lost' = lost
    BY <1>4 DEF Current, LookDone, Unlocked, Idle
  <2>2. [pulls |-> cache.pulls, ups |-> cache.ups]' \in Promise!Lists
    BY DEF TypeOK, Caches, Promise!Lists
  <2>3. cache.valid /\ ~all
    BY <1>4 DEF Current, LookDone, IInv, During, Unlocked
  <2>4. Names \ (lost \cup since) \subseteq Settled
    BY <2>1 DEF Settled, IInv, During
  <2>5. CASE Current
    <3>1. walk.taken = {} /\ cache' = cache
      BY <2>5 DEF Current, IInv, During, Unlocked
    <3>2. \A n \in Settled : (n \in cache.pulls <=> Pull(n)) /\ (n \in cache.ups <=> Up(n))
      BY <2>3, <3>1 DEF IInv, ListsKept
    <3>. QED
      BY <1>2, <2>1, <2>2, <2>4, <3>1, <3>2
         DEF Promise!Next, Promise!Return, Promise!Agree, Wanted, Pull, Up
  <2>6. CASE LookDone
    <3>1. Undecided = {} /\ cache'.pulls = cache.pullSet /\ cache'.ups = cache.upSet
      BY <2>6 DEF LookDone, Undecided, IInv, TypeOK, Caches
    <3>2. \A n \in Settled : (n \in cache'.pulls <=> Pull(n)) /\ (n \in cache'.ups <=> Up(n))
      BY <2>3, <3>1 DEF IInv, SetsKept
    <3>. QED
      BY <1>2, <2>1, <2>2, <2>4, <3>2
         DEF Promise!Next, Promise!Return, Promise!Agree, Wanted, Pull, Up
  <2>. QED  BY <1>4, <2>5, <2>6
<1>5. ASSUME NEW n \in Names, Look(n) PROVE [Promise!Next]_Promise!vars
  <2>1. ~Unlocked /\ ~Unlocked' /\ lost' \in SUBSET lost /\ since' = since
    BY <1>5 DEF Look, Unlocked, IInv, TypeOK, Walks
  <2>2. cache'.pulls = cache.pulls /\ cache'.ups = cache.ups
    BY <1>5 DEF Look, IInv, TypeOK, Caches
  <2>. QED  BY <1>2, <2>1, <2>2 DEF Promise!Next, Promise!Find
<1>6. CASE ListPulls \/ ListUps \/ EvalPulls
  <2>1. ~Unlocked /\ ~Unlocked' /\ lost' = lost /\ since' = since
    BY <1>6 DEF ListPulls, ListUps, List, EvalPulls, Unlocked, IInv, TypeOK, Walks
  <2>2. cache'.pulls = cache.pulls /\ cache'.ups = cache.ups
    BY <1>6 DEF ListPulls, ListUps, List, EvalPulls, IInv, TypeOK, Caches
  <2>. QED  BY <1>2, <2>1, <2>2 DEF Promise!vars
<1>7. CASE Publish
  <2> DEFINE ups == {n \in Names : UploadWanted(n, walk.snap[n])}
  <2>1. ~Unlocked /\ Unlocked' /\ since' = {} /\ lost' \in SUBSET (lost \cup since)
    BY <1>7 DEF Publish, Unlocked, Idle
  <2>2. [pulls |-> cache.pulls, ups |-> cache.ups]' \in Promise!Lists
    BY DEF TypeOK, Caches, Promise!Lists
  <2>3. cache'.pulls = walk.pulls /\ cache'.ups = ups
    BY <1>7 DEF Publish, IInv, TypeOK, Caches
  <2>4. \A n \in Names \ since : n \in walk.pulls <=> Pull(n)
    BY <1>7 DEF Publish, IInv, PullsRight
  <2>5. \A n \in Names \ since : n \in ups <=> Up(n)
    BY <1>7 DEF Publish, IInv, ListingRight, Up
  <2> HIDE DEF ups
  <2>. QED
    BY <1>2, <2>1, <2>2, <2>3, <2>4, <2>5
       DEF Promise!Next, Promise!Return, Promise!Agree, Wanted, Pull, Up
<1>8. CASE Fail
  BY <1>2, <1>8 DEF Promise!Next, Promise!Fail, Fail, Unlocked, Idle, TypeOK
<1>. QED  BY <1>3, <1>4, <1>5, <1>6, <1>7, <1>8 DEF Compute

LEMMA StepPromised == IInv /\ TypeOK' /\ [Next]_vars => [Promise!Next]_Promise!vars
<1> SUFFICES ASSUME IInv, TypeOK', [Next]_vars PROVE [Promise!Next]_Promise!vars
  OBVIOUS
<1>1. CASE Write \/ Gate \/ Pruning
  BY <1>1, WriterPromised DEF Promise!Next
<1>2. CASE ViewChange
  BY <1>2, ViewPromised DEF Promise!Next
<1>3. CASE Compute \/ Fail
  BY <1>3, CallPromised
<1>4. ASSUME NEW w \in Writers, NEW n \in Names, Mark(w, n) PROVE [Promise!Next]_Promise!vars
  <2>1. Wanted' = Wanted /\ Unlocked' = Unlocked /\ since' = since /\ lost' = lost /\ cache' = cache
    BY <1>4, SteadyWanted DEF Mark, inputs, bookkeeping, Unlocked
  <2>2. Unmarked' \in SUBSET Unmarked
    BY <1>4 DEF Mark, Unmarked, IInv, TypeOK, Writers
  <2>. QED  BY <2>1, <2>2 DEF Promise!Next, Promise!Report
<1>5. CASE Age
  <2>1. /\ Wanted' = Wanted /\ Unlocked' = Unlocked /\ since' = since /\ lost' = lost
        /\ Unmarked' = Unmarked
    BY <1>5, SteadyWanted DEF Age, inputs, Unlocked, Unmarked
  <2>2. cache'.pulls = cache.pulls /\ cache'.ups = cache.ups
    BY <1>5 DEF Age, IInv, TypeOK, Caches
  <2>. QED  BY <2>1, <2>2 DEF Promise!vars
<1>6. CASE UNCHANGED vars
  <2>1. Wanted' = Wanted /\ Unmarked' = Unmarked /\ Unlocked' = Unlocked
    BY <1>6, SteadyWanted DEF vars, inputs, Unmarked, Unlocked
  <2>. QED  BY <1>6, <2>1 DEF vars, Promise!vars
<1>. QED  BY <1>1, <1>2, <1>3, <1>4, <1>5, <1>6 DEF Next, Marking

\* The incremental lists do what the engine promises of its lists, however they
\* are computed: each step of writers, frames, gates and calls is a step of the
\* promise or none.  An answer is right about every name that did not move
\* during its call and was not lost before it.
THEOREM KeepsItsPromise == Spec => AnswersAsPromised
<1>1. IInv => TypeOK
  BY DEF IInv
<1>. QED
  BY <1>1, InitPromised, StepPromised, Inductive, PTL
     DEF Spec, AnswersAsPromised, Promise!Spec

----------------------------------------------------------------------------
(***************************************************************************)
(* The batch.                                                              *)
(***************************************************************************)

----------------------------------------------------------------------------
(* The inductive invariant of a batch.                                     *)

Runs == [first : Blocks, size : 1..MaxRun]

\* What planPulls promises: the runs are in order and do not overlap, they
\* ask for the blocks and for nothing else, and none could join the one before.
Grouped(list, blocks) ==
    /\ list \in Seq(Runs)
    /\ \A i \in 1..Len(list) : Covered(list[i]) \subseteq blocks /\ i <= list[i].first
    /\ \A b \in blocks : \E i \in 1..Len(list) : b \in Covered(list[i])
    /\ \A i, j \in 1..Len(list) : i < j => list[i].first + list[i].size <= list[j].first
    /\ \A i \in 1..Len(list) : i + 1 \in 1..Len(list) => ~Extends(list[i], list[i + 1].first)

Planned == \A f \in Files : needs[f] \in SUBSET Blocks /\ Grouped(runs[f], needs[f])

Span(f, i) == Covered(runs[f][i])

\* A file that is not started has asked for nothing; a run is asked for in
\* its turn, and an answer is awaited only for a run that was asked for.
AskedInTurn ==
    /\ \A f \in Files :
          /\ f >= next => state[f] = "waiting"
          /\ state[f] = "waiting" => sent[f] = 0 /\ written[f] = {}
          /\ sent[f] <= Len(runs[f])
    /\ \A id \in inFlight : id[2] <= sent[id[1]]

\* A request is in one place at a time and nowhere once it is answered.
Wire(open, asked, taken, answered) ==
    /\ \A k \in 1..Len(asked) : asked[k] \in open \ taken
    /\ taken \subseteq open
    /\ \A k \in 1..Len(answered) : answered[k].id \in open \ taken
    /\ \A k, l \in 1..Len(asked) : asked[k] = asked[l] => k = l
    /\ \A k, l \in 1..Len(answered) : answered[k].id = answered[l].id => k = l
    /\ \A k \in 1..Len(asked), l \in 1..Len(answered) : asked[k] # answered[l].id

OnTheWire == Wire(inFlight, requests, serving, responses)

Drained == outcome = "returned" => inFlight = {} /\ Jobs = {}

\* The blocks written are counted once each, and the runs still to come are
\* not among them.
CountedOnce ==
    \A f \in Files :
        /\ written[f] \subseteq needs[f]
        /\ received[f] = Cardinality(written[f])
        /\ \A i \in 1..Len(runs[f]) :
              <<f, i>> \in inFlight \/ i > sent[f] => Span(f, i) \cap written[f] = {}

\* An active file waits for blocks, and each run it asked for is on its way
\* or written.
Awaited ==
    \A f \in Jobs :
        /\ received[f] # Cardinality(needs[f])
        /\ \A i \in 1..sent[f] : <<f, i>> \in inFlight \/ Span(f, i) \subseteq written[f]

\* The blocks a set of requests asks for.
OwedFor(ids) == UNION {{id[1]} \X Span(id[1], id[2]) : id \in ids}

\* What was asked for and is not written: owed, or lost to a refusal.
ChargedFor(asked, arrived) ==
    UNION {{f} \X {b \in needs[f] \ arrived[f] : \E i \in 1..asked[f] : b \in Span(f, i)} : f \in Files}

\* The account lies between what is owed and what is charged.
Account ==
    /\ Cardinality(OwedFor(inFlight)) <= inflightBytes
    /\ inflightBytes <= Cardinality(ChargedFor(sent, written))

BatchInv ==
    BatchTypeOK /\ Planned /\ AskedInTurn /\ OnTheWire /\ Drained /\ CountedOnce /\ Awaited /\ Account

----------------------------------------------------------------------------
(* Induction over positions and the existence of what is computed by them. *)

Before == {m \in Nat \X Nat : m[1] < m[2]}

LEMMA FirstOf ==
    ASSUME NEW T \in SUBSET Nat, T # {}
    PROVE  \E x \in T : \A y \in T : x <= y
<1>1. IsWellFoundedOn(Before, Nat)
  BY NatLessThanWellFounded DEF OpToRel, Before
<1>2. PICK x \in T : \A y \in T : <<y, x>> \notin Before
  BY <1>1, WFMin
<1>3. \A y \in T : ~(y < x)
  BY <1>2 DEF Before
<1>. QED  BY <1>3

LEMMA PositionInduction ==
    ASSUME NEW n \in Nat, NEW S, 0 \in S, \A i \in 1..n : i - 1 \in S => i \in S
    PROVE  \A i \in 0..n : i \in S
<1>. SUFFICES ASSUME NEW k \in 0..n, k \notin S PROVE FALSE
  OBVIOUS
<1>. DEFINE T == {i \in Nat : i <= n /\ i \notin S}
<1>1. T \in SUBSET Nat /\ k \in T
  OBVIOUS
<1>2. PICK x \in T : \A y \in T : x <= y
  <2>. HIDE DEF T
  <2>. QED  BY <1>1, FirstOf
<1>3. x # 0 /\ x \in 1..n /\ x - 1 \in Nat /\ x - 1 <= n
  BY <1>2
<1>4. x - 1 \in S
  BY <1>2, <1>3
<1>. QED  BY <1>2, <1>3, <1>4

\* A function defined by what it is at 0 and by a step from each position to
\* the next.
Computes(g, n, base, step) ==
    g = [j \in 0..n |-> IF j = 0 THEN base ELSE step[<<j, g[j - 1]>>]]

LEMMA ComputedFunctionExists ==
    ASSUME NEW n \in Nat, NEW V, NEW base \in V, NEW step \in [(1..n) \X V -> V]
    PROVE  \E g \in [0..n -> V] : Computes(g, n, base, step)
<1>. DEFINE
       Upto(k, g) == g[0] = base /\ \A j \in 1..k : g[j] = step[<<j, g[j - 1]>>]
       S == {k \in 0..n : \E g \in [0..k -> V] : Upto(k, g)}
<1>1. 0 \in S
  <2>. DEFINE g == [j \in 0..0 |-> base]
  <2>1. g \in [0..0 -> V] /\ g[0] = base
    OBVIOUS
  <2>2. \A j \in 1..0 : g[j] = step[<<j, g[j - 1]>>]
    OBVIOUS
  <2>. HIDE DEF g
  <2>3. Upto(0, g)
    BY <2>1, <2>2
  <2>4. 0 \in 0..n
    OBVIOUS
  <2>. QED  BY <2>1, <2>3, <2>4
<1>2. ASSUME NEW k \in 1..n, k - 1 \in S PROVE k \in S
  <2>1. PICK g \in [0..(k - 1) -> V] : Upto(k - 1, g)
    BY <1>2
  <2>. DEFINE h == [j \in 0..k |-> IF j = k THEN step[<<k, g[k - 1]>>] ELSE g[j]]
  <2>2. g[k - 1] \in V /\ step[<<k, g[k - 1]>>] \in V
    BY <2>1
  <2>3. h \in [0..k -> V]
    BY <2>1, <2>2
  <2>4. h[0] = base
    BY <2>1
  <2>5. ASSUME NEW j \in 1..k PROVE h[j] = step[<<j, h[j - 1]>>]
    <3>1. j - 1 \in 0..(k - 1) /\ j - 1 \in 0..k /\ j - 1 # k /\ j \in 0..k
      OBVIOUS
    <3>2. h[j - 1] = g[j - 1]
      BY <3>1
    <3>3. CASE j = k
      BY <3>1, <3>2, <3>3
    <3>4. CASE j # k
      <4>1. j \in 1..(k - 1) /\ h[j] = g[j]
        BY <3>1, <3>4
      <4>. QED  BY <4>1, <3>2, <2>1
    <3>. QED  BY <3>3, <3>4
  <2>. HIDE DEF h
  <2>. QED  BY <2>3, <2>4, <2>5
<1>3. n \in S
  <2>. HIDE DEF S
  <2>. QED  BY <1>1, <1>2, PositionInduction
<1>4. PICK g \in [0..n -> V] : Upto(n, g)
  BY <1>3
<1>5. ASSUME NEW j \in 0..n
      PROVE  g[j] = IF j = 0 THEN base ELSE step[<<j, g[j - 1]>>]
  BY <1>4
<1>. QED  BY <1>4, <1>5 DEF Computes

----------------------------------------------------------------------------
(* What planPulls computes.                                                *)

Planning(g, blocks) ==
    g = [block \in 0..BlockCount |->
           IF block = 0 THEN <<>>
           ELSE IF block \in blocks THEN WithBlock(g[block - 1], block)
           ELSE g[block - 1]]

LEMMA WithBlockType ==
    ASSUME NEW list \in Seq(Runs), NEW b \in Blocks
    PROVE  WithBlock(list, b) \in Seq(Runs)
<1>1. [first |-> b, size |-> 1] \in Runs
  BY BatchAssumption DEF Runs
<1>2. CASE list # <<>> /\ Extends(list[Len(list)], b)
  <2>1. Len(list) \in 1..Len(list) /\ list[Len(list)] \in Runs
    BY <1>2
  <2>2. list[Len(list)].size + 1 \in 1..MaxRun
    BY <1>2, <2>1, BatchAssumption DEF Runs, Extends
  <2>3. [list[Len(list)] EXCEPT !.size = @ + 1] \in Runs
    BY <2>1, <2>2 DEF Runs
  <2>4. WithBlock(list, b) = [list EXCEPT ![Len(list)] = [list[Len(list)] EXCEPT !.size = @ + 1]]
    BY <1>2 DEF WithBlock
  <2>. QED  BY <2>1, <2>3, <2>4
<1>3. CASE ~(list # <<>> /\ Extends(list[Len(list)], b))
  BY <1>1, <1>3 DEF WithBlock
<1>. QED  BY <1>2, <1>3

LEMMA PlanIsComputed ==
    ASSUME NEW blocks
    PROVE  \E g \in [0..BlockCount -> Seq(Runs)] :
              Planning(g, blocks) /\ planPulls(blocks) = g[BlockCount]
<1>. DEFINE step == [m \in (1..BlockCount) \X Seq(Runs) |->
                       IF m[1] \in blocks THEN WithBlock(m[2], m[1]) ELSE m[2]]
<1>1. step \in [(1..BlockCount) \X Seq(Runs) -> Seq(Runs)]
  BY WithBlockType DEF Blocks
<1>2. <<>> \in Seq(Runs) /\ BlockCount \in Nat
  BY BatchAssumption
<1>3. PICK g \in [0..BlockCount -> Seq(Runs)] : Computes(g, BlockCount, <<>>, step)
  <2>. HIDE DEF step
  <2>. QED  BY <1>1, <1>2, ComputedFunctionExists
<1>4. ASSUME NEW b \in 0..BlockCount
      PROVE  g[b] = IF b = 0 THEN <<>>
                    ELSE IF b \in blocks THEN WithBlock(g[b - 1], b) ELSE g[b - 1]
  <2>1. CASE b = 0
    BY <1>3, <2>1 DEF Computes
  <2>2. CASE b # 0
    <3>1. b \in 1..BlockCount /\ b - 1 \in 0..BlockCount /\ g[b - 1] \in Seq(Runs)
      BY <2>2, <1>2, <1>3
    <3>2. <<b, g[b - 1]>> \in (1..BlockCount) \X Seq(Runs)
      BY <3>1
    <3>3. g[b] = step[<<b, g[b - 1]>>]
      BY <1>3, <2>2 DEF Computes
    <3>. QED  BY <2>2, <3>2, <3>3
  <2>. QED  BY <2>1, <2>2
<1>5. Planning(g, blocks)
  BY <1>3, <1>4 DEF Planning
<1>6. planPulls(blocks) = (CHOOSE h : Planning(h, blocks))[BlockCount]
  BY DEF planPulls, Planning
<1>7. Planning(CHOOSE h : Planning(h, blocks), blocks)
  BY <1>5
<1>8. ASSUME NEW h, Planning(h, blocks) PROVE h \in [0..BlockCount -> Seq(Runs)]
  <2>. DEFINE S == {b \in 0..BlockCount : h[b] \in Seq(Runs)}
  <2>1. 0 \in S
    BY <1>2, <1>8 DEF Planning
  <2>2. ASSUME NEW b \in 1..BlockCount, b - 1 \in S PROVE b \in S
    <3>1. h[b] = IF b \in blocks THEN WithBlock(h[b - 1], b) ELSE h[b - 1]
      BY <1>2, <1>8 DEF Planning
    <3>. QED  BY <2>2, <3>1, WithBlockType DEF Blocks
  <2>3. \A b \in 0..BlockCount : b \in S
    <3>. HIDE DEF S
    <3>. QED  BY <1>2, <2>1, <2>2, PositionInduction
  <2>4. h = [b \in 0..BlockCount |-> h[b]]
    BY <1>8 DEF Planning
  <2>. QED  BY <2>3, <2>4
<1>. QED  BY <1>6, <1>7, <1>8

\* A block beyond those grouped so far.
LEMMA GroupingGrows ==
    ASSUME NEW b \in 1..BlockCount, NEW old, NEW list, Grouped(list, old),
           old \subseteq 1..(b - 1)
    PROVE  Grouped(WithBlock(list, b), old \cup {b})
<1>. DEFINE n == Len(list)
            new == WithBlock(list, b)
<1>1. list \in Seq(Runs) /\ n \in Nat /\ b \in Blocks /\ new \in Seq(Runs)
  BY WithBlockType DEF Grouped, Blocks
<1>2. \A i \in 1..n : list[i] \in Runs /\ list[i].first \in Nat /\ list[i].size \in Nat
                      /\ list[i].size >= 1 /\ list[i].first >= 1
  <2>1. \A r \in Runs : r.first \in Nat /\ r.size \in Nat /\ r.size >= 1 /\ r.first >= 1
    BY BatchAssumption DEF Runs, Blocks
  <2>2. \A i \in 1..n : list[i] \in Runs
    BY <1>1
  <2>. QED  BY <2>1, <2>2
<1>3. \A i \in 1..n : list[i].first + list[i].size <= b
  <2>. SUFFICES ASSUME NEW i \in 1..n PROVE list[i].first + list[i].size <= b
    OBVIOUS
  <2>1. list[i].first + list[i].size - 1 \in Covered(list[i])
    BY <1>2 DEF Covered
  <2>2. list[i].first + list[i].size - 1 \in 1..(b - 1)
    BY <2>1 DEF Grouped
  <2>. QED  BY <2>2, <1>2
<1>4. CASE list # <<>> /\ Extends(list[n], b)
  <2>1. n \in 1..n
    BY <1>1, <1>4
  <2>2. /\ Len(new) = n
        /\ \A i \in 1..n : i # n => new[i] = list[i]
        /\ new[n].first = list[n].first /\ new[n].size = list[n].size + 1
    <3>1. new = [list EXCEPT ![n].size = @ + 1]
      BY <1>4 DEF WithBlock
    <3>2. /\ Len(new) = n
          /\ \A i \in 1..n : i # n => new[i] = list[i]
          /\ new[n] = [list[n] EXCEPT !.size = @ + 1]
      <4>. HIDE DEF new
      <4>. QED  BY <1>1, <2>1, <3>1
    <3>. QED  BY <3>2, <1>1, <2>1 DEF Runs
  <2>3. b = list[n].first + list[n].size
    BY <1>4 DEF Extends
  <2>4. Covered(new[n]) = Covered(list[n]) \cup {b}
    BY <1>2, <2>1, <2>2, <2>3 DEF Covered
  <2>. HIDE DEF new
  <2>5. \A i \in 1..n : Covered(new[i]) \subseteq old \cup {b} /\ i <= new[i].first
    <3>. SUFFICES ASSUME NEW i \in 1..n
                  PROVE  Covered(new[i]) \subseteq old \cup {b} /\ i <= new[i].first
      OBVIOUS
    <3>1. Covered(list[i]) \subseteq old /\ i <= list[i].first
      BY DEF Grouped
    <3>2. CASE i = n
      BY <2>2, <2>4, <3>1, <3>2
    <3>3. CASE i # n
      BY <2>2, <3>1, <3>3
    <3>. QED  BY <3>2, <3>3
  <2>6. ASSUME NEW c \in old \cup {b} PROVE \E i \in 1..n : c \in Covered(new[i])
    <3>1. CASE c = b
      BY <3>1, <2>1, <2>4
    <3>2. CASE c \in old
      <4>1. PICK i \in 1..n : c \in Covered(list[i])
        BY <3>2 DEF Grouped
      <4>2. c \in Covered(new[i])
        BY <4>1, <2>2, <2>4
      <4>. QED  BY <4>2
    <3>. QED  BY <3>1, <3>2
  <2>7. ASSUME NEW i \in 1..n, NEW j \in 1..n, i < j
        PROVE  new[i].first + new[i].size <= new[j].first
    <3>1. i # n /\ new[i] = list[i]
      BY <1>1, <2>2, <2>7
    <3>2. new[j].first = list[j].first
      BY <2>2
    <3>3. list[i].first + list[i].size <= list[j].first
      BY <2>7 DEF Grouped
    <3>. QED  BY <3>1, <3>2, <3>3
  <2>8. ASSUME NEW i \in 1..n, i + 1 \in 1..n PROVE ~Extends(new[i], new[i + 1].first)
    <3>1. i # n /\ new[i] = list[i]
      BY <1>1, <2>2, <2>8
    <3>2. new[i + 1].first = list[i + 1].first
      BY <2>2, <2>8
    <3>3. ~Extends(list[i], list[i + 1].first)
      BY <2>8 DEF Grouped
    <3>. QED  BY <3>1, <3>2, <3>3 DEF Extends
  <2>. QED  BY <1>1, <2>2, <2>5, <2>6, <2>7, <2>8 DEF Grouped, new
<1>5. CASE ~(list # <<>> /\ Extends(list[n], b))
  <2>. DEFINE m == n + 1
  <2>1. /\ Len(new) = m /\ m \in 1..m
        /\ \A i \in 1..m : i # m => new[i] = list[i] /\ i \in 1..n
        /\ \A i \in 1..n : i \in 1..m /\ i # m
        /\ new[m].first = b /\ new[m].size = 1
    BY <1>1, <1>5 DEF WithBlock
  <2>2. Covered(new[m]) = {b}
    BY <2>1, <1>1 DEF Covered
  <2>3. n = 0 \/ (n \in 1..n /\ n <= list[n].first /\ list[n].first + list[n].size <= b)
    BY <1>1, <1>3 DEF Grouped
  <2>4. m <= b
    BY <2>3, <1>1, <1>2
  <2>. HIDE DEF new
  <2>5. ASSUME NEW i \in 1..m PROVE Covered(new[i]) \subseteq old \cup {b} /\ i <= new[i].first
    <3>1. CASE i = m
      BY <3>1, <2>1, <2>2, <2>4
    <3>2. CASE i # m
      BY <3>2, <2>1 DEF Grouped
    <3>. QED  BY <3>1, <3>2
  <2>6. ASSUME NEW c \in old \cup {b} PROVE \E i \in 1..m : c \in Covered(new[i])
    <3>1. CASE c = b
      BY <3>1, <2>1, <2>2
    <3>2. CASE c \in old
      <4>1. PICK i \in 1..n : c \in Covered(list[i])
        BY <3>2 DEF Grouped
      <4>2. c \in Covered(new[i])
        BY <4>1, <2>1
      <4>. QED  BY <4>2, <2>1
    <3>. QED  BY <3>1, <3>2
  <2>7. ASSUME NEW i \in 1..m, NEW j \in 1..m, i < j
        PROVE  new[i].first + new[i].size <= new[j].first
    <3>1. i # m /\ i \in 1..n /\ new[i] = list[i]
      BY <1>1, <2>1, <2>7
    <3>2. CASE j = m
      BY <3>1, <3>2, <2>1, <1>3
    <3>3. CASE j # m
      <4>1. list[i].first + list[i].size <= list[j].first
        BY <2>7, <3>1, <3>3, <2>1 DEF Grouped
      <4>. QED  BY <3>1, <3>3, <2>1, <4>1
    <3>. QED  BY <3>2, <3>3
  <2>8. ASSUME NEW i \in 1..m, i + 1 \in 1..m PROVE ~Extends(new[i], new[i + 1].first)
    <3>1. i # m /\ i \in 1..n /\ new[i] = list[i]
      BY <1>1, <2>1, <2>8
    <3>2. CASE i + 1 = m
      <4>1. i = n /\ list # <<>>
        BY <1>1, <3>1, <3>2
      <4>2. ~Extends(list[n], b)
        BY <1>5, <4>1
      <4>. QED  BY <3>1, <3>2, <4>1, <4>2, <2>1 DEF Extends
    <3>3. CASE i + 1 # m
      <4>1. ~Extends(list[i], list[i + 1].first)
        BY <2>8, <3>1, <3>3, <2>1 DEF Grouped
      <4>. QED  BY <3>1, <3>3, <2>1, <2>8, <4>1 DEF Extends
    <3>. QED  BY <3>2, <3>3
  <2>. QED  BY <1>1, <2>1, <2>5, <2>6, <2>7, <2>8 DEF Grouped, new
<1>. QED  BY <1>4, <1>5

\* planPulls keeps every promise of Grouped, whatever the blocks to fetch:
\* resumed and locally filled files leave gaps, and no run crosses one.
THEOREM PlanGroupsNeeds ==
    ASSUME NEW blocks \in SUBSET Blocks
    PROVE  Grouped(planPulls(blocks), blocks)
<1>1. PICK g \in [0..BlockCount -> Seq(Runs)] :
         Planning(g, blocks) /\ planPulls(blocks) = g[BlockCount]
  BY PlanIsComputed
<1>. DEFINE upto(b) == blocks \cap 1..b
            ok(b) == Grouped(g[b], upto(b))
            S == {b \in 0..BlockCount : ok(b)}
<1>2. BlockCount \in Nat
  BY BatchAssumption
<1>3. 0 \in S
  <2>1. g[0] = <<>> /\ upto(0) = {}
    BY <1>1, <1>2 DEF Planning
  <2>2. Grouped(<<>>, {})
    BY DEF Grouped
  <2>. QED  BY <1>2, <2>1, <2>2
<1>4. ASSUME NEW b \in 1..BlockCount, b - 1 \in S PROVE b \in S
  <2>1. g[b] = IF b \in blocks THEN WithBlock(g[b - 1], b) ELSE g[b - 1]
    BY <1>1, <1>2 DEF Planning
  <2>2. Grouped(g[b - 1], upto(b - 1)) /\ upto(b - 1) \subseteq 1..(b - 1)
    BY <1>4
  <2>3. CASE b \in blocks
    <3>1. upto(b) = upto(b - 1) \cup {b}
      BY <2>3, <1>2
    <3>2. Grouped(WithBlock(g[b - 1], b), upto(b - 1) \cup {b})
      <4>. HIDE DEF upto
      <4>. QED  BY <2>2, GroupingGrows
    <3>3. g[b] = WithBlock(g[b - 1], b)
      BY <2>1, <2>3
    <3>4. ok(b)
      BY <3>1, <3>2, <3>3
    <3>. QED  BY <3>4, <1>2
  <2>4. CASE b \notin blocks
    <3>1. upto(b) = upto(b - 1)
      BY <2>4, <1>2
    <3>2. ok(b)
      BY <3>1, <2>1, <2>2, <2>4
    <3>. QED  BY <3>2, <1>2
  <2>. QED  BY <2>3, <2>4
<1>5. BlockCount \in S
  <2>1. \A b \in 0..BlockCount : b \in S
    <3>. HIDE DEF S
    <3>. QED  BY <1>2, <1>3, <1>4, PositionInduction
  <2>. QED  BY <1>2, <2>1
<1>6. upto(BlockCount) = blocks
  BY DEF Blocks
<1>. QED  BY <1>1, <1>5, <1>6

LEMMA BlocksFinite == \A S \in SUBSET Blocks : IsFiniteSet(S) /\ Cardinality(S) \in 0..BlockCount
<1>1. IsFiniteSet(Blocks) /\ Cardinality(Blocks) = BlockCount
  BY BatchAssumption, FS_Interval DEF Blocks
<1>2. ASSUME NEW S \in SUBSET Blocks PROVE IsFiniteSet(S) /\ Cardinality(S) \in 0..BlockCount
  <2>1. IsFiniteSet(S) /\ Cardinality(S) <= BlockCount
    BY <1>1, FS_Subset
  <2>. QED  BY <2>1, FS_CardinalityType, BatchAssumption
<1>. QED  BY <1>2

\* The same promises, as the steps of the batch need them.
Partitions(list, blocks) ==
    /\ list \in Seq(Runs) /\ Len(list) \in 0..BlockCount
    /\ \A i \in 1..Len(list) :
          /\ list[i] \in Runs /\ list[i].size \in Nat
          /\ Covered(list[i]) \in SUBSET blocks /\ Covered(list[i]) # {}
          /\ Cardinality(Covered(list[i])) = list[i].size
    /\ \A i, j \in 1..Len(list) : i # j => Covered(list[i]) \cap Covered(list[j]) = {}
    /\ \A b \in blocks : \E i \in 1..Len(list) : b \in Covered(list[i])

LEMMA GroupedPartitions ==
    ASSUME NEW blocks \in SUBSET Blocks, NEW list, Grouped(list, blocks)
    PROVE  Partitions(list, blocks)
<1>1. list \in Seq(Runs) /\ Len(list) \in Nat
  BY DEF Grouped
<1>2. \A r \in Runs : /\ r.first \in Nat /\ r.size \in Nat /\ r.size >= 1 /\ r.first >= 1
                      /\ r.first <= BlockCount
  BY BatchAssumption DEF Runs, Blocks
<1>3. \A i \in 1..Len(list) : list[i] \in Runs
  BY <1>1
<1>4. Len(list) <= BlockCount
  <2>1. CASE Len(list) = 0
    BY <2>1, BatchAssumption
  <2>2. CASE Len(list) # 0
    <3>1. Len(list) \in 1..Len(list)
      BY <2>2, <1>1
    <3>2. Len(list) <= list[Len(list)].first /\ list[Len(list)].first <= BlockCount
      BY <3>1, <1>2, <1>3 DEF Grouped
    <3>. QED  BY <3>1, <3>2, <1>1, <1>2, <1>3, BatchAssumption
  <2>. QED  BY <2>1, <2>2
<1>5. ASSUME NEW i \in 1..Len(list)
      PROVE  /\ Covered(list[i]) \in SUBSET blocks /\ Covered(list[i]) # {}
             /\ Cardinality(Covered(list[i])) = list[i].size
  <2>. DEFINE a == list[i].first
              z == list[i].size
  <2>1. a \in Nat /\ z \in Nat /\ z >= 1
    BY <1>2, <1>3
  <2>2. Covered(list[i]) = a..(a + z - 1)
    BY DEF Covered
  <2>. HIDE DEF a, z
  <2>3. a + z - 1 \in Int /\ a \in Int /\ ~(a > a + z - 1) /\ (a + z - 1) - a + 1 = z
    BY <2>1
  <2>4. Cardinality(a..(a + z - 1)) = (a + z - 1) - a + 1
    BY <2>3, FS_Interval
  <2>5. a \in a..(a + z - 1)
    BY <2>1
  <2>6. Covered(list[i]) \subseteq blocks
    BY DEF Grouped
  <2>. QED  BY <2>2, <2>3, <2>4, <2>5, <2>6 DEF z
<1>6. ASSUME NEW i \in 1..Len(list), NEW j \in 1..Len(list), i < j
      PROVE  Covered(list[i]) \cap Covered(list[j]) = {}
  <2>1. list[i].first + list[i].size <= list[j].first
    BY <1>6 DEF Grouped
  <2>. QED  BY <2>1, <1>2, <1>3 DEF Covered
<1>7. ASSUME NEW i \in 1..Len(list), NEW j \in 1..Len(list), i # j
      PROVE  Covered(list[i]) \cap Covered(list[j]) = {}
  <2>1. i < j \/ j < i
    BY <1>1, <1>7
  <2>. QED  BY <2>1, <1>6
<1>8. \A b \in blocks : \E i \in 1..Len(list) : b \in Covered(list[i])
  BY DEF Grouped
<1>9. Len(list) \in 0..BlockCount
  BY <1>1, <1>4, BatchAssumption
<1>10. \A i \in 1..Len(list) : list[i].size \in Nat
  BY <1>2, <1>3
<1>. HIDE DEF Runs, Blocks
<1>. QED  BY <1>1, <1>3, <1>5, <1>7, <1>8, <1>9, <1>10 DEF Partitions

\* The blocks of the first i runs.
FirstBlocks(list, i) == UNION {Covered(list[j]) : j \in 1..i}

LEMMA DisjointUnion ==
    ASSUME NEW S, IsFiniteSet(S), NEW T, IsFiniteSet(T), S \cap T = {}
    PROVE  /\ IsFiniteSet(S \cup T)
           /\ Cardinality(S \cup T) = Cardinality(S) + Cardinality(T)
           /\ Cardinality(S) \in Nat /\ Cardinality(T) \in Nat
<1>1. /\ IsFiniteSet(S \cup T)
      /\ Cardinality(S \cup T) = Cardinality(S) + Cardinality(T) - Cardinality(S \cap T)
  BY FS_Union
<1>2. Cardinality(S \cap T) = 0
  BY FS_EmptySet
<1>3. Cardinality(S) \in Nat /\ Cardinality(T) \in Nat
  BY FS_CardinalityType
<1>. QED  BY <1>1, <1>2, <1>3

\* The bytes of the first runs are their blocks, as no two runs overlap.
LEMMA BytesAreBlocks ==
    ASSUME NEW blocks \in SUBSET Blocks, NEW list, Grouped(list, blocks),
           NEW i \in 0..Len(list)
    PROVE  /\ BytesOf(list, i) = Cardinality(FirstBlocks(list, i))
           /\ FirstBlocks(list, i) \in SUBSET blocks
<1>0. Partitions(list, blocks)
  BY GroupedPartitions
<1>1. list \in Seq(Runs) /\ Len(list) \in Nat /\ i \in Nat
  BY <1>0 DEF Partitions
<1>2. \A j \in 1..Len(list) : list[j].size \in Nat
  BY <1>0 DEF Partitions
<1>. DEFINE step == [m \in (1..i) \X Nat |-> m[2] + list[m[1]].size]
            Summing(h) == h = [j \in 0..i |-> IF j = 0 THEN 0 ELSE h[j - 1] + list[j].size]
<1>3. \E h : Summing(h)
  <2>1. step \in [(1..i) \X Nat -> Nat]
    <3>1. \A m \in (1..i) \X Nat : m[2] + list[m[1]].size \in Nat
      BY <1>1, <1>2
    <3>. QED  BY <3>1
  <2>2. PICK g \in [0..i -> Nat] : Computes(g, i, 0, step)
    <3>. HIDE DEF step
    <3>. QED  BY <1>1, <2>1, ComputedFunctionExists
  <2>3. ASSUME NEW j \in 0..i
        PROVE  g[j] = IF j = 0 THEN 0 ELSE g[j - 1] + list[j].size
    <3>1. CASE j = 0
      BY <2>2, <3>1 DEF Computes
    <3>2. CASE j # 0
      <4>1. j \in 1..i /\ j - 1 \in 0..i /\ g[j - 1] \in Nat
        BY <3>2, <1>1, <2>2
      <4>2. g[j] = step[<<j, g[j - 1]>>]
        BY <2>2, <3>2 DEF Computes
      <4>3. <<j, g[j - 1]>> \in (1..i) \X Nat
        BY <4>1
      <4>. QED  BY <3>2, <4>2, <4>3
    <3>. QED  BY <3>1, <3>2
  <2>4. g = [j \in 0..i |-> g[j]]
    BY <2>2
  <2>5. Summing(g)
    <3>. HIDE DEF step
    <3>. QED  BY <2>3, <2>4
  <2>. QED  BY <2>5
<1>4. BytesOf(list, i) = (CHOOSE h : Summing(h))[i]
  BY DEF BytesOf
<1>. DEFINE h == CHOOSE h : Summing(h)
<1>5. Summing(h)
  BY <1>3
<1>. HIDE DEF h
<1>. DEFINE S == {j \in 0..i : /\ h[j] = Cardinality(FirstBlocks(list, j))
                               /\ FirstBlocks(list, j) \in SUBSET blocks}
<1>6. 0 \in S
  <2>1. FirstBlocks(list, 0) = {} /\ h[0] = 0 /\ 0 \in 0..i
    BY <1>1, <1>5 DEF FirstBlocks
  <2>. QED  BY <2>1, FS_EmptySet
<1>7. ASSUME NEW j \in 1..i, j - 1 \in S PROVE j \in S
  <2>1. j \in 1..Len(list) /\ j \in 0..i /\ j # 0 /\ j - 1 \in 0..i
    BY <1>1
  <2>2. h[j] = h[j - 1] + list[j].size
    BY <1>5, <2>1
  <2>. DEFINE old == FirstBlocks(list, j - 1)
              new == Covered(list[j])
  <2>3. FirstBlocks(list, j) = old \cup new
    <3>1. 1..j = 1..(j - 1) \cup {j}
      OBVIOUS
    <3>. QED  BY <3>1 DEF FirstBlocks
  <2>4. old \cap new = {}
    <3>1. \A k \in 1..(j - 1) : Covered(list[k]) \cap Covered(list[j]) = {}
      <4>1. \A k \in 1..(j - 1) : k \in 1..Len(list) /\ k # j
        BY <2>1, <1>1
      <4>. QED  BY <4>1, <2>1, <1>0 DEF Partitions
    <3>. QED  BY <3>1 DEF FirstBlocks
  <2>5. old \in SUBSET blocks /\ h[j - 1] = Cardinality(old)
    BY <1>7
  <2>6. new \in SUBSET blocks /\ Cardinality(new) = list[j].size
    BY <2>1, <1>0 DEF Partitions
  <2>7. IsFiniteSet(old) /\ IsFiniteSet(new)
    BY <2>5, <2>6, BlocksFinite
  <2>. HIDE DEF old, new
  <2>8. Cardinality(old \cup new) = Cardinality(old) + Cardinality(new)
    BY <2>4, <2>7, DisjointUnion
  <2>. QED  BY <2>1, <2>2, <2>3, <2>5, <2>6, <2>8
<1>8. i \in S
  <2>1. \A j \in 0..i : j \in S
    <3>. HIDE DEF S
    <3>. QED  BY <1>1, <1>6, <1>7, PositionInduction
  <2>. QED  BY <1>1, <2>1
<1>. QED  BY <1>4, <1>8 DEF h

----------------------------------------------------------------------------
(* The wire, one change at a time.                                         *)

Answers == [id : Ids, code : Codes]

\* Questions nobody asked before are put on the wire.
LEMMA WireAsks ==
    ASSUME NEW F \in SUBSET Ids, NEW q \in Seq(Ids), NEW s \in SUBSET Ids,
           NEW r \in Seq(Answers), Wire(F, q, s, r),
           NEW new \in Seq(Ids), \A k \in 1..Len(new) : new[k] \notin F,
           \A k, l \in 1..Len(new) : new[k] = new[l] => k = l,
           NEW G \in SUBSET Ids, F \subseteq G, \A k \in 1..Len(new) : new[k] \in G
    PROVE  Wire(G, q \o new, s, r)
<1>. DEFINE p == q \o new
<1>1. /\ Len(p) = Len(q) + Len(new) /\ Len(q) \in Nat /\ Len(new) \in Nat
      /\ \A k \in 1..Len(p) : k \in 1..Len(q) => p[k] = q[k]
      /\ \A k \in 1..Len(p) : k \notin 1..Len(q) => p[k] = new[k - Len(q)] /\ k - Len(q) \in 1..Len(new)
  OBVIOUS
<1>. HIDE DEF p
<1>2. \A k \in 1..Len(p) : p[k] \in G \ s
  <2>1. \A k \in 1..Len(q) : q[k] \in F \ s
    BY DEF Wire
  <2>2. s \subseteq F
    BY DEF Wire
  <2>. QED  BY <1>1, <2>1, <2>2
<1>3. ASSUME NEW k \in 1..Len(p), NEW l \in 1..Len(p), p[k] = p[l]
      PROVE  k = l
  <2>1. CASE k \in 1..Len(q) /\ l \in 1..Len(q)
    BY <1>1, <1>3, <2>1 DEF Wire
  <2>2. CASE k \notin 1..Len(q) /\ l \notin 1..Len(q)
    <3>1. k - Len(q) = l - Len(q)
      BY <1>1, <1>3, <2>2
    <3>. QED  BY <3>1, <1>1
  <2>3. CASE k \in 1..Len(q) /\ l \notin 1..Len(q)
    <3>1. q[k] \in F
      BY <2>3 DEF Wire
    <3>. QED  BY <1>1, <1>3, <2>3, <3>1
  <2>4. CASE k \notin 1..Len(q) /\ l \in 1..Len(q)
    <3>1. q[l] \in F
      BY <2>4 DEF Wire
    <3>. QED  BY <1>1, <1>3, <2>4, <3>1
  <2>. QED  BY <2>1, <2>2, <2>3, <2>4
<1>4. ASSUME NEW k \in 1..Len(p), NEW l \in 1..Len(r) PROVE p[k] # r[l].id
  <2>1. r[l].id \in F
    BY DEF Wire
  <2>2. CASE k \in 1..Len(q)
    BY <1>1, <2>2 DEF Wire
  <2>3. CASE k \notin 1..Len(q)
    <3>1. p[k] = new[k - Len(q)] /\ k - Len(q) \in 1..Len(new)
      BY <1>1, <2>3
    <3>2. p[k] \notin F
      BY <3>1
    <3>. QED  BY <2>1, <3>2
  <2>. QED  BY <2>2, <2>3
<1>5. \A k \in 1..Len(r) : r[k].id \in G \ s
  BY DEF Wire
<1>6. s \subseteq G /\ \A k, l \in 1..Len(r) : r[k].id = r[l].id => k = l
  BY DEF Wire
<1>. QED  BY <1>2, <1>3, <1>4, <1>5, <1>6 DEF Wire, p

\* The first answer is read, and its question is closed.
LEMMA WireReads ==
    ASSUME NEW F \in SUBSET Ids, NEW q \in Seq(Ids), NEW s \in SUBSET Ids,
           NEW r \in Seq(Answers), Wire(F, q, s, r), r # <<>>
    PROVE  /\ Head(r).id \in F /\ Head(r).id \in Ids /\ Tail(r) \in Seq(Answers)
           /\ Wire(F \ {Head(r).id}, q, s, Tail(r))
<1>. DEFINE t == Tail(r)
            id == Head(r).id
<1>1. /\ Len(r) \in Nat /\ 1 \in 1..Len(r) /\ t \in Seq(Answers) /\ Len(t) = Len(r) - 1
      /\ Head(r) = r[1] /\ r[1] \in Answers
      /\ \A k \in 1..Len(t) : t[k] = r[k + 1] /\ k + 1 \in 1..Len(r) /\ k + 1 # 1
  OBVIOUS
<1>2. id = r[1].id /\ id \in F /\ id \in Ids /\ id \notin s
  BY <1>1 DEF Wire, Answers
<1>. HIDE DEF t, id
<1>3. \A k \in 1..Len(t) : t[k].id \in (F \ {id}) \ s
  <2>. SUFFICES ASSUME NEW k \in 1..Len(t) PROVE t[k].id \in (F \ {id}) \ s
    OBVIOUS
  <2>1. t[k] = r[k + 1] /\ k + 1 \in 1..Len(r) /\ k + 1 # 1
    BY <1>1
  <2>2. r[k + 1].id # r[1].id /\ r[k + 1].id \in F \ s
    BY <1>1, <2>1 DEF Wire
  <2>. QED  BY <1>2, <2>1, <2>2
<1>4. \A k, l \in 1..Len(t) : t[k].id = t[l].id => k = l
  <2>. SUFFICES ASSUME NEW k \in 1..Len(t), NEW l \in 1..Len(t), t[k].id = t[l].id PROVE k = l
    OBVIOUS
  <2>0. r[k + 1].id = r[l + 1].id /\ k + 1 \in 1..Len(r) /\ l + 1 \in 1..Len(r)
    BY <1>1
  <2>1. k + 1 = l + 1
    <3>1. \A i, j \in 1..Len(r) : r[i].id = r[j].id => i = j
      BY DEF Wire
    <3>. QED  BY <2>0, <3>1
  <2>. QED  BY <2>1, <1>1
<1>5. \A k \in 1..Len(q) : q[k] \in (F \ {id}) \ s
  BY <1>1, <1>2 DEF Wire
<1>6. \A k \in 1..Len(q), l \in 1..Len(t) : q[k] # t[l].id
  BY <1>1 DEF Wire
<1>7. s \subseteq F \ {id} /\ \A k, l \in 1..Len(q) : q[k] = q[l] => k = l
  BY <1>2 DEF Wire
<1>8. Wire(F \ {id}, q, s, t)
  BY <1>3, <1>4, <1>5, <1>6, <1>7 DEF Wire
<1>. QED  BY <1>1, <1>2, <1>8 DEF t, id

\* A worker of the peer takes the first question.
LEMMA WireServes ==
    ASSUME NEW F \in SUBSET Ids, NEW q \in Seq(Ids), NEW s \in SUBSET Ids,
           NEW r \in Seq(Answers), Wire(F, q, s, r), q # <<>>
    PROVE  Wire(F, Tail(q), s \cup {Head(q)}, r)
<1>. DEFINE t == Tail(q)
            id == Head(q)
<1>1. /\ Len(q) \in Nat /\ 1 \in 1..Len(q) /\ t \in Seq(Ids) /\ Len(t) = Len(q) - 1 /\ id = q[1]
      /\ \A k \in 1..Len(t) : t[k] = q[k + 1] /\ k + 1 \in 1..Len(q) /\ k + 1 # 1
  OBVIOUS
<1>. HIDE DEF t, id
<1>2. id \in F
  BY <1>1 DEF Wire
<1>3. \A k \in 1..Len(t) : t[k] \in F \ (s \cup {id})
  BY <1>1 DEF Wire
<1>4. \A k, l \in 1..Len(t) : t[k] = t[l] => k = l
  <2>. SUFFICES ASSUME NEW k \in 1..Len(t), NEW l \in 1..Len(t), t[k] = t[l] PROVE k = l
    OBVIOUS
  <2>1. k + 1 = l + 1
    BY <1>1 DEF Wire
  <2>. QED  BY <2>1, <1>1
<1>5. \A k \in 1..Len(r) : r[k].id \in F \ (s \cup {id})
  BY <1>1 DEF Wire
<1>6. \A k \in 1..Len(t), l \in 1..Len(r) : t[k] # r[l].id
  BY <1>1 DEF Wire
<1>7. s \cup {id} \subseteq F /\ \A k, l \in 1..Len(r) : r[k].id = r[l].id => k = l
  BY <1>2 DEF Wire
<1>8. Wire(F, t, s \cup {id}, r)
  BY <1>3, <1>4, <1>5, <1>6, <1>7 DEF Wire
<1>. QED  BY <1>8 DEF t, id

\* A worker answers.
LEMMA WireAnswers ==
    ASSUME NEW F \in SUBSET Ids, NEW q \in Seq(Ids), NEW s \in SUBSET Ids,
           NEW r \in Seq(Answers), Wire(F, q, s, r), NEW id \in s, NEW code \in Codes
    PROVE  Wire(F, q, s \ {id}, Append(r, [id |-> id, code |-> code]))
<1>. DEFINE t == Append(r, [id |-> id, code |-> code])
            n == Len(r) + 1
<1>1. /\ Len(r) \in Nat /\ Len(t) = n /\ n \in 1..n /\ t[n].id = id
      /\ \A k \in 1..n : k # n => t[k] = r[k] /\ k \in 1..Len(r)
  BY DEF Answers
<1>. HIDE DEF t
<1>2. \A k \in 1..n : t[k].id \in F \ (s \ {id})
  BY <1>1 DEF Wire
<1>3. ASSUME NEW k \in 1..n, NEW l \in 1..n, t[k].id = t[l].id PROVE k = l
  <2>1. \A m \in 1..Len(r) : r[m].id # id
    BY DEF Wire
  <2>2. CASE k = n \/ l = n
    BY <1>1, <1>3, <2>1, <2>2
  <2>3. CASE k # n /\ l # n
    BY <1>1, <1>3, <2>3 DEF Wire
  <2>. QED  BY <2>2, <2>3
<1>4. \A k \in 1..Len(q), l \in 1..n : q[k] # t[l].id
  <2>1. \A k \in 1..Len(q) : q[k] # id
    BY DEF Wire
  <2>. QED  BY <1>1, <2>1 DEF Wire
<1>5. \A k \in 1..Len(q) : q[k] \in F \ (s \ {id})
  BY DEF Wire
<1>6. s \ {id} \subseteq F /\ \A k, l \in 1..Len(q) : q[k] = q[l] => k = l
  BY DEF Wire
<1>. QED  BY <1>1, <1>2, <1>3, <1>4, <1>5, <1>6 DEF Wire, t

----------------------------------------------------------------------------
(* The window loop of start.                                               *)

WindowOf(list) == IF Len(list) < Window THEN Len(list) ELSE Window

\* The loop ends: some number of runs is the one it sends.
LEMMA BurstFacts ==
    ASSUME NEW list \in Seq(Runs)
    PROVE  /\ Burst(list) \in 0..WindowOf(list)
           /\ Burst(list) < WindowOf(list) =>
                 ~Fits(inflightBytes + BytesOf(list, Burst(list)), list[Burst(list) + 1].size)
<1>. DEFINE limit == WindowOf(list)
            stops(m) == ~Fits(inflightBytes + BytesOf(list, m), list[m + 1].size)
            sends(i) == Fits(inflightBytes + BytesOf(list, i - 1), list[i].size)
            ends(m) == (\A i \in 1..m : sends(i)) /\ (m < limit => stops(m))
            T == {m \in 0..limit : m < limit => stops(m)}
<1>1. limit \in Nat
  BY BatchAssumption DEF WindowOf
<1>2. limit \in T /\ T \in SUBSET Nat
  BY <1>1
<1>3. PICK x \in T : \A y \in T : x <= y
  <2>. HIDE DEF T
  <2>. QED  BY <1>2, FirstOf
<1>4. x \in 0..limit /\ (x < limit => stops(x))
  BY <1>3
<1>5. ASSUME NEW i \in 1..x PROVE sends(i)
  <2>1. i - 1 \in 0..limit /\ i - 1 < limit /\ ~(x <= i - 1) /\ (i - 1) + 1 = i
    BY <1>1, <1>4
  <2>2. i - 1 \notin T
    <3>. HIDE DEF T
    <3>. QED  BY <1>3, <2>1
  <2>3. ~stops(i - 1)
    BY <2>1, <2>2
  <2>. QED  BY <2>1, <2>3
<1>6. ends(x)
  BY <1>4, <1>5
<1>7. Burst(list) = CHOOSE m \in 0..limit : ends(m)
  BY DEF Burst, WindowOf
<1>. HIDE DEF ends, limit
<1>8. Burst(list) \in 0..limit /\ ends(Burst(list))
  BY <1>4, <1>6, <1>7
<1>. QED  BY <1>8 DEF ends, limit

----------------------------------------------------------------------------
(* What is owed and what is charged, one request at a time.                *)

Places == Files \X Blocks

LEMMA PlacesFinite ==
    /\ IsFiniteSet(Files) /\ Cardinality(Files) = FileCount
    /\ IsFiniteSet(Blocks) /\ Cardinality(Blocks) = BlockCount
    /\ \A S \in SUBSET Places : IsFiniteSet(S) /\ Cardinality(S) \in Nat
<1>1. IsFiniteSet(Files) /\ Cardinality(Files) = FileCount
  BY BatchAssumption, FS_Interval DEF Files
<1>2. IsFiniteSet(Blocks) /\ Cardinality(Blocks) = BlockCount
  BY BatchAssumption, FS_Interval DEF Blocks
<1>3. IsFiniteSet(Places)
  BY <1>1, <1>2, FS_Product DEF Places
<1>4. ASSUME NEW S \in SUBSET Places PROVE IsFiniteSet(S) /\ Cardinality(S) \in Nat
  BY <1>3, FS_Subset, FS_CardinalityType
<1>. QED  BY <1>1, <1>2, <1>4

\* The blocks of one file.
LEMMA OfOneFile ==
    ASSUME NEW f \in Files, NEW S \in SUBSET Blocks
    PROVE  /\ {f} \X S \in SUBSET Places
           /\ Cardinality({f} \X S) = Cardinality(S)
<1>1. IsFiniteSet(S) /\ Cardinality(S) \in Nat
  BY BlocksFinite, BatchAssumption
<1>2. IsFiniteSet({f}) /\ Cardinality({f}) = 1
  BY FS_Singleton
<1>3. Cardinality({f} \X S) = Cardinality({f}) * Cardinality(S)
  BY <1>1, <1>2, FS_Product
<1>4. {f} \X S \in SUBSET Places
  BY DEF Places
<1>. QED  BY <1>1, <1>2, <1>3, <1>4

LEMMA PlanFacts ==
    ASSUME Planned, NEW f \in Files
    PROVE  /\ needs[f] \in SUBSET Blocks /\ Grouped(runs[f], needs[f])
           /\ Partitions(runs[f], needs[f])
           /\ Len(runs[f]) \in 0..BlockCount
           /\ \A i \in 1..Len(runs[f]) :
                 /\ Span(f, i) \in SUBSET needs[f] /\ Span(f, i) # {}
                 /\ runs[f][i] \in Runs /\ runs[f][i].size \in Nat
                 /\ Cardinality(Span(f, i)) = runs[f][i].size
           /\ \A i, j \in 1..Len(runs[f]) : i # j => Span(f, i) \cap Span(f, j) = {}
           /\ \A b \in needs[f] : \E i \in 1..Len(runs[f]) : b \in Span(f, i)
<1>1. needs[f] \in SUBSET Blocks /\ Grouped(runs[f], needs[f])
  BY DEF Planned
<1>2. Partitions(runs[f], needs[f])
  BY <1>1, GroupedPartitions
<1>. QED  BY <1>1, <1>2 DEF Partitions, Span

\* The requests of a plan.
Askable == {id \in Ids : id[2] <= Len(runs[id[1]])}

LEMMA RequestFacts ==
    ASSUME Planned, NEW id \in Askable
    PROVE  /\ id[1] \in Files /\ id[2] \in 1..Len(runs[id[1]]) /\ id = <<id[1], id[2]>>
           /\ Span(id[1], id[2]) \in SUBSET Blocks
           /\ {id[1]} \X Span(id[1], id[2]) \in SUBSET Places
           /\ Cardinality({id[1]} \X Span(id[1], id[2])) = Size(id) /\ Size(id) \in Nat
<1>1. id[1] \in Files /\ id[2] \in 1..BlockCount /\ id = <<id[1], id[2]>>
  BY DEF Askable, Ids
<1>2. Len(runs[id[1]]) \in Nat /\ id[2] <= Len(runs[id[1]])
  BY <1>1, PlanFacts, BatchAssumption DEF Askable
<1>3. id[2] \in 1..Len(runs[id[1]])
  BY <1>1, <1>2
<1>4. /\ Span(id[1], id[2]) \in SUBSET Blocks
      /\ Cardinality(Span(id[1], id[2])) = Size(id) /\ Size(id) \in Nat
  BY <1>1, <1>3, PlanFacts DEF Size
<1>. QED  BY <1>1, <1>3, <1>4, OfOneFile

\* Two requests ask for different blocks.
LEMMA RequestsDisjoint ==
    ASSUME Planned, NEW id \in Askable, NEW jd \in Askable, id # jd
    PROVE  ({id[1]} \X Span(id[1], id[2])) \cap ({jd[1]} \X Span(jd[1], jd[2])) = {}
<1>1. CASE id[1] # jd[1]
  BY <1>1
<1>2. CASE id[1] = jd[1]
  <2>1. id[2] # jd[2]
    BY <1>2, RequestFacts
  <2>2. Span(id[1], id[2]) \cap Span(jd[1], jd[2]) = {}
    BY <2>1, <1>2, RequestFacts, PlanFacts
  <2>. QED  BY <2>2
<1>. QED  BY <1>1, <1>2

LEMMA OwedPlaces ==
    ASSUME Planned, NEW F \in SUBSET Askable
    PROVE  OwedFor(F) \in SUBSET Places
<1>1. \A id \in F : {id[1]} \X Span(id[1], id[2]) \in SUBSET Places
  BY RequestFacts
<1>. QED  BY <1>1 DEF OwedFor

LEMMA OwedLess ==
    ASSUME Planned, NEW F \in SUBSET Askable, NEW id \in F
    PROVE  /\ Cardinality(OwedFor(F)) = Cardinality(OwedFor(F \ {id})) + Size(id)
           /\ Cardinality(OwedFor(F \ {id})) \in Nat /\ Size(id) \in Nat
<1>. DEFINE A == {id[1]} \X Span(id[1], id[2])
            B == OwedFor(F \ {id})
<1>1. OwedFor(F) = B \cup A
  BY DEF OwedFor
<1>2. B \cap A = {}
  <2>1. \A jd \in F \ {id} : ({jd[1]} \X Span(jd[1], jd[2])) \cap A = {}
    BY RequestsDisjoint
  <2>. QED  BY <2>1 DEF OwedFor
<1>3. B \in SUBSET Places /\ A \in SUBSET Places /\ Cardinality(A) = Size(id) /\ Size(id) \in Nat
  BY OwedPlaces, RequestFacts
<1>. HIDE DEF A, B
<1>4. IsFiniteSet(A) /\ IsFiniteSet(B) /\ Cardinality(B) \in Nat
  BY <1>3, PlacesFinite
<1>5. Cardinality(B \cup A) = Cardinality(B) + Cardinality(A)
  BY <1>2, <1>4, DisjointUnion
<1>. QED  BY <1>1, <1>3, <1>4, <1>5 DEF B

LEMMA ChargedPlaces ==
    ASSUME Planned, NEW asked, NEW arrived
    PROVE  /\ ChargedFor(asked, arrived) \in SUBSET Places
           /\ Cardinality(ChargedFor(asked, arrived)) \in Nat
<1>1. \A f \in Files : needs[f] \in SUBSET Blocks
  BY DEF Planned
<1>2. ChargedFor(asked, arrived) \in SUBSET Places
  BY <1>1 DEF ChargedFor, Places
<1>. QED  BY <1>2, PlacesFinite

\* What is charged, place by place.
LEMMA ChargedPlace ==
    ASSUME NEW asked, NEW arrived, NEW f \in Files, NEW b
    PROVE  <<f, b>> \in ChargedFor(asked, arrived)
             <=> b \in needs[f] \ arrived[f] /\ \E i \in 1..asked[f] : b \in Span(f, i)
BY DEF ChargedFor

LEMMA SamePlaces ==
    ASSUME NEW S \in SUBSET Places, NEW T \in SUBSET Places,
           \A f \in Files : \A b \in Blocks : <<f, b>> \in S <=> <<f, b>> \in T
    PROVE  S = T
BY DEF Places

\* A run of a file, asked for before, arrives.
RunWritten(f, n, asked, arrived, after) ==
    /\ f \in Files /\ n \in 1..Len(runs[f])
    /\ asked \in [Files -> 0..BlockCount] /\ arrived \in [Files -> SUBSET Blocks]
    /\ n <= asked[f] /\ Span(f, n) \cap arrived[f] = {}
    /\ after \in [Files -> SUBSET Blocks]
    /\ \A g \in Files : g # f => after[g] = arrived[g]
    /\ after[f] = arrived[f] \cup Span(f, n)

LEMMA ChargedArrives ==
    ASSUME Planned, NEW f, NEW n, NEW asked, NEW arrived, NEW after,
           RunWritten(f, n, asked, arrived, after)
    PROVE  Cardinality(ChargedFor(asked, arrived))
              = Cardinality(ChargedFor(asked, after)) + runs[f][n].size
<1>. DEFINE A == {f} \X Span(f, n)
            B == ChargedFor(asked, after)
            C == ChargedFor(asked, arrived)
<1>. USE DEF RunWritten
<1>1. /\ Span(f, n) \in SUBSET needs[f] /\ needs[f] \in SUBSET Blocks
      /\ Cardinality(Span(f, n)) = runs[f][n].size
  BY PlanFacts
<1>2. A \in SUBSET Places /\ Cardinality(A) = runs[f][n].size
  BY <1>1, OfOneFile
<1>3. B \in SUBSET Places /\ C \in SUBSET Places
  BY ChargedPlaces
<1>4. n \in 1..asked[f]
  OBVIOUS
<1>5. ASSUME NEW g \in Files, NEW b \in Blocks
      PROVE  <<g, b>> \in C <=> <<g, b>> \in B \cup A
  <2>1. <<g, b>> \in C
          <=> b \in needs[g] \ arrived[g] /\ \E i \in 1..asked[g] : b \in Span(g, i)
    BY ChargedPlace
  <2>2. <<g, b>> \in B
          <=> b \in needs[g] \ after[g] /\ \E i \in 1..asked[g] : b \in Span(g, i)
    BY ChargedPlace
  <2>3. <<g, b>> \in A <=> g = f /\ b \in Span(f, n)
    OBVIOUS
  <2>. HIDE DEF A, B, C
  <2>4. CASE g # f
    BY <2>1, <2>2, <2>3, <2>4
  <2>5. CASE g = f
    BY <2>1, <2>2, <2>3, <2>5, <1>1, <1>4
  <2>. QED  BY <2>4, <2>5
<1>6. B \cap A = {}
  <2>. SUFFICES ASSUME NEW b \in Span(f, n), <<f, b>> \in B PROVE FALSE
    OBVIOUS
  <2>1. b \notin after[f]
    BY ChargedPlace
  <2>. QED  BY <2>1
<1>. HIDE DEF A, B, C
<1>7. C = B \cup A
  <2>1. B \cup A \in SUBSET Places
    BY <1>2, <1>3
  <2>. QED  BY <1>3, <1>5, <2>1, SamePlaces
<1>8. IsFiniteSet(A) /\ IsFiniteSet(B)
  BY <1>2, <1>3, PlacesFinite
<1>9. Cardinality(B \cup A) = Cardinality(B) + Cardinality(A)
  BY <1>6, <1>8, DisjointUnion
<1>. QED  BY <1>2, <1>7, <1>9 DEF B, C

\* The blocks of the runs after the first n, up to k.
BlocksBetween(f, n, k, more) ==
    /\ \A i \in 1..n : more \cap Span(f, i) = {}
    /\ \A i \in (n + 1)..k : Span(f, i) \subseteq more
    /\ \A b \in more : \E i \in (n + 1)..k : b \in Span(f, i)

\* More runs of a file are asked for: these blocks.
RunsAdded(f, asked, then, arrived, more) ==
    /\ f \in Files
    /\ asked \in [Files -> 0..BlockCount] /\ arrived \in [Files -> SUBSET Blocks]
    /\ then \in [Files -> 0..BlockCount]
    /\ \A g \in Files : g # f => then[g] = asked[g]
    /\ asked[f] <= then[f] /\ more \in SUBSET needs[f]
    /\ more \cap arrived[f] = {} /\ BlocksBetween(f, asked[f], then[f], more)

LEMMA ChargedGrows ==
    ASSUME Planned, NEW f, NEW asked, NEW then, NEW arrived, NEW more,
           RunsAdded(f, asked, then, arrived, more)
    PROVE  Cardinality(ChargedFor(then, arrived))
              = Cardinality(ChargedFor(asked, arrived)) + Cardinality(more)
<1>. DEFINE A == {f} \X more
            B == ChargedFor(asked, arrived)
            k == then[f]
            C == ChargedFor(then, arrived)
<1>. USE DEF RunsAdded
<1>0. needs[f] \in SUBSET Blocks /\ asked[f] \in Nat /\ k \in Nat
  BY BatchAssumption DEF Planned
<1>1. A \in SUBSET Places /\ Cardinality(A) = Cardinality(more)
  BY <1>0, OfOneFile
<1>2. B \in SUBSET Places /\ C \in SUBSET Places
  BY ChargedPlaces
<1>3. \A i : i \in 1..k <=> i \in 1..asked[f] \/ i \in (asked[f] + 1)..k
  BY <1>0
<1>4. ASSUME NEW g \in Files, NEW b \in Blocks
      PROVE  <<g, b>> \in C <=> <<g, b>> \in B \cup A
  <2>1. <<g, b>> \in C
          <=> b \in needs[g] \ arrived[g] /\ \E i \in 1..then[g] : b \in Span(g, i)
    BY ChargedPlace
  <2>2. <<g, b>> \in B
          <=> b \in needs[g] \ arrived[g] /\ \E i \in 1..asked[g] : b \in Span(g, i)
    BY ChargedPlace
  <2>3. <<g, b>> \in A <=> g = f /\ b \in more
    OBVIOUS
  <2>. HIDE DEF A, B, C
  <2>4. CASE g # f
    BY <2>1, <2>2, <2>3, <2>4
  <2>5. CASE g = f
    <3>1. then[g] = k
      BY <2>5
    <3>2. (\E i \in 1..k : b \in Span(f, i))
            <=> (\E i \in 1..asked[f] : b \in Span(f, i)) \/ b \in more
      BY <1>3 DEF BlocksBetween
    <3>3. b \in more => b \in needs[f] \ arrived[f]
      OBVIOUS
    <3>. QED  BY <2>1, <2>2, <2>3, <2>5, <3>1, <3>2, <3>3
  <2>. QED  BY <2>4, <2>5
<1>5. B \cap A = {}
  <2>. SUFFICES ASSUME NEW b \in more, <<f, b>> \in B PROVE FALSE
    OBVIOUS
  <2>1. \E i \in 1..asked[f] : b \in Span(f, i)
    BY ChargedPlace
  <2>. QED  BY <2>1 DEF BlocksBetween
<1>. HIDE DEF A, B, C
<1>6. C = B \cup A
  <2>1. B \cup A \in SUBSET Places
    BY <1>1, <1>2
  <2>. QED  BY <1>2, <1>4, <2>1, SamePlaces
<1>7. IsFiniteSet(A) /\ IsFiniteSet(B)
  BY <1>1, <1>2, PlacesFinite
<1>8. Cardinality(B \cup A) = Cardinality(B) + Cardinality(A)
  BY <1>5, <1>7, DisjointUnion
<1>. QED  BY <1>1, <1>6, <1>8 DEF B, C

LEMMA BurstBlocks ==
    ASSUME Planned, NEW f \in Files, NEW m \in 0..Len(runs[f])
    PROVE  /\ BytesOf(runs[f], m) = Cardinality(FirstBlocks(runs[f], m))
           /\ FirstBlocks(runs[f], m) \in SUBSET needs[f]
<1>1. needs[f] \in SUBSET Blocks /\ Grouped(runs[f], needs[f])
  BY PlanFacts
<1>. QED  BY <1>1, BytesAreBlocks

\* The first burst of a file, on both sides of the account.
FirstAsked(f, m, asked, arrived, then) ==
    /\ f \in Files /\ m \in 0..Len(runs[f])
    /\ asked \in [Files -> 0..BlockCount] /\ arrived \in [Files -> SUBSET Blocks]
    /\ then \in [Files -> 0..BlockCount]
    /\ asked[f] = 0 /\ arrived[f] = {} /\ then[f] = m
    /\ \A g \in Files : g # f => then[g] = asked[g]

LEMMA BurstCharged ==
    ASSUME Planned, NEW f, NEW m, NEW asked, NEW arrived, NEW then,
           FirstAsked(f, m, asked, arrived, then)
    PROVE  Cardinality(ChargedFor(then, arrived))
              = Cardinality(ChargedFor(asked, arrived)) + BytesOf(runs[f], m)
<1>. DEFINE more == FirstBlocks(runs[f], m)
<1>. USE DEF FirstAsked
<1>1. /\ needs[f] \in SUBSET Blocks /\ Grouped(runs[f], needs[f])
      /\ Len(runs[f]) \in 0..BlockCount
  BY PlanFacts
<1>2. BytesOf(runs[f], m) = Cardinality(more) /\ more \in SUBSET needs[f]
  BY BurstBlocks
<1>3. m \in 0..BlockCount
  BY <1>1, BatchAssumption
<1>4. /\ \A i \in (asked[f] + 1)..m : Span(f, i) \subseteq more
      /\ \A b \in more : \E i \in (asked[f] + 1)..m : b \in Span(f, i)
  BY DEF FirstBlocks, Span
<1>5. BlocksBetween(f, asked[f], then[f], more)
  BY <1>4 DEF BlocksBetween
<1>6. asked[f] <= then[f]
  BY <1>3
<1>7. more \cap arrived[f] = {}
  OBVIOUS
<1>. HIDE DEF more
<1>8. Cardinality(ChargedFor(then, arrived))
         = Cardinality(ChargedFor(asked, arrived)) + Cardinality(more)
  <2>1. RunsAdded(f, asked, then, arrived, more)
    BY <1>2, <1>3, <1>5, <1>6, <1>7 DEF RunsAdded
  <2>. QED  BY <2>1, ChargedGrows
<1>. QED  BY <1>2, <1>8

LEMMA BurstOwed ==
    ASSUME Planned, NEW f \in Files, NEW m \in 0..Len(runs[f]),
           NEW F \in SUBSET Askable, \A id \in F : id[1] # f
    PROVE  /\ Cardinality(OwedFor(F \cup {<<f, i>> : i \in 1..m}))
                = Cardinality(OwedFor(F)) + BytesOf(runs[f], m)
           /\ Cardinality(OwedFor(F)) \in Nat /\ BytesOf(runs[f], m) \in Nat
<1>. DEFINE more == FirstBlocks(runs[f], m)
            A == {f} \X more
            B == OwedFor(F)
<1>1. needs[f] \in SUBSET Blocks /\ Grouped(runs[f], needs[f])
  BY PlanFacts
<1>2. BytesOf(runs[f], m) = Cardinality(more) /\ more \in SUBSET Blocks
  BY <1>1, BytesAreBlocks
<1>3. OwedFor(F \cup {<<f, i>> : i \in 1..m}) = B \cup A
  <2>1. UNION {{f} \X Span(f, i) : i \in 1..m} = A
    BY DEF FirstBlocks, Span
  <2>2. OwedFor({<<f, i>> : i \in 1..m}) = UNION {{f} \X Span(f, i) : i \in 1..m}
    <3>1. ASSUME NEW p, p \in OwedFor({<<f, i>> : i \in 1..m})
          PROVE  \E i \in 1..m : p \in {f} \X Span(f, i)
      <4>1. PICK id \in {<<f, i>> : i \in 1..m} : p \in {id[1]} \X Span(id[1], id[2])
        BY <3>1 DEF OwedFor
      <4>2. PICK i \in 1..m : id = <<f, i>>
        OBVIOUS
      <4>3. id[1] = f /\ id[2] = i
        BY <4>2
      <4>. QED  BY <4>1, <4>3
    <3>2. ASSUME NEW p, NEW i \in 1..m, p \in {f} \X Span(f, i)
          PROVE  p \in OwedFor({<<f, j>> : j \in 1..m})
      <4>1. <<f, i>> \in {<<f, j>> : j \in 1..m} /\ <<f, i>>[1] = f /\ <<f, i>>[2] = i
        OBVIOUS
      <4>. QED  BY <4>1, <3>2 DEF OwedFor
    <3>. QED  BY <3>1, <3>2
  <2>. DEFINE asked == {<<f, i>> : i \in 1..m}
  <2>3. OwedFor(F \cup asked) = OwedFor(F) \cup OwedFor(asked)
    <3>. HIDE DEF asked
    <3>. QED  BY DEF OwedFor
  <2>4. OwedFor(asked) = A
    BY <2>1, <2>2
  <2>. HIDE DEF asked, A
  <2>5. OwedFor(F \cup asked) = B \cup A
    BY <2>3, <2>4
  <2>. QED  BY <2>5 DEF asked
<1>4. B \cap A = {}
  BY DEF OwedFor
<1>5. B \in SUBSET Places /\ A \in SUBSET Places /\ Cardinality(A) = Cardinality(more)
  <2>. HIDE DEF more
  <2>. QED  BY <1>2, OwedPlaces, OfOneFile
<1>. HIDE DEF more, A, B
<1>6. IsFiniteSet(A) /\ IsFiniteSet(B) /\ Cardinality(B) \in Nat /\ Cardinality(A) \in Nat
  BY <1>5, PlacesFinite
<1>7. Cardinality(B \cup A) = Cardinality(B) + Cardinality(A)
  BY <1>4, <1>6, DisjointUnion
<1>. QED  BY <1>2, <1>3, <1>5, <1>6, <1>7 DEF B

----------------------------------------------------------------------------
(* The invariant holds at the start and is kept by the peer.               *)

LEMMA InFlightAskable ==
    ASSUME BatchTypeOK, AskedInTurn, Planned
    PROVE  inFlight \in SUBSET Askable
<1>. SUFFICES ASSUME NEW id \in inFlight PROVE id \in Askable
  OBVIOUS
<1>1. id \in Ids /\ id[1] \in Files /\ id[2] \in Nat
  BY DEF BatchTypeOK, Ids
<1>2. id[2] <= sent[id[1]] /\ sent[id[1]] <= Len(runs[id[1]])
  BY <1>1 DEF AskedInTurn
<1>3. sent[id[1]] \in Nat /\ Len(runs[id[1]]) \in Nat
  BY <1>1, PlanFacts, BatchAssumption DEF BatchTypeOK
<1>. QED  BY <1>1, <1>2, <1>3 DEF Askable

\* The plan never changes, so each part can be read in the new state with the
\* old plan.
LEMMA WithTheSamePlan ==
    ASSUME UNCHANGED plan
    PROVE  /\ Planned => Planned'
           /\ Cardinality(OwedFor(inFlight')) <= inflightBytes'
                /\ inflightBytes' <= Cardinality(ChargedFor(sent', written')) => Account'
           /\ \A f, i : Span(f, i)' = Span(f, i)
<1>1. needs' = needs /\ runs' = runs
  BY DEF plan
<1>2. Planned => Planned'
  BY <1>1 DEF Planned
<1>3. ASSUME Cardinality(OwedFor(inFlight')) <= inflightBytes',
             inflightBytes' <= Cardinality(ChargedFor(sent', written'))
      PROVE  Account'
  BY <1>1, <1>3 DEF Account, OwedFor, ChargedFor, Span
<1>4. \A f, i : Span(f, i)' = Span(f, i)
  BY <1>1 DEF Span
<1>. QED  BY <1>2, <1>3, <1>4

LEMMA AccountKept ==
    ASSUME Account, needs' = needs, runs' = runs, sent' = sent, written' = written,
           inFlight' = inFlight, inflightBytes' = inflightBytes
    PROVE  Account'
BY DEF Account, OwedFor, ChargedFor, Span

LEMMA BatchInitInv == BatchInit => BatchInv
<1>. SUFFICES ASSUME BatchInit PROVE BatchInv
  OBVIOUS
<1>1. \A f \in Files : needs[f] \in SUBSET Blocks /\ runs[f] = planPulls(needs[f])
  BY DEF BatchInit, Missing
<1>2. needs \in [Files -> SUBSET Blocks]
  BY DEF BatchInit, Missing
<1>3. Planned
  BY <1>1, PlanGroupsNeeds DEF Planned
<1>4. /\ \A f \in Files : state[f] = "waiting" /\ sent[f] = 0 /\ received[f] = 0 /\ written[f] = {}
      /\ inFlight = {} /\ inflightBytes = 0 /\ requests = <<>> /\ serving = {} /\ responses = <<>>
      /\ outcome = "running" /\ next = 1
  BY DEF BatchInit
<1>5. BatchTypeOK
  <2>1. \A f \in Files : runs[f] \in Seq([first : Blocks, size : 1..MaxRun])
    BY <1>3, PlanFacts DEF Partitions, Runs
  <2>2. /\ state \in [Files -> {"waiting", "active", "done", "abandoned"}]
        /\ sent \in [Files -> 0..BlockCount] /\ received \in [Files -> 0..BlockCount]
        /\ written \in [Files -> SUBSET Blocks] /\ next \in 1..(FileCount + 1)
        /\ paused \in BOOLEAN /\ peer \in {"serving", "gone"}
    <3>1. 0 \in 0..BlockCount /\ 1 \in 1..(FileCount + 1)
      BY BatchAssumption
    <3>. QED  BY <3>1 DEF BatchInit
  <2>3. /\ inFlight \subseteq Ids /\ inflightBytes \in Nat
        /\ requests \in Seq(Ids) /\ serving \subseteq Ids /\ responses \in Seq([id : Ids, code : Codes])
    BY <1>4
  <2>4. outcome \in {"running", "returned", "failed"}
    BY <1>4
  <2>. QED  BY <1>2, <2>1, <2>2, <2>3, <2>4 DEF BatchTypeOK
<1>6. AskedInTurn
  <2>1. \A f \in Files : Len(runs[f]) \in 0..BlockCount
    BY <1>3, PlanFacts
  <2>. QED  BY <1>4, <2>1, BatchAssumption DEF AskedInTurn
<1>7. OnTheWire /\ Drained
  BY <1>4 DEF OnTheWire, Wire, Drained
<1>8. CountedOnce /\ Awaited
  <2>1. \A f \in Files : f \notin Jobs
    BY <1>4 DEF Jobs
  <2>2. Awaited
    BY <2>1 DEF Awaited, Jobs
  <2>3. CountedOnce
    BY <1>4, FS_EmptySet DEF CountedOnce
  <2>. QED  BY <2>2, <2>3
<1>9. Account
  <2>1. Cardinality(OwedFor(inFlight)) = 0
    BY <1>4, FS_EmptySet DEF OwedFor
  <2>2. Cardinality(ChargedFor(sent, written)) \in Nat
    BY <1>3, ChargedPlaces
  <2>. QED  BY <1>4, <2>1, <2>2 DEF Account
<1>. QED  BY <1>3, <1>5, <1>6, <1>7, <1>8, <1>9 DEF BatchInv

\* A step that leaves the batch alone keeps the invariant if it keeps the wire.
LEMMA BatchUntouched ==
    ASSUME BatchInv, UNCHANGED <<plan, batchVars>>,
           paused' \in BOOLEAN, requests' \in Seq(Ids), serving' \in SUBSET Ids,
           responses' \in Seq(Answers), peer' \in {"serving", "gone"},
           Wire(inFlight, requests', serving', responses')
    PROVE  BatchInv'
<1>1. /\ needs' = needs /\ runs' = runs /\ next' = next /\ state' = state /\ sent' = sent
      /\ received' = received /\ written' = written /\ inFlight' = inFlight
      /\ inflightBytes' = inflightBytes /\ outcome' = outcome
  BY DEF plan, batchVars
<1>2. BatchTypeOK'
  BY <1>1 DEF BatchInv, BatchTypeOK, Answers
<1>3. Planned' /\ AskedInTurn' /\ Drained'
  BY <1>1 DEF BatchInv, Planned, AskedInTurn, Drained, Jobs
<1>4. OnTheWire'
  BY <1>1 DEF OnTheWire
<1>5. CountedOnce' /\ Awaited'
  BY <1>1 DEF BatchInv, CountedOnce, Awaited, Jobs, Span
<1>6. Account'
  BY <1>1, AccountKept DEF BatchInv
<1>. QED  BY <1>2, <1>3, <1>4, <1>5, <1>6 DEF BatchInv

LEMMA WireTypes ==
    ASSUME BatchInv
    PROVE  /\ inFlight \in SUBSET Ids /\ requests \in Seq(Ids) /\ serving \in SUBSET Ids
           /\ responses \in Seq(Answers) /\ paused \in BOOLEAN /\ peer \in {"serving", "gone"}
           /\ Wire(inFlight, requests, serving, responses)
BY DEF BatchInv, BatchTypeOK, OnTheWire, Answers

LEMMA ServeKeepsInv == BatchInv /\ Serve => BatchInv'
<1>. SUFFICES ASSUME BatchInv, Serve PROVE BatchInv'
  OBVIOUS
<1>1. /\ requests # <<>> /\ requests' = Tail(requests) /\ serving' = serving \cup {Head(requests)}
      /\ responses' = responses /\ peer' = peer /\ paused' = paused
      /\ UNCHANGED <<plan, batchVars>>
  BY DEF Serve
<1>2. requests' \in Seq(Ids) /\ serving' \in SUBSET Ids
  BY <1>1, WireTypes
<1>3. Wire(inFlight, requests', serving', responses')
  BY <1>1, WireTypes, WireServes
<1>. QED  BY <1>1, <1>2, <1>3, WireTypes, BatchUntouched

LEMMA AnswerKeepsInv ==
    ASSUME BatchInv, NEW id \in serving, NEW code \in Codes, Answer(id, code)
    PROVE  BatchInv'
<1>1. /\ serving' = serving \ {id} /\ responses' = Append(responses, [id |-> id, code |-> code])
      /\ requests' = requests /\ peer' = peer /\ paused' = paused
      /\ UNCHANGED <<plan, batchVars>>
  BY DEF Answer
<1>2. id \in Ids /\ [id |-> id, code |-> code] \in Answers
  BY WireTypes DEF Answers
<1>3. serving' \in SUBSET Ids /\ responses' \in Seq(Answers)
  BY <1>1, <1>2, WireTypes
<1>4. Wire(inFlight, requests', serving', responses')
  BY <1>1, WireTypes, WireAnswers
<1>. QED  BY <1>1, <1>3, <1>4, WireTypes, BatchUntouched

LEMMA VanishKeepsInv == BatchInv /\ Vanish => BatchInv'
<1>. SUFFICES ASSUME BatchInv, Vanish PROVE BatchInv'
  OBVIOUS
<1>1. /\ requests' = <<>> /\ serving' = {} /\ responses' = responses /\ peer' = "gone"
      /\ paused' = paused /\ UNCHANGED <<plan, batchVars>>
  BY DEF Vanish
<1>2. Wire(inFlight, requests', serving', responses')
  BY <1>1, WireTypes DEF Wire
<1>. QED  BY <1>1, <1>2, WireTypes, BatchUntouched

LEMMA PauseKeepsInv == BatchInv /\ Pause => BatchInv'
<1>. SUFFICES ASSUME BatchInv, Pause PROVE BatchInv'
  OBVIOUS
<1>1. /\ requests' = requests /\ serving' = serving /\ responses' = responses /\ peer' = peer
      /\ paused' = TRUE /\ UNCHANGED <<plan, batchVars>>
  BY DEF Pause, wireVars
<1>. QED  BY <1>1, WireTypes, BatchUntouched

----------------------------------------------------------------------------
(* The steps of the batch.                                                 *)

LEMMA ReturnKeepsInv == BatchInv /\ Return => BatchInv'
<1>. SUFFICES ASSUME BatchInv, Return PROVE BatchInv'
  OBVIOUS
<1>1. /\ needs' = needs /\ runs' = runs /\ next' = next /\ state' = state /\ sent' = sent
      /\ received' = received /\ written' = written /\ inFlight' = inFlight
      /\ inflightBytes' = inflightBytes /\ outcome' = "returned" /\ paused' = paused
      /\ requests' = requests /\ serving' = serving /\ responses' = responses /\ peer' = peer
      /\ Jobs = {} /\ inFlight = {}
  BY DEF Return, plan, wireVars, Over
<1>2. BatchTypeOK'
  BY <1>1 DEF BatchInv, BatchTypeOK
<1>3. Planned' /\ AskedInTurn' /\ Drained'
  BY <1>1 DEF BatchInv, Planned, AskedInTurn, Drained, Jobs
<1>4. OnTheWire'
  BY <1>1 DEF BatchInv, OnTheWire
<1>5. CountedOnce' /\ Awaited'
  BY <1>1 DEF BatchInv, CountedOnce, Awaited, Jobs, Span
<1>6. Account'
  BY <1>1, AccountKept DEF BatchInv
<1>. QED  BY <1>2, <1>3, <1>4, <1>5, <1>6 DEF BatchInv

LEMMA LeaveRestKeepsInv == BatchInv /\ LeaveRest => BatchInv'
<1>. SUFFICES ASSUME BatchInv, LeaveRest PROVE BatchInv'
  OBVIOUS
<1>1. /\ needs' = needs /\ runs' = runs /\ next' = FileCount + 1 /\ state' = state /\ sent' = sent
      /\ received' = received /\ written' = written /\ inFlight' = inFlight
      /\ inflightBytes' = inflightBytes /\ outcome' = outcome /\ paused' = paused
      /\ requests' = requests /\ serving' = serving /\ responses' = responses /\ peer' = peer
  BY DEF LeaveRest, plan, wireVars
<1>2. BatchTypeOK'
  <2>1. next' \in 1..(FileCount + 1)
    BY <1>1, BatchAssumption
  <2>. QED  BY <1>1, <2>1 DEF BatchInv, BatchTypeOK
<1>3. AskedInTurn'
  <2>1. \A f \in Files : ~(f >= next')
    BY <1>1, BatchAssumption DEF Files
  <2>. QED  BY <1>1, <2>1 DEF BatchInv, AskedInTurn
<1>4. Planned' /\ Drained'
  BY <1>1 DEF BatchInv, Planned, Drained, Jobs
<1>5. OnTheWire'
  BY <1>1 DEF BatchInv, OnTheWire
<1>6. CountedOnce' /\ Awaited'
  BY <1>1 DEF BatchInv, CountedOnce, Awaited, Jobs, Span
<1>7. Account'
  BY <1>1, AccountKept DEF BatchInv
<1>. QED  BY <1>2, <1>3, <1>4, <1>5, <1>6, <1>7 DEF BatchInv

LEMMA TimeoutKeepsInv == BatchInv /\ Timeout => BatchInv'
<1>. SUFFICES ASSUME BatchInv, Timeout PROVE BatchInv'
  OBVIOUS
<1>1. /\ needs' = needs /\ runs' = runs /\ next' = next /\ sent' = sent
      /\ received' = received /\ written' = written /\ inFlight' = inFlight
      /\ inflightBytes' = inflightBytes /\ outcome' = "failed" /\ paused' = paused
      /\ requests' = requests /\ serving' = serving /\ responses' = responses /\ peer' = peer
      /\ state' = [f \in Files |-> IF f \in Jobs THEN "abandoned" ELSE state[f]]
  BY DEF Timeout, plan, wireVars
<1>2. \A f \in Files : /\ state'[f] # "active"
                       /\ state[f] = "waiting" <=> state'[f] = "waiting"
  BY <1>1 DEF Jobs
<1>3. BatchTypeOK'
  <2>1. state' \in [Files -> {"waiting", "active", "done", "abandoned"}]
    BY <1>1 DEF BatchInv, BatchTypeOK
  <2>. QED  BY <1>1, <2>1 DEF BatchInv, BatchTypeOK
<1>4. AskedInTurn'
  BY <1>1, <1>2 DEF BatchInv, AskedInTurn
<1>5. Planned' /\ Drained'
  BY <1>1 DEF BatchInv, Planned, Drained
<1>6. OnTheWire'
  BY <1>1 DEF BatchInv, OnTheWire
<1>7. CountedOnce'
  BY <1>1 DEF BatchInv, CountedOnce, Span
<1>8. Awaited'
  BY <1>2 DEF Awaited, Jobs
<1>9. Account'
  BY <1>1, AccountKept DEF BatchInv
<1>. QED  BY <1>3, <1>4, <1>5, <1>6, <1>7, <1>8, <1>9 DEF BatchInv

\* The file to start: nothing is asked for it yet.
LEMMA NextIsFresh ==
    ASSUME BatchInv, ~AdmissionOver
    PROVE  /\ next \in Files /\ state[next] = "waiting" /\ sent[next] = 0 /\ written[next] = {}
           /\ \A id \in inFlight : id[1] # next
<1>1. next \in Files
  BY BatchAssumption DEF BatchInv, BatchTypeOK, AdmissionOver, Files
<1>2. state[next] = "waiting"
  BY <1>1 DEF BatchInv, AskedInTurn, Files
<1>3. sent[next] = 0 /\ written[next] = {}
  BY <1>1, <1>2 DEF BatchInv, AskedInTurn
<1>4. ASSUME NEW id \in inFlight, id[1] = next PROVE FALSE
  <2>1. id[2] >= 1 /\ id[2] \in Nat
    BY DEF BatchInv, BatchTypeOK, Ids
  <2>2. id[2] <= sent[id[1]]
    BY DEF BatchInv, AskedInTurn
  <2>. QED  BY <1>3, <1>4, <2>1, <2>2
<1>. QED  BY <1>1, <1>2, <1>3, <1>4

\* A file that needs nothing.
LEMMA StartEmptyKeepsInv == BatchInv /\ Start /\ runs[next] = <<>> => BatchInv'
<1>. SUFFICES ASSUME BatchInv, Start, runs[next] = <<>> PROVE BatchInv'
  OBVIOUS
<1>0. ~AdmissionOver
  BY DEF Start
<1>1. /\ needs' = needs /\ runs' = runs /\ next' = next + 1 /\ sent' = sent
      /\ received' = received /\ written' = written /\ inFlight' = inFlight
      /\ inflightBytes' = inflightBytes /\ outcome' = outcome /\ paused' = paused
      /\ requests' = requests /\ serving' = serving /\ responses' = responses /\ peer' = peer
      /\ state' = [state EXCEPT ![next] = "done"]
  BY DEF Start, plan
<1>2. state \in [Files -> {"waiting", "active", "done", "abandoned"}] /\ next \in Files
  BY <1>0, NextIsFresh DEF BatchInv, BatchTypeOK
<1>3. /\ \A f \in Files : f # next => state'[f] = state[f]
      /\ state'[next] = "done"
      /\ state' \in [Files -> {"waiting", "active", "done", "abandoned"}]
  BY <1>1, <1>2
<1>4. next' \in 1..(FileCount + 1) /\ \A f \in Files : f >= next' => f >= next /\ f # next
  BY <1>1, <1>2, BatchAssumption DEF Files
<1>5. BatchTypeOK'
  BY <1>1, <1>3, <1>4 DEF BatchInv, BatchTypeOK
<1>6. AskedInTurn'
  BY <1>1, <1>3, <1>4 DEF BatchInv, AskedInTurn
<1>7. Planned' /\ OnTheWire'
  BY <1>1 DEF BatchInv, Planned, OnTheWire
<1>8. Drained'
  BY <1>1 DEF Start, Running, Drained
<1>9. CountedOnce'
  BY <1>1 DEF BatchInv, CountedOnce, Span
<1>10. Awaited'
  <2>1. \A f \in Files : state'[f] = "active" => state[f] = "active"
    BY <1>3
  <2>. QED  BY <1>1, <2>1 DEF BatchInv, Awaited, Jobs, Span
<1>11. Account'
  BY <1>1, AccountKept DEF BatchInv
<1>. QED  BY <1>5, <1>6, <1>7, <1>8, <1>9, <1>10, <1>11 DEF BatchInv

\* A file whose first window is sent.
LEMMA StartBurstFacts ==
    ASSUME BatchInv, Start, runs[next] # <<>>,
           NEW m, m = Burst(runs[next])
    PROVE  /\ needs' = needs /\ runs' = runs /\ next' = next + 1 /\ received' = received
           /\ written' = written /\ outcome' = outcome /\ outcome = "running"
           /\ paused' = paused /\ serving' = serving /\ responses' = responses /\ peer' = peer
           /\ next \in Files /\ m \in 0..Len(runs[next]) /\ m \in 0..BlockCount
           /\ runs[next] \in Seq(Runs)
           /\ \A f \in Files : f # next => state'[f] = state[f] /\ sent'[f] = sent[f]
           /\ state'[next] = "active" /\ sent'[next] = m
           /\ state' \in [Files -> {"waiting", "active", "done", "abandoned"}]
           /\ sent' \in [Files -> 0..BlockCount]
           /\ inFlight' = inFlight \cup {<<next, i>> : i \in 1..m} /\ inFlight' \in SUBSET Ids
           /\ inflightBytes' = inflightBytes + BytesOf(runs[next], m)
           /\ requests' = requests \o [i \in 1..m |-> <<next, i>>]
<1>1. next \in Files
  BY NextIsFresh DEF Start
<1>2. /\ state \in [Files -> {"waiting", "active", "done", "abandoned"}]
      /\ sent \in [Files -> 0..BlockCount] /\ inFlight \in SUBSET Ids
  BY DEF BatchInv, BatchTypeOK
<1>3. runs[next] \in Seq(Runs) /\ Len(runs[next]) \in 0..BlockCount
  BY <1>1, PlanFacts DEF BatchInv, Partitions
<1>4. m \in 0..Len(runs[next]) /\ m \in 0..BlockCount
  <2>1. m \in 0..WindowOf(runs[next])
    BY <1>3, BurstFacts
  <2>. QED  BY <1>3, <2>1, BatchAssumption DEF WindowOf
<1>5. /\ needs' = needs /\ runs' = runs /\ next' = next + 1 /\ received' = received
      /\ written' = written /\ outcome' = outcome /\ outcome = "running"
      /\ paused' = paused /\ serving' = serving /\ responses' = responses /\ peer' = peer
      /\ state' = [state EXCEPT ![next] = "active"]
      /\ sent' = [sent EXCEPT ![next] = m]
      /\ inFlight' = inFlight \cup {<<next, i>> : i \in 1..m}
      /\ inflightBytes' = inflightBytes + BytesOf(runs[next], m)
      /\ requests' = requests \o [i \in 1..m |-> <<next, i>>]
  BY DEF Start, plan, Running
<1>6. /\ \A f \in Files : f # next => state'[f] = state[f] /\ sent'[f] = sent[f]
      /\ state'[next] = "active" /\ sent'[next] = m
      /\ state' \in [Files -> {"waiting", "active", "done", "abandoned"}]
      /\ sent' \in [Files -> 0..BlockCount]
  BY <1>1, <1>2, <1>4, <1>5
<1>7. inFlight' \in SUBSET Ids
  <2>1. \A i \in 1..m : <<next, i>> \in Ids
    BY <1>1, <1>4, BatchAssumption DEF Ids
  <2>. QED  BY <1>2, <1>5, <2>1
<1>. QED  BY <1>1, <1>3, <1>4, <1>5, <1>6, <1>7

LEMMA StartBurstKeepsInv == BatchInv /\ Start /\ runs[next] # <<>> => BatchInv'
<1>. SUFFICES ASSUME BatchInv, Start, runs[next] # <<>> PROVE BatchInv'
  OBVIOUS
<1>. DEFINE m == Burst(runs[next])
            new == [i \in 1..m |-> <<next, i>>]
<1>0. /\ sent[next] = 0 /\ written[next] = {} /\ state[next] = "waiting"
      /\ \A id \in inFlight : id[1] # next
  BY NextIsFresh DEF Start
<1>1. /\ needs' = needs /\ runs' = runs /\ next' = next + 1 /\ received' = received
      /\ written' = written /\ outcome' = outcome /\ outcome = "running"
      /\ paused' = paused /\ serving' = serving /\ responses' = responses /\ peer' = peer
      /\ next \in Files /\ m \in 0..Len(runs[next]) /\ m \in 0..BlockCount
      /\ runs[next] \in Seq(Runs)
  BY StartBurstFacts
<1>2. /\ \A f \in Files : f # next => state'[f] = state[f] /\ sent'[f] = sent[f]
      /\ state'[next] = "active" /\ sent'[next] = m
      /\ state' \in [Files -> {"waiting", "active", "done", "abandoned"}]
      /\ sent' \in [Files -> 0..BlockCount]
  BY StartBurstFacts
<1>3. /\ inFlight' = inFlight \cup {<<next, i>> : i \in 1..m} /\ inFlight' \in SUBSET Ids
      /\ inflightBytes' = inflightBytes + BytesOf(runs[next], m)
      /\ requests' = requests \o new
  BY StartBurstFacts
<1>4. new \in Seq(Ids) /\ Len(new) = m /\ \A i \in 1..m : new[i] = <<next, i>>
  <2>1. \A i \in 1..m : <<next, i>> \in Ids
    BY <1>1, BatchAssumption DEF Ids
  <2>2. m \in Nat
    BY <1>1, BatchAssumption
  <2>. HIDE DEF m
  <2>. QED  BY <2>1, <2>2
<1>5. Planned /\ AskedInTurn /\ CountedOnce /\ Awaited /\ Account /\ BatchTypeOK /\ OnTheWire
  BY DEF BatchInv
<1>6. inFlight \in SUBSET Askable
  BY <1>5, InFlightAskable
<1>. HIDE DEF m, new
<1>7. /\ Cardinality(OwedFor(inFlight')) = Cardinality(OwedFor(inFlight)) + BytesOf(runs[next], m)
      /\ Cardinality(OwedFor(inFlight)) \in Nat /\ BytesOf(runs[next], m) \in Nat
  BY <1>0, <1>1, <1>3, <1>5, <1>6, BurstOwed
<1>8. /\ Cardinality(ChargedFor(sent', written))
            = Cardinality(ChargedFor(sent, written)) + BytesOf(runs[next], m)
      /\ Cardinality(ChargedFor(sent, written)) \in Nat
  <2>1. sent \in [Files -> 0..BlockCount] /\ written \in [Files -> SUBSET Blocks]
    BY <1>5 DEF BatchTypeOK
  <2>2. /\ sent' \in [Files -> 0..BlockCount] /\ sent'[next] = m
        /\ \A g \in Files : g # next => sent'[g] = sent[g]
    BY <1>2
  <2>3. m \in 0..Len(runs[next]) /\ next \in Files /\ Planned
    BY <1>1, <1>5
  <2>4. Cardinality(ChargedFor(sent', written))
            = Cardinality(ChargedFor(sent, written)) + BytesOf(runs[next], m)
    <3>1. FirstAsked(next, m, sent, written, sent')
      BY <2>1, <2>2, <2>3, <1>0 DEF FirstAsked
    <3>. QED  BY <2>3, <3>1, BurstCharged
  <2>. QED  BY <2>3, <2>4, ChargedPlaces
<1>9. inflightBytes' \in Nat
  BY <1>3, <1>5, <1>7 DEF BatchTypeOK
<1>10. Account'
  <2>1. Cardinality(OwedFor(inFlight')) <= inflightBytes'
    BY <1>3, <1>5, <1>7 DEF Account, BatchTypeOK
  <2>2. inflightBytes' <= Cardinality(ChargedFor(sent', written'))
    BY <1>1, <1>3, <1>5, <1>7, <1>8 DEF Account, BatchTypeOK
  <2>. QED  BY <1>1, <2>1, <2>2, WithTheSamePlan DEF plan
<1>11. Wire(inFlight', requests', serving, responses)
  <2>1. \A k \in 1..Len(new) : new[k] \notin inFlight /\ new[k] \in inFlight'
    <3>. SUFFICES ASSUME NEW k \in 1..m PROVE new[k] \notin inFlight /\ new[k] \in inFlight'
      BY <1>4
    <3>1. new[k] = <<next, k>> /\ new[k][1] = next
      BY <1>4
    <3>. QED  BY <3>1, <1>0, <1>3
  <2>2. \A k, l \in 1..Len(new) : new[k] = new[l] => k = l
    BY <1>4
  <2>3. inFlight \subseteq inFlight'
    BY <1>3
  <2>. QED  BY <1>3, <1>4, <2>1, <2>2, <2>3, WireTypes, WireAsks
<1>12. requests' \in Seq(Ids)
  BY <1>3, <1>4, WireTypes
<1>13. next' \in 1..(FileCount + 1) /\ \A f \in Files : f >= next' => f >= next /\ f # next
  BY <1>1, BatchAssumption DEF Files
<1>14. BatchTypeOK'
  BY <1>1, <1>2, <1>3, <1>5, <1>9, <1>12, <1>13 DEF BatchTypeOK
<1>15. AskedInTurn'
  <2>1. ASSUME NEW f \in Files
        PROVE  /\ f >= next' => state'[f] = "waiting"
               /\ state'[f] = "waiting" => sent'[f] = 0 /\ written'[f] = {}
               /\ sent'[f] <= Len(runs'[f])
    BY <1>1, <1>2, <1>5, <1>13 DEF AskedInTurn
  <2>2. ASSUME NEW id \in inFlight' PROVE id[2] <= sent'[id[1]]
    <3>1. CASE id \in inFlight
      <4>1. id[1] \in Files /\ id[1] # next
        BY <3>1, <1>0, <1>5 DEF BatchTypeOK, Ids
      <4>. QED  BY <3>1, <4>1, <1>2, <1>5 DEF AskedInTurn
    <3>2. CASE id \notin inFlight
      <4>1. PICK i \in 1..m : id = <<next, i>>
        BY <3>2, <1>3
      <4>2. id[1] = next /\ id[2] = i /\ i <= m
        BY <4>1, <1>1
      <4>. QED  BY <4>2, <1>2
    <3>. QED  BY <3>1, <3>2
  <2>. QED  BY <2>1, <2>2 DEF AskedInTurn
<1>16. Planned'
  BY <1>1, <1>5 DEF Planned
<1>17. OnTheWire'
  BY <1>1, <1>11 DEF OnTheWire
<1>18. Drained'
  BY <1>1 DEF Drained
<1>19. CountedOnce'
  <2>. SUFFICES ASSUME NEW f \in Files
                PROVE  /\ written[f] \subseteq needs[f]
                       /\ received[f] = Cardinality(written[f])
                       /\ \A i \in 1..Len(runs[f]) :
                             <<f, i>> \in inFlight' \/ i > sent'[f] => Span(f, i) \cap written[f] = {}
    BY <1>1 DEF CountedOnce, Span
  <2>1. written[f] \subseteq needs[f] /\ received[f] = Cardinality(written[f])
    BY <1>5 DEF CountedOnce
  <2>2. CASE f = next
    BY <2>1, <2>2, <1>0
  <2>3. CASE f # next
    <3>1. sent'[f] = sent[f] /\ \A i : <<f, i>> \in inFlight' => <<f, i>> \in inFlight
      BY <2>3, <1>2, <1>3
    <3>. QED  BY <2>1, <3>1, <1>5 DEF CountedOnce
  <2>. QED  BY <2>2, <2>3
<1>20. Awaited'
  <2>. SUFFICES ASSUME NEW f \in Files, state'[f] = "active"
                PROVE  /\ received[f] # Cardinality(needs[f])
                       /\ \A i \in 1..sent'[f] :
                             <<f, i>> \in inFlight' \/ Span(f, i) \subseteq written[f]
    BY <1>1 DEF Awaited, Jobs, Span
  <2>1. CASE f = next
    <3>1. 1 \in 1..Len(runs[f])
      BY <2>1, <1>1
    <3>2. needs[f] # {} /\ needs[f] \in SUBSET Blocks
      BY <3>1, <1>5, PlanFacts
    <3>3. Cardinality(needs[f]) # 0
      BY <3>2, BlocksFinite, FS_EmptySet
    <3>4. received[f] = 0
      BY <2>1, <1>0, <1>5, FS_EmptySet DEF CountedOnce
    <3>5. \A i \in 1..sent'[f] : <<f, i>> \in inFlight'
      BY <2>1, <1>2, <1>3
    <3>. QED  BY <3>3, <3>4, <3>5
  <2>2. CASE f # next
    <3>1. sent'[f] = sent[f] /\ f \in Jobs /\ inFlight \subseteq inFlight'
      BY <2>2, <1>2, <1>3 DEF Jobs
    <3>. QED  BY <3>1, <1>5 DEF Awaited
  <2>. QED  BY <2>1, <2>2
<1>. QED  BY <1>10, <1>14, <1>15, <1>16, <1>17, <1>18, <1>19, <1>20 DEF BatchInv

\* The answer that is read next.
LEMMA AnswerFacts ==
    ASSUME BatchInv, responses # <<>>, NEW id, id = Head(responses).id
    PROVE  /\ id \in inFlight /\ id \in Ids /\ id \in Askable /\ id = <<id[1], id[2]>>
           /\ id[1] \in Files /\ id[2] \in 1..Len(runs[id[1]]) /\ id[2] \in 1..sent[id[1]]
           /\ sent[id[1]] # 0
           /\ Tail(responses) \in Seq(Answers)
           /\ Wire(inFlight \ {id}, requests, serving, Tail(responses))
           /\ Size(id) \in Nat /\ Size(id) = runs[id[1]][id[2]].size
           /\ Cardinality(OwedFor(inFlight)) = Cardinality(OwedFor(inFlight \ {id})) + Size(id)
           /\ Cardinality(OwedFor(inFlight \ {id})) \in Nat
           /\ Size(id) <= inflightBytes /\ inflightBytes \in Nat
           /\ Cardinality(OwedFor(inFlight \ {id})) <= inflightBytes - Size(id)
           /\ Less(inflightBytes, Size(id)) = inflightBytes - Size(id)
<1>1. BatchTypeOK /\ Planned /\ AskedInTurn /\ Account
  BY DEF BatchInv
<1>2. /\ id \in inFlight /\ id \in Ids /\ Tail(responses) \in Seq(Answers)
      /\ Wire(inFlight \ {id}, requests, serving, Tail(responses))
  BY WireTypes, WireReads
<1>3. id \in Askable /\ inFlight \in SUBSET Askable
  BY <1>1, <1>2, InFlightAskable
<1>4. /\ id[1] \in Files /\ id[2] \in 1..Len(runs[id[1]]) /\ id = <<id[1], id[2]>>
      /\ Size(id) \in Nat
  BY <1>1, <1>3, RequestFacts
<1>5. id[2] \in 1..sent[id[1]]
  BY <1>1, <1>2, <1>4 DEF AskedInTurn, BatchTypeOK
<1>51. sent[id[1]] # 0
  BY <1>1, <1>4, <1>5 DEF BatchTypeOK
<1>6. /\ Cardinality(OwedFor(inFlight)) = Cardinality(OwedFor(inFlight \ {id})) + Size(id)
      /\ Cardinality(OwedFor(inFlight \ {id})) \in Nat
  BY <1>1, <1>2, <1>3, OwedLess
<1>7. inflightBytes \in Nat /\ Cardinality(OwedFor(inFlight)) <= inflightBytes
  BY <1>1 DEF BatchTypeOK, Account
<1>8. /\ Size(id) <= inflightBytes
      /\ Cardinality(OwedFor(inFlight \ {id})) <= inflightBytes - Size(id)
  BY <1>4, <1>6, <1>7
<1>9. Less(inflightBytes, Size(id)) = inflightBytes - Size(id)
  BY <1>4, <1>7, <1>8 DEF Less
<1>. QED  BY <1>2, <1>3, <1>4, <1>5, <1>51, <1>6, <1>7, <1>8, <1>9 DEF Size

\* An answer that brings nothing: its file is given up, or was before.
LEMMA NothingArrives ==
    ASSUME BatchInv, responses # <<>>, NEW id, id = Head(responses).id,
           needs' = needs, runs' = runs, next' = next, sent' = sent, received' = received,
           written' = written, outcome' = outcome, outcome = "running", paused' = paused,
           requests' = requests, serving' = serving, peer' = peer,
           responses' = Tail(responses), inFlight' = inFlight \ {id},
           state' \in [Files -> {"waiting", "active", "done", "abandoned"}],
           \A f \in Files : f # id[1] => state'[f] = state[f],
           state'[id[1]] \in {"done", "abandoned"},
           inflightBytes' \in {inflightBytes, inflightBytes - Size(id)}
    PROVE  BatchInv'
<1>1. /\ id \in inFlight /\ id[1] \in Files
      /\ Tail(responses) \in Seq(Answers)
      /\ Wire(inFlight \ {id}, requests, serving, Tail(responses))
      /\ Size(id) \in Nat /\ Cardinality(OwedFor(inFlight \ {id})) \in Nat
      /\ Size(id) <= inflightBytes /\ inflightBytes \in Nat
      /\ Cardinality(OwedFor(inFlight \ {id})) <= inflightBytes - Size(id)
  BY AnswerFacts
<1>2. BatchTypeOK /\ Planned /\ AskedInTurn /\ CountedOnce /\ Awaited /\ Account
  BY DEF BatchInv
<1>3. inflightBytes' \in Nat /\ inflightBytes' <= inflightBytes
      /\ Cardinality(OwedFor(inFlight')) <= inflightBytes'
  BY <1>1
<1>4. BatchTypeOK'
  BY <1>1, <1>2, <1>3 DEF BatchTypeOK, Answers
<1>5. AskedInTurn'
  <2>1. \A f \in Files : state'[f] = "waiting" => state[f] = "waiting"
    OBVIOUS
  <2>2. \A f \in Files : f >= next => state'[f] = "waiting"
    <3>1. state[id[1]] # "waiting"
      <4>1. sent[id[1]] # 0
        BY AnswerFacts
      <4>. QED  BY <4>1, <1>1, <1>2 DEF AskedInTurn
    <3>. QED  BY <3>1, <1>2 DEF AskedInTurn
  <2>. QED  BY <2>1, <2>2, <1>2 DEF AskedInTurn
<1>6. Planned'
  BY <1>2 DEF Planned
<1>7. OnTheWire'
  BY <1>1 DEF OnTheWire
<1>8. Drained'
  BY DEF Drained
<1>9. CountedOnce'
  BY <1>2 DEF CountedOnce, Span
<1>10. Awaited'
  <2>. SUFFICES ASSUME NEW f \in Files, state'[f] = "active"
                PROVE  /\ received[f] # Cardinality(needs[f])
                       /\ \A i \in 1..sent[f] :
                             <<f, i>> \in inFlight' \/ Span(f, i) \subseteq written[f]
    BY DEF Awaited, Jobs, Span
  <2>1. f # id[1] /\ f \in Jobs
    BY DEF Jobs
  <2>2. \A i : <<f, i>> # id
    BY <2>1
  <2>. QED  BY <2>1, <2>2, <1>2 DEF Awaited
<1>11. Account'
  <2>1. Cardinality(ChargedFor(sent, written)) \in Nat
    BY <1>2, ChargedPlaces
  <2>2. inflightBytes' <= Cardinality(ChargedFor(sent', written'))
    BY <1>1, <1>2, <1>3, <2>1 DEF Account
  <2>. QED  BY <1>3, <2>2, WithTheSamePlan DEF plan
<1>. QED  BY <1>4, <1>5, <1>6, <1>7, <1>8, <1>9, <1>10, <1>11 DEF BatchInv

LEMMA NothingAsked ==
    ASSUME BatchInv, Receive(<<>>), NEW id, id = Head(responses).id
    PROVE  /\ responses # <<>> /\ responses' = Tail(responses)
           /\ requests' = requests /\ inFlight' = inFlight \ {id}
           /\ outcome = "running" /\ id[1] \in Files
           /\ state \in [Files -> {"waiting", "active", "done", "abandoned"}]
           /\ state[id[1]] # "waiting"
<1>1. /\ responses # <<>> /\ responses' = Tail(responses) /\ outcome = "running"
      /\ requests' = requests \o <<>>
      /\ inFlight' = (inFlight \ {id}) \cup {<<>>[i] : i \in DOMAIN <<>>}
  BY DEF Receive, Running
<1>2. DOMAIN <<>> = {}
  OBVIOUS
<1>3. inFlight' = inFlight \ {id}
  BY <1>1, <1>2
<1>4. requests' = requests
  BY <1>1, WireTypes
<1>5. id[1] \in Files /\ sent[id[1]] # 0
  BY <1>1, AnswerFacts
<1>6. state[id[1]] # "waiting"
  BY <1>5 DEF BatchInv, AskedInTurn
<1>7. state \in [Files -> {"waiting", "active", "done", "abandoned"}]
  BY DEF BatchInv, BatchTypeOK
<1>. QED  BY <1>1, <1>3, <1>4, <1>5, <1>6, <1>7

LEMMA DropAnswerKeepsInv == BatchInv /\ DropAnswer => BatchInv'
<1>. SUFFICES ASSUME BatchInv, DropAnswer PROVE BatchInv'
  OBVIOUS
<1>. DEFINE id == Head(responses).id
<1>1. /\ responses # <<>> /\ responses' = Tail(responses)
      /\ requests' = requests /\ inFlight' = inFlight \ {id}
      /\ outcome = "running" /\ id[1] \in Files
      /\ state \in [Files -> {"waiting", "active", "done", "abandoned"}]
      /\ state[id[1]] # "waiting"
  BY NothingAsked DEF DropAnswer
<1>2. /\ needs' = needs /\ runs' = runs /\ next' = next /\ sent' = sent /\ received' = received
      /\ written' = written /\ outcome' = outcome /\ paused' = paused
      /\ serving' = serving /\ peer' = peer /\ state' = state /\ inflightBytes' = inflightBytes
      /\ id[1] \notin Jobs
  BY DEF DropAnswer, plan
<1>. HIDE DEF id
<1>3. state'[id[1]] \in {"done", "abandoned"}
  BY <1>1, <1>2 DEF Jobs
<1>. QED  BY <1>1, <1>2, <1>3, NothingArrives DEF id

LEMMA RefusedKeepsInv == BatchInv /\ Refused => BatchInv'
<1>. SUFFICES ASSUME BatchInv, Refused PROVE BatchInv'
  OBVIOUS
<1>. DEFINE id == Head(responses).id
<1>1. /\ responses # <<>> /\ responses' = Tail(responses)
      /\ requests' = requests /\ inFlight' = inFlight \ {id}
      /\ outcome = "running" /\ id[1] \in Files
      /\ state \in [Files -> {"waiting", "active", "done", "abandoned"}]
  BY NothingAsked DEF Refused
<1>2. /\ needs' = needs /\ runs' = runs /\ next' = next /\ sent' = sent /\ received' = received
      /\ written' = written /\ outcome' = outcome /\ paused' = paused
      /\ serving' = serving /\ peer' = peer /\ inflightBytes' = inflightBytes
      /\ state' = [state EXCEPT ![id[1]] = "abandoned"]
  BY DEF Refused, plan
<1>. HIDE DEF id
<1>3. /\ state' \in [Files -> {"waiting", "active", "done", "abandoned"}]
      /\ \A f \in Files : f # id[1] => state'[f] = state[f]
      /\ state'[id[1]] \in {"done", "abandoned"}
  BY <1>1, <1>2
<1>. QED  BY <1>1, <1>2, <1>3, NothingArrives DEF id

LEMMA CorruptKeepsInv == BatchInv /\ Corrupt => BatchInv'
<1>. SUFFICES ASSUME BatchInv, Corrupt PROVE BatchInv'
  OBVIOUS
<1>. DEFINE id == Head(responses).id
<1>1. /\ responses # <<>> /\ responses' = Tail(responses)
      /\ requests' = requests /\ inFlight' = inFlight \ {id}
      /\ outcome = "running" /\ id[1] \in Files
      /\ state \in [Files -> {"waiting", "active", "done", "abandoned"}]
  BY NothingAsked DEF Corrupt
<1>2. /\ needs' = needs /\ runs' = runs /\ next' = next /\ sent' = sent /\ received' = received
      /\ written' = written /\ outcome' = outcome /\ paused' = paused
      /\ serving' = serving /\ peer' = peer /\ inflightBytes' = Less(inflightBytes, Size(id))
      /\ state' = [state EXCEPT ![id[1]] = "abandoned"]
  BY DEF Corrupt, plan
<1>3. Less(inflightBytes, Size(id)) = inflightBytes - Size(id)
  BY <1>1, AnswerFacts
<1>. HIDE DEF id
<1>4. /\ state' \in [Files -> {"waiting", "active", "done", "abandoned"}]
      /\ \A f \in Files : f # id[1] => state'[f] = state[f]
      /\ state'[id[1]] \in {"done", "abandoned"}
  BY <1>1, <1>2
<1>. QED  BY <1>1, <1>2, <1>3, <1>4, NothingArrives DEF id

\* A run that is written.  Its file either asks for nothing more, or for its
\* next run.
AsksNothing(id) ==
    /\ sent' = sent /\ requests' = requests /\ inFlight' = inFlight \ {id}
    /\ inflightBytes' = inflightBytes - Size(id)

AsksNext(id, jd) ==
    /\ jd = <<id[1], sent[id[1]] + 1>>
    /\ sent[id[1]] < Len(runs[id[1]]) /\ sent'[id[1]] = sent[id[1]] + 1
    /\ \A g \in Files : g # id[1] => sent'[g] = sent[g]
    /\ sent' \in [Files -> 0..BlockCount]
    /\ requests' = requests \o <<jd>> /\ inFlight' = (inFlight \ {id}) \cup {jd}
    /\ inflightBytes' = inflightBytes - Size(id) + Size(jd)

Complete(id) == received[id[1]] + Size(id) = Cardinality(needs[id[1]])

DoneIfWhole(id) ==
    Complete(id) /\ needs[id[1]] \subseteq written'[id[1]] => state'[id[1]] = "done"

Arrives(id) ==
    /\ id[1] \in Jobs
    /\ needs' = needs /\ runs' = runs /\ next' = next /\ outcome' = outcome
    /\ outcome = "running" /\ paused' = paused /\ serving' = serving /\ peer' = peer
    /\ responses # <<>> /\ id = Head(responses).id /\ responses' = Tail(responses)
    /\ \A g \in Files : g # id[1] =>
          written'[g] = written[g] /\ received'[g] = received[g] /\ state'[g] = state[g]
    /\ written'[id[1]] = written[id[1]] \cup Span(id[1], id[2])
    /\ received'[id[1]] = received[id[1]] + Size(id)
    /\ written' \in [Files -> SUBSET Blocks]
    /\ DOMAIN received' = Files /\ received' = [g \in Files |-> received'[g]]
    /\ state' \in [Files -> {"waiting", "active", "done", "abandoned"}]
    /\ state'[id[1]] \in (IF Complete(id) THEN {"done", "abandoned"} ELSE {"active"})
    /\ DoneIfWhole(id)

LEMMA RunArrivesFacts ==
    ASSUME BatchInv, RunArrives, NEW id, id = Head(responses).id
    PROVE  /\ Arrives(id)
           /\ \/ AsksNothing(id) /\ (Complete(id) \/ ~Refills(id[1], inflightBytes - Size(id)))
              \/ ~Complete(id) /\ \E jd : AsksNext(id, jd)
<1>. DEFINE f == id[1]
            run == runs[f][id[2]]
            bytes == Less(inflightBytes, run.size)
            blocks == written[f] \cup Covered(run)
            complete == received[f] + run.size = Cardinality(needs[f])
            asked == IF ~complete /\ Refills(f, bytes) THEN << <<f, sent[f] + 1>> >> ELSE <<>>
<1>1. /\ responses # <<>> /\ Receive(asked)
      /\ f \in Jobs
      /\ written' = [written EXCEPT ![f] = blocks]
      /\ received' = [received EXCEPT ![f] = @ + run.size]
      /\ state' = [state EXCEPT ![f] = IF complete THEN Finished(f, blocks) ELSE @]
      /\ sent' = [sent EXCEPT ![f] = @ + Len(asked)]
      /\ inflightBytes' = IF asked = <<>> THEN bytes ELSE bytes + Size(asked[1])
      /\ UNCHANGED <<plan, next, outcome, paused, serving, peer>>
  BY DEF RunArrives
<1>2. /\ f \in Files /\ id[2] \in 1..Len(runs[f]) /\ id \in Ids /\ Size(id) = run.size
      /\ bytes = inflightBytes - Size(id)
  BY <1>1, AnswerFacts
<1>3. /\ state \in [Files -> {"waiting", "active", "done", "abandoned"}]
      /\ sent \in [Files -> 0..BlockCount] /\ received \in [Files -> 0..BlockCount]
      /\ written \in [Files -> SUBSET Blocks] /\ requests \in Seq(Ids)
  BY DEF BatchInv, BatchTypeOK
<1>4. /\ Covered(run) = Span(f, id[2]) /\ Span(f, id[2]) \in SUBSET Blocks
      /\ Len(runs[f]) \in 0..BlockCount
  <2>1. Planned
    BY DEF BatchInv
  <2>2. Covered(run) = Span(f, id[2])
    BY DEF Span
  <2>3. /\ Len(runs[f]) \in 0..BlockCount /\ needs[f] \in SUBSET Blocks
        /\ \A i \in 1..Len(runs[f]) : Span(f, i) \in SUBSET needs[f]
    <3>. HIDE DEF f
    <3>. QED  BY <1>2, <2>1, PlanFacts
  <2>. QED  BY <1>2, <2>2, <2>3
<1>5. complete <=> Complete(id)
  BY <1>2 DEF Complete
<1>6. Finished(f, blocks) \in {"done", "abandoned"} /\ state[f] = "active"
  BY <1>1 DEF Finished, Jobs
<1>7. /\ responses' = Tail(responses) /\ outcome = "running"
      /\ inFlight' = (inFlight \ {id}) \cup {asked[i] : i \in DOMAIN asked}
      /\ requests' = requests \o asked
  BY <1>1 DEF Receive, Running
<1>8. Arrives(id)
  <2>. HIDE DEF complete, blocks, run, asked, bytes
  <2>1. /\ \A g \in Files : g # f => written'[g] = written[g] /\ received'[g] = received[g]
        /\ written'[f] = blocks /\ received'[f] = received[f] + Size(id)
        /\ DOMAIN received' = Files
    BY <1>1, <1>2, <1>3
  <2>2. blocks = written[f] \cup Span(f, id[2])
    BY <1>4 DEF blocks
  <2>3. blocks \in SUBSET Blocks
    BY <1>2, <1>3, <1>4, <2>2
  <2>4. written' \in [Files -> SUBSET Blocks]
    BY <1>1, <1>3, <2>3
  <2>5. received' = [g \in Files |-> received'[g]]
    BY <1>1, <1>3
  <2>6. \A g \in Files : g # f => state'[g] = state[g]
    BY <1>1, <1>3
  <2>7. /\ state' \in [Files -> {"waiting", "active", "done", "abandoned"}]
        /\ state'[f] \in (IF Complete(id) THEN {"done", "abandoned"} ELSE {"active"})
    BY <1>1, <1>2, <1>3, <1>5, <1>6
  <2>9. DoneIfWhole(id)
    <3>1. needs[f] \subseteq blocks => Finished(f, blocks) = "done"
      BY DEF Finished
    <3>. QED  BY <1>1, <1>2, <1>3, <1>5, <2>1, <3>1 DEF DoneIfWhole
  <2>8. needs' = needs /\ runs' = runs /\ next' = next /\ outcome' = outcome
        /\ paused' = paused /\ serving' = serving /\ peer' = peer
    BY <1>1 DEF plan
  <2>10. responses # <<>> /\ responses' = Tail(responses) /\ outcome = "running" /\ f \in Jobs
    BY <1>1, <1>7
  <2>. QED  BY <2>1, <2>2, <2>4, <2>5, <2>6, <2>7, <2>8, <2>9, <2>10 DEF Arrives
<1>9. CASE complete \/ ~Refills(f, bytes)
  <2>1. asked = <<>>
    BY <1>9
  <2>2. inflightBytes' = bytes
    BY <1>1, <2>1
  <2>3. sent' = [sent EXCEPT ![f] = @ + 0]
    BY <1>1, <2>1
  <2>4. sent' = sent
    <3>1. sent[f] + 0 = sent[f]
      BY <1>2, <1>3
    <3>. QED  BY <2>3, <3>1, <1>3
  <2>5. requests' = requests /\ inFlight' = inFlight \ {id}
    <3>. HIDE DEF asked
    <3>1. requests \o <<>> = requests
      BY <1>3
    <3>2. DOMAIN asked = {}
      BY <2>1
    <3>. QED  BY <1>7, <2>1, <3>1, <3>2
  <2>6. AsksNothing(id)
    BY <1>2, <2>2, <2>4, <2>5 DEF AsksNothing
  <2>. QED  BY <1>2, <1>5, <1>8, <1>9, <2>6
<1>10. CASE ~complete /\ Refills(f, bytes)
  <2>. DEFINE jd == <<f, sent[f] + 1>>
  <2>1. asked = <<jd>> /\ asked # <<>> /\ Len(asked) = 1 /\ asked[1] = jd /\ DOMAIN asked = {1}
    BY <1>10
  <2>2. sent[f] < Len(runs[f])
    BY <1>10 DEF Refills
  <2>. HIDE DEF asked, jd, complete, bytes
  <2>3. inflightBytes' = inflightBytes - Size(id) + Size(jd)
    BY <1>1, <1>2, <2>1
  <2>4. sent' = [sent EXCEPT ![f] = @ + 1]
    BY <1>1, <2>1
  <2>5. sent[f] + 1 \in 0..BlockCount
    BY <1>2, <1>3, <1>4, <2>2, BatchAssumption
  <2>6. /\ sent'[f] = sent[f] + 1 /\ \A g \in Files : g # f => sent'[g] = sent[g]
        /\ sent' \in [Files -> 0..BlockCount]
    BY <1>2, <1>3, <2>4, <2>5
  <2>7. requests' = requests \o <<jd>> /\ inFlight' = (inFlight \ {id}) \cup {jd}
    BY <1>7, <2>1
  <2>8. AsksNext(id, jd)
    BY <2>2, <2>3, <2>6, <2>7 DEF AsksNext, jd
  <2>. QED  BY <1>5, <1>8, <1>10, <2>8
<1>. QED  BY <1>9, <1>10

ArrivalEffects(id, f, n) ==
    /\ f \in Files /\ n \in 1..Len(runs[f]) /\ n \in 1..sent[f] /\ id = <<f, n>>
    /\ Span(f, n) \subseteq needs[f] /\ Span(f, n) \cap written[f] = {}
    /\ written'[f] \subseteq needs[f]
    /\ received'[f] = Cardinality(written'[f])
    /\ received' \in [Files -> 0..BlockCount]
    /\ Cardinality(ChargedFor(sent, written))
          = Cardinality(ChargedFor(sent, written')) + Size(id)
    /\ Cardinality(ChargedFor(sent, written')) \in Nat

LEMMA ArrivalFacts ==
    ASSUME BatchInv, NEW id, Arrives(id), NEW f, NEW n, f = id[1], n = id[2]
    PROVE  ArrivalEffects(id, f, n)
<1>1. BatchTypeOK /\ Planned /\ CountedOnce
  BY DEF BatchInv
<1>2. /\ id \in inFlight /\ f \in Files /\ n \in 1..Len(runs[f]) /\ n \in 1..sent[f]
      /\ id = <<f, n>> /\ Size(id) = runs[f][n].size /\ Size(id) \in Nat
  BY AnswerFacts DEF Arrives
<1>3. /\ Span(f, n) \subseteq needs[f] /\ needs[f] \in SUBSET Blocks
      /\ Cardinality(Span(f, n)) = Size(id)
  BY <1>1, <1>2, PlanFacts
<1>4. Span(f, n) \cap written[f] = {} /\ written[f] \subseteq needs[f]
      /\ received[f] = Cardinality(written[f])
  BY <1>1, <1>2 DEF CountedOnce
<1>5. written'[f] = written[f] \cup Span(f, n) /\ received'[f] = received[f] + Size(id)
  BY DEF Arrives
<1>6. received'[f] = Cardinality(written'[f])
  <2>1. IsFiniteSet(written[f]) /\ IsFiniteSet(Span(f, n))
    BY <1>3, <1>4, BlocksFinite
  <2>0. written[f] \cap Span(f, n) = {}
    BY <1>4
  <2>2. Cardinality(written[f] \cup Span(f, n)) = Cardinality(written[f]) + Cardinality(Span(f, n))
    BY <2>0, <2>1, DisjointUnion
  <2>. QED  BY <1>3, <1>4, <1>5, <2>2
<1>7. written'[f] \subseteq needs[f]
  BY <1>3, <1>4, <1>5
<1>8. received' \in [Files -> 0..BlockCount]
  <2>1. received'[f] \in 0..BlockCount
    BY <1>3, <1>6, <1>7, BlocksFinite
  <2>2. \A g \in Files : g # f => received'[g] \in 0..BlockCount
    BY <1>1 DEF Arrives, BatchTypeOK
  <2>3. received' = [g \in Files |-> received'[g]]
    BY DEF Arrives
  <2>. QED  BY <2>1, <2>2, <2>3
<1>9. Cardinality(ChargedFor(sent, written)) = Cardinality(ChargedFor(sent, written')) + Size(id)
  <2>1. sent \in [Files -> 0..BlockCount] /\ written \in [Files -> SUBSET Blocks]
    BY <1>1 DEF BatchTypeOK
  <2>2. /\ written' \in [Files -> SUBSET Blocks]
        /\ \A g \in Files : g # f => written'[g] = written[g]
    BY DEF Arrives
  <2>3. n <= sent[f]
    BY <1>2, <2>1
  <2>4. Cardinality(ChargedFor(sent, written))
          = Cardinality(ChargedFor(sent, written')) + runs[f][n].size
    <3>1. RunWritten(f, n, sent, written, written')
      BY <1>2, <1>4, <1>5, <2>1, <2>2, <2>3 DEF RunWritten
    <3>. QED  BY <1>1, <3>1, ChargedArrives
  <2>. QED  BY <1>2, <2>4
<1>10. Cardinality(ChargedFor(sent, written')) \in Nat
  BY <1>1, ChargedPlaces
<1>. QED  BY <1>2, <1>3, <1>4, <1>6, <1>7, <1>8, <1>9, <1>10 DEF ArrivalEffects

\* What is asked for when a run arrives: nothing, or runs of the same file.
AsksMore(id, f) ==
    /\ sent' \in [Files -> 0..BlockCount] /\ sent[f] <= sent'[f] /\ sent'[f] <= Len(runs[f])
    /\ \A g \in Files : g # f => sent'[g] = sent[g]
    /\ inFlight \ {id} \subseteq inFlight' /\ inFlight' \in SUBSET Ids
    /\ \A i \in 1..sent'[f] : i > sent[f] => <<f, i>> \in inFlight'
    /\ \A jd \in inFlight' : \/ jd \in inFlight \ {id}
                             \/ jd[1] = f /\ sent[f] < jd[2] /\ jd[2] <= sent'[f]
    /\ requests' \in Seq(Ids) /\ Wire(inFlight', requests', serving, Tail(responses))
    /\ inflightBytes' \in Nat
    /\ Cardinality(OwedFor(inFlight')) <= inflightBytes'
    /\ inflightBytes' <= Cardinality(ChargedFor(sent', written'))

LEMMA ArrivalKeepsInv ==
    ASSUME BatchInv, NEW id, Arrives(id), NEW f, NEW n, f = id[1], n = id[2], AsksMore(id, f)
    PROVE  BatchInv'
<1>1. BatchTypeOK /\ Planned /\ AskedInTurn /\ CountedOnce /\ Awaited
  BY DEF BatchInv
<1>2. /\ f \in Files /\ n \in 1..Len(runs[f]) /\ n \in 1..sent[f] /\ id = <<f, n>>
      /\ Span(f, n) \subseteq needs[f] /\ Span(f, n) \cap written[f] = {}
      /\ written'[f] \subseteq needs[f] /\ received'[f] = Cardinality(written'[f])
      /\ received' \in [Files -> 0..BlockCount]
  <2>1. ArrivalEffects(id, f, n)
    BY ArrivalFacts
  <2>. QED  BY <2>1 DEF ArrivalEffects
<1>3. /\ needs' = needs /\ runs' = runs /\ next' = next /\ outcome' = outcome
      /\ outcome = "running" /\ paused' = paused /\ serving' = serving /\ peer' = peer
      /\ responses' = Tail(responses) /\ f \in Jobs
      /\ \A g \in Files : g # f =>
            written'[g] = written[g] /\ received'[g] = received[g] /\ state'[g] = state[g]
      /\ written'[f] = written[f] \cup Span(f, n) /\ received'[f] = received[f] + Size(id)
      /\ written' \in [Files -> SUBSET Blocks]
      /\ state' \in [Files -> {"waiting", "active", "done", "abandoned"}]
      /\ state'[f] \in {"active", "done", "abandoned"}
      /\ state'[f] = "active" => ~Complete(id)
  BY DEF Arrives
<1>4. /\ sent' \in [Files -> 0..BlockCount] /\ sent[f] <= sent'[f] /\ sent'[f] <= Len(runs[f])
      /\ \A g \in Files : g # f => sent'[g] = sent[g]
      /\ inFlight \ {id} \subseteq inFlight' /\ inFlight' \in SUBSET Ids
      /\ \A i \in 1..sent'[f] : i > sent[f] => <<f, i>> \in inFlight'
      /\ \A jd \in inFlight' : \/ jd \in inFlight \ {id}
                               \/ jd[1] = f /\ sent[f] < jd[2] /\ jd[2] <= sent'[f]
      /\ requests' \in Seq(Ids) /\ Wire(inFlight', requests', serving, Tail(responses))
      /\ inflightBytes' \in Nat
  BY DEF AsksMore
<1>5. Tail(responses) \in Seq(Answers)
  BY AnswerFacts DEF Arrives
<1>6. BatchTypeOK'
  BY <1>1, <1>2, <1>3, <1>4, <1>5 DEF BatchTypeOK, Answers
<1>7. AskedInTurn'
  <2>1. state[f] # "waiting"
    BY <1>3 DEF Jobs
  <2>2. \A g \in Files : state'[g] = "waiting" => g # f
    BY <1>3
  <2>3. ASSUME NEW g \in Files
        PROVE  /\ g >= next' => state'[g] = "waiting"
               /\ state'[g] = "waiting" => sent'[g] = 0 /\ written'[g] = {}
               /\ sent'[g] <= Len(runs'[g])
    <3>1. CASE g = f
      BY <3>1, <1>1, <1>2, <1>3, <1>4, <2>1 DEF AskedInTurn
    <3>2. CASE g # f
      BY <3>2, <1>1, <1>3, <1>4 DEF AskedInTurn
    <3>. QED  BY <3>1, <3>2
  <2>4. ASSUME NEW jd \in inFlight' PROVE jd[2] <= sent'[jd[1]]
    <3>1. CASE jd \in inFlight
      <4>1. jd[1] \in Files /\ jd[2] \in Nat /\ jd[2] <= sent[jd[1]]
        BY <3>1, <1>1 DEF BatchTypeOK, Ids, AskedInTurn
      <4>2. sent[jd[1]] <= sent'[jd[1]] /\ sent[jd[1]] \in Nat /\ sent'[jd[1]] \in Nat
        <5>1. sent[jd[1]] \in Nat /\ sent'[jd[1]] \in Nat
          BY <4>1, <1>1, <1>4 DEF BatchTypeOK
        <5>2. CASE jd[1] = f
          BY <5>1, <5>2, <1>4
        <5>3. CASE jd[1] # f
          BY <4>1, <5>1, <5>3, <1>4
        <5>. QED  BY <5>1, <5>2, <5>3
      <4>. QED  BY <4>1, <4>2
    <3>2. CASE jd \notin inFlight
      BY <3>2, <1>4
    <3>. QED  BY <3>1, <3>2
  <2>. QED  BY <2>3, <2>4 DEF AskedInTurn
<1>8. Planned'
  BY <1>1, <1>3 DEF Planned
<1>9. OnTheWire'
  BY <1>3, <1>4 DEF OnTheWire
<1>10. Drained'
  BY <1>3 DEF Drained
<1>11. CountedOnce'
  <2>. SUFFICES ASSUME NEW g \in Files
                PROVE  /\ written'[g] \subseteq needs[g]
                       /\ received'[g] = Cardinality(written'[g])
                       /\ \A i \in 1..Len(runs[g]) :
                             <<g, i>> \in inFlight' \/ i > sent'[g] => Span(g, i) \cap written'[g] = {}
    BY <1>3 DEF CountedOnce, Span
  <2>1. CASE g # f
    <3>1. sent'[g] = sent[g] /\ written'[g] = written[g] /\ received'[g] = received[g]
      BY <2>1, <1>3, <1>4
    <3>2. \A i : <<g, i>> \in inFlight' => <<g, i>> \in inFlight
      BY <2>1, <1>4
    <3>. QED  BY <3>1, <3>2, <1>1 DEF CountedOnce
  <2>2. CASE g = f
    <3>. SUFFICES ASSUME NEW i \in 1..Len(runs[f]), <<f, i>> \in inFlight' \/ i > sent'[f]
                  PROVE  Span(f, i) \cap written'[f] = {}
      BY <2>2, <1>2
    <3>0. sent[f] \in Nat /\ sent'[f] \in Nat /\ i \in Nat
      BY <1>1, <1>2, <1>4 DEF BatchTypeOK
    <3>1. (<<f, i>> \in inFlight /\ i # n) \/ i > sent[f]
      <4>1. CASE <<f, i>> \in inFlight'
        <5>1. <<f, i>> \in inFlight \ {id} \/ sent[f] < i
          BY <4>1, <1>4
        <5>. QED  BY <5>1, <1>2, <3>0
      <4>2. CASE i > sent'[f]
        BY <4>2, <3>0, <1>4
      <4>. QED  BY <4>1, <4>2
    <3>2. Span(f, i) \cap written[f] = {}
      BY <3>1, <1>1, <1>2 DEF CountedOnce
    <3>3. i # n
      BY <3>0, <3>1, <1>2
    <3>4. Span(f, i) \cap Span(f, n) = {}
      <4>1. Planned /\ f \in Files
        BY <1>1, <1>2
      <4>2. \A k, l \in 1..Len(runs[f]) : k # l => Span(f, k) \cap Span(f, l) = {}
        BY <4>1, PlanFacts
      <4>. QED  BY <3>3, <1>2, <4>2
    <3>. QED  BY <3>2, <3>4, <1>3
  <2>. QED  BY <2>1, <2>2
<1>12. Awaited'
  <2>. SUFFICES ASSUME NEW g \in Files, state'[g] = "active"
                PROVE  /\ received'[g] # Cardinality(needs[g])
                       /\ \A i \in 1..sent'[g] :
                             <<g, i>> \in inFlight' \/ Span(g, i) \subseteq written'[g]
    BY <1>3 DEF Awaited, Jobs, Span
  <2>1. CASE g # f
    <3>1. /\ sent'[g] = sent[g] /\ written'[g] = written[g] /\ received'[g] = received[g]
          /\ g \in Jobs
      BY <2>1, <1>3, <1>4 DEF Jobs
    <3>2. \A i : <<g, i>> \in inFlight => <<g, i>> \in inFlight'
      <4>1. \A i : <<g, i>> # id
        BY <2>1, <1>2
      <4>. QED  BY <4>1, <1>4
    <3>. QED  BY <3>1, <3>2, <1>1 DEF Awaited
  <2>2. CASE g = f
    <3>1. received'[f] # Cardinality(needs[f])
      BY <2>2, <1>3 DEF Complete
    <3>2. ASSUME NEW i \in 1..sent'[f] PROVE <<f, i>> \in inFlight' \/ Span(f, i) \subseteq written'[f]
      <4>0. sent[f] \in Nat /\ sent'[f] \in Nat /\ i \in Nat /\ i >= 1
        BY <1>1, <1>2, <1>4 DEF BatchTypeOK
      <4>1. CASE i > sent[f]
        BY <4>1, <1>4
      <4>2. CASE i = n
        BY <4>2, <1>3
      <4>3. CASE i <= sent[f] /\ i # n
        <5>1. <<f, i>> \in inFlight \/ Span(f, i) \subseteq written[f]
          BY <4>0, <4>3, <1>1, <1>3 DEF Awaited
        <5>2. <<f, i>> # id
          BY <4>3, <1>2
        <5>. QED  BY <5>1, <5>2, <1>3, <1>4
      <4>. QED  BY <4>0, <4>1, <4>2, <4>3
    <3>. QED  BY <2>2, <3>1, <3>2
  <2>. QED  BY <2>1, <2>2
<1>13. Account'
  BY <1>3, WithTheSamePlan DEF AsksMore, plan
<1>. QED  BY <1>6, <1>7, <1>8, <1>9, <1>10, <1>11, <1>12, <1>13 DEF BatchInv

LEMMA ArrivesAndAsksNothing ==
    ASSUME BatchInv, NEW id, Arrives(id), AsksNothing(id) PROVE BatchInv'
<1>. DEFINE f == id[1]
            n == id[2]
<1>1. BatchTypeOK /\ Planned /\ AskedInTurn /\ Account
  BY DEF BatchInv
<1>2. /\ Size(id) \in Nat /\ inflightBytes \in Nat /\ Size(id) <= inflightBytes
      /\ Wire(inFlight \ {id}, requests, serving, Tail(responses))
      /\ Cardinality(OwedFor(inFlight \ {id})) <= inflightBytes - Size(id)
  BY AnswerFacts DEF Arrives
<1>3. ArrivalEffects(id, f, n)
  BY ArrivalFacts
<1>. HIDE DEF f, n
<1>4. /\ f \in Files /\ Cardinality(ChargedFor(sent, written'))  \in Nat
      /\ Cardinality(ChargedFor(sent, written)) = Cardinality(ChargedFor(sent, written')) + Size(id)
  BY <1>3 DEF ArrivalEffects
<1>5. /\ sent' = sent /\ requests' = requests /\ inFlight' = inFlight \ {id}
      /\ inflightBytes' = inflightBytes - Size(id)
  BY DEF AsksNothing
<1>6. sent \in [Files -> 0..BlockCount] /\ sent[f] \in Nat /\ sent[f] <= Len(runs[f])
  BY <1>1, <1>4 DEF BatchTypeOK, AskedInTurn
<1>7. inflightBytes - Size(id) <= Cardinality(ChargedFor(sent, written'))
  BY <1>1, <1>2, <1>4 DEF Account
<1>8. requests \in Seq(Ids) /\ inFlight \in SUBSET Ids
  BY <1>1 DEF BatchTypeOK
<1>9. /\ inFlight' \in SUBSET Ids /\ inflightBytes' \in Nat
      /\ \A i \in 1..sent'[f] : ~(i > sent[f])
  BY <1>2, <1>5, <1>6, <1>8
<1>10. AsksMore(id, f)
  BY <1>2, <1>5, <1>6, <1>7, <1>8, <1>9 DEF AsksMore
<1>. QED  BY <1>10, ArrivalKeepsInv DEF f, n

LEMMA ArrivesAndAsksNext ==
    ASSUME BatchInv, NEW id, Arrives(id), NEW jd, AsksNext(id, jd)
    PROVE  /\ BatchInv' /\ jd \in inFlight' /\ jd[1] = id[1] /\ jd[2] \in 1..BlockCount
<1>. DEFINE f == id[1]
            n == id[2]
            k == sent[f] + 1
            F == inFlight \ {id}
            G == F \cup {jd}
<1>1. BatchTypeOK /\ Planned /\ AskedInTurn /\ Account /\ CountedOnce
  BY DEF BatchInv
<1>2. /\ Size(id) \in Nat /\ inflightBytes \in Nat /\ Size(id) <= inflightBytes
      /\ Wire(F, requests, serving, Tail(responses)) /\ Tail(responses) \in Seq(Answers)
      /\ Cardinality(OwedFor(F)) <= inflightBytes - Size(id)
      /\ Cardinality(OwedFor(F)) \in Nat
  BY AnswerFacts DEF Arrives
<1>3. ArrivalEffects(id, f, n)
  BY ArrivalFacts
<1>4. /\ jd = <<f, k>> /\ sent[f] < Len(runs[f]) /\ sent'[f] = k
      /\ \A g \in Files : g # f => sent'[g] = sent[g]
      /\ sent' \in [Files -> 0..BlockCount]
      /\ requests' = requests \o <<jd>> /\ inFlight' = G
      /\ inflightBytes' = inflightBytes - Size(id) + Size(jd)
  BY DEF AsksNext
<1>5. written'[f] = written[f] \cup Span(f, n) /\ written' \in [Files -> SUBSET Blocks]
  BY DEF Arrives
<1>. HIDE DEF f, n
<1>6. /\ f \in Files /\ Cardinality(ChargedFor(sent, written')) \in Nat
      /\ n \in 1..Len(runs[f]) /\ n \in 1..sent[f]
      /\ Cardinality(ChargedFor(sent, written)) = Cardinality(ChargedFor(sent, written')) + Size(id)
  BY <1>3 DEF ArrivalEffects
<1>7. sent \in [Files -> 0..BlockCount] /\ sent[f] \in Nat
  BY <1>1, <1>6 DEF BatchTypeOK
<1>8. /\ Len(runs[f]) \in 0..BlockCount
      /\ \A i \in 1..Len(runs[f]) :
            Span(f, i) \in SUBSET needs[f] /\ Cardinality(Span(f, i)) = runs[f][i].size
      /\ \A i, j \in 1..Len(runs[f]) : i # j => Span(f, i) \cap Span(f, j) = {}
  BY <1>1, <1>6, PlanFacts
<1>9. k \in 1..Len(runs[f]) /\ k \in 1..BlockCount /\ k \in Nat
  BY <1>4, <1>7, <1>8, BatchAssumption
<1>. HIDE DEF k
<1>10. jd[1] = f /\ jd[2] = k /\ jd \in Ids /\ jd \in Askable /\ Size(jd) = runs[f][k].size
  BY <1>4, <1>6, <1>8, <1>9 DEF Ids, Askable, Size
<1>11. jd \notin inFlight
  BY <1>1, <1>7, <1>10 DEF AskedInTurn, k
<1>12. F \in SUBSET Askable /\ G \in SUBSET Askable /\ G \ {jd} = F /\ jd \in G
       /\ F \in SUBSET Ids /\ G \in SUBSET Ids
  BY <1>1, <1>10, <1>11, InFlightAskable DEF BatchTypeOK
<1>. HIDE DEF F, G
<1>13. Cardinality(OwedFor(G)) = Cardinality(OwedFor(F)) + Size(jd) /\ Size(jd) \in Nat
  <2>1. /\ Cardinality(OwedFor(G)) = Cardinality(OwedFor(G \ {jd})) + Size(jd)
        /\ Size(jd) \in Nat
    BY <1>1, <1>12, OwedLess
  <2>. QED  BY <2>1, <1>12
<1>14. Cardinality(ChargedFor(sent', written'))
         = Cardinality(ChargedFor(sent, written')) + Size(jd)
  <2>. DEFINE more == Span(f, k)
  <2>1. more \in SUBSET needs[f] /\ Cardinality(more) = Size(jd)
    BY <1>8, <1>9, <1>10
  <2>2. more \cap written'[f] = {}
    <3>1. more \cap written[f] = {}
      <4>1. k > sent[f]
        BY <1>7 DEF k
      <4>2. \A i \in 1..Len(runs[f]) : i > sent[f] => Span(f, i) \cap written[f] = {}
        BY <1>1, <1>6 DEF CountedOnce
      <4>. QED  BY <4>1, <4>2, <1>9
    <3>2. more \cap Span(f, n) = {}
      <4>1. k # n
        BY <1>6, <1>7 DEF k
      <4>. QED  BY <4>1, <1>6, <1>8, <1>9
    <3>. QED  BY <3>1, <3>2, <1>5
  <2>3. BlocksBetween(f, sent[f], sent'[f], more)
    <3>1. \A i \in 1..sent[f] : more \cap Span(f, i) = {}
      <4>. SUFFICES ASSUME NEW i \in 1..sent[f] PROVE more \cap Span(f, i) = {}
        OBVIOUS
      <4>1. i \in 1..Len(runs[f]) /\ i # k
        BY <1>7, <1>8, <1>9 DEF k
      <4>. QED  BY <4>1, <1>8, <1>9
    <3>2. \A i \in (sent[f] + 1)..sent'[f] : i = k
      BY <1>4, <1>7, <1>9 DEF k
    <3>3. k \in (sent[f] + 1)..sent'[f]
      BY <1>4, <1>7, <1>9 DEF k
    <3>. QED  BY <3>1, <3>2, <3>3 DEF BlocksBetween
  <2>4. sent[f] <= sent'[f]
    BY <1>4, <1>7 DEF k
  <2>. HIDE DEF more
  <2>5. Cardinality(ChargedFor(sent', written'))
          = Cardinality(ChargedFor(sent, written')) + Cardinality(more)
    <3>1. RunsAdded(f, sent, sent', written', more)
      BY <1>4, <1>5, <1>6, <1>7, <2>1, <2>2, <2>3, <2>4 DEF RunsAdded
    <3>. QED  BY <1>1, <3>1, ChargedGrows
  <2>. QED  BY <2>1, <2>5
<1>15. inflightBytes \in Nat /\ inflightBytes <= Cardinality(ChargedFor(sent, written))
  BY <1>1, <1>2 DEF Account
<1>16. /\ inflightBytes' \in Nat
       /\ Cardinality(OwedFor(inFlight')) <= inflightBytes'
       /\ inflightBytes' <= Cardinality(ChargedFor(sent', written'))
  BY <1>2, <1>4, <1>6, <1>13, <1>14, <1>15
<1>17. requests' \in Seq(Ids) /\ Wire(inFlight', requests', serving, Tail(responses))
  <2>1. requests \in Seq(Ids) /\ serving \in SUBSET Ids
    BY <1>1 DEF BatchTypeOK
  <2>2. <<jd>> \in Seq(Ids) /\ Len(<<jd>>) = 1 /\ <<jd>>[1] = jd
    BY <1>10
  <2>3. \A i \in 1..1 : i = 1
    OBVIOUS
  <2>4. /\ \A i \in 1..Len(<<jd>>) : <<jd>>[i] \notin F
        /\ \A i, j \in 1..Len(<<jd>>) : <<jd>>[i] = <<jd>>[j] => i = j
        /\ \A i \in 1..Len(<<jd>>) : <<jd>>[i] \in G
    BY <2>2, <2>3, <1>11, <1>12 DEF F
  <2>5. F \subseteq G
    BY DEF G
  <2>6. requests \o <<jd>> \in Seq(Ids)
    BY <2>1, <2>2
  <2>. DEFINE new == <<jd>>
  <2>7. /\ new \in Seq(Ids) /\ \A i \in 1..Len(new) : new[i] \notin F
        /\ \A i, j \in 1..Len(new) : new[i] = new[j] => i = j
        /\ \A i \in 1..Len(new) : new[i] \in G
    BY <2>2, <2>4
  <2>. HIDE DEF new
  <2>8. Wire(G, requests \o new, serving, Tail(responses))
    BY <1>2, <1>12, <2>1, <2>5, <2>7, WireAsks
  <2>. QED  BY <1>4, <2>6, <2>8 DEF new
<1>18. AsksMore(id, f)
  <2>1. sent[f] <= sent'[f] /\ sent'[f] <= Len(runs[f])
    BY <1>4, <1>7, <1>9 DEF k
  <2>2. inFlight \ {id} \subseteq inFlight' /\ inFlight' \in SUBSET Ids
    BY <1>4, <1>12 DEF F, G
  <2>3. ASSUME NEW i \in 1..sent'[f], i > sent[f] PROVE <<f, i>> \in inFlight'
    <3>1. i = k
      BY <2>3, <1>4, <1>7 DEF k
    <3>. QED  BY <3>1, <1>4, <1>12
  <2>4. ASSUME NEW gd \in inFlight'
        PROVE  \/ gd \in inFlight \ {id}
               \/ gd[1] = f /\ sent[f] < gd[2] /\ gd[2] <= sent'[f]
    <3>1. gd \in F \/ gd = jd
      BY <1>4 DEF G
    <3>2. sent[f] < k /\ k <= sent'[f]
      BY <1>4, <1>7, <1>9 DEF k
    <3>. QED  BY <3>1, <3>2, <1>10 DEF F
  <2>. QED  BY <1>4, <1>16, <1>17, <2>1, <2>2, <2>3, <2>4 DEF AsksMore
<1>19. BatchInv'
  BY <1>18, ArrivalKeepsInv DEF f, n
<1>20. jd \in inFlight' /\ jd[1] = f /\ jd[2] \in 1..BlockCount
  BY <1>4, <1>9, <1>10, <1>12
<1>. QED  BY <1>19, <1>20 DEF f

LEMMA RunArrivesKeepsInv == BatchInv /\ RunArrives => BatchInv'
<1>. SUFFICES ASSUME BatchInv, RunArrives PROVE BatchInv'
  OBVIOUS
<1>. DEFINE id == Head(responses).id
<1>1. Arrives(id) /\ (AsksNothing(id) \/ \E jd : AsksNext(id, jd))
  BY RunArrivesFacts
<1>. QED  BY <1>1, ArrivesAndAsksNothing, ArrivesAndAsksNext

LEMMA BatchNextKeepsInv == BatchInv /\ [BatchNext]_transferVars => BatchInv'
<1>. SUFFICES ASSUME BatchInv, [BatchNext]_transferVars PROVE BatchInv'
  OBVIOUS
<1>1. CASE UNCHANGED transferVars
  <2>1. UNCHANGED <<plan, batchVars>> /\ paused' = paused /\ requests' = requests
        /\ serving' = serving /\ responses' = responses /\ peer' = peer
    BY <1>1 DEF transferVars, wireVars
  <2>. QED  BY <2>1, WireTypes, BatchUntouched
<1>2. CASE Start
  BY <1>2, StartEmptyKeepsInv, StartBurstKeepsInv
<1>3. CASE BatchStep
  BY <1>2, <1>3, LeaveRestKeepsInv, ReturnKeepsInv, DropAnswerKeepsInv, RefusedKeepsInv,
     CorruptKeepsInv, RunArrivesKeepsInv, TimeoutKeepsInv DEF BatchStep
<1>4. CASE PeerStep \/ Vanish \/ Pause
  BY <1>4, ServeKeepsInv, AnswerKeepsInv, VanishKeepsInv, PauseKeepsInv DEF PeerStep
<1>. QED  BY <1>1, <1>3, <1>4 DEF BatchNext

----------------------------------------------------------------------------
(* What a batch promises, for every plan, window and budget.               *)

\* The invariant of a batch: types, the plan, the wire, the blocks counted
\* and the account.  pullBatch and serveUntil, in every interleaving.
THEOREM BatchInvariant == BatchSpec => []BatchInv
<1>1. BatchInit => BatchInv
  BY BatchInitInv
<1>2. BatchInv /\ [BatchNext]_transferVars => BatchInv'
  BY BatchNextKeepsInv
<1>. QED  BY <1>1, <1>2, PTL DEF BatchSpec

\* Every variable keeps its type: the account is never negative, and no file
\* counts more blocks or runs than it has.
THEOREM BatchTypeCorrect == BatchSpec => []BatchTypeOK
<1>1. BatchInv => BatchTypeOK
  BY DEF BatchInv
<1>. QED  BY <1>1, BatchInvariant, PTL

\* A batch that returns leaves nothing on the wire: pullBatch awaits what it
\* has asked for, and each request is in one place until its answer is read.
THEOREM BatchLeavesWireDrained == BatchSpec => []WireDrained
<1>1. BatchInv => WireDrained
  <2>. SUFFICES ASSUME BatchInv, outcome = "returned"
                PROVE  requests = <<>> /\ serving = {} /\ responses = <<>>
    BY DEF WireDrained
  <2>1. inFlight = {} /\ Wire({}, requests, serving, responses)
    BY DEF BatchInv, Drained, OnTheWire
  <2>2. requests \in Seq(Ids) /\ responses \in Seq(Answers)
    BY WireTypes
  <2>3. serving = {}
    BY <2>1 DEF Wire
  <2>4. Len(requests) = 0 /\ Len(responses) = 0
    <3>1. ~(1 \in 1..Len(requests)) /\ ~(1 \in 1..Len(responses))
      BY <2>1 DEF Wire
    <3>. QED  BY <2>2, <3>1
  <2>. QED  BY <2>2, <2>3, <2>4
<1>. QED  BY <1>1, BatchInvariant, PTL

\* A file whose count is reached has every block it needed: the runs do not
\* overlap, so each block is counted once, in whatever order they arrive.
THEOREM BatchCountsWrittenBlocks == BatchSpec => []CountedMeansWritten
<1>1. BatchInv => CountedMeansWritten
  <2>. SUFFICES ASSUME BatchInv, NEW f \in Files, received[f] = Cardinality(needs[f])
                PROVE  needs[f] \subseteq written[f]
    BY DEF CountedMeansWritten
  <2>1. written[f] \subseteq needs[f] /\ Cardinality(written[f]) = Cardinality(needs[f])
    BY DEF BatchInv, CountedOnce
  <2>2. IsFiniteSet(needs[f])
    BY BlocksFinite DEF BatchInv, BatchTypeOK
  <2>. QED  BY <2>1, <2>2, FS_Subset
<1>. QED  BY <1>1, BatchInvariant, PTL

\* The account never falls below what is owed: the clamp at zero in the
\* answer handler is never reached.
THEOREM BatchAccountCoversOwed == BatchSpec => []AccountCoversOwed
<1>1. BatchInv => AccountCoversOwed
  <2>. SUFFICES ASSUME BatchInv PROVE AccountCoversOwed
    OBVIOUS
  <2>1. BatchTypeOK /\ Planned /\ AskedInTurn /\ Account
    BY DEF BatchInv
  <2>2. OwedBlocks = OwedFor(inFlight)
    BY DEF OwedBlocks, OwedFor, Span
  <2>. QED  BY <2>1, <2>2 DEF AccountCoversOwed, Owed, Account
<1>. QED  BY <1>1, BatchInvariant, PTL

----------------------------------------------------------------------------
(* Who holds a file back.                                                  *)

\* When nothing of a file is charged, the charge is what the others asked for.
LEMMA OthersCharged ==
    ASSUME BatchInv, NEW f \in Files, NEW arrived,
           \A g \in Files : g # f => arrived[g] = written[g],
           \A b \in Blocks : <<f, b>> \notin ChargedFor(sent, arrived)
    PROVE  AskedOfOthers(f) = ChargedFor(sent, arrived)
<1>1. Planned /\ AskedInTurn /\ sent \in [Files -> 0..BlockCount]
  BY DEF BatchInv, BatchTypeOK
<1>2. ASSUME NEW g \in Files
      PROVE  AskedOf(g) \subseteq needs[g] /\ needs[g] \subseteq Blocks
  <2>1. sent[g] \in Nat /\ sent[g] <= Len(runs[g]) /\ Len(runs[g]) \in Nat
    BY <1>1, PlanFacts, BatchAssumption DEF AskedInTurn
  <2>2. \A i \in 1..Len(runs[g]) : Span(g, i) \in SUBSET needs[g]
    BY <1>1, PlanFacts
  <2>3. \A i \in 1..sent[g] : Covered(runs[g][i]) \subseteq needs[g]
    BY <2>1, <2>2 DEF Span
  <2>. QED  BY <1>1, <2>3, PlanFacts DEF AskedOf
<1>3. ChargedFor(sent, arrived) \in SUBSET Places
  BY <1>1, ChargedPlaces
<1>4. AskedOfOthers(f) \in SUBSET Places
  BY <1>2 DEF AskedOfOthers, Places
<1>5. ASSUME NEW g \in Files, NEW b \in Blocks
      PROVE  <<g, b>> \in AskedOfOthers(f) <=> <<g, b>> \in ChargedFor(sent, arrived)
  <2>1. <<g, b>> \in AskedOfOthers(f) <=> g # f /\ b \in AskedOf(g) \ written[g]
    BY DEF AskedOfOthers
  <2>2. b \in AskedOf(g) <=> b \in needs[g] /\ \E i \in 1..sent[g] : b \in Span(g, i)
    BY <1>2 DEF AskedOf, Span
  <2>3. <<g, b>> \in ChargedFor(sent, arrived)
           <=> b \in needs[g] \ arrived[g] /\ \E i \in 1..sent[g] : b \in Span(g, i)
    BY ChargedPlace
  <2>. QED  BY <2>1, <2>2, <2>3
<1>. QED  BY <1>3, <1>4, <1>5, SamePlaces

\* A run that the budget refuses is held back by what the others asked for.
LEMMA RefusedByOthers ==
    ASSUME BatchInv, NEW f \in Files, NEW arrived,
           \A g \in Files : g # f => arrived[g] = written[g],
           \A b \in Blocks : <<f, b>> \notin ChargedFor(sent, arrived),
           NEW bytes \in Nat, bytes <= Cardinality(ChargedFor(sent, arrived)),
           sent[f] < Len(runs[f]), ~Fits(bytes, runs[f][sent[f] + 1].size)
    PROVE  HeldBack(f)
<1>1. /\ AskedOfOthers(f) = ChargedFor(sent, arrived)
      /\ Cardinality(ChargedFor(sent, arrived)) \in Nat
  BY OthersCharged, ChargedPlaces DEF BatchInv
<1>2. sent[f] + 1 \in 1..Len(runs[f])
  BY PlanFacts, BatchAssumption DEF BatchInv, BatchTypeOK
<1>3. runs[f][sent[f] + 1].size \in Nat
  BY <1>2, PlanFacts DEF BatchInv
<1>. DEFINE charged == Cardinality(ChargedFor(sent, arrived))
            size == runs[f][sent[f] + 1].size
<1>4. charged \in Nat /\ bytes <= charged /\ size \in Nat /\ ~Fits(bytes, size)
  BY <1>1, <1>3
<1>. HIDE DEF charged, size
<1>5. bytes # 0 /\ bytes + size > Budget
  BY <1>4, BatchAssumption DEF Fits
<1>6. 0 < charged /\ charged + size > Budget
  BY <1>4, <1>5, BatchAssumption
<1>. QED  BY <1>1, <1>6 DEF HeldBack, charged, size

\* What its own answers do does not matter to a file that is held back.
LEMMA HeldBackStays ==
    ASSUME NEW f \in Files, HeldBack(f), runs' = runs, sent' = sent,
           \A g \in Files : g # f => written'[g] = written[g]
    PROVE  HeldBack(f)'
<1>1. \A g \in Files \ {f} : AskedOf(g)' \ written'[g] = AskedOf(g) \ written[g]
  BY DEF AskedOf
<1>2. AskedOfOthers(f)' = AskedOfOthers(f)
  BY <1>1 DEF AskedOfOthers
<1>. QED  BY <1>2 DEF HeldBack

\* A file that stays active and keeps its requests is not left without one.
LEMMA StillServed ==
    ASSUME NEW f \in Files, f \in Jobs' => f \in Jobs,
           \A jd \in inFlight : jd[1] = f => jd \in inFlight'
    PROVE  ~LeftUnserved(f)
BY DEF LeftUnserved, Unserved

LEMMA StartHoldsBack ==
    ASSUME BatchInv, Start, NEW f \in Files, LeftUnserved(f) PROVE HeldBack(f)'
<1>1. /\ next \in Files /\ sent[next] = 0
      /\ state \in [Files -> {"waiting", "active", "done", "abandoned"}]
  BY NextIsFresh DEF Start, BatchInv, BatchTypeOK
<1>2. CASE runs[next] = <<>>
  <2>1. state' = [state EXCEPT ![next] = "done"] /\ inFlight' = inFlight
    BY <1>2 DEF Start
  <2>2. f \in Jobs' => f \in Jobs
    BY <1>1, <2>1 DEF Jobs
  <2>. QED  BY <2>1, <2>2, StillServed
<1>3. CASE runs[next] # <<>>
  <2>. DEFINE m == Burst(runs[next])
  <2>1. /\ m \in 0..Len(runs[next]) /\ m \in 0..BlockCount
        /\ \A g \in Files : g # next => state'[g] = state[g] /\ sent'[g] = sent[g]
        /\ sent'[next] = m /\ sent' \in [Files -> 0..BlockCount]
        /\ inFlight' = inFlight \cup {<<next, i>> : i \in 1..m}
        /\ runs' = runs /\ written' = written
    BY <1>3, StartBurstFacts
  <2>2. f = next
    <3>. SUFFICES ASSUME f # next PROVE FALSE
      OBVIOUS
    <3>. HIDE DEF m
    <3>1. f \in Jobs' => f \in Jobs
      BY <2>1 DEF Jobs
    <3>. QED  BY <2>1, <3>1, StillServed
  <2>3. m = 0
    <3>. HIDE DEF m
    <3>. SUFFICES ASSUME m # 0 PROVE FALSE
      OBVIOUS
    <3>1. 1 \in 1..m
      BY <2>1
    <3>2. <<next, 1>> \in inFlight'
      BY <2>1, <3>1
    <3>. QED  BY <2>2, <3>2 DEF LeftUnserved, Unserved
  <2>4. sent' = sent
    <3>. HIDE DEF m
    <3>1. sent \in [Files -> 0..BlockCount]
      BY DEF BatchInv, BatchTypeOK
    <3>. QED  BY <1>1, <2>1, <2>3, <3>1
  <2>5. /\ runs[next] \in Seq(Runs) /\ Len(runs[next]) \in Nat /\ Len(runs[next]) # 0
        /\ \A i \in 1..Len(runs[next]) : runs[next][i].size \in Nat
    <3>1. runs[next] \in Seq(Runs)
      BY <1>1, PlanFacts DEF BatchInv, Partitions
    <3>2. \A i \in 1..Len(runs[next]) : runs[next][i].size \in Nat
      BY <1>1, PlanFacts DEF BatchInv
    <3>. QED  BY <1>3, <3>1, <3>2
  <2>6. 0 < WindowOf(runs[next])
    BY <2>5, BatchAssumption DEF WindowOf
  <2>7. ~Fits(inflightBytes + BytesOf(runs[next], 0), runs[next][0 + 1].size)
    BY <2>3, <2>5, <2>6, BurstFacts
  <2>8. BytesOf(runs[next], 0) = 0
    <3>1. 0 \in 0..Len(runs[next])
      BY <2>5
    <3>2. BytesOf(runs[next], 0) = Cardinality(FirstBlocks(runs[next], 0))
      BY <1>1, <3>1, BurstBlocks DEF BatchInv
    <3>3. FirstBlocks(runs[next], 0) = {}
      BY DEF FirstBlocks
    <3>. QED  BY <3>2, <3>3, FS_EmptySet
  <2>9. inflightBytes \in Nat /\ inflightBytes <= Cardinality(ChargedFor(sent, written))
    BY DEF BatchInv, BatchTypeOK, Account
  <2>10. \A b \in Blocks : <<next, b>> \notin ChargedFor(sent, written)
    <3>. SUFFICES ASSUME NEW b \in Blocks, <<next, b>> \in ChargedFor(sent, written) PROVE FALSE
      OBVIOUS
    <3>1. \E i \in 1..sent[next] : b \in Span(next, i)
      BY <1>1, ChargedPlace
    <3>. QED  BY <1>1, <3>1
  <2>. HIDE DEF m
  <2>11. ~Fits(inflightBytes, runs[next][sent[next] + 1].size) /\ sent[next] < Len(runs[next])
    BY <1>1, <2>5, <2>7, <2>8, <2>9
  <2>12. HeldBack(next)
    BY <1>1, <2>9, <2>10, <2>11, RefusedByOthers
  <2>. QED  BY <1>1, <2>1, <2>2, <2>4, <2>12, HeldBackStays
<1>. QED  BY <1>2, <1>3

LEMMA NothingHoldsBack ==
    ASSUME BatchInv, DropAnswer \/ Refused \/ Corrupt, NEW f \in Files
    PROVE  ~LeftUnserved(f)
<1>. DEFINE id == Head(responses).id
<1>1. Receive(<<>>)
  BY DEF DropAnswer, Refused, Corrupt
<1>2. /\ inFlight' = inFlight \ {id} /\ id[1] \in Files
      /\ state \in [Files -> {"waiting", "active", "done", "abandoned"}]
  BY <1>1, NothingAsked
<1>3. (state' = state /\ id[1] \notin Jobs) \/ state' = [state EXCEPT ![id[1]] = "abandoned"]
  BY DEF DropAnswer, Refused, Corrupt
<1>. HIDE DEF id
<1>4. f \in Jobs' => f \in Jobs /\ f # id[1]
  <2>1. CASE state' = state /\ id[1] \notin Jobs
    BY <2>1 DEF Jobs
  <2>2. CASE state' = [state EXCEPT ![id[1]] = "abandoned"]
    BY <1>2, <2>2 DEF Jobs
  <2>. QED  BY <1>3, <2>1, <2>2
<1>. QED  BY <1>2, <1>4 DEF LeftUnserved, Unserved

\* The file whose last answer came, and which asks for nothing, has a run left
\* that does not fit.
LEMMA LastAnswerHoldsBack ==
    ASSUME BatchInv, NEW id, Arrives(id), AsksNothing(id), ~Complete(id),
           ~Refills(id[1], inflightBytes - Size(id)), NEW f, f = id[1],
           \A i \in 1..BlockCount : <<f, i>> \notin inFlight \ {id}
    PROVE  HeldBack(f)'
<1>. DEFINE n == id[2]
            bytes == inflightBytes - Size(id)
<1>1. BatchTypeOK /\ Planned /\ AskedInTurn /\ Awaited /\ Account
  BY DEF BatchInv
<1>2. ArrivalEffects(id, f, n)
  BY ArrivalFacts
<1>. HIDE DEF n
<1>3. /\ f \in Files /\ n \in 1..sent[f] /\ id = <<f, n>> /\ written'[f] \subseteq needs[f]
      /\ received'[f] = Cardinality(written'[f])
      /\ Cardinality(ChargedFor(sent, written)) = Cardinality(ChargedFor(sent, written')) + Size(id)
      /\ Cardinality(ChargedFor(sent, written')) \in Nat
  BY <1>2 DEF ArrivalEffects
<1>4. /\ f \in Jobs /\ written'[f] = written[f] \cup Span(f, n)
      /\ received'[f] = received[f] + Size(id)
  BY DEF Arrives, n
<1>5. /\ Len(runs[f]) \in 0..BlockCount
      /\ \A b \in needs[f] : \E i \in 1..Len(runs[f]) : b \in Span(f, i)
  BY <1>1, <1>3, PlanFacts
<1>6. sent[f] \in Nat /\ sent[f] <= Len(runs[f]) /\ sent[f] <= BlockCount
  BY <1>1, <1>3, BatchAssumption DEF BatchTypeOK, AskedInTurn
<1>7. ASSUME NEW i \in 1..sent[f] PROVE Span(f, i) \subseteq written'[f]
  <2>1. <<f, i>> \in inFlight \/ Span(f, i) \subseteq written[f]
    BY <1>1, <1>4 DEF Awaited
  <2>2. i \in 1..BlockCount
    BY <1>6, BatchAssumption
  <2>3. <<f, i>> \in inFlight => i = n
    BY <1>3, <2>2
  <2>. QED  BY <1>4, <2>1, <2>3
<1>8. sent[f] # Len(runs[f])
  <2>. SUFFICES ASSUME sent[f] = Len(runs[f]) PROVE FALSE
    OBVIOUS
  <2>1. needs[f] = written'[f]
    BY <1>3, <1>5, <1>7
  <2>. QED  BY <1>3, <1>4, <2>1 DEF Complete
<1>9. sent[f] < Len(runs[f])
  BY <1>5, <1>6, <1>8, BatchAssumption
<1>10. ~Fits(bytes, runs[f][sent[f] + 1].size)
  BY <1>9 DEF Refills
<1>11. \A b \in Blocks : <<f, b>> \notin ChargedFor(sent, written')
  <2>. SUFFICES ASSUME NEW b \in Blocks, <<f, b>> \in ChargedFor(sent, written') PROVE FALSE
    OBVIOUS
  <2>0. \A asked, arrived :
           <<f, b>> \in ChargedFor(asked, arrived)
             <=> b \in needs[f] \ arrived[f] /\ \E i \in 1..asked[f] : b \in Span(f, i)
    BY <1>3, ChargedPlace
  <2>1. b \notin written'[f] /\ \E i \in 1..sent[f] : b \in Span(f, i)
    BY <2>0
  <2>. QED  BY <1>7, <2>1
<1>12. /\ inflightBytes \in Nat /\ inflightBytes <= Cardinality(ChargedFor(sent, written))
       /\ Size(id) \in Nat /\ Size(id) <= inflightBytes
  BY <1>1, AnswerFacts DEF Arrives, BatchTypeOK, Account
<1>13. bytes \in Nat /\ bytes <= Cardinality(ChargedFor(sent, written'))
  BY <1>3, <1>12
<1>14. \A g \in Files : g # f => written'[g] = written[g]
  BY DEF Arrives
<1>. HIDE DEF bytes
<1>15. HeldBack(f)
  <2>. DEFINE arrived == written'
  <2>1. /\ \A g \in Files : g # f => arrived[g] = written[g]
        /\ \A b \in Blocks : <<f, b>> \notin ChargedFor(sent, arrived)
        /\ bytes <= Cardinality(ChargedFor(sent, arrived))
    BY <1>11, <1>13, <1>14
  <2>. HIDE DEF arrived
  <2>. QED  BY <1>3, <1>9, <1>10, <1>13, <2>1, RefusedByOthers
<1>16. runs' = runs /\ sent' = sent
  BY DEF Arrives, AsksNothing
<1>. QED  BY <1>3, <1>14, <1>15, <1>16, HeldBackStays

LEMMA RunArrivesHoldsBack ==
    ASSUME BatchInv, RunArrives, NEW g \in Files, LeftUnserved(g) PROVE HeldBack(g)'
<1>. DEFINE id == Head(responses).id
            f == id[1]
<1>1. /\ Arrives(id)
      /\ \/ AsksNothing(id) /\ (Complete(id) \/ ~Refills(f, inflightBytes - Size(id)))
         \/ ~Complete(id) /\ \E jd : AsksNext(id, jd)
  BY RunArrivesFacts
<1>. HIDE DEF id
<1>2. /\ \A h \in Files : h # f => state'[h] = state[h]
      /\ Complete(id) => state'[f] # "active"
  BY <1>1 DEF Arrives
<1>3. inFlight \ {id} \subseteq inFlight'
  BY <1>1 DEF AsksNothing, AsksNext
<1>4. g = f
  <2>. SUFFICES ASSUME g # f PROVE FALSE
    OBVIOUS
  <2>1. g \in Jobs' => g \in Jobs
    BY <1>2 DEF Jobs
  <2>2. \A jd \in inFlight : jd[1] = g => jd \in inFlight'
    BY <1>3
  <2>. QED  BY <2>1, <2>2, StillServed
<1>5. ~(\E jd : AsksNext(id, jd))
  <2>. SUFFICES ASSUME NEW jd, AsksNext(id, jd) PROVE FALSE
    OBVIOUS
  <2>1. jd \in inFlight' /\ jd[1] = f
    BY <1>1, ArrivesAndAsksNext
  <2>. QED  BY <1>4, <2>1 DEF LeftUnserved, Unserved
<1>6. ~Complete(id)
  BY <1>2, <1>4 DEF LeftUnserved, Jobs
<1>7. \A i \in 1..BlockCount : <<f, i>> \notin inFlight \ {id}
  <2>. SUFFICES ASSUME NEW i \in 1..BlockCount, <<f, i>> \in inFlight \ {id} PROVE FALSE
    OBVIOUS
  <2>1. <<f, i>> \in inFlight' /\ <<f, i>>[1] = f
    BY <1>3
  <2>. QED  BY <1>4, <2>1 DEF LeftUnserved, Unserved
<1>. QED  BY <1>1, <1>4, <1>5, <1>6, <1>7, LastAnswerHoldsBack

\* A file is left without a request, when it starts or when its last answer
\* arrives, only because what the other files asked for fills the budget, for
\* every plan, window, budget and peer (start, sendNext and handle of
\* pullBatch). The theorem does not say that it is woken later.
THEOREM BatchHeldBackByOthers == BatchSpec => HeldBackByOthers
<1>1. BatchInv /\ [BatchNext]_transferVars
        => [\A f \in Files : LeftUnserved(f) => HeldBack(f)']_transferVars
  <2>. SUFFICES ASSUME BatchInv, BatchNext, NEW f \in Files, LeftUnserved(f)
                PROVE  HeldBack(f)'
    OBVIOUS
  <2>1. CASE Start
    BY <2>1, StartHoldsBack
  <2>2. CASE DropAnswer \/ Refused \/ Corrupt
    BY <2>2, NothingHoldsBack
  <2>3. CASE RunArrives
    BY <2>3, RunArrivesHoldsBack
  <2>4. CASE Timeout
    <3>1. state' = [g \in Files |-> IF g \in Jobs THEN "abandoned" ELSE state[g]]
      BY <2>4 DEF Timeout
    <3>2. f \notin Jobs'
      BY <3>1 DEF Jobs
    <3>. QED  BY <3>2 DEF LeftUnserved
  <2>5. CASE LeaveRest \/ Return \/ PeerStep \/ Vanish \/ Pause
    <3>1. state' = state /\ inFlight' = inFlight
      BY <2>5 DEF LeaveRest, Return, PeerStep, Serve, Answer, Vanish, Pause, batchVars
    <3>2. f \in Jobs' => f \in Jobs
      BY <3>1 DEF Jobs
    <3>. QED  BY <3>1, <3>2, StillServed
  <2>. QED  BY <2>1, <2>2, <2>3, <2>4, <2>5 DEF BatchNext, BatchStep
<1>. QED  BY <1>1, BatchInvariant, PTL DEF BatchSpec, HeldBackByOthers

============================================================================
