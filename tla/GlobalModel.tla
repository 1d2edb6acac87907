---------------------------- MODULE GlobalModel ----------------------------
(***************************************************************************)
(* Version vectors (internal/version) and the choice of the winning entry  *)
(* of a name (internal/sync: globalFrom, pullWanted, uploadWanted).        *)
(*                                                                         *)
(* A vector is a function from the devices to counters; a device that is   *)
(* absent from the map has counter 0.  An index entry is a record: its     *)
(* vector, whether it is a tombstone, its modification time, its block     *)
(* list (one number stands for one list of hashes) and its size.  Device   *)
(* ids and counters are single hexadecimal digits (below 16), so that the  *)
(* string order of canonicalVersion is the order of the digits.            *)
(***************************************************************************)
EXTENDS Integers, Sequences, FiniteSets

CONSTANT Devices   \* device ids

ASSUME DevicesAssumption == Devices \subseteq 1..15 /\ Devices # {}

----------------------------------------------------------------------------
(* Vectors.                                                                *)

Vectors == [Devices -> Nat]
New == [d \in Devices |-> 0]

Bump(v, d) == [v EXCEPT ![d] = @ + 1]

Merge(v, o) == [d \in Devices |-> IF o[d] > v[d] THEN o[d] ELSE v[d]]

\* 1: v dominates o; -1: o dominates v; 0: equal; 2: concurrent.
Compare(v, o) ==
    LET gt == \E d \in Devices : v[d] > o[d]
        lt == \E d \in Devices : v[d] < o[d]
    IN  IF gt /\ ~lt THEN 1
        ELSE IF lt /\ ~gt THEN -1
        ELSE IF ~gt /\ ~lt THEN 0
        ELSE 2

\* The order of the strings that canonicalVersion builds: "id:counter|" for
\* every device of the map, ids ascending.  At the first device where the
\* vectors differ the higher counter wins; a vector without that device goes
\* on with a higher id, and wins, or is a prefix, and loses.
FirstDifference(v, o) ==
    CHOOSE d \in Devices : v[d] # o[d] /\ \A e \in Devices : v[e] # o[e] => d <= e

Continues(v, d) == \E e \in Devices : e > d /\ v[e] # 0

CanonicalGreater(v, o) ==
    /\ v # o
    /\ LET d == FirstDifference(v, o) IN
         IF v[d] = 0 THEN Continues(v, d)
         ELSE IF o[d] = 0 THEN ~Continues(o, d)
         ELSE v[d] > o[d]

----------------------------------------------------------------------------
(* Entries.                                                                *)

NoEntry == [ver |-> New, del |-> FALSE, time |-> 0, content |-> 0, size |-> 0]

\* A tombstone carries neither stat nor blocks.
Tombstone(v) == [ver |-> v, del |-> TRUE, time |-> 0, content |-> 0, size |-> 0]

Entries == [ver : Vectors, del : BOOLEAN, time : Nat, content : Nat, size : Nat]

Exists(e) == e.ver # New
Live(e) == Exists(e) /\ ~e.del

sameContent(a, b) == a.content = b.content /\ a.size = b.size

\* The newer time wins; the canonical order decides a tie (mutant: a tie is
\* left undecided).
newerOnly(a, b) == a.time > b.time

newerOrGreater(a, b) ==
    IF a.time # b.time THEN a.time > b.time ELSE CanonicalGreater(a.ver, b.ver)

\* The switch of globalFrom: does a peer's entry displace the best so far?
\* (mutant: the newest file wins, whatever the vectors say)
DisplacesByTime(p, best) == newerOrGreater(p, best)

Displaces(p, best) ==
    LET c == Compare(p.ver, best.ver) IN
    \/ c = 1
    \/ c = 0 /\ IF p.del # best.del THEN p.del ELSE p.size > best.size
    \/ c = 2 /\ newerOrGreater(p, best)

\* One pass of globalFrom over the peers' entries, in the order of the map
\* iteration.
WinnerOf(local, entries) ==
    LET best[i \in 0..Len(entries)] ==
          IF i = 0 THEN local
          ELSE IF Exists(entries[i])
                  /\ (~Exists(best[i - 1]) \/ Displaces(entries[i], best[i - 1]))
               THEN entries[i]
               ELSE best[i - 1]
    IN  best[Len(entries)]

\* Go iterates over a map in any order: every order is a possible outcome.
Orders(S) ==
    {o \in [1..Cardinality(S) -> S] : \A i, j \in DOMAIN o : o[i] = o[j] => i = j}

globalFrom(local, views) ==
    {WinnerOf(local, [i \in DOMAIN o |-> views[o[i]]]) : o \in Orders(DOMAIN views)}

\* pullWanted, for the winner g of a name (identicalContent and sameContent
\* agree on hashed entries).
\* (mutant: a file that was deleted here is not taken back)
pullWantedOnce(local, g) ==
    \/ ~Exists(local) /\ Live(g)
    \/ Live(local) /\ g.del
    \/ Live(local) /\ Live(g) /\ Compare(g.ver, local.ver) \in {1, 2}
                   /\ ~sameContent(local, g)

pullWanted(local, g) ==
    \/ ~Exists(local) /\ Live(g)
    \/ Live(local) /\ g.del
    \/ Live(local) /\ Live(g) /\ Compare(g.ver, local.ver) \in {1, 2}
                   /\ ~sameContent(local, g)
    \/ local.del /\ Live(g)

\* uploadWanted: some authoritative view lacks the bytes.
\* (mutant: any tombstone of a peer counts)
uploadWantedOverTombstone(local, views) ==
    /\ Live(local)
    /\ \E p \in DOMAIN views :
         \/ ~Live(views[p])
         \/ Live(views[p]) /\ Compare(local.ver, views[p].ver) = 1
                           /\ ~sameContent(local, views[p])

uploadWanted(local, views) ==
    /\ Live(local)
    /\ \E p \in DOMAIN views :
         \/ ~Exists(views[p])
         \/ views[p].del /\ Compare(local.ver, views[p].ver) = 1
         \/ Live(views[p]) /\ Compare(local.ver, views[p].ver) = 1
                           /\ ~sameContent(local, views[p])

============================================================================
