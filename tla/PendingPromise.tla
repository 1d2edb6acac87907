-------------------------- MODULE PendingPromise --------------------------
(***************************************************************************)
(* What the engine promises about its two pending lists (internal/sync:    *)
(* NeedPulls, PendingUploads), whatever way it computes them.  A name is    *)
(* wanted or not at every moment; an answer is given after a call, and it   *)
(* is right about every name except those whose change overlapped the call  *)
(* and those whose change the engine has lost sight of.                     *)
(***************************************************************************)
CONSTANT Names

VARIABLES
    want,     \* the names wanted now: a record of two sets, pulls and ups
    moving,   \* names written, the write not yet reported
    calling,  \* a call is under way
    blurred,  \* names that moved during the call
    lost,     \* names whose change nobody will look at again
    answer    \* the lists last computed: a record like want

vars == <<want, moving, calling, blurred, lost, answer>>

Lists == [pulls : SUBSET Names, ups : SUBSET Names]

Agree(a, b, S) ==
    \A n \in S : /\ n \in a.pulls <=> n \in b.pulls
                 /\ n \in a.ups <=> n \in b.ups

Init ==
    /\ want = [pulls |-> {}, ups |-> {}]
    /\ moving = {}
    /\ calling = FALSE
    /\ blurred = {}
    /\ lost = {}
    /\ answer = [pulls |-> {}, ups |-> {}]

\* Some names change.
Change ==
    /\ want' \in Lists
    /\ moving' \in SUBSET Names
    /\ lost' \in SUBSET Names
    /\ moving \subseteq moving' /\ lost \subseteq lost'
    /\ blurred' \in SUBSET Names
    /\ calling => Agree(want, want', Names \ blurred')
    /\ calling => blurred \subseteq blurred'
    /\ ~calling => blurred' = blurred
    /\ UNCHANGED <<calling, answer>>

\* A change is reported.
Report ==
    /\ moving' \in SUBSET moving
    /\ UNCHANGED <<want, calling, blurred, lost, answer>>

Call ==
    /\ ~calling
    /\ calling' = TRUE
    /\ blurred' = moving
    /\ UNCHANGED <<want, moving, lost, answer>>

\* The call looks at names again, or walks everything: it may find what was lost.
Find ==
    /\ calling
    /\ lost' \in SUBSET lost
    /\ UNCHANGED <<want, moving, calling, blurred, answer>>

\* A name is lost for longer than the call only if it changed during the call.
Return ==
    /\ calling
    /\ calling' = FALSE
    /\ answer' \in Lists
    /\ lost' \in SUBSET (lost \cup blurred)
    /\ Agree(answer', want, Names \ (lost \cup blurred))
    /\ blurred' = {}
    /\ UNCHANGED <<want, moving>>

\* The call fails: the lists stay as they are.
Fail ==
    /\ calling
    /\ calling' = FALSE
    /\ lost' \in SUBSET Names
    /\ lost \subseteq lost'
    /\ blurred' = {}
    /\ UNCHANGED <<want, moving, answer>>

Next == Change \/ Report \/ Call \/ Find \/ Return \/ Fail

Spec == Init /\ [][Next]_vars

============================================================================
