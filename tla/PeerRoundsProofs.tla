-------------------------- MODULE PeerRoundsProofs --------------------------
(***************************************************************************)
(* Proofs about the rounds of two devices: the session slots exclude one   *)
(* another on either side, and no kick is lost, for every set of threads,  *)
(* every backoff and any number of changes and faults.                     *)
(***************************************************************************)
EXTENDS PeerRounds, FiniteSetTheorems, TLAPS

----------------------------------------------------------------------------
(* The inductive invariant.                                                *)

InRound == {"dial", "wait", "data"}

\* A thread is in a round exactly while its device's slot says so.
DialSlot ==
    \A d \in Devices : \A t \in Threads[d] : pc[d][t] \in InRound <=> sem[d] = Out(d, t)

\* An inbound session that got through holds the slot of the serving device.
ServeSlot ==
    \A d \in Devices : \A t \in Threads[d] :
        srv[Other(d)][t] = "held" <=> sem[Other(d)] = In(d, t)

\* A session lives only as long as the connection it came by is known.
SessionConnected ==
    \A d \in Devices : \A t \in Threads[d] : srv[Other(d)][t] # "none" => conn[d][t] # "none"

\* Data moves only while the peer serves.
DataServed ==
    \A d \in Devices : \A t \in Threads[d] :
        pc[d][t] = "data" /\ conn[d][t] = "open" => srv[Other(d)][t] = "held"

SlotsRight == DialSlot /\ ServeSlot /\ SessionConnected /\ DataServed

KickKept ==
    \A d \in owed : "kick" \in Threads[d] /\ (At(d, "kick", "check") \/ again[d])

IInv == TypeOK /\ SlotsRight /\ KickKept

----------------------------------------------------------------------------
(* Devices, and maps over their threads.                                   *)

LEMMA TwoDevices ==
    ASSUME NEW d \in Devices
    PROVE  /\ Other(d) \in Devices /\ Other(Other(d)) = d /\ Other(d) # d
           /\ \A e \in Devices : e = d \/ e = Other(d)
BY DEF Devices, Other

\* Setting one thread's place in a map.
LEMMA SetThread ==
    ASSUME NEW v, NEW S, PerThread(v, S), NEW d \in Devices, NEW t \in Threads[d], NEW x \in S
    PROVE  /\ PerThread([v EXCEPT ![d][t] = x], S)
           /\ \A e \in Devices : \A u \in Threads[e] :
                [v EXCEPT ![d][t] = x][e][u] = IF e = d /\ u = t THEN x ELSE v[e][u]
BY DEF PerThread

LEMMA SetPeerThread ==
    ASSUME NEW v, NEW S, PerPeerThread(v, S), NEW d \in Devices, NEW t \in Threads[d], NEW x \in S
    PROVE  /\ PerPeerThread([v EXCEPT ![Other(d)][t] = x], S)
           /\ \A e \in Devices : \A u \in Threads[e] :
                [v EXCEPT ![Other(d)][t] = x][Other(e)][u]
                  = IF e = d /\ u = t THEN x ELSE v[Other(e)][u]
BY TwoDevices DEF PerPeerThread

LEMMA SlotValues ==
    ASSUME NEW d \in Devices, NEW t \in Threads[d]
    PROVE  /\ Out(d, t) \in Slots /\ In(d, t) \in Slots /\ Free \in Slots
           /\ Out(d, t) # Free /\ In(d, t) # Free
           /\ \A e \in Devices : \A u \in Threads[e] :
                /\ Out(d, t) # In(e, u)
                /\ Out(d, t) = Out(e, u) => e = d /\ u = t
                /\ In(d, t) = In(e, u) => e = d /\ u = t
BY RoundsAssumption DEF Out, In, Free, Slots, Devices

LEMMA FreeSlot == Free \in Slots
BY DEF Slots

----------------------------------------------------------------------------
(* Types.                                                                  *)

LEMMA DelayType == ASSUME NEW n \in Nat PROVE Delay(n) \in 1..MaxBackoff
<1> DEFINE d == 2 ^ (n - 1)
<1>1. Delay(n) = IF d \in 1..MaxBackoff THEN d ELSE MaxBackoff
  BY DEF Delay
<1> HIDE DEF d
<1>. QED  BY <1>1, RoundsAssumption

LEMMA GotoType ==
    ASSUME TypeOK, NEW d \in Devices, NEW t \in Threads[d], NEW x \in Places, Goto(d, t, x)
    PROVE  PerThread(pc', Places)
BY SetThread DEF Goto, TypeOK

LEMMA AfterRoundType == \A d, t : AfterRound(d, t) \in Places
BY DEF AfterRound, Places

LEMMA AgainType ==
    ASSUME TypeOK, NEW d, NEW t, again' = AgainAfter(d, t)
    PROVE  again' \in [Devices -> BOOLEAN]
BY DEF TypeOK, AgainAfter

LEMMA FinishType ==
    ASSUME TypeOK, NEW d \in Devices, NEW t \in Threads[d], NEW r \in Reasons, Finish(d, t, r)
    PROVE  PerThread(pc', Places) /\ PerThread(err', Reasons)
<1>1. "idle" \in Places /\ "end" \in Places
  BY DEF Places
<1>2. PerThread(pc', Places)
  BY <1>1, GotoType DEF Finish
<1>3. PerThread(err', Reasons)
  BY SetThread DEF Finish, TypeOK
<1>. QED  BY <1>2, <1>3

LEMMA InitType == Init => TypeOK
<1> SUFFICES ASSUME Init PROVE TypeOK
  OBVIOUS
<1>1. PerThread(pc, Places) /\ PerThread(err, Reasons) /\ PerThread(conn, {"none", "open", "gone"})
  BY DEF Init, PerThread, ThreadMap, Places, Reasons
<1>2. PerPeerThread(srv, {"none", "wait", "held"})
  BY DEF Init, PerPeerThread, PeerThreadMap
<1>3. sem \in [Devices -> Slots]
  BY FreeSlot DEF Init
<1>4. /\ DOMAIN sent = Devices
      /\ \A d \in Devices : sent[d] = [t \in Threads[d] |-> <<0, 0>>]
  BY DEF Init, ThreadMap
<1>5. \A d \in Devices : MaxChanges[d] \in Nat /\ MaxChanges[Other(d)] \in Nat
  BY RoundsAssumption, TwoDevices
<1>6. \A s \in Sessions : s[1] \in Devices /\ s[2] \in Threads[s[1]]
  BY DEF Sessions
<1>7. \A d \in Devices : cur[d] = 0 /\ cur[Other(d)] = 0 /\ seen[d] = 0
  BY TwoDevices DEF Init
<1>8. \A d \in Devices : sent[d] \in [Threads[d] -> (0..MaxChanges[d]) \X (0..MaxChanges[Other(d)])]
  BY <1>4, <1>5
<1>9. \A s \in Sessions : sent[s[1]][s[2]] = <<0, 0>> /\ cur[s[1]] = 0 /\ cur[Other(s[1])] = 0
  BY <1>4, <1>6, <1>7
<1>10. "" \in Reasons
  BY DEF Reasons
<1>11. /\ cur \in [Devices -> Nat] /\ seen \in [Devices -> Nat]
       /\ \A d \in Devices : cur[d] <= MaxChanges[d] /\ seen[d] <= cur[Other(d)]
  <2>1. cur = [d \in Devices |-> 0] /\ seen = [d \in Devices |-> 0]
    BY DEF Init
  <2>2. \A d \in Devices : cur[d] <= MaxChanges[d] /\ seen[d] <= cur[Other(d)]
    BY <1>5, <1>7
  <2>. QED  BY <2>1, <2>2
<1>12. \A s \in Sessions : sent[s[1]][s[2]][1] <= cur[s[1]] /\ sent[s[1]][s[2]][2] <= cur[Other(s[1])]
  BY <1>9
<1>13. /\ slot \in [Devices -> BOOLEAN]
       /\ fails \in [Devices -> 0..MaxBackoff] /\ wait \in [Devices -> 0..MaxBackoff]
       /\ \A d \in Devices : wait[d] > 0 => fails[d] > 0
       /\ lastErr \in [Devices -> Reasons]
       /\ alert \in [Devices -> BOOLEAN] /\ again \in [Devices -> BOOLEAN]
       /\ up \in BOOLEAN /\ paused \subseteq Devices /\ faults \in 0..MaxFaults
       /\ owed \subseteq Devices
  <2>1. MaxBackoff \in Nat /\ MaxFaults \in Nat
    BY RoundsAssumption
  <2>2. fails = [d \in Devices |-> 0] /\ wait = [d \in Devices |-> 0]
    BY DEF Init
  <2>3. \A d \in Devices : wait[d] > 0 => fails[d] > 0
    BY <2>2
  <2>4. slot \in [Devices -> BOOLEAN]
    BY DEF Init
  <2>5. alert \in [Devices -> BOOLEAN] /\ again \in [Devices -> BOOLEAN]
    BY DEF Init
  <2>6. lastErr \in [Devices -> Reasons]
    BY <1>10 DEF Init
  <2>7. fails \in [Devices -> 0..MaxBackoff] /\ wait \in [Devices -> 0..MaxBackoff]
    BY <2>1, <2>2
  <2>8. up \in BOOLEAN
    BY DEF Init
  <2>9. paused = {} /\ owed = {} /\ faults = 0
    BY DEF Init
  <2>10. paused \subseteq Devices /\ faults \in 0..MaxFaults /\ owed \subseteq Devices
    BY <2>1, <2>9
  <2>. QED  BY <2>3, <2>4, <2>5, <2>6, <2>7, <2>8, <2>10
<1>. QED
  BY <1>1, <1>2, <1>3, <1>4, <1>8, <1>11, <1>12, <1>13 DEF TypeOK

\* The kinds of maps a round changes, and the rest of the state.
LEMMA RoundTypes ==
    ASSUME TypeOK, PerThread(pc', Places), PerThread(err', Reasons),
           PerThread(conn', {"none", "open", "gone"}),
           PerPeerThread(srv', {"none", "wait", "held"}),
           sem' \in [Devices -> Slots], slot' \in [Devices -> BOOLEAN],
           again' \in [Devices -> BOOLEAN], owed' \subseteq Devices,
           UNCHANGED <<fails, wait, lastErr, alert, dataVars, envVars>>
    PROVE  TypeOK'
BY DEF TypeOK, dataVars, envVars

\* What a round says it sends is what both sides have at least.
SentOK(d, x) ==
    /\ x \in (0..MaxChanges[d]) \X (0..MaxChanges[Other(d)])
    /\ x[1] <= cur[d] /\ x[2] <= cur[Other(d)]

LEMMA SentType ==
    ASSUME TypeOK, NEW d \in Devices, NEW t \in Threads[d], NEW x, SentOK(d, x),
           sent' = [sent EXCEPT ![d][t] = x], cur' = cur,
           PerThread(pc', Places), PerThread(err', Reasons),
           PerThread(conn', {"none", "open", "gone"}), sem' \in [Devices -> Slots],
           seen' \in [Devices -> Nat], \A e \in Devices : seen'[e] <= cur[Other(e)],
           UNCHANGED <<srv, slot, stateVars, envVars, owed>>
    PROVE  TypeOK'
<1>1. \A e \in Devices :
        /\ DOMAIN sent' = Devices
        /\ sent'[e] \in [Threads[e] -> (0..MaxChanges[e]) \X (0..MaxChanges[Other(e)])]
  BY DEF TypeOK, SentOK
<1>2. \A e \in Devices : \A u \in Threads[e] :
        sent'[e][u] = IF e = d /\ u = t THEN x ELSE sent[e][u]
  BY DEF TypeOK
<1>3. \A s \in Sessions : s[1] \in Devices /\ s[2] \in Threads[s[1]]
  BY DEF Sessions
<1>4. \A s \in Sessions :
        sent'[s[1]][s[2]][1] <= cur[s[1]] /\ sent'[s[1]][s[2]][2] <= cur[Other(s[1])]
  BY <1>2, <1>3 DEF TypeOK, SentOK
<1>5. Devices # {}
  BY DEF Devices
<1>. QED  BY <1>1, <1>4, <1>5 DEF TypeOK, stateVars, envVars

\* The session's numbers come from both devices.
LEMMA SentValues ==
    ASSUME TypeOK, NEW d \in Devices, NEW t \in Threads[d]
    PROVE  /\ SentOK(d, <<0, 0>>) /\ SentOK(d, <<cur[d], cur[Other(d)]>>)
           /\ SentOK(d, sent[d][t])
<1>1. /\ cur[d] \in Nat /\ cur[d] <= MaxChanges[d] /\ MaxChanges[d] \in Nat
      /\ cur[Other(d)] \in Nat /\ cur[Other(d)] <= MaxChanges[Other(d)]
      /\ MaxChanges[Other(d)] \in Nat
  BY TwoDevices, RoundsAssumption DEF TypeOK
<1>2. <<d, t>> \in Sessions
  BY RoundsAssumption DEF Sessions
<1>3. SentOK(d, sent[d][t])
  <2>1. /\ sent[<<d, t>>[1]][<<d, t>>[2]][1] <= cur[<<d, t>>[1]]
        /\ sent[<<d, t>>[1]][<<d, t>>[2]][2] <= cur[Other(<<d, t>>[1])]
    BY <1>2 DEF TypeOK
  <2>2. sent[d][t] \in (0..MaxChanges[d]) \X (0..MaxChanges[Other(d)])
    BY DEF TypeOK
  <2>. QED  BY <2>1, <2>2 DEF SentOK
<1>. QED  BY <1>1, <1>3 DEF SentOK

LEMMA Backoffs ==
    ASSUME TypeOK
    PROVE  /\ fails \in [Devices -> 0..MaxBackoff] /\ wait \in [Devices -> 0..MaxBackoff]
           /\ \A d \in Devices : wait[d] > 0 => fails[d] > 0
           /\ MaxBackoff \in Nat
BY RoundsAssumption DEF TypeOK

LEMMA TypeStep == TypeOK /\ [Next]_vars => TypeOK'
<1> SUFFICES ASSUME TypeOK, [Next]_vars PROVE TypeOK'
  OBVIOUS
<1> USE DEF roundVars, stateVars, dataVars, envVars
<1>1. ASSUME NEW d \in Devices, NEW t \in Threads[d], Check(d, t) \/ Claim(d, t) PROVE TypeOK'
  <2>1. {"claim", "sync"} \subseteq Places
    BY DEF Places
  <2>2. PerThread(pc', Places)
    BY <1>1, <2>1, GotoType, AfterRoundType DEF Check, Claim
  <2>3. again' \in [Devices -> BOOLEAN]
    BY <1>1, AgainType DEF Check, Claim, TypeOK
  <2>4. slot' \in [Devices -> BOOLEAN] /\ owed' \subseteq Devices
    BY <1>1 DEF Check, Claim, TypeOK
  <2>. QED  BY <1>1, <2>2, <2>3, <2>4, RoundTypes DEF Check, Claim, TypeOK
<1>2. ASSUME NEW d \in Devices, NEW t \in Threads[d], Sync(d, t) PROVE TypeOK'
  <2>1. "" \in Reasons /\ "dial" \in Places
    BY DEF Reasons, Places
  <2>2. PerThread(pc', Places) /\ PerThread(err', Reasons)
    BY <1>2, <2>1, FinishType, GotoType DEF Sync, TypeOK
  <2>3. sem' \in [Devices -> Slots]
    <3>1. Out(d, t) \in Slots
      BY SlotValues
    <3>. QED  BY <1>2, <3>1 DEF Sync, TypeOK
  <2>. QED  BY <1>2, <2>2, <2>3, RoundTypes DEF Sync, TypeOK
<1>3. ASSUME NEW d \in Devices, NEW t \in Threads[d], Dial(d, t) PROVE TypeOK'
  <2>1. "dial" \in Reasons /\ "wait" \in Places
    BY DEF Reasons, Places
  <2>2. PerThread(pc', Places) /\ PerThread(err', Reasons)
    BY <1>3, <2>1, FinishType, GotoType DEF Dial, Leave, TypeOK
  <2>3. sem' \in [Devices -> Slots]
    BY <1>3, FreeSlot DEF Dial, Leave, TypeOK
  <2>4. PerThread(conn', {"none", "open", "gone"})
    <3>1. PerThread([conn EXCEPT ![d][t] = "open"], {"none", "open", "gone"})
      BY SetThread DEF TypeOK
    <3>. QED  BY <1>3, <3>1 DEF Dial, TypeOK
  <2>5. PerPeerThread(srv', {"none", "wait", "held"})
    <3>1. PerPeerThread([srv EXCEPT ![Other(d)][t] = "wait"], {"none", "wait", "held"})
      BY SetPeerThread DEF TypeOK
    <3>. QED  BY <1>3, <3>1 DEF Dial, TypeOK
  <2>. QED  BY <1>3, <2>2, <2>3, <2>4, <2>5, RoundTypes DEF Dial, TypeOK
<1>4. ASSUME NEW d \in Devices, NEW t \in Threads[d],
             Acquire(d, t) \/ Decline(d, t) \/ SrvEnd(d, t)
      PROVE  TypeOK'
  <2>1. PerPeerThread(srv', {"none", "wait", "held"})
    <3>1. \A x \in {"none", "held"} :
            PerPeerThread([srv EXCEPT ![Other(d)][t] = x], {"none", "wait", "held"})
      BY SetPeerThread DEF TypeOK
    <3>. QED  BY <1>4, <3>1 DEF Acquire, Decline, SrvEnd
  <2>2. sem' \in [Devices -> Slots]
    <3>1. In(d, t) \in Slots
      BY SlotValues
    <3>. QED  BY <1>4, <3>1, FreeSlot DEF Acquire, Decline, SrvEnd, TypeOK
  <2>3. PerThread(conn', {"none", "open", "gone"})
    <3>1. CASE Acquire(d, t)
      BY <3>1 DEF Acquire, TypeOK
    <3>2. CASE Decline(d, t)
      <4>1. \A x \in {"none", "gone"} : PerThread([conn EXCEPT ![d][t] = x], {"none", "open", "gone"})
        BY SetThread DEF TypeOK
      <4>. QED  BY <3>2, <4>1 DEF Decline
    <3>3. CASE SrvEnd(d, t)
      <4>1. conn[d][t] \in {"none", "open", "gone"}
        BY DEF TypeOK, PerThread
      <4>. QED  BY <3>3, <4>1, SetThread DEF SrvEnd, TypeOK, PerThread
    <3>. QED  BY <1>4, <3>1, <3>2, <3>3
  <2>. QED  BY <1>4, <2>1, <2>2, <2>3, RoundTypes DEF Acquire, Decline, SrvEnd, TypeOK
<1>5. ASSUME NEW d \in Devices, NEW t \in Threads[d], BeginData(d, t) PROVE TypeOK'
  <2>1. PerThread(pc', Places)
    BY <1>5, GotoType DEF BeginData, Places
  <2>2. SentOK(d, <<cur[d], cur[Other(d)]>>)
    BY SentValues
  <2>. QED  BY <1>5, <2>1, <2>2, SentType DEF BeginData, TypeOK
<1>6. ASSUME NEW d \in Devices, NEW t \in Threads[d], EndData(d, t) \/ Broken(d, t) PROVE TypeOK'
  <2>1. PerThread(pc', Places) /\ PerThread(err', Reasons)
    BY <1>6, FinishType DEF EndData, Broken, Leave, Reasons
  <2>2. SentOK(d, <<0, 0>>) /\ SentOK(d, sent[d][t])
    BY SentValues
  <2>3. \A x \in {"none", "gone"} : PerThread([conn EXCEPT ![d][t] = x], {"none", "open", "gone"})
    BY SetThread DEF TypeOK
  <2>4. sem' \in [Devices -> Slots]
    BY <1>6, FreeSlot DEF EndData, Broken, Leave, TypeOK
  <2>5. CASE EndData(d, t)
    <3>1. sent[d][t][1] \in Nat /\ sent[d][t][2] \in Nat
      BY <2>2 DEF SentOK
    <3>2. seen' \in [Devices -> Nat]
      BY <2>5, <3>1 DEF EndData, TypeOK
    <3>3. ASSUME NEW e \in Devices PROVE seen'[e] <= cur[Other(e)]
      BY <2>5, <2>2, TwoDevices DEF EndData, SentOK, TypeOK
    <3>. QED  BY <2>1, <2>2, <2>3, <2>4, <2>5, <3>2, <3>3, SentType DEF EndData
  <2>6. CASE Broken(d, t)
    BY <2>1, <2>2, <2>3, <2>4, <2>6, SentType DEF Broken, TypeOK
  <2>. QED  BY <1>6, <2>5, <2>6
<1>7. ASSUME NEW d \in Devices, NEW t \in Threads[d], End(d, t) PROVE TypeOK'
  <2>1. PerThread(pc', Places)
    BY <1>7, GotoType DEF End, Places
  <2>. QED  BY <1>7, <2>1, RoundTypes DEF End, TypeOK
<1>8. ASSUME NEW d \in Devices, NEW t \in Threads[d], Failed(d, t) PROVE TypeOK'
  <2>1. PerThread(pc', Places) /\ again' \in [Devices -> BOOLEAN]
    BY <1>8, GotoType, AfterRoundType, AgainType DEF Failed
  <2>2. "" \in Reasons
    BY DEF Reasons
  <2>11. err[d][t] \in Reasons
    BY DEF TypeOK, PerThread
  <2>3. PerThread(err', Reasons)
    <3>1. PerThread([err EXCEPT ![d][t] = ""], Reasons)
      BY <2>2, SetThread DEF TypeOK
    <3>. QED  BY <1>8, <3>1 DEF Failed
  <2>4. Counted(fails[d]) \in 1..MaxBackoff
    BY RoundsAssumption DEF Counted, TypeOK
  <2>12. /\ fails' = [fails EXCEPT ![d] = Counted(fails[d])]
         /\ wait' = [wait EXCEPT ![d] = Delay(fails'[d])]
    BY <1>8 DEF Failed
  <2>5. fails' \in [Devices -> 0..MaxBackoff] /\ fails'[d] = Counted(fails[d])
    BY <2>4, <2>12, Backoffs
  <2>6. Delay(fails'[d]) \in 1..MaxBackoff
    <3>1. fails'[d] \in Nat
      BY <2>4, <2>5
    <3>. QED  BY <3>1, DelayType
  <2>7. wait' \in [Devices -> 0..MaxBackoff]
    BY <2>6, <2>12, Backoffs
  <2>8. \A e \in Devices : wait'[e] > 0 => fails'[e] > 0
    BY <2>4, <2>5, <2>12, <2>6, Backoffs
  <2>9. lastErr' \in [Devices -> Reasons]
    BY <1>8, <2>11 DEF Failed, TypeOK
  <2>10. alert' \in [Devices -> BOOLEAN]
    <3>1. alert[d] \in BOOLEAN
      BY DEF TypeOK
    <3>2. (alert[d] \/ fails[d] = 0 \/ err[d][t] # lastErr[d]) \in BOOLEAN
      OBVIOUS
    <3>. QED  BY <1>8, <3>2 DEF Failed, TypeOK
  <2>. QED
    BY <1>8, <2>1, <2>3, <2>5, <2>7, <2>8, <2>9, <2>10 DEF Failed, TypeOK
<1>9. ASSUME NEW d \in Devices, NEW t \in Threads[d], Succeeded(d, t) PROVE TypeOK'
  <2>1. PerThread(pc', Places)
    BY <1>9, GotoType DEF Succeeded, Places
  <2>5. fails' = [fails EXCEPT ![d] = 0] /\ wait' = [wait EXCEPT ![d] = 0]
    BY <1>9 DEF Succeeded
  <2>2. fails' \in [Devices -> 0..MaxBackoff] /\ wait' \in [Devices -> 0..MaxBackoff]
    BY <2>5, Backoffs
  <2>3. \A e \in Devices : wait'[e] > 0 => fails'[e] > 0
    BY <2>5, Backoffs
  <2>4. lastErr' \in [Devices -> Reasons]
    BY <1>9 DEF Succeeded, TypeOK, Reasons
  <2>. QED  BY <1>9, <2>1, <2>2, <2>3, <2>4 DEF Succeeded, TypeOK
<1>10. ASSUME NEW d \in Devices, NEW t \in Threads[d], Recover(d, t) PROVE TypeOK'
  <2>1. PerThread(pc', Places) /\ again' \in [Devices -> BOOLEAN]
    BY <1>10, GotoType, AfterRoundType, AgainType DEF Recover
  <2>2. alert' \in [Devices -> BOOLEAN]
    BY <1>10 DEF Recover, TypeOK
  <2>. QED  BY <1>10, <2>1, <2>2 DEF Recover, TypeOK
<1>11. ASSUME NEW d \in Devices, TickRound(d) \/ ManualRound(d) PROVE TypeOK'
  <2>1. PerThread(pc', Places)
    BY <1>11, GotoType DEF TickRound, ManualRound, Places
  <2>. QED  BY <1>11, <2>1, RoundTypes DEF TickRound, ManualRound, TypeOK
<1>12. ASSUME NEW d \in Devices, Change(d) PROVE TypeOK'
  <2>1. PerThread(pc', Places)
    BY <1>12, GotoType DEF Change, Places, TypeOK
  <2>2. again' \in [Devices -> BOOLEAN] /\ owed' \subseteq Devices
    BY <1>12 DEF Change, TypeOK
  <2>3. cur' = [cur EXCEPT ![d] = @ + 1] /\ cur[d] < MaxChanges[d] /\ seen' = seen /\ sent' = sent
    BY <1>12 DEF Change
  <2>4. cur' \in [Devices -> Nat] /\ \A e \in Devices : cur'[e] <= MaxChanges[e] /\ cur[e] <= cur'[e]
    <3>1. cur \in [Devices -> Nat] /\ (\A e \in Devices : cur[e] <= MaxChanges[e])
      BY DEF TypeOK
    <3>2. MaxChanges \in [Devices -> Nat]
      BY RoundsAssumption
    <3>. QED  BY <2>3, <3>1, <3>2
  <2>5. \A e \in Devices : seen[e] <= cur'[Other(e)]
    BY <2>4, TwoDevices DEF TypeOK
  <2>6. ASSUME NEW s \in Sessions
        PROVE  sent[s[1]][s[2]][1] <= cur'[s[1]] /\ sent[s[1]][s[2]][2] <= cur'[Other(s[1])]
    <3>1. s[1] \in Devices /\ s[2] \in Threads[s[1]] /\ Other(s[1]) \in Devices
      BY TwoDevices DEF Sessions
    <3>2. SentOK(s[1], sent[s[1]][s[2]])
      BY <3>1, SentValues
    <3>3. sent[s[1]][s[2]][1] \in Nat /\ sent[s[1]][s[2]][2] \in Nat
      BY <3>2 DEF SentOK
    <3>. QED  BY <2>4, <3>1, <3>2, <3>3 DEF SentOK, TypeOK
  <2>. QED  BY <1>12, <2>1, <2>2, <2>3, <2>4, <2>5, <2>6 DEF Change, TypeOK
<1>13. ASSUME Tick PROVE TypeOK'
  <2>1. wait' \in [Devices -> 0..MaxBackoff] /\ \A e \in Devices : wait'[e] > 0 => fails[e] > 0
    BY <1>13, RoundsAssumption DEF Tick, TypeOK
  <2>. QED  BY <1>13, <2>1 DEF Tick, TypeOK
<1>14. ASSUME NetDown PROVE TypeOK'
  <2>1. PerThread(conn', {"none", "open", "gone"})
    BY <1>14 DEF NetDown, PerThread, TypeOK
  <2>2. faults' \in 0..MaxFaults
    <3>1. faults \in 0..MaxFaults /\ MaxFaults \in Nat
      BY RoundsAssumption DEF TypeOK
    <3>2. faults < MaxFaults /\ faults' = faults + 1
      BY <1>14 DEF NetDown
    <3>. QED  BY <3>1, <3>2
  <2>3. up' \in BOOLEAN
    BY <1>14 DEF NetDown
  <2>. QED  BY <1>14, <2>1, <2>2, <2>3 DEF NetDown, TypeOK
<1>15. ASSUME NEW d \in Devices, NetUp \/ PauseTransfers(d) \/ ResumeTransfers(d) PROVE TypeOK'
  <2>1. faults' \in 0..MaxFaults
    BY <1>15, RoundsAssumption DEF NetUp, PauseTransfers, ResumeTransfers, TypeOK
  <2>2. up' \in BOOLEAN
    BY <1>15 DEF NetUp, PauseTransfers, ResumeTransfers, TypeOK
  <2>3. paused' \subseteq Devices
    BY <1>15 DEF NetUp, PauseTransfers, ResumeTransfers, TypeOK
  <2>. QED  BY <1>15, <2>1, <2>2, <2>3 DEF NetUp, PauseTransfers, ResumeTransfers, TypeOK
<1>16. CASE UNCHANGED vars
  BY <1>16 DEF vars, TypeOK
<1>17. 1 \in Devices
  BY DEF Devices
<1>. QED
  BY <1>1, <1>2, <1>3, <1>4, <1>5, <1>6, <1>7, <1>8, <1>9, <1>10, <1>11, <1>12, <1>13, <1>14,
     <1>15, <1>16, <1>17 DEF Next, ThreadStep, ServeStep

\* Every variable keeps its type, for any threads and any number of changes and
\* faults.
THEOREM TypeCorrect == Spec => []TypeOK
BY InitType, TypeStep, PTL DEF Spec

----------------------------------------------------------------------------
(* The session slots.                                                      *)

\* Where the threads are after one of them moved.
LEMMA Moved ==
    ASSUME TypeOK, NEW d \in Devices, NEW t \in Threads[d], NEW x, Goto(d, t, x)
    PROVE  \A e \in Devices : \A u \in Threads[e] :
              pc'[e][u] = IF e = d /\ u = t THEN x ELSE pc[e][u]
BY DEF TypeOK, PerThread, Goto

LEMMA ConnShape ==
    ASSUME TypeOK
    PROVE  DOMAIN conn = Devices /\ \A e \in Devices : DOMAIN conn[e] = Threads[e]
BY DEF TypeOK, PerThread

LEMMA SrvShape ==
    ASSUME TypeOK
    PROVE  DOMAIN srv = Devices /\ \A e \in Devices : DOMAIN srv[e] = Threads[Other(e)]
BY DEF TypeOK, PerPeerThread

LEMMA FinishMoved ==
    ASSUME TypeOK, NEW d \in Devices, NEW t \in Threads[d], NEW r, Finish(d, t, r)
    PROVE  /\ pc'[d][t] \in {"idle", "end"}
           /\ \A e \in Devices : \A u \in Threads[e] : e # d \/ u # t => pc'[e][u] = pc[e][u]
BY Moved DEF Finish

\* Outside the rounds nothing touches slots, sessions and connections.
LEMMA Quiet ==
    ASSUME SlotsRight,
           \A d \in Devices : \A t \in Threads[d] :
              /\ pc'[d][t] \in InRound <=> pc[d][t] \in InRound
              /\ pc'[d][t] = "data" => pc[d][t] = "data",
           UNCHANGED <<sem, srv, conn>>
    PROVE  SlotsRight'
BY DEF SlotsRight, DialSlot, ServeSlot, SessionConnected, DataServed

\* A thread moves from one place outside the rounds to another.
LEMMA QuietMove ==
    ASSUME TypeOK, SlotsRight, NEW d \in Devices, NEW t \in Threads[d], NEW x,
           Goto(d, t, x), x \notin InRound, pc[d][t] \notin InRound,
           UNCHANGED <<sem, srv, conn>>
    PROVE  SlotsRight'
<1>1. \A e \in Devices : \A u \in Threads[e] :
         /\ pc'[e][u] \in InRound <=> pc[e][u] \in InRound
         /\ pc'[e][u] = "data" => pc[e][u] = "data"
  BY Moved DEF InRound
<1>. QED  BY <1>1, Quiet

LEMMA SyncSlots ==
    ASSUME TypeOK, SlotsRight, NEW d \in Devices, NEW t \in Threads[d], Sync(d, t)
    PROVE  SlotsRight'
<1>1. pc[d][t] = "sync"
  BY DEF Sync, At
<1>2. CASE d \in paused \/ sem[d] # Free
  <2>1. Finish(d, t, "") /\ UNCHANGED <<sem, srv, conn>>
    BY <1>2 DEF Sync
  <2>. QED  BY <1>1, <2>1, QuietMove DEF Finish, InRound
<1>3. CASE ~(d \in paused \/ sem[d] # Free)
  <2>1. /\ sem[d] = Free /\ sem' = [sem EXCEPT ![d] = Out(d, t)]
        /\ UNCHANGED <<srv, conn>> /\ Goto(d, t, "dial")
    BY <1>3 DEF Sync
  <2>2. \A e \in Devices : \A u \in Threads[e] :
           pc'[e][u] = IF e = d /\ u = t THEN "dial" ELSE pc[e][u]
    BY <2>1, Moved
  <2>3. \A e \in Devices : sem'[e] = IF e = d THEN Out(d, t) ELSE sem[e]
    BY <2>1 DEF TypeOK
  <2>4. DialSlot'
    BY <1>1, <2>1, <2>2, <2>3, SlotValues DEF SlotsRight, DialSlot, InRound
  <2>5. ServeSlot'
    BY <2>1, <2>3, SlotValues, TwoDevices DEF SlotsRight, ServeSlot
  <2>6. SessionConnected'
    BY <2>1 DEF SlotsRight, SessionConnected
  <2>7. DataServed'
    BY <2>1, <2>2 DEF SlotsRight, DataServed
  <2>. QED  BY <2>4, <2>5, <2>6, <2>7 DEF SlotsRight
<1>. QED  BY <1>2, <1>3

\* A thread that leaves its round frees the slot it had.
LEMMA LeaveSlots ==
    ASSUME TypeOK, SlotsRight, NEW d \in Devices, NEW t \in Threads[d], NEW r,
           pc[d][t] \in InRound, Leave(d, t, r)
    PROVE  DialSlot' /\ (srv' = srv => ServeSlot') /\ pc'[d][t] # "data"
<1>1. /\ pc'[d][t] \in {"idle", "end"}
      /\ \A e \in Devices : \A u \in Threads[e] : e # d \/ u # t => pc'[e][u] = pc[e][u]
  BY FinishMoved DEF Leave
<1>2. \A e \in Devices : sem'[e] = IF e = d THEN Free ELSE sem[e]
  BY DEF Leave, TypeOK
<1>3. sem[d] = Out(d, t)
  BY DEF SlotsRight, DialSlot
<1>4. DialSlot'
  BY <1>1, <1>2, <1>3, SlotValues DEF SlotsRight, DialSlot, InRound
<1>5. srv' = srv => ServeSlot'
  BY <1>2, <1>3, SlotValues, TwoDevices DEF SlotsRight, ServeSlot
<1>. QED  BY <1>1, <1>4, <1>5

LEMMA DialSlots ==
    ASSUME TypeOK, SlotsRight, NEW d \in Devices, NEW t \in Threads[d], Dial(d, t)
    PROVE  SlotsRight'
<1>1. pc[d][t] = "dial"
  BY DEF Dial, At
<1>2. CASE ~up /\ Leave(d, t, "dial") /\ UNCHANGED <<srv, conn>>
  <2>1. DialSlot' /\ ServeSlot' /\ pc'[d][t] # "data"
    BY <1>1, <1>2, LeaveSlots DEF InRound
  <2>2. \A e \in Devices : \A u \in Threads[e] : pc'[e][u] = "data" => pc[e][u] = "data"
    BY <1>2, <2>1, FinishMoved DEF Leave
  <2>. QED  BY <1>2, <2>1, <2>2 DEF SlotsRight, SessionConnected, DataServed
<1>3. CASE up /\ conn[d][t] = "none" /\ conn' = [conn EXCEPT ![d][t] = "open"]
           /\ srv' = [srv EXCEPT ![Other(d)][t] = "wait"]
           /\ Goto(d, t, "wait") /\ UNCHANGED <<err, sem>>
  <2>1. \A e \in Devices : \A u \in Threads[e] :
           pc'[e][u] = IF e = d /\ u = t THEN "wait" ELSE pc[e][u]
    BY <1>3, Moved
  <2>2. \A e \in Devices : \A u \in Threads[e] :
           /\ conn'[e][u] = IF e = d /\ u = t THEN "open" ELSE conn[e][u]
    BY <1>3, ConnShape
  <2>3. \A e \in Devices : \A u \in Threads[e] :
           srv'[Other(e)][u] = IF e = d /\ u = t THEN "wait" ELSE srv[Other(e)][u]
    BY <1>3, SrvShape, TwoDevices
  <2>4. srv[Other(d)][t] = "none"
    BY <1>3 DEF SlotsRight, SessionConnected
  <2>5. DialSlot'
    BY <1>1, <1>3, <2>1 DEF SlotsRight, DialSlot, InRound
  <2>6. ServeSlot'
    BY <1>3, <2>3, <2>4 DEF SlotsRight, ServeSlot
  <2>7. SessionConnected' /\ DataServed'
    BY <2>1, <2>2, <2>3 DEF SlotsRight, SessionConnected, DataServed
  <2>. QED  BY <2>5, <2>6, <2>7 DEF SlotsRight
<1>. QED  BY <1>2, <1>3 DEF Dial

LEMMA DataSlots ==
    ASSUME TypeOK, SlotsRight, NEW d \in Devices, NEW t \in Threads[d],
           BeginData(d, t) \/ EndData(d, t) \/ Broken(d, t)
    PROVE  SlotsRight'
<1>1. CASE BeginData(d, t)
  <2>1. \A e \in Devices : \A u \in Threads[e] :
           pc'[e][u] = IF e = d /\ u = t THEN "data" ELSE pc[e][u]
    BY <1>1, Moved DEF BeginData
  <2>2. /\ pc[d][t] = "wait" /\ srv[Other(d)][t] = "held" /\ UNCHANGED <<sem, srv, conn>>
    BY <1>1 DEF BeginData, At
  <2>. QED
    BY <2>1, <2>2 DEF SlotsRight, DialSlot, ServeSlot, SessionConnected, DataServed, InRound
<1>2. CASE EndData(d, t) \/ Broken(d, t)
  <2>1. PICK r : Leave(d, t, r)
    BY <1>2 DEF EndData, Broken
  <2>2. pc[d][t] \in InRound /\ srv' = srv
    BY <1>2 DEF EndData, Broken, InRound, At
  <2>3. DialSlot' /\ ServeSlot' /\ pc'[d][t] # "data"
    BY <2>1, <2>2, LeaveSlots
  <2>4. PICK c \in {"none", "gone"} : conn' = [conn EXCEPT ![d][t] = c]
                                       /\ (c = "none" => srv[Other(d)][t] = "none")
    BY <1>2 DEF EndData, Broken
  <2>5. \A e \in Devices : \A u \in Threads[e] :
           conn'[e][u] = IF e = d /\ u = t THEN c ELSE conn[e][u]
    BY <2>4, ConnShape
  <2>6. \A e \in Devices : \A u \in Threads[e] : pc'[e][u] = "data" => pc[e][u] = "data"
    BY <2>1, <2>3, FinishMoved DEF Leave
  <2>7. SessionConnected' /\ DataServed'
    BY <2>2, <2>4, <2>5, <2>6 DEF SlotsRight, SessionConnected, DataServed
  <2>. QED  BY <2>3, <2>7 DEF SlotsRight
<1>. QED  BY <1>1, <1>2

LEMMA ServeSlots ==
    ASSUME TypeOK, SlotsRight, NEW d \in Devices, NEW t \in Threads[d], ServeStep(d, t)
    PROVE  SlotsRight'
<1>1. pc' = pc
  BY DEF ServeStep, Acquire, Decline, SrvEnd
<1>2. Other(d) \in Devices /\ Other(d) # d /\ \A e \in Devices : Other(e) = Other(d) => e = d
  BY DEF Devices, Other
<1>3. CASE Acquire(d, t)
  <2>1. /\ sem[Other(d)] = Free /\ srv[Other(d)][t] = "wait" /\ conn' = conn
        /\ sem' = [sem EXCEPT ![Other(d)] = In(d, t)]
        /\ srv' = [srv EXCEPT ![Other(d)][t] = "held"]
    BY <1>3 DEF Acquire
  <2>2. \A e \in Devices : \A u \in Threads[e] :
           srv'[Other(e)][u] = IF e = d /\ u = t THEN "held" ELSE srv[Other(e)][u]
    BY <2>1, SrvShape, TwoDevices
  <2>3. \A e \in Devices : sem'[e] = IF e = Other(d) THEN In(d, t) ELSE sem[e]
    BY <1>2, <2>1 DEF TypeOK
  <2>4. DialSlot'
    BY <1>1, <1>2, <2>1, <2>3, SlotValues DEF SlotsRight, DialSlot
  <2>5. ServeSlot'
    BY <1>2, <2>1, <2>2, <2>3, SlotValues, TwoDevices DEF SlotsRight, ServeSlot
  <2>6. SessionConnected' /\ DataServed'
    BY <1>1, <2>1, <2>2 DEF SlotsRight, SessionConnected, DataServed
  <2>. QED  BY <2>4, <2>5, <2>6 DEF SlotsRight
<1>4. CASE Decline(d, t)
  <2> DEFINE c == IF Attached(d, t) THEN "gone" ELSE "none"
  <2>1. /\ srv[Other(d)][t] = "wait" /\ sem' = sem
        /\ srv' = [srv EXCEPT ![Other(d)][t] = "none"]
        /\ conn' = [conn EXCEPT ![d][t] = c]
    BY <1>4 DEF Decline
  <2>2. \A e \in Devices : \A u \in Threads[e] :
           srv'[Other(e)][u] = IF e = d /\ u = t THEN "none" ELSE srv[Other(e)][u]
    BY <2>1, SrvShape, TwoDevices
  <2>3. \A e \in Devices : \A u \in Threads[e] :
           conn'[e][u] = IF e = d /\ u = t THEN c ELSE conn[e][u]
    BY <2>1, ConnShape
  <2>4. DialSlot'
    BY <1>1, <2>1 DEF SlotsRight, DialSlot
  <2>5. ServeSlot'
    BY <2>1, <2>2 DEF SlotsRight, ServeSlot
  <2>6. SessionConnected' /\ DataServed'
    BY <1>1, <2>2, <2>3 DEF SlotsRight, SessionConnected, DataServed
  <2>. QED  BY <2>4, <2>5, <2>6 DEF SlotsRight
<1>5. CASE SrvEnd(d, t)
  <2> DEFINE c == IF Attached(d, t) THEN conn[d][t] ELSE "none"
  <2>1. /\ srv[Other(d)][t] = "held" /\ conn[d][t] = "gone"
        /\ sem' = [sem EXCEPT ![Other(d)] = Free]
        /\ srv' = [srv EXCEPT ![Other(d)][t] = "none"]
        /\ conn' = [conn EXCEPT ![d][t] = c]
    BY <1>5 DEF SrvEnd
  <2>2. \A e \in Devices : \A u \in Threads[e] :
           srv'[Other(e)][u] = IF e = d /\ u = t THEN "none" ELSE srv[Other(e)][u]
    BY <2>1, SrvShape, TwoDevices
  <2>3. \A e \in Devices : \A u \in Threads[e] :
           conn'[e][u] = IF e = d /\ u = t THEN c ELSE conn[e][u]
    BY <2>1, ConnShape
  <2>4. \A e \in Devices : sem'[e] = IF e = Other(d) THEN Free ELSE sem[e]
    BY <1>2, <2>1 DEF TypeOK
  <2>5. sem[Other(d)] = In(d, t)
    BY <2>1 DEF SlotsRight, ServeSlot
  <2>6. DialSlot'
    BY <1>1, <2>4, <2>5, SlotValues DEF SlotsRight, DialSlot
  <2>7. ServeSlot'
    BY <1>2, <2>2, <2>4, <2>5, SlotValues, TwoDevices DEF SlotsRight, ServeSlot
  <2>8. SessionConnected' /\ DataServed'
    BY <1>1, <2>1, <2>2, <2>3 DEF SlotsRight, SessionConnected, DataServed
  <2>. QED  BY <2>6, <2>7, <2>8 DEF SlotsRight
<1>. QED  BY <1>3, <1>4, <1>5 DEF ServeStep

LEMMA NetDownSlots ==
    ASSUME TypeOK, SlotsRight, NetDown
    PROVE  SlotsRight'
<1>1. \A d \in Devices : \A t \in Threads[d] :
         conn'[d][t] = IF conn[d][t] = "open" THEN "gone" ELSE conn[d][t]
  BY DEF NetDown
<1>. QED
  BY <1>1 DEF NetDown, SlotsRight, DialSlot, ServeSlot, SessionConnected, DataServed

----------------------------------------------------------------------------
(* The kicks.                                                              *)

\* What neither starts a kicked round nor forgets that a kick came keeps them.
LEMMA KickSteady ==
    ASSUME KickKept, owed' \subseteq owed, again' = again,
           \A e \in Devices : "kick" \in Threads[e] /\ pc[e]["kick"] = "check"
                                  => pc'[e]["kick"] = "check",
           owed \subseteq Devices
    PROVE  KickKept'
BY DEF KickKept, At

\* The kicker goes round again when a kick came during its round.
LEMMA KickAfterRound ==
    ASSUME TypeOK, KickKept, NEW d \in Devices, NEW t \in Threads[d],
           Goto(d, t, AfterRound(d, t)), again' = AgainAfter(d, t),
           pc[d][t] # "check", owed' = owed
    PROVE  KickKept'
<1>1. \A e \in Devices : \A u \in Threads[e] :
         pc'[e][u] = IF e = d /\ u = t THEN AfterRound(d, t) ELSE pc[e][u]
  BY Moved
<1>2. owed \subseteq Devices
  BY DEF TypeOK
<1>3. CASE t # "kick"
  BY <1>1, <1>2, <1>3, KickSteady DEF AgainAfter
<1>4. CASE t = "kick"
  <2>1. ASSUME NEW e \in owed
        PROVE  "kick" \in Threads[e] /\ (pc'[e]["kick"] = "check" \/ again'[e])
    <3>1. e \in Devices /\ "kick" \in Threads[e] /\ (pc[e]["kick"] = "check" \/ again[e])
      BY <1>2, <2>1 DEF KickKept, At
    <3>2. CASE e = d
      <4>1. again[d]
        BY <1>4, <3>1, <3>2
      <4>2. pc'[d][t] = "check"
        BY <1>1, <1>4, <4>1 DEF AfterRound
      <4>. QED  BY <1>4, <3>1, <3>2, <4>2
    <3>3. CASE e # d
      <4>1. pc'[e]["kick"] = pc[e]["kick"]
        BY <1>1, <3>1, <3>3
      <4>2. again'[e] = again[e]
        BY <1>4, <3>1, <3>3 DEF AgainAfter, TypeOK
      <4>. QED  BY <3>1, <4>1, <4>2
    <3>. QED  BY <3>2, <3>3
  <2>. QED  BY <2>1 DEF KickKept, At
<1>. QED  BY <1>3, <1>4

LEMMA CheckKick ==
    ASSUME TypeOK, KickKept, NEW d \in Devices, NEW t \in Threads[d], Check(d, t)
    PROVE  KickKept'
<1>1. PICK x : Goto(d, t, x)
  BY DEF Check
<1>2. \A e \in Devices : \A u \in Threads[e] :
         pc'[e][u] = IF e = d /\ u = t THEN x ELSE pc[e][u]
  BY <1>1, Moved
<1>3. owed \subseteq Devices
  BY DEF TypeOK
<1>4. CASE t # "kick"
  <2>1. owed' = owed /\ again' = again
    BY <1>4 DEF Check, AgainAfter
  <2>. QED  BY <1>2, <1>3, <1>4, <2>1, KickSteady
<1>5. CASE t = "kick"
  <2>1. owed' = owed \ {d}
    BY <1>5 DEF Check
  <2>2. \A e \in Devices \ {d} : again'[e] = again[e]
    BY <1>5 DEF Check, AgainAfter, TypeOK
  <2>3. ASSUME NEW e \in owed \ {d}
        PROVE  "kick" \in Threads[e] /\ (pc'[e]["kick"] = "check" \/ again'[e])
    <3>1. e \in Devices \ {d} /\ "kick" \in Threads[e] /\ (pc[e]["kick"] = "check" \/ again[e])
      BY <1>3, <2>3 DEF KickKept, At
    <3>2. pc'[e]["kick"] = pc[e]["kick"]
      BY <1>2, <3>1
    <3>3. again'[e] = again[e]
      BY <2>2, <3>1
    <3>. QED  BY <3>1, <3>2, <3>3
  <2>. QED  BY <2>1, <2>3 DEF KickKept, At
<1>. QED  BY <1>4, <1>5

LEMMA ChangeKick ==
    ASSUME TypeOK, KickKept, NEW d \in Devices, Change(d)
    PROVE  KickKept'
<1>1. owed \subseteq Devices
  BY DEF TypeOK
<1>2. CASE "kick" \notin Threads[d]
  <2>1. UNCHANGED <<pc, again, owed>>
    BY <1>2 DEF Change
  <2>. QED  BY <2>1 DEF KickKept, At
<1>3. CASE "kick" \in Threads[d] /\ At(d, "kick", "idle")
  <2>1. Goto(d, "kick", "check") /\ again' = again /\ owed' = owed \cup {d}
    BY <1>3 DEF Change
  <2>2. \A e \in Devices : \A u \in Threads[e] :
           pc'[e][u] = IF e = d /\ u = "kick" THEN "check" ELSE pc[e][u]
    BY <1>3, <2>1, Moved
  <2>3. \A e \in owed \cup {d} : "kick" \in Threads[e] /\ (pc'[e]["kick"] = "check" \/ again[e])
    BY <1>1, <1>3, <2>2 DEF KickKept, At
  <2>. QED  BY <2>1, <2>3 DEF KickKept, At
<1>4. CASE "kick" \in Threads[d] /\ ~At(d, "kick", "idle")
  <2>1. again' = [again EXCEPT ![d] = TRUE] /\ pc' = pc /\ owed' = owed \cup {d}
    BY <1>4 DEF Change
  <2>2. again'[d] /\ \A e \in Devices \ {d} : again'[e] = again[e]
    BY <2>1 DEF TypeOK
  <2>3. ASSUME NEW e \in owed \cup {d}
        PROVE  "kick" \in Threads[e] /\ (pc[e]["kick"] = "check" \/ again'[e])
    <3>1. CASE e = d
      BY <1>4, <2>2, <3>1
    <3>2. CASE e # d
      <4>1. e \in Devices \ {d} /\ "kick" \in Threads[e] /\ (pc[e]["kick"] = "check" \/ again[e])
        BY <1>1, <2>3, <3>2 DEF KickKept, At
      <4>2. again'[e] = again[e]
        BY <2>2, <4>1
      <4>. QED  BY <4>1, <4>2
    <3>. QED  BY <3>1, <3>2
  <2>. QED  BY <2>1, <2>3 DEF KickKept, At
<1>. QED  BY <1>2, <1>3, <1>4

\* Every other step moves threads that are past the check.
LEMMA OtherKick ==
    ASSUME TypeOK, KickKept, NEW d \in Devices, NEW t \in Threads[d], NEW x, Goto(d, t, x),
           pc[d][t] # "check", again' = again, owed' = owed
    PROVE  KickKept'
<1>1. \A e \in Devices : \A u \in Threads[e] :
         pc'[e][u] = IF e = d /\ u = t THEN x ELSE pc[e][u]
  BY Moved
<1>. QED  BY <1>1, KickSteady DEF TypeOK

LEMMA StillKick ==
    ASSUME KickKept, UNCHANGED <<pc, again, owed>>
    PROVE  KickKept'
BY DEF KickKept, At

----------------------------------------------------------------------------
(* The invariant.                                                          *)

LEMMA InitInv == Init => IInv
<1> SUFFICES ASSUME Init PROVE IInv
  OBVIOUS
<1>1. \A d \in Devices : \A t \in Threads[d] :
         pc[d][t] = "idle" /\ conn[d][t] = "none" /\ srv[Other(d)][t] = "none"
  BY TwoDevices DEF Init, ThreadMap, PeerThreadMap
<1>2. \A d \in Devices : sem[d] = Free /\ sem[Other(d)] = Free
  BY TwoDevices DEF Init
<1>3. SlotsRight
  BY <1>1, <1>2, SlotValues
     DEF SlotsRight, DialSlot, ServeSlot, SessionConnected, DataServed, InRound
<1>4. KickKept
  BY DEF Init, KickKept
<1>. QED  BY <1>3, <1>4, InitType DEF IInv

LEMMA SlotsStep == TypeOK /\ SlotsRight /\ [Next]_vars => SlotsRight'
<1> SUFFICES ASSUME TypeOK, SlotsRight, [Next]_vars PROVE SlotsRight'
  OBVIOUS
<1> USE DEF roundVars, stateVars, dataVars, envVars
<1>1. ASSUME NEW d \in Devices, NEW t \in Threads[d], ThreadStep(d, t) PROVE SlotsRight'
  <2>1. CASE Check(d, t) \/ Claim(d, t) \/ End(d, t) \/ Failed(d, t) \/ Succeeded(d, t)
               \/ Recover(d, t)
    <3>3. \E x \in {"claim", "sync", "ok", "bad", "recover", AfterRound(d, t)} : Goto(d, t, x)
      BY <2>1 DEF Check, Claim, End, Failed, Succeeded, Recover
    <3>1. PICK x : Goto(d, t, x) /\ x \notin InRound
      BY <3>3 DEF AfterRound, InRound
    <3>2. pc[d][t] \notin InRound /\ UNCHANGED <<sem, srv, conn>>
      BY <2>1 DEF Check, Claim, End, Failed, Succeeded, Recover, InRound, At
    <3>. QED  BY <3>1, <3>2, QuietMove
  <2>2. CASE Sync(d, t)
    BY <2>2, SyncSlots
  <2>3. CASE Dial(d, t)
    BY <2>3, DialSlots
  <2>4. CASE BeginData(d, t) \/ EndData(d, t) \/ Broken(d, t)
    BY <2>4, DataSlots
  <2>. QED  BY <1>1, <2>1, <2>2, <2>3, <2>4 DEF ThreadStep
<1>2. ASSUME NEW d \in Devices, NEW t \in Threads[d], ServeStep(d, t) PROVE SlotsRight'
  BY <1>2, ServeSlots
<1>3. ASSUME NEW d \in Devices, TickRound(d) \/ ManualRound(d) \/ Change(d) PROVE SlotsRight'
  <2>1. UNCHANGED <<sem, srv, conn>>
    BY <1>3 DEF TickRound, ManualRound, Change
  <2>2. CASE pc' = pc
    BY <2>1, <2>2, Quiet
  <2>3. CASE pc' # pc
    <3>1. PICK t \in Threads[d], x \in {"check", "sync"} : At(d, t, "idle") /\ Goto(d, t, x)
      BY <1>3, <2>3 DEF TickRound, ManualRound, Change
    <3>. QED  BY <2>1, <3>1, QuietMove DEF InRound, At
  <2>. QED  BY <2>2, <2>3
<1>4. CASE NetDown
  BY <1>4, NetDownSlots
<1>5. ASSUME NEW d \in Devices,
             Tick \/ NetUp \/ PauseTransfers(d) \/ ResumeTransfers(d) \/ UNCHANGED vars
      PROVE  SlotsRight'
  <2>1. UNCHANGED <<pc, sem, srv, conn>>
    BY <1>5 DEF Tick, NetUp, PauseTransfers, ResumeTransfers, vars
  <2>. QED  BY <2>1, Quiet
<1>6. 1 \in Devices
  BY DEF Devices
<1>. QED  BY <1>1, <1>2, <1>3, <1>4, <1>5, <1>6 DEF Next

LEMMA KickStep == TypeOK /\ KickKept /\ [Next]_vars => KickKept'
<1> SUFFICES ASSUME TypeOK, KickKept, [Next]_vars PROVE KickKept'
  OBVIOUS
<1> USE DEF roundVars, stateVars, dataVars, envVars
<1>1. ASSUME NEW d \in Devices, NEW t \in Threads[d], ThreadStep(d, t) PROVE KickKept'
  <2>1. CASE Check(d, t)
    BY <2>1, CheckKick
  <2>2. CASE Claim(d, t)
    <3>1. pc[d][t] # "check" /\ owed' = owed
      BY <2>2 DEF Claim, At
    <3>2. CASE slot[d]
      BY <2>2, <3>1, <3>2, KickAfterRound DEF Claim
    <3>3. CASE ~slot[d]
      BY <2>2, <3>1, <3>3, OtherKick DEF Claim
    <3>. QED  BY <3>2, <3>3
  <2>3. CASE Failed(d, t) \/ Recover(d, t)
    BY <2>3, KickAfterRound DEF Failed, Recover, At
  <2>4. CASE Sync(d, t) \/ Dial(d, t) \/ BeginData(d, t) \/ EndData(d, t) \/ Broken(d, t)
               \/ End(d, t) \/ Succeeded(d, t)
    <3>1. pc[d][t] # "check" /\ again' = again /\ owed' = owed
      BY <2>4 DEF Sync, Dial, BeginData, EndData, Broken, End, Succeeded, At
    <3>2. PICK x : Goto(d, t, x)
      BY <2>4 DEF Sync, Dial, BeginData, EndData, Broken, End, Succeeded, Finish, Leave
    <3>. QED  BY <3>1, <3>2, OtherKick
  <2>. QED  BY <1>1, <2>1, <2>2, <2>3, <2>4 DEF ThreadStep
<1>2. ASSUME NEW d \in Devices, TickRound(d) \/ ManualRound(d) PROVE KickKept'
  <2>1. PICK t \in Threads[d], x \in {"check", "sync"} : At(d, t, "idle") /\ Goto(d, t, x)
    BY <1>2 DEF TickRound, ManualRound
  <2>. QED  BY <1>2, <2>1, OtherKick DEF TickRound, ManualRound, At
<1>3. ASSUME NEW d \in Devices, Change(d) PROVE KickKept'
  BY <1>3, ChangeKick
<1>4. ASSUME NEW d \in Devices, NEW t \in Threads[d], ServeStep(d, t) PROVE KickKept'
  BY <1>4, StillKick DEF ServeStep, Acquire, Decline, SrvEnd
<1>5. ASSUME NEW d \in Devices,
             Tick \/ NetDown \/ NetUp \/ PauseTransfers(d) \/ ResumeTransfers(d) \/ UNCHANGED vars
      PROVE  KickKept'
  BY <1>5, StillKick DEF Tick, NetDown, NetUp, PauseTransfers, ResumeTransfers, vars
<1>6. 1 \in Devices
  BY DEF Devices
<1>. QED  BY <1>1, <1>2, <1>3, <1>4, <1>5, <1>6 DEF Next

LEMMA Inductive == Spec => []IInv
<1>1. IInv /\ [Next]_vars => IInv'
  BY TypeStep, SlotsStep, KickStep DEF IInv
<1>. QED  BY <1>1, InitInv, PTL DEF Spec

----------------------------------------------------------------------------
(* What the invariant gives.                                               *)

LEMMA AtMostOne ==
    ASSUME NEW S, \A x, y \in S : x = y
    PROVE  Cardinality(S) <= 1
<1>1. CASE S = {}
  BY <1>1, FS_EmptySet
<1>2. CASE S # {}
  <2>1. PICK x \in S : S = {x}
    BY <1>2
  <2>. QED  BY <2>1, FS_Singleton
<1>. QED  BY <1>1, <1>2

\* Whatever the two devices and their threads do at the same moment, however
\* connections break and whoever gives up waiting: data moves in at most one
\* round of the pair, and no device runs two rounds (SyncWithPeer, Serve).
THEOREM OneRoundAtATime == Spec => []OneRoundPerPair
<1>1. IInv => OneRoundPerPair
  <2> SUFFICES ASSUME IInv PROVE OneRoundPerPair
    OBVIOUS
  <2> DEFINE moving == {s \in Sessions : At(s[1], s[2], "data") /\ conn[s[1]][s[2]] = "open"}
  <2>1. ASSUME NEW r \in moving, NEW s \in moving PROVE r = s
    <3>1. /\ r[1] \in Devices /\ r[2] \in Threads[r[1]] /\ r = <<r[1], r[2]>>
          /\ s[1] \in Devices /\ s[2] \in Threads[s[1]] /\ s = <<s[1], s[2]>>
      BY DEF Sessions
    <3>2. sem[r[1]] = Out(r[1], r[2]) /\ sem[s[1]] = Out(s[1], s[2])
      BY <3>1 DEF IInv, SlotsRight, DialSlot, InRound, At
    <3>3. sem[Other(r[1])] = In(r[1], r[2])
      BY <3>1 DEF IInv, SlotsRight, ServeSlot, DataServed, At
    <3>4. r[1] = s[1]
      BY <3>1, <3>2, <3>3, SlotValues, TwoDevices
    <3>5. r[2] = s[2]
      BY <3>1, <3>2, <3>4, SlotValues
    <3>. QED  BY <3>1, <3>4, <3>5
  <2>2. Cardinality(moving) <= 1
    <3> HIDE DEF moving
    <3>. QED  BY <2>1, AtMostOne
  <2>3. ASSUME NEW d \in Devices
        PROVE  Cardinality({t \in Threads[d] : pc[d][t] \in {"dial", "wait", "data"}}) <= 1
    <3> DEFINE busy == {t \in Threads[d] : pc[d][t] \in {"dial", "wait", "data"}}
    <3>1. ASSUME NEW t \in busy, NEW u \in busy PROVE t = u
      <4>1. sem[d] = Out(d, t) /\ sem[d] = Out(d, u)
        BY DEF IInv, SlotsRight, DialSlot, InRound
      <4>. QED  BY <4>1, SlotValues
    <3> HIDE DEF busy
    <3>2. Cardinality(busy) <= 1
      BY <3>1, AtMostOne
    <3>. QED  BY <3>2 DEF busy
  <2>. QED  BY <2>2, <2>3 DEF OneRoundPerPair
<1>. QED  BY <1>1, Inductive, PTL

\* A change that kicks a round is never forgotten: until a kicked round has
\* begun after it, the kicker's goroutine is about to begin one or will go
\* round again, whatever its present round meets.
THEOREM KicksAreKept == Spec => []NoLostKick
<1>1. IInv => NoLostKick
  BY DEF IInv, KickKept, NoLostKick
<1>. QED  BY <1>1, Inductive, PTL

=============================================================================
