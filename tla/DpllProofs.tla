----------------------------- MODULE DpllProofs -----------------------------
(***************************************************************************)
(* Proofs about Dpll, for either source and interface to the hardware, any *)
(* lock statuses and any bound on the holdovers and channels.              *)
(***************************************************************************)
EXTENDS Dpll, TLAPS

USE DpllAssumption DEF Source, Api

-----------------------------------------------------------------------------
(* Where the goroutines are.                                               *)

LEMMA HomeType ==
  ASSUME NEW t
  PROVE  Home(t) \in {"join", "loop", "idle", "free"}
BY Zenon DEF Home

LEMMA HomePc ==
  ASSUME NEW t PROVE Home(t) \in PcLabels
BY HomeType DEF PcLabels

LEMMA HomeOfCallers ==
  /\ Home("monitor") = IF Api = "netlink" THEN "join" ELSE "loop"
  /\ Home("ntf") = "loop"
<1>1. "ntf" # "monitor"
  OBVIOUS
<1>2. "ntf" # "notify" /\ "monitor" # "notify"
  OBVIOUS
<1> QED
  BY <1>1, <1>2, Zenon DEF Home

LEMMA NewStateValues ==
  ASSUME NEW a
  PROVE  /\ NewState(a) \in {LOCKED, FREERUN, state}
         /\ a # "keep" => NewState(a) \in {LOCKED, FREERUN}
<1>1. "keep" \notin {"locked", "relock", "ppsLocked"}
  OBVIOUS
<1> QED
  BY <1>1, Zenon DEF NewState

-----------------------------------------------------------------------------
(* Type correctness.  closed holds real channels because a holdover that   *)
(* is on has a channel.                                                    *)

HoldoverHasChannel == onHoldover => holdoverCloseCh \in Chans

LEMMA InitialType == Init => TypeOK /\ HoldoverHasChannel
<1> SUFFICES ASSUME Init PROVE TypeOK /\ HoldoverHasChannel
  OBVIOUS
<1>1. \A t \in Threads : (CASE t \in {"monitor", "ntf"} -> "off"
                            [] t = "notify" -> "idle"
                            [] OTHER -> "free") \in {"off", "idle", "free"}
  BY Zenon
<1>2. pc \in [Threads -> {"off", "idle", "free"}]
  BY <1>1, Zenon DEF Init
<1>3. pc \in [Threads -> PcLabels]
  BY <1>2 DEF PcLabels
<1> QED
  BY <1>3 DEF Init, TypeOK, Statuses, Offsets, Arms, HoldoverHasChannel

(* The evaluation of the switch writes these variables only.               *)
LEMMA DecideType ==
  ASSUME UNCHANGED setup, TypeOK, NEW t \in Threads, Decide(t)
  PROVE  /\ TypeOK'
         /\ arm' = [arm EXCEPT ![t] = arm'[t]]
         /\ pc' = [pc EXCEPT ![t] = pc'[t]]
         /\ pc'[t] \in {"publish", "close", Home(t)}
         /\ pc'[t] = "close" => arm'[t] \in {"freerun", "locked"}
<1> DEFINE Goal ==
      /\ arm' \in [Threads -> Arms]
      /\ chan' \in [Threads -> Chans \cup {NoChan}]
      /\ arm' = [arm EXCEPT ![t] = arm'[t]]
      /\ pc' = [pc EXCEPT ![t] = pc'[t]]
      /\ pc'[t] \in {"publish", "close", Home(t)}
      /\ pc'[t] = "close" => arm'[t] \in {"freerun", "locked"}
<1>1. ASSUME NEW a \in Arms, Take(t, a) PROVE Goal
  BY <1>1 DEF Take, Goto, TypeOK
<1>2. ASSUME NEW a \in {"freerun", "locked"}, CloseAndTake(t, a) PROVE Goal
  <2>1. a \in Arms
    BY DEF Arms
  <2>2. CASE Source = GNSS /\ onHoldover
    BY <1>2, <2>1, <2>2 DEF CloseAndTake, Goto, TypeOK
  <2>3. CASE ~(Source = GNSS /\ onHoldover)
    BY <1>1, <1>2, <2>1, <2>3 DEF CloseAndTake
  <2> QED
    BY <2>2, <2>3
<1>3. ASSUME Goto(t, Home(t)), UNCHANGED <<arm, chan>> PROVE Goal
  BY <1>3, HomeType DEF Goto, TypeOK
<1> HIDE DEF Goal
<1>4. Goal
  <2>1. CASE DecideUnlocked(t)
    BY <1>2, <2>1 DEF DecideUnlocked
  <2>2. CASE DecideLocked(t)
    BY <1>1, <1>2, <2>2 DEF DecideLocked, Arms
  <2>3. CASE DecideHoldoverPps(t)
    BY <1>1, <2>3 DEF DecideHoldoverPps, Arms
  <2>4. CASE DecideHoldoverGnss(t)
    BY <1>1, <1>3, <2>4 DEF DecideHoldoverGnss, Arms
  <2> QED
    BY <2>1, <2>2, <2>3, <2>4 DEF Decide
<1>5. inSpec' \in BOOLEAN /\ sourceLost' \in BOOLEAN
  BY DEF Decide, DecideUnlocked, DecideLocked, DecideHoldoverPps,
         DecideHoldoverGnss, TypeOK
<1>6. pc' \in [Threads -> PcLabels]
  BY <1>4, HomePc DEF Goal, TypeOK, PcLabels
<1> QED
  BY <1>4, <1>5, <1>6 DEF Goal, Decide, TypeOK

(* A branch that is carried out moves one holdover at most.                *)
LEMMA TryClosePc ==
  ASSUME TypeOK, NEW t \in Threads, NEW try \in BOOLEAN, TryClose(t, try)
  PROVE  \/ /\ try
            /\ \E h \in Slots :
                 /\ pc[h] = "loop"
                 /\ pc' = [pc EXCEPT ![h] = "closed", ![t] = Home(t)]
         \/ pc' = [pc EXCEPT ![t] = "panic"]
         \/ pc' = [pc EXCEPT ![t] = Home(t)]
BY DEF TryClose, Goto

LEMMA PublishType ==
  ASSUME UNCHANGED setup, TypeOK, NEW t \in Threads, Publish(t)
  PROVE  TypeOK'
<1>1. pc' \in [Threads -> PcLabels]
  <2> DEFINE try == arm[t] = "outOfSpec" \/ (arm[t] = "relock" /\ onHoldover)
  <2>1. try \in BOOLEAN /\ TryClose(t, try)
    BY DEF Publish
  <2> HIDE DEF try
  <2>2. \/ \E h \in Slots : pc' = [pc EXCEPT ![h] = "closed", ![t] = Home(t)]
        \/ pc' = [pc EXCEPT ![t] = "panic"]
        \/ pc' = [pc EXCEPT ![t] = Home(t)]
    BY <2>1, TryClosePc
  <2> QED
    BY <2>2, HomePc DEF TypeOK, PcLabels, Threads
<1>2. state' \in {FREERUN, HOLDOVER, LOCKED}
  BY NewStateValues DEF Publish, TypeOK
<1>3. reported' \in {FREERUN, HOLDOVER, LOCKED, NOTSET}
  BY <1>2 DEF Publish, Report, TypeOK
<1>4. phaseOffset' \in Offsets /\ inSpec' \in BOOLEAN /\ sourceLost' \in BOOLEAN
  BY DEF Publish, NewOffset, NewInSpec, TypeOK, Offsets
<1>5. arm' \in [Threads -> Arms]
  BY DEF Publish, TypeOK, Arms
<1> QED
  BY <1>1, <1>2, <1>3, <1>4, <1>5 DEF Publish, TypeOK

LEMMA EnterHoldoverType ==
  ASSUME UNCHANGED setup, TypeOK, NEW t \in Threads, EnterHoldover(t)
  PROVE  /\ TypeOK'
         /\ HoldoverHasChannel'
         /\ FreeSlot(t) \in Slots
<1>1. NewChan \in Chans
  BY DEF EnterHoldover, NewChan, Fresh
<1>2. FreeSlot(t) \in Slots
  BY DEF EnterHoldover, FreeSlot, Unused
<1>3. pc' \in [Threads -> PcLabels]
  BY <1>2, HomePc DEF EnterHoldover, TypeOK, PcLabels, Threads
<1> QED
  BY <1>1, <1>2, <1>3 DEF EnterHoldover, TypeOK, HoldoverHasChannel, Arms

LEMMA HoldoverType ==
  ASSUME UNCHANGED setup, TypeOK, HoldoverHasChannel, NEW h \in Slots, Holdover(h)
  PROVE  TypeOK' /\ HoldoverHasChannel'
<1>0. h \in Threads
  BY DEF Threads
<1>1. CASE HoldoverStart(h)
  BY <1>0, <1>1 DEF HoldoverStart, TypeOK, HoldoverHasChannel, Report, Goto,
     PcLabels, dpllVars
<1>2. CASE HoldoverTick(h)
  <2>1. pc' \in [Threads -> PcLabels]
    BY <1>0, <1>2 DEF HoldoverTick, TypeOK, Goto, PcLabels
  <2>2. chan' \in [Threads -> Chans \cup {NoChan}]
    BY <1>0, <1>2 DEF HoldoverTick, TypeOK
  <2>3. /\ state' \in {FREERUN, HOLDOVER, LOCKED}
        /\ reported' \in {FREERUN, HOLDOVER, LOCKED, NOTSET}
        /\ inSpec' \in BOOLEAN
    BY <1>2 DEF HoldoverTick, TypeOK, Report
  <2> QED
    BY <1>2, <2>1, <2>2, <2>3 DEF HoldoverTick, TypeOK, HoldoverHasChannel
<1>3. CASE HoldoverTimeout(h)
  BY <1>0, <1>3 DEF HoldoverTimeout, TypeOK, HoldoverHasChannel, Report, Goto,
     PcLabels, Offsets
<1>4. CASE HoldoverSeesClose(h)
  BY <1>0, <1>4 DEF HoldoverSeesClose, TypeOK, HoldoverHasChannel, Goto, PcLabels,
     dpllVars
<1>5. CASE HoldoverClosed(h)
  BY <1>0, <1>5 DEF HoldoverClosed, TypeOK, HoldoverHasChannel, Goto, PcLabels
<1>6. CASE HoldoverDefer(h)
  BY <1>0, <1>6 DEF HoldoverDefer, TypeOK, HoldoverHasChannel, Goto, PcLabels
<1> QED
  BY <1>1, <1>2, <1>3, <1>4, <1>5, <1>6 DEF Holdover

LEMMA MonitorType ==
  ASSUME UNCHANGED setup, TypeOK, HoldoverHasChannel,
         Monitor \/ NtfReceive \/ NtfReceiveError \/ CmdStop
  PROVE  TypeOK' /\ HoldoverHasChannel'
<1>0. "monitor" \in Threads /\ "ntf" \in Threads
  BY DEF Threads, Callers
<1>1. CASE MonitorDpll
  <2>1. pc' \in [Threads -> PcLabels] /\ inSpec' \in BOOLEAN
    BY <1>0, <1>1 DEF MonitorDpll, TypeOK, Goto, PcLabels
  <2> QED
    BY <1>1, <2>1 DEF MonitorDpll, TypeOK, HoldoverHasChannel
<1>2. CASE SysfsTick
  BY <1>0, <1>2 DEF SysfsTick, TypeOK, HoldoverHasChannel, Goto, PcLabels
<1>3. CASE NetlinkDial
  <2>1. phaseStatus' \in Statuses /\ frequencyStatus' \in Statuses
    BY <1>3 DEF NetlinkDial, TypeOK, DeviceStatus
  <2>2. pc' \in [Threads -> PcLabels]
    BY <1>0, <1>3 DEF NetlinkDial, TypeOK, Goto, PcLabels
  <2> QED
    BY <1>3, <2>1, <2>2 DEF NetlinkDial, TypeOK, HoldoverHasChannel
<1>4. CASE NetlinkJoin
  BY <1>0, <1>4 DEF NetlinkJoin, TypeOK, HoldoverHasChannel, Goto, PcLabels, dpllVars
<1>5. CASE NetlinkRedial
  BY <1>0, <1>5 DEF NetlinkRedial, TypeOK, HoldoverHasChannel, PcLabels, dpllVars
<1>6. CASE SendTermination
  BY <1>0, <1>6 DEF SendTermination, TypeOK, HoldoverHasChannel, Goto, PcLabels,
     dpllVars
<1>7. CASE UnRegisterAllSubscriber
  BY <1>0, <1>7 DEF UnRegisterAllSubscriber, TypeOK, HoldoverHasChannel, Goto,
     PcLabels, dpllVars
<1>8. CASE CancelHoldover
  <2>1. closed' \subseteq Chans /\ (onHoldover' => onHoldover)
    BY <1>8 DEF CancelHoldover, TypeOK, HoldoverHasChannel
  <2> QED
    BY <1>0, <1>8, <2>1 DEF CancelHoldover, TypeOK, HoldoverHasChannel, Goto, PcLabels
<1>9. CASE NtfReceive
  BY <1>0, <1>9 DEF NtfReceive, TypeOK, HoldoverHasChannel, Goto, PcLabels
<1>10. CASE NtfReceiveError
  BY <1>0, <1>10 DEF NtfReceiveError, TypeOK, HoldoverHasChannel, Goto, PcLabels,
     dpllVars
<1>11. CASE CmdStop
  BY <1>11 DEF CmdStop, TypeOK, HoldoverHasChannel, dpllVars
<1> QED
  BY <1>1, <1>2, <1>3, <1>4, <1>5, <1>6, <1>7, <1>8, <1>9, <1>10, <1>11
  DEF Monitor

LEMMA TypeStep ==
  ASSUME TypeOK, HoldoverHasChannel, [Next]_allVars
  PROVE  TypeOK' /\ HoldoverHasChannel'
<1>0. UNCHANGED setup
  BY DEF Next, allVars
<1>1. ASSUME NEW t \in Threads, StateDecision(t)
      PROVE  TypeOK' /\ HoldoverHasChannel'
  <2>1. CASE Decide(t)
    BY <1>0, <2>1, DecideType DEF Decide, HoldoverHasChannel
  <2>2. CASE Publish(t)
    BY <1>0, <2>2, PublishType DEF Publish, HoldoverHasChannel
  <2>3. CASE EnterHoldover(t)
    BY <1>0, <2>3, EnterHoldoverType
  <2>4. CASE SendPanics(t)
    BY <1>0, <2>4 DEF SendPanics, TypeOK, HoldoverHasChannel, Goto, PcLabels, dpllVars
  <2> QED
    BY <1>1, <2>1, <2>2, <2>3, <2>4 DEF StateDecision
<1>2. ASSUME NEW h \in Slots, Holdover(h) PROVE TypeOK' /\ HoldoverHasChannel'
  BY <1>0, <1>2, HoldoverType
<1>3. ASSUME NEW t \in Threads, NEW h \in Slots, Rendezvous(t, h)
      PROVE  TypeOK' /\ HoldoverHasChannel'
  BY <1>0, <1>3 DEF Rendezvous, TypeOK, HoldoverHasChannel, PcLabels, dpllVars, Threads
<1>4. ASSUME NEW s \in {FREERUN, LOCKED}, Notify(s)
      PROVE  TypeOK' /\ HoldoverHasChannel'
  BY <1>0, <1>4 DEF Notify, TypeOK, HoldoverHasChannel, Goto, PcLabels, Threads, Callers
<1>5. CASE Monitor \/ NtfReceive \/ NtfReceiveError \/ CmdStop
  BY <1>0, <1>5, MonitorType
<1>6. CASE UNCHANGED allVars
  BY <1>6 DEF allVars, vars, TypeOK, HoldoverHasChannel
<1> QED
  BY <1>1, <1>2, <1>3, <1>4, <1>5, <1>6 DEF Next, Step

(* The fields, the channels and the goroutines of a DPLL keep their types, *)
(* however many holdovers are alive and however the unlocked calls of      *)
(* stateDecision interleave; in particular only a channel that was made is *)
(* ever closed.                                                            *)
THEOREM TypeCorrect == Spec => []TypeOK
<1> DEFINE Inv == TypeOK /\ HoldoverHasChannel
<1>1. Init => Inv
  BY InitialType
<1>2. Inv /\ [Next]_allVars => Inv'
  BY TypeStep
<1> QED
  BY <1>1, <1>2, PTL DEF Spec

-----------------------------------------------------------------------------
(* A holdover is attended.  A goroutine blocked in a send on               *)
(* holdoverCloseCh has chosen a branch that leaves HOLDOVER, so that when  *)
(* it takes the holdover's goroutine away it is the next to attend.  And   *)
(* the monitor starts the notification reader only when there is none,     *)
(* otherwise it would take a decision that is being carried out away.      *)

ClosersLeave == \A t \in Threads : pc[t] = "close" => arm[t] \in {"freerun", "locked"}

OneNtf ==
  /\ Api = "sysfs" => pc["ntf"] = "off" /\ pc["monitor"] \notin {"dial", "join"}
  /\ pc["monitor"] \notin {"loop", "unregister", "cancel", "done", "panic"}
       => pc["ntf"] = "off"

DpllInv ==
  /\ TypeOK
  /\ HoldoverHasChannel
  /\ ClosersLeave
  /\ OneNtf
  /\ HoldoverAttended

LEMMA ThreadNames ==
  /\ "monitor" \in Threads /\ "ntf" \in Threads /\ "notify" \in Threads
  /\ "monitor" \notin Slots /\ "ntf" \notin Slots /\ "notify" \notin Slots
BY DEF Threads, Callers

(* A step of the others leaves the goroutine t where it is.                *)
LEMMA DecideStep ==
  ASSUME UNCHANGED setup, DpllInv, NEW t \in Threads, Decide(t)
  PROVE  ClosersLeave' /\ OneNtf' /\ HoldoverAttended'
<1>1. /\ TypeOK /\ pc[t] = "decide"
      /\ pc' = [pc EXCEPT ![t] = pc'[t]]
      /\ arm' = [arm EXCEPT ![t] = arm'[t]]
      /\ pc'[t] \in {"publish", "close", Home(t)}
      /\ pc'[t] = "close" => arm'[t] \in {"freerun", "locked"}
      /\ state' = state /\ closed' = closed
  BY DecideType DEF DpllInv, Decide
<1>2. \A u \in Threads \ {t} : pc'[u] = pc[u] /\ arm'[u] = arm[u]
  BY <1>1 DEF TypeOK
<1>3. ClosersLeave'
  BY <1>1, <1>2 DEF DpllInv, ClosersLeave
<1>4. OneNtf'
  <2>1. CASE t = "monitor"
    BY <1>1, <1>2, <2>1, ThreadNames, HomeOfCallers DEF DpllInv, OneNtf
  <2>2. CASE t = "ntf"
    BY <1>1, <1>2, <2>2, ThreadNames DEF DpllInv, OneNtf
  <2>3. CASE t \notin {"monitor", "ntf"}
    BY <1>2, <2>3, ThreadNames DEF DpllInv, OneNtf
  <2> QED
    BY <2>1, <2>2, <2>3
<1>5. HoldoverAttended'
  BY <1>1, <1>2 DEF DpllInv, HoldoverAttended, Threads
<1> QED
  BY <1>3, <1>4, <1>5

LEMMA PublishStep ==
  ASSUME UNCHANGED setup, DpllInv, NEW t \in Threads, Publish(t)
  PROVE  ClosersLeave' /\ OneNtf' /\ HoldoverAttended'
<1> DEFINE try == arm[t] = "outOfSpec" \/ (arm[t] = "relock" /\ onHoldover)
<1>1. /\ TypeOK /\ pc[t] = "publish" /\ arm[t] # "enter"
      /\ state' = NewState(arm[t]) /\ closed' = closed
      /\ arm' = [arm EXCEPT ![t] = "none"]
  BY DEF DpllInv, Publish
<1>2. \A u \in Threads \ {t} : arm'[u] = arm[u]
  BY <1>1 DEF TypeOK
<1>3. /\ pc'[t] \in {Home(t), "panic"}
      /\ \A u \in Threads \ {t} :
           pc'[u] = pc[u] \/ (try /\ u \in Slots /\ pc[u] = "loop" /\ pc'[u] = "closed")
  <2>1. try \in BOOLEAN /\ TryClose(t, try)
    BY DEF Publish
  <2>2. CASE pc' = [pc EXCEPT ![t] = "panic"] \/ pc' = [pc EXCEPT ![t] = Home(t)]
    BY <1>1, <2>2 DEF TypeOK
  <2>3. ASSUME try, NEW h \in Slots, pc[h] = "loop",
               pc' = [pc EXCEPT ![h] = "closed", ![t] = Home(t)]
        PROVE  /\ pc'[t] \in {Home(t), "panic"}
               /\ \A u \in Threads \ {t} :
                    pc'[u] = pc[u]
                      \/ (try /\ u \in Slots /\ pc[u] = "loop" /\ pc'[u] = "closed")
    BY <1>1, <2>3 DEF TypeOK, Threads
  <2> HIDE DEF try
  <2> QED
    BY <1>1, <2>1, <2>2, <2>3, TryClosePc
<1>4. ClosersLeave'
  BY <1>2, <1>3, HomeType DEF DpllInv, ClosersLeave
<1>5. OneNtf'
  <2>1. CASE t = "monitor"
    BY <1>1, <1>3, <2>1, ThreadNames, HomeOfCallers DEF DpllInv, OneNtf
  <2>2. CASE t = "ntf"
    BY <1>1, <1>3, <2>2, ThreadNames DEF DpllInv, OneNtf
  <2>3. CASE t \notin {"monitor", "ntf"}
    BY <1>3, <2>3, ThreadNames DEF DpllInv, OneNtf
  <2> QED
    BY <2>1, <2>2, <2>3
<1>6. HoldoverAttended'
  <2>1. CASE arm[t] # "keep"
    BY <1>1, <2>1, NewStateValues DEF HoldoverAttended, HOLDOVER, LOCKED, FREERUN
  <2>2. CASE arm[t] = "keep"
    <3>1. ~try /\ arm[t] \notin LeavingArms
      BY <2>2 DEF LeavingArms
    <3>2. state' \in {state, LOCKED, FREERUN}
      BY <1>1, NewStateValues
    <3> QED
      BY <1>1, <1>2, <1>3, <3>1, <3>2
      DEF DpllInv, HoldoverAttended, Threads, HOLDOVER, LOCKED, FREERUN
  <2> QED
    BY <2>1, <2>2
<1> QED
  BY <1>4, <1>5, <1>6

LEMMA EnterHoldoverStep ==
  ASSUME UNCHANGED setup, DpllInv, NEW t \in Threads, EnterHoldover(t)
  PROVE  ClosersLeave' /\ OneNtf' /\ HoldoverAttended'
<1>1. /\ TypeOK /\ pc[t] = "publish" /\ FreeSlot(t) \in Slots
      /\ pc' = [pc EXCEPT ![t] = Home(t), ![FreeSlot(t)] = "start"]
      /\ arm' = [arm EXCEPT ![t] = "none"]
  BY EnterHoldoverType DEF DpllInv, EnterHoldover
<1>2. FreeSlot(t) \in Threads /\ FreeSlot(t) \notin {"monitor", "ntf", "notify"}
  BY <1>1, ThreadNames DEF Threads
<1>3. /\ pc'[FreeSlot(t)] = "start"
      /\ t # FreeSlot(t) => pc'[t] = Home(t)
      /\ \A u \in Threads \ {t, FreeSlot(t)} : pc'[u] = pc[u] /\ arm'[u] = arm[u]
  BY <1>1, <1>2 DEF TypeOK
<1>4. ClosersLeave'
  BY <1>3, HomeType DEF DpllInv, ClosersLeave
<1>5. OneNtf'
  <2>1. CASE t = "monitor"
    BY <1>1, <1>2, <1>3, <2>1, ThreadNames, HomeOfCallers DEF DpllInv, OneNtf
  <2>2. CASE t = "ntf"
    BY <1>1, <1>2, <1>3, <2>2, ThreadNames DEF DpllInv, OneNtf
  <2>3. CASE t \notin {"monitor", "ntf"}
    BY <1>2, <1>3, <2>3, ThreadNames DEF DpllInv, OneNtf
  <2> QED
    BY <2>1, <2>2, <2>3
<1>6. HoldoverAttended'
  BY <1>1, <1>3 DEF HoldoverAttended
<1> QED
  BY <1>4, <1>5, <1>6

(* The goroutine of a holdover.                                            *)
LEMMA HoldoverStep ==
  ASSUME UNCHANGED setup, DpllInv, NEW h \in Slots, Holdover(h)
  PROVE  ClosersLeave' /\ OneNtf' /\ HoldoverAttended'
<1>1. h \in Threads /\ h \notin {"monitor", "ntf", "notify"} /\ TypeOK
  BY ThreadNames DEF Threads, DpllInv
<1>2. /\ arm' = arm
      /\ \A u \in Threads \ {h} : pc'[u] = pc[u]
      /\ pc'[h] \in {"loop", "defer", "closed", "decide"}
  BY <1>1 DEF Holdover, HoldoverStart, HoldoverTick, HoldoverTimeout,
     HoldoverSeesClose, HoldoverClosed, HoldoverDefer, Goto, TypeOK
<1>3. ClosersLeave' /\ OneNtf'
  BY <1>1, <1>2, ThreadNames DEF DpllInv, ClosersLeave, OneNtf
<1>4. \/ pc'[h] = "loop"
      \/ state' = FREERUN
      \/ closed' # {}
      \/ pc[h] \in {"closed", "defer"} /\ state' = state /\ closed' = closed
  BY <1>1 DEF Holdover, HoldoverStart, HoldoverTick, HoldoverTimeout,
     HoldoverSeesClose, HoldoverClosed, HoldoverDefer, Goto, TypeOK, dpllVars
<1>5. HoldoverAttended'
  <2>1. CASE pc'[h] = "loop" \/ state' = FREERUN \/ closed' # {}
    BY <2>1 DEF HoldoverAttended, HOLDOVER, FREERUN
  <2>2. CASE pc[h] \in {"closed", "defer"} /\ state' = state /\ closed' = closed
    <3>1. \A u \in Slots : pc[u] \in {"start", "loop"} => pc'[u] = pc[u]
      BY <1>2, <2>2 DEF Threads
    <3>2. \A u \in Threads : pc[u] = "publish" => pc'[u] = pc[u]
      BY <1>2, <2>2
    <3> QED
      BY <1>2, <2>2, <3>1, <3>2 DEF DpllInv, HoldoverAttended
  <2> QED
    BY <1>4, <2>1, <2>2
<1> QED
  BY <1>3, <1>5

LEMMA RendezvousStep ==
  ASSUME UNCHANGED setup, DpllInv, NEW t \in Threads, NEW h \in Slots, Rendezvous(t, h)
  PROVE  ClosersLeave' /\ OneNtf' /\ HoldoverAttended'
<1>1. /\ h \in Threads /\ h \notin {"monitor", "ntf", "notify"} /\ TypeOK
      /\ h # t /\ pc[t] = "close" /\ pc[h] = "loop"
  BY ThreadNames DEF Threads, DpllInv, Rendezvous
<1>2. /\ arm' = arm
      /\ \A u \in Threads \ {t, h} : pc'[u] = pc[u]
      /\ pc'[t] = "publish" /\ pc'[h] = "closed"
  BY <1>1 DEF Rendezvous, TypeOK
<1>3. ClosersLeave'
  BY <1>2 DEF DpllInv, ClosersLeave
<1>4. OneNtf'
  BY <1>1, <1>2, ThreadNames DEF DpllInv, OneNtf
<1>5. arm'[t] \in LeavingArms
  BY <1>1, <1>2 DEF DpllInv, ClosersLeave, LeavingArms, Arms
<1> QED
  BY <1>2, <1>3, <1>4, <1>5 DEF HoldoverAttended

(* Steps of the callers that only move themselves: none of them carries a  *)
(* decision out, and none is a holdover.                                   *)
LEMMA CallerStep ==
  ASSUME UNCHANGED setup, DpllInv, \/ \E s \in {FREERUN, LOCKED} : Notify(s)
                  \/ Monitor \/ NtfReceive \/ NtfReceiveError \/ CmdStop
  PROVE  ClosersLeave' /\ OneNtf' /\ HoldoverAttended'
<1>1. TypeOK
  BY DEF DpllInv
<1>2. /\ arm' = arm /\ state' = state /\ (closed' = {} => closed = {})
      /\ \A u \in Threads \ Callers : pc'[u] = pc[u]
      /\ \A u \in Threads : pc'[u] = pc[u] \/ (pc[u] # "publish" /\ pc'[u] # "close")
      /\ OneNtf'
  <2> USE <1>1, ThreadNames DEF Goto, TypeOK, Callers, dpllVars
  <2>1. CASE \E s \in {FREERUN, LOCKED} : Notify(s)
    BY <2>1 DEF Notify, NotifierUnlocked, DpllInv, OneNtf
  <2>2. CASE MonitorDpll
    BY <2>2 DEF MonitorDpll, DpllInv, OneNtf
  <2>3. CASE SysfsTick
    BY <2>3 DEF SysfsTick, DpllInv, OneNtf
  <2>4. CASE NetlinkDial
    BY <2>4 DEF NetlinkDial, DpllInv, OneNtf
  <2>5. CASE NetlinkJoin
    BY <2>5 DEF NetlinkJoin, DpllInv, OneNtf
  <2>6. CASE NetlinkRedial
    BY <2>6 DEF NetlinkRedial, DpllInv, OneNtf
  <2>7. CASE SendTermination
    BY <2>7 DEF SendTermination, DpllInv, OneNtf
  <2>8. CASE UnRegisterAllSubscriber
    BY <2>8 DEF UnRegisterAllSubscriber, DpllInv, OneNtf
  <2>9. CASE CancelHoldover
    BY <2>9 DEF CancelHoldover, DpllInv, OneNtf
  <2>10. CASE NtfReceive
    BY <2>10 DEF NtfReceive, DpllInv, OneNtf
  <2>11. CASE NtfReceiveError
    BY <2>11 DEF NtfReceiveError, DpllInv, OneNtf
  <2>12. CASE CmdStop
    BY <2>12 DEF CmdStop, DpllInv, OneNtf
  <2> QED
    BY <2>1, <2>2, <2>3, <2>4, <2>5, <2>6, <2>7, <2>8, <2>9, <2>10, <2>11, <2>12
    DEF Monitor
<1>3. ClosersLeave'
  BY <1>2 DEF DpllInv, ClosersLeave
<1>4. HoldoverAttended'
  <2>1. \A h \in Slots : h \in Threads \ Callers
    BY DEF Threads
  <2> QED
    BY <1>2, <2>1 DEF DpllInv, HoldoverAttended
<1> QED
  BY <1>2, <1>3, <1>4

LEMMA DpllInvStep ==
  ASSUME DpllInv, [Next]_allVars
  PROVE  DpllInv'
<1>1. TypeOK' /\ HoldoverHasChannel'
  BY TypeStep DEF DpllInv
<1>0. UNCHANGED setup
  BY DEF Next, allVars
<1>2. ASSUME NEW t \in Threads, SendPanics(t)
      PROVE  ClosersLeave' /\ OneNtf' /\ HoldoverAttended'
  <2>1. /\ TypeOK /\ pc[t] = "close" /\ pc' = [pc EXCEPT ![t] = "panic"]
        /\ closed' # {} /\ arm' = arm
    BY <1>2 DEF DpllInv, SendPanics, Goto, dpllVars
  <2>2. pc'[t] = "panic" /\ \A u \in Threads \ {t} : pc'[u] = pc[u]
    BY <2>1 DEF TypeOK
  <2> QED
    BY <1>0, <2>1, <2>2, ThreadNames DEF DpllInv, ClosersLeave, OneNtf, HoldoverAttended
<1>3. CASE UNCHANGED allVars
  BY <1>1, <1>3 DEF allVars, vars, DpllInv, ClosersLeave, OneNtf, HoldoverAttended
<1>4. CASE Next
  BY <1>0, <1>1, <1>2, <1>4, DecideStep, PublishStep, EnterHoldoverStep, HoldoverStep,
     RendezvousStep, CallerStep DEF Next, Step, StateDecision, DpllInv
<1> QED
  BY <1>3, <1>4

(* Until the monitor ends, a DPLL in HOLDOVER has a goroutine that will    *)
(* end the holdover, or one that is about to assign another state, for any *)
(* number of holdovers and any interleaving of the unlocked calls of       *)
(* stateDecision: no DPLL is stuck in HOLDOVER because a holdover was      *)
(* closed behind the back of the one that started it.                      *)
THEOREM Attended == Spec => []HoldoverAttended
<1>1. Init => DpllInv
  <2> SUFFICES ASSUME Init PROVE DpllInv
    OBVIOUS
  <2>1. "monitor" \in {"monitor", "ntf"} /\ "ntf" \in {"monitor", "ntf"}
    OBVIOUS
  <2>2. pc["ntf"] = "off" /\ pc["monitor"] = "off"
    <3>1. \A t \in Threads : t \in {"monitor", "ntf"} => pc[t] = "off"
      BY Zenon, ThreadNames DEF Init
    <3> QED
      BY <3>1, ThreadNames
  <2>3. \A t \in Threads : pc[t] # "close"
    BY DEF Init
  <2> QED
    BY <2>2, <2>3, InitialType
    DEF Init, DpllInv, ClosersLeave, OneNtf, HoldoverAttended, FREERUN, HOLDOVER
<1>2. DpllInv /\ [Next]_allVars => DpllInv'
  BY DpllInvStep
<1>3. DpllInv => HoldoverAttended
  BY DEF DpllInv
<1> QED
  BY <1>1, <1>2, <1>3, PTL DEF Spec
=============================================================================
