-------------------------------- MODULE Dpll --------------------------------
(***************************************************************************)
(* One DPLL of the node (pkg/dpll): the goroutines that watch the hardware *)
(* and the GNSS state, decide on the PTP state of the DPLL, and run its    *)
(* holdover.                                                               *)
(*                                                                         *)
(* stateDecision is called, without a lock, by the monitor (the sysfs loop *)
(* or the first netlink dump), by the netlink notification reader (ntf),   *)
(* by the notification of a GNSS change (notify) and by every holdover     *)
(* goroutine when it ends.  It is split where another goroutine can get in *)
(* between: "decide" evaluates its switch, "close" waits for a holdover to *)
(* take a message from holdoverCloseCh, "publish" carries the chosen       *)
(* branch out.                                                             *)
(*                                                                         *)
(* Offsets are abstracted to within or outside the threshold of the        *)
(* grandmaster (FaultyPhaseOffset is outside); the offset a holdover       *)
(* computes from the time it has run is within MaxInSpecOffset or ends it, *)
(* and MaxInSpecOffset is configured independently of the threshold.       *)
(***************************************************************************)
EXTENDS Naturals, PtpState

CONSTANTS
  Setups,          \* the sources and kinds of monitor a DPLL may have
  PhaseStatuses,   \* lock statuses the hardware reports for the phase
  FreqStatuses,    \* and for the frequency, by setup
  Slots,           \* bound on the holdover goroutines alive at once
  Chans,           \* channels made for holdoverCloseCh
  NoChan           \* the nil channel

(* Lock statuses, dpll.go *)
StUnknown  == "unknown"
StInvalid  == "invalid"
StFreerun  == "freerun"
StLocked   == "locked"
StLockedHo == "locked_ho_acq"
StHoldover == "holdover"
Statuses == {StUnknown, StInvalid, StFreerun, StLocked, StLockedHo, StHoldover}

(* A phase offset, compared with GMThreshold of the profile *)
InRange == "in range"
OutOfRange == "out of range"
Offsets == {InRange, OutOfRange}

Callers == {"monitor", "ntf", "notify"}
Threads == Callers \cup Slots

ASSUME DpllAssumption ==
  /\ Setups \subseteq {GNSS, PPS} \X {"sysfs", "netlink"}
  /\ PhaseStatuses \in [Setups -> SUBSET Statuses]
  /\ FreqStatuses \in [Setups -> SUBSET Statuses]
  /\ Slots \cap Callers = {}
  /\ NoChan \notin Chans

VARIABLES
  setup,            \* dependsOn[0] and apiType, fixed when it is made
  known,            \* dependingProcessStateMap.states[GNSS]
  registered,       \* the subscribers are registered with the notifier
  exitCh,           \* CmdStop closed exitCh
  phaseStatus, frequencyStatus, phaseOffset, \* fields of DpllConfig
  inSpec, sourceLost, state, onHoldover,
  holdoverCloseCh,  \* the channel in the field
  closed,           \* channels that were closed
  pc,               \* where a goroutine is
  arm,              \* the branch of stateDecision it has chosen
  chan,             \* the channel it sends on, or a holdover receives from
  reported          \* the state in the last event sent, NOTSET after a Reset

(* dependsOn[0], and the kind of monitor.                                  *)
Source == setup[1]
Api == setup[2]

dpllVars == <<phaseStatus, frequencyStatus, phaseOffset, inSpec, sourceLost,
              state, onHoldover, holdoverCloseCh, closed>>
vars == <<known, registered, exitCh, phaseStatus,
          frequencyStatus, phaseOffset, inSpec, sourceLost, state, onHoldover,
          holdoverCloseCh, closed, pc, arm, chan, reported>>

-----------------------------------------------------------------------------
(* getStateQuality, getWorseState *)
Quality(s) ==
  CASE s = StUnknown  -> 0
    [] s = StInvalid  -> 1
    [] s = StFreerun  -> 2
    [] s = StHoldover -> 3
    [] s = StLocked   -> 4
    [] s = StLockedHo -> 5

GetWorseState(pstate, fstate) ==
  IF Quality(pstate) < Quality(fstate) THEN pstate ELSE fstate

DpllStatus == GetWorseState(phaseStatus, frequencyStatus)

IsOffsetInRange == phaseOffset = InRange

(* Where a goroutine goes on when stateDecision returns.                   *)
Home(t) ==
  CASE t = "monitor" -> IF Api = "netlink" THEN "join" ELSE "loop"
    [] t = "ntf"     -> "loop"
    [] t = "notify"  -> "idle"
    [] OTHER         -> "free"

Goto(t, label) == pc' = [pc EXCEPT ![t] = label]

(* sendDpllEvent: the event is dropped when the event channel is full.     *)
Report(s) == reported' \in {reported, s}

-----------------------------------------------------------------------------
(* stateDecision: the evaluation of its switch.                            *)

Take(t, a) ==
  /\ arm' = [arm EXCEPT ![t] = a]
  /\ Goto(t, "publish")
  /\ UNCHANGED chan

(* holdoverCloseCh <- true, when there is a holdover to be ended.          *)
CloseAndTake(t, a) ==
  IF Source = GNSS /\ onHoldover
  THEN /\ arm' = [arm EXCEPT ![t] = a]
       /\ chan' = [chan EXCEPT ![t] = holdoverCloseCh]
       /\ Goto(t, "close")
  ELSE Take(t, a)

DecideUnlocked(t) ==
  /\ DpllStatus \in {StFreerun, StInvalid, StUnknown}
  /\ inSpec' = FALSE
  /\ sourceLost' = TRUE
  /\ CloseAndTake(t, "freerun")

DecideLocked(t) ==
  /\ DpllStatus = StLocked
  /\ \/ ~sourceLost /\ IsOffsetInRange /\ CloseAndTake(t, "locked")
     \/ (sourceLost \/ ~IsOffsetInRange) /\ Take(t, "off")
  /\ UNCHANGED <<inSpec, sourceLost>>

(* A slip: the offset is not looked at. *)
DecideHoldoverPpsAnyOffset(t) ==
  /\ DpllStatus \in {StLockedHo, StHoldover}
  /\ Source = PPS
  /\ Take(t, IF DpllStatus = StHoldover THEN "ppsLost" ELSE "ppsLocked")
  /\ UNCHANGED <<inSpec, sourceLost>>

DecideHoldoverPps(t) ==
  /\ DpllStatus \in {StLockedHo, StHoldover}
  /\ Source = PPS
  /\ \/ DpllStatus = StHoldover /\ Take(t, "ppsLost")
     \/ DpllStatus = StLockedHo /\ IsOffsetInRange /\ Take(t, "ppsLocked")
     \/ DpllStatus = StLockedHo /\ ~IsOffsetInRange /\ Take(t, "ppsOff")
  /\ UNCHANGED <<inSpec, sourceLost>>

(* The switch has no branch for a source that is there, an offset out of   *)
(* range and a DPLL in spec: the state is kept.                            *)
DecideHoldoverGnss(t) ==
  /\ DpllStatus \in {StLockedHo, StHoldover}
  /\ Source = GNSS
  /\ \/ ~sourceLost /\ IsOffsetInRange /\ Take(t, "relock")
     \/ sourceLost /\ inSpec /\ ~onHoldover /\ Take(t, "enter")
     \/ sourceLost /\ inSpec /\ onHoldover /\ Goto(t, Home(t)) /\ UNCHANGED <<arm, chan>>
     \/ (sourceLost \/ ~IsOffsetInRange) /\ ~inSpec /\ Take(t, "outOfSpec")
     \/ ~sourceLost /\ ~IsOffsetInRange /\ inSpec /\ Take(t, "keep")
  /\ UNCHANGED <<inSpec, sourceLost>>

Decide(t) ==
  /\ pc[t] = "decide"
  /\ \/ DecideUnlocked(t)
     \/ DecideLocked(t)
     \/ DecideHoldoverPps(t)
     \/ DecideHoldoverGnss(t)
  /\ UNCHANGED <<known, registered, exitCh, phaseStatus,
                 frequencyStatus, phaseOffset, state, onHoldover,
                 holdoverCloseCh, closed, reported>>

-----------------------------------------------------------------------------
(* stateDecision: the branches.                                            *)

(* A slip: a default branch that clears the state.                         *)
NewStateCleared(a) ==
  CASE a \in {"locked", "relock", "ppsLocked"} -> LOCKED
    [] a = "keep" -> UNKNOWN
    [] OTHER -> FREERUN

(* What a branch assigns to state, phaseOffset and inSpec.                 *)
NewState(a) ==
  CASE a \in {"locked", "relock", "ppsLocked"} -> LOCKED
    [] a = "keep" -> state
    [] OTHER -> FREERUN

NewOffset(a) ==
  IF a \in {"freerun", "outOfSpec", "ppsLost"} THEN OutOfRange ELSE phaseOffset

NewInSpec(a) == IF a \in {"locked", "off", "relock"} THEN TRUE ELSE inSpec

(* select { case holdoverCloseCh <- true: default: }: the message reaches  *)
(* a holdover that waits in its select, and is dropped when there is none  *)
(* or it is busy with a tick.  A send on a closed channel panics.          *)
TryClose(t, try) ==
  \/ /\ try
     /\ \E h \in Slots :
          /\ pc[h] = "loop"
          /\ chan[h] = holdoverCloseCh
          /\ pc' = [pc EXCEPT ![h] = "closed", ![t] = Home(t)]
  \/ /\ try
     /\ holdoverCloseCh \in closed
     /\ Goto(t, "panic")
  \/ /\ ~(try /\ holdoverCloseCh \in closed)
     /\ Goto(t, Home(t))

(* A slip: only changes of the state are reported.                         *)
PublishChanges(t) ==
  /\ pc[t] = "publish"
  /\ arm[t] # "enter"
  /\ state' = NewState(arm[t])
  /\ phaseOffset' = NewOffset(arm[t])
  /\ inSpec' = NewInSpec(arm[t])
  /\ sourceLost' = (sourceLost /\ Source # PPS)
  /\ TryClose(t, arm[t] = "outOfSpec" \/ (arm[t] = "relock" /\ onHoldover))
  /\ IF state' = state THEN UNCHANGED reported ELSE Report(state')
  /\ arm' = [arm EXCEPT ![t] = "none"]
  /\ UNCHANGED <<known, registered, exitCh, phaseStatus, frequencyStatus,
                 onHoldover, holdoverCloseCh, closed, chan>>

Publish(t) ==
  /\ pc[t] = "publish"
  /\ arm[t] # "enter"
  /\ state' = NewState(arm[t])
  /\ phaseOffset' = NewOffset(arm[t])
  /\ inSpec' = NewInSpec(arm[t])
  /\ sourceLost' = (sourceLost /\ Source # PPS)
  /\ TryClose(t, arm[t] = "outOfSpec" \/ (arm[t] = "relock" /\ onHoldover))
  /\ Report(state')
  /\ arm' = [arm EXCEPT ![t] = "none"]
  /\ UNCHANGED <<known, registered, exitCh, phaseStatus, frequencyStatus,
                 onHoldover, holdoverCloseCh, closed, chan>>

(* make(chan bool): a channel nobody refers to any more stands for a new   *)
(* one.  EnterHoldover blocks when a bound is reached.                     *)
Fresh == {c \in Chans : c # holdoverCloseCh /\ \A t \in Threads : chan[t] # c}
NewChan == CHOOSE c \in Fresh : TRUE

(* The goroutine of a holdover that starts another one ends, so the new    *)
(* one takes its place.                                                    *)
Unused(t) == IF t \in Slots THEN {t} ELSE {h \in Slots : pc[h] = "free"}
FreeSlot(t) == CHOOSE h \in Unused(t) : TRUE

(* The holdover starts; it reports the state itself.                       *)
EnterHoldover(t) ==
  /\ pc[t] = "publish"
  /\ arm[t] = "enter"
  /\ Fresh # {}
  /\ Unused(t) # {}
  /\ holdoverCloseCh' = NewChan
  /\ closed' = closed \ {NewChan}
  /\ pc' = [pc EXCEPT ![t] = Home(t), ![FreeSlot(t)] = "start"]
  /\ onHoldover' = TRUE
  /\ state' = HOLDOVER
  /\ arm' = [arm EXCEPT ![t] = "none"]
  /\ UNCHANGED <<known, registered, exitCh, phaseStatus,
                 frequencyStatus, phaseOffset, inSpec, sourceLost, chan, reported>>

-----------------------------------------------------------------------------
(* The holdover goroutine.                                                 *)

HoldoverStart(h) ==
  /\ pc[h] = "start"
  /\ Report(state)
  /\ chan' = [chan EXCEPT ![h] = holdoverCloseCh]
  /\ Goto(h, "loop")
  /\ UNCHANGED <<known, registered, exitCh, arm>>
  /\ UNCHANGED dpllVars

(* The ticker: the offset has grown with the slope.  Beyond                *)
(* MaxInSpecOffset the holdover is over; otherwise the goroutine waits     *)
(* again, on the channel that is in the field now.                         *)
HoldoverTick(h) ==
  /\ pc[h] = "loop"
  /\ phaseOffset' \in Offsets
  /\ \/ /\ chan' = [chan EXCEPT ![h] = holdoverCloseCh]
        /\ Report(state)
        /\ UNCHANGED <<inSpec, state, pc>>
     \/ /\ inSpec' = FALSE
        /\ state' = FREERUN
        /\ Report(FREERUN)
        /\ Goto(h, "defer")
        /\ UNCHANGED chan
  /\ UNCHANGED <<known, registered, exitCh, phaseStatus,
                 frequencyStatus, sourceLost, onHoldover, holdoverCloseCh,
                 closed, arm>>

(* Slips: the expired holdover does not assign the state; it does not go   *)
(* out of spec either, so that the next decision starts another one.       *)
HoldoverTimeoutKeepsState(h) ==
  /\ pc[h] = "loop"
  /\ inSpec' = FALSE
  /\ phaseOffset' = OutOfRange
  /\ Goto(h, "defer")
  /\ UNCHANGED <<known, registered, exitCh, phaseStatus, frequencyStatus,
                 sourceLost, state, onHoldover, holdoverCloseCh, closed, arm,
                 chan, reported>>

HoldoverTimeoutInSpec(h) ==
  /\ pc[h] = "loop"
  /\ phaseOffset' = OutOfRange
  /\ Goto(h, "defer")
  /\ UNCHANGED <<known, registered, exitCh, phaseStatus, frequencyStatus,
                 inSpec, sourceLost, state, onHoldover, holdoverCloseCh, closed,
                 arm, chan, reported>>

HoldoverTimeout(h) ==
  /\ pc[h] = "loop"
  /\ inSpec' = FALSE
  /\ state' = FREERUN
  /\ phaseOffset' = OutOfRange
  /\ Report(FREERUN)
  /\ Goto(h, "defer")
  /\ UNCHANGED <<known, registered, exitCh, phaseStatus,
                 frequencyStatus, sourceLost, onHoldover, holdoverCloseCh,
                 closed, arm, chan>>

(* A blocked sender and the holdover meet on the channel.                  *)
Rendezvous(t, h) ==
  /\ pc[t] = "close"
  /\ pc[h] = "loop"
  /\ chan[t] = chan[h]
  /\ pc' = [pc EXCEPT ![t] = "publish", ![h] = "closed"]
  /\ chan' = [chan EXCEPT ![t] = NoChan]
  /\ UNCHANGED <<known, registered, exitCh, arm, reported>>
  /\ UNCHANGED dpllVars

(* A blocked sender panics when its channel is closed.                     *)
SendPanics(t) ==
  /\ pc[t] = "close"
  /\ chan[t] \in closed
  /\ Goto(t, "panic")
  /\ UNCHANGED <<known, registered, exitCh, arm, chan, reported>>
  /\ UNCHANGED dpllVars

HoldoverSeesClose(h) ==
  /\ pc[h] = "loop"
  /\ chan[h] \in closed
  /\ Goto(h, "closed")
  /\ UNCHANGED <<known, registered, exitCh, arm, chan, reported>>
  /\ UNCHANGED dpllVars

HoldoverClosed(h) ==
  /\ pc[h] = "closed"
  /\ inSpec' = TRUE
  /\ Goto(h, "defer")
  /\ UNCHANGED <<known, registered, exitCh, phaseStatus,
                 frequencyStatus, phaseOffset, sourceLost, state, onHoldover,
                 holdoverCloseCh, closed, arm, chan, reported>>

(* The deferred function: onHoldover = false, and a last stateDecision.    *)
HoldoverDefer(h) ==
  /\ pc[h] = "defer"
  /\ onHoldover' = FALSE
  /\ Goto(h, "decide")
  /\ chan' = [chan EXCEPT ![h] = NoChan]
  /\ UNCHANGED <<known, registered, exitCh, phaseStatus,
                 frequencyStatus, phaseOffset, inSpec, sourceLost, state,
                 holdoverCloseCh, closed, arm, reported>>

-----------------------------------------------------------------------------
(* The notifier calls the DPLL, under its lock, with a state of GNSS.  The *)
(* goroutines that AddEvent starts to notify overtake each other, so the   *)
(* states come in any order.  A state equal to the last one is ignored.    *)

(* StateNotifier's mutex, which notify holds until the DPLL returns.       *)
NotifierUnlocked == pc["notify"] = "idle"

(* A slip: a source that is lost goes unnoticed. *)
NotifyRestored(s) ==
  /\ NotifierUnlocked
  /\ registered
  /\ Source = GNSS
  /\ pc["monitor"] # "off"
  /\ known # s
  /\ known' = s
  /\ sourceLost' = (sourceLost /\ s # LOCKED)
  /\ Goto("notify", "decide")
  /\ UNCHANGED <<registered, exitCh, phaseStatus, frequencyStatus, phaseOffset,
                 inSpec, state, onHoldover, holdoverCloseCh, closed, arm, chan,
                 reported>>

Notify(s) ==
  /\ NotifierUnlocked
  /\ registered
  /\ Source = GNSS
  /\ pc["monitor"] # "off"
  /\ known # s
  /\ known' = s
  /\ sourceLost' = (s # LOCKED)
  /\ Goto("notify", "decide")
  /\ UNCHANGED <<registered, exitCh, phaseStatus, frequencyStatus, phaseOffset,
                 inSpec, state, onHoldover, holdoverCloseCh, closed, arm, chan,
                 reported>>

-----------------------------------------------------------------------------
(* The monitor: MonitorDpllSysfs or MonitorDpllNetlink.                    *)

(* StateNotifier.monitor finds the subscriber; isMonitoring is set.        *)
MonitorDpll ==
  /\ pc["monitor"] = "off"
  /\ NotifierUnlocked
  /\ IF Api = "sysfs"
     THEN Goto("monitor", "loop") /\ inSpec' = TRUE
     ELSE Goto("monitor", "dial") /\ UNCHANGED inSpec
  /\ UNCHANGED <<known, registered, exitCh, phaseStatus, frequencyStatus,
                 phaseOffset, sourceLost, state, onHoldover, holdoverCloseCh,
                 closed, arm, chan, reported>>

(* One tick of the sysfs loop.  A tick that is ready when exitCh is closed *)
(* may still be chosen, and so may the ticks of a monitor that starts only *)
(* after CmdStop; that CmdStop stops an older ticker is left out.          *)
SysfsTick ==
  /\ Api = "sysfs"
  /\ pc["monitor"] = "loop"
  /\ phaseStatus' \in PhaseStatuses[setup]
  /\ frequencyStatus' \in FreqStatuses[setup]
  /\ phaseOffset' \in Offsets
  /\ Goto("monitor", "decide")
  /\ UNCHANGED <<known, registered, exitCh, inSpec, sourceLost, state,
                 onHoldover, holdoverCloseCh, closed, arm, chan, reported>>

(* nlUpdateState on the devices: an invalid status is discarded.           *)
DeviceStatus(old, reply) == IF reply = StInvalid THEN old ELSE reply

(* Dial, look the multicast group up, dump the devices.  If one of these   *)
(* fails, the notification reader is never started again: the semaphore    *)
(* that would tell of its exit is nil or held by the monitor itself.       *)
NetlinkDial ==
  /\ pc["monitor"] = "dial"
  /\ \/ \E p \in PhaseStatuses[setup], f \in FreqStatuses[setup] :
          /\ phaseStatus' = DeviceStatus(phaseStatus, p)
          /\ frequencyStatus' = DeviceStatus(frequencyStatus, f)
          /\ Goto("monitor", IF p = StInvalid /\ f = StInvalid THEN "join" ELSE "decide")
     \/ /\ Goto("monitor", "loop")
        /\ UNCHANGED <<phaseStatus, frequencyStatus>>
  /\ UNCHANGED <<known, registered, exitCh, phaseOffset, inSpec, sourceLost,
                 state, onHoldover, holdoverCloseCh, closed, arm, chan, reported>>

NetlinkJoin ==
  /\ pc["monitor"] = "join"
  /\ \/ pc' = [pc EXCEPT !["monitor"] = "loop", !["ntf"] = "loop"]
     \/ Goto("monitor", "loop")
  /\ UNCHANGED <<known, registered, exitCh, arm, chan, reported>>
  /\ UNCHANGED dpllVars

(* sem.Acquire succeeds: the notification reader has exited.  The monitor  *)
(* may have been waiting for it when exitCh was closed.                    *)
NetlinkRedial ==
  /\ pc["monitor"] = "loop"
  /\ pc["ntf"] = "exited"
  /\ pc' = [pc EXCEPT !["monitor"] = "dial", !["ntf"] = "off"]
  /\ UNCHANGED <<known, registered, exitCh, arm, chan, reported>>
  /\ UNCHANGED dpllVars

(* monitorNtf: a notification changes one device or the offset of the pin. *)
NtfReceive ==
  /\ pc["ntf"] = "loop"
  /\ pc["monitor"] # "done"
  /\ \/ /\ phaseStatus' \in PhaseStatuses[setup] \ {StInvalid}
        /\ UNCHANGED <<frequencyStatus, phaseOffset>>
     \/ /\ frequencyStatus' \in FreqStatuses[setup] \ {StInvalid}
        /\ UNCHANGED <<phaseStatus, phaseOffset>>
     \/ /\ phaseOffset' \in Offsets
        /\ UNCHANGED <<phaseStatus, frequencyStatus>>
  /\ Goto("ntf", "decide")
  /\ UNCHANGED <<known, registered, exitCh, inSpec, sourceLost, state,
                 onHoldover, holdoverCloseCh, closed, arm, chan, reported>>

(* Receive fails, as it does once stopDpll closed the connection.          *)
NtfReceiveError ==
  /\ pc["ntf"] = "loop"
  /\ Goto("ntf", "exited")
  /\ UNCHANGED <<known, registered, exitCh, arm, chan, reported>>
  /\ UNCHANGED dpllVars

-----------------------------------------------------------------------------
(* The end of the monitor.                                                 *)

CmdStop ==
  /\ ~exitCh
  /\ exitCh' = TRUE
  /\ UNCHANGED <<known, registered, pc, arm, chan, reported>>
  /\ UNCHANGED dpllVars

(* The Reset event, which is dropped when the event channel is full.       *)
SendTermination ==
  /\ pc["monitor"] = "loop"
  /\ exitCh
  /\ reported' \in {reported, NOTSET}
  /\ Goto("monitor", "unregister")
  /\ UNCHANGED <<known, registered, exitCh, arm, chan>>
  /\ UNCHANGED dpllVars

UnRegisterAllSubscriber ==
  /\ pc["monitor"] = "unregister"
  /\ NotifierUnlocked
  /\ registered' = FALSE
  /\ Goto("monitor", "cancel")
  /\ UNCHANGED <<known, exitCh, arm, chan, reported>>
  /\ UNCHANGED dpllVars

CancelHoldover ==
  /\ pc["monitor"] = "cancel"
  /\ closed' = IF onHoldover THEN closed \cup {holdoverCloseCh} ELSE closed
  /\ onHoldover' = (onHoldover /\ Api # "netlink")
  /\ Goto("monitor", "done")
  /\ UNCHANGED <<known, registered, exitCh, phaseStatus, frequencyStatus,
                 phaseOffset, inSpec, sourceLost, state, holdoverCloseCh, arm,
                 chan, reported>>

-----------------------------------------------------------------------------
Init ==
  /\ setup \in Setups
  /\ known = UNKNOWN
  /\ registered = TRUE
  /\ exitCh = FALSE
  /\ phaseStatus = StInvalid
  /\ frequencyStatus = StInvalid
  /\ phaseOffset = OutOfRange
  /\ inSpec = FALSE
  /\ sourceLost = FALSE
  /\ state = FREERUN
  /\ onHoldover = FALSE
  /\ holdoverCloseCh = NoChan
  /\ closed = {}
  /\ pc = [t \in Threads |-> CASE t \in {"monitor", "ntf"} -> "off"
                               [] t = "notify" -> "idle"
                               [] OTHER -> "free"]
  /\ arm = [t \in Threads |-> "none"]
  /\ chan = [t \in Threads |-> NoChan]
  /\ reported = NOTSET

StateDecision(t) ==
  Decide(t) \/ Publish(t) \/ EnterHoldover(t) \/ SendPanics(t)

Holdover(h) ==
  \/ HoldoverStart(h)
  \/ HoldoverTick(h)
  \/ HoldoverTimeout(h)
  \/ HoldoverSeesClose(h)
  \/ HoldoverClosed(h)
  \/ HoldoverDefer(h)

Monitor ==
  \/ MonitorDpll
  \/ SysfsTick
  \/ NetlinkDial
  \/ NetlinkJoin
  \/ NetlinkRedial
  \/ SendTermination
  \/ UnRegisterAllSubscriber
  \/ CancelHoldover

Step ==
  \/ \E t \in Threads : StateDecision(t)
  \/ \E h \in Slots : Holdover(h)
  \/ \E t \in Threads, h \in Slots : Rendezvous(t, h)
  \/ \E s \in {FREERUN, LOCKED} : Notify(s)
  \/ Monitor
  \/ NtfReceive
  \/ NtfReceiveError
  \/ CmdStop

Next == Step /\ UNCHANGED setup

allVars == <<setup, vars>>

Spec == Init /\ [][Next]_allVars

(* Goroutines are scheduled, the tickers tick and the holdover timer       *)
(* expires.  The select of the sysfs loop, which may find a tick ready     *)
(* together with the closed exitCh, chooses at random and so chooses       *)
(* exitCh sooner or later; a Go mutex does not starve Unregister.  The     *)
(* event handler empties the event channel, so events that are sent again  *)
(* and again are not dropped for ever.  Nothing is assumed about the       *)
(* hardware, about netlink, GNSS and CmdStop.                              *)
Fairness ==
  /\ \A t \in Threads : WF_vars(StateDecision(t))
  /\ SF_vars(Publish("monitor") /\ reported' = state')
  /\ \A h \in Slots :
       /\ WF_vars(HoldoverStart(h) \/ HoldoverSeesClose(h)
                    \/ HoldoverClosed(h) \/ HoldoverDefer(h))
       /\ WF_vars(HoldoverTimeout(h))
       /\ WF_vars(\E t \in Threads : Rendezvous(t, h))
  /\ WF_vars(MonitorDpll \/ SysfsTick \/ NetlinkDial \/ NetlinkJoin
               \/ NetlinkRedial
               \/ CancelHoldover)
  /\ SF_vars(SendTermination)
  /\ SF_vars(UnRegisterAllSubscriber)

FairSpec == Spec /\ Fairness

-----------------------------------------------------------------------------
(* Properties.                                                             *)

PcLabels ==
  {"off", "idle", "free", "dial", "join", "loop", "decide", "close", "publish",
   "start", "closed", "defer", "unregister", "cancel", "done", "exited", "panic"}

Arms == {"none", "freerun", "locked", "off", "relock", "enter", "outOfSpec",
         "keep", "ppsLost", "ppsLocked", "ppsOff"}

(* Every variable has its type.                                            *)
TypeOK ==
  /\ setup \in Setups
  /\ known \in {UNKNOWN, FREERUN, LOCKED}
  /\ registered \in BOOLEAN
  /\ exitCh \in BOOLEAN
  /\ phaseStatus \in Statuses
  /\ frequencyStatus \in Statuses
  /\ phaseOffset \in Offsets
  /\ inSpec \in BOOLEAN
  /\ sourceLost \in BOOLEAN
  /\ state \in {FREERUN, HOLDOVER, LOCKED}
  /\ onHoldover \in BOOLEAN
  /\ holdoverCloseCh \in Chans \cup {NoChan}
  /\ closed \subseteq Chans
  /\ pc \in [Threads -> PcLabels]
  /\ arm \in [Threads -> Arms]
  /\ chan \in [Threads -> Chans \cup {NoChan}]
  /\ reported \in {FREERUN, HOLDOVER, LOCKED, NOTSET}

(* Branches of stateDecision that leave HOLDOVER. *)
LeavingArms == Arms \ {"none", "enter", "keep"}

(* A DPLL in HOLDOVER has a goroutine that watches the timeout and the     *)
(* offset, or one that is about to take it out of HOLDOVER, whatever the   *)
(* order in which the unlocked calls of stateDecision start holdovers,     *)
(* close them and assign the state.  Only the end of the monitor closes    *)
(* the channel and leaves HOLDOVER behind.                                 *)
HoldoverAttended ==
  state = HOLDOVER /\ closed = {} =>
    \/ \E h \in Slots : pc[h] \in {"start", "loop"}
    \/ \E t \in Threads : pc[t] = "publish" /\ arm[t] \in LeavingArms

(* A holdover is over in the end (LocalHoldoverTimeout), whatever blocks   *)
(* the other goroutines, unless CmdStop cuts it off.                       *)
HoldoverEnds == state = HOLDOVER ~> (state # HOLDOVER \/ exitCh)

(* The sysfs monitor goes on to read the hardware.                         *)
MonitorRuns == []<>(pc["monitor"] = "loop")

(* While GNSS stays lost the DPLL does not stay LOCKED for good, although  *)
(* a decision from before the loss may be carried out after it and a       *)
(* running holdover hides that from the later ones.                        *)
NotLockedWithoutSource ==
  Api = "sysfs" =>
    (MonitorRuns /\ <>[](known = FREERUN /\ ~exitCh) => <>[](state # LOCKED))

(* What the event handler was told last is the state the DPLL settles on,  *)
(* although sendDpllEvent drops an event when the channel is full: a later *)
(* decision sends it again.                                                *)
ReportsCatchUp ==
  Api = "sysfs" =>
    (/\ MonitorRuns
     /\ <>[](state \in {FREERUN, LOCKED} /\ ~exitCh)
     /\ <>[][UNCHANGED state]_vars
     => <>[](reported = state))

(* What status and offset call for when the source is there.               *)
HardwareState ==
  IF DpllStatus \in {StLocked, StLockedHo} /\ IsOffsetInRange
  THEN LOCKED ELSE FREERUN

(* A DPLL on 1PPS follows its hardware: one that is and stays locked, with *)
(* an offset in range, gets to LOCKED for good although its source was     *)
(* lost before, and one that is not, or is out of range, to FREERUN,       *)
(* whichever of the unlocked callers decides last.                         *)
FollowsHardware ==
  \A s \in {FREERUN, LOCKED} :
    Source = PPS =>
      (<>[](HardwareState = s /\ ~exitCh) => <>[](state = s))

-----------------------------------------------------------------------------
(* Statements the code does not satisfy.                                   *)

(* A DPLL on GNSS, too, gets to LOCKED when it is locked and the source is *)
(* back, and to FREERUN when its offset is out of range.                   *)
RelocksWithGnss ==
  Source = GNSS =>
    (<>[](/\ DpllStatus \in {StLocked, StLockedHo}
          /\ phaseOffset = InRange
          /\ known = LOCKED
          /\ ~exitCh)
       => <>[](state = LOCKED))

OutOfRangeIsFreerunWithGnss ==
  Source = GNSS =>
    (<>[](/\ DpllStatus \in {StLockedHo, StHoldover}
          /\ phaseOffset = OutOfRange
          /\ known = LOCKED
          /\ ~exitCh)
       => <>[](state = FREERUN))

(* A DPLL that settles on LOCKED tells the event handler: over netlink no  *)
(* later decision sends the event that was dropped.                        *)
DroppedEventIsRetried ==
  <>[](state = LOCKED /\ ~exitCh) => <>(reported = LOCKED)

(* CmdStop ends the monitor.                                               *)
StopTerminatesMonitor == exitCh ~> pc["monitor"] = "done"

(* Once the monitor has ended no holdover begins.                          *)
NoHoldoverAfterStop ==
  [][pc["monitor"] = "done" =>
       \A h \in Slots : pc'[h] = "start" => pc[h] = "start"]_vars

(* No goroutine sends on a closed channel.                                 *)
NoSendOnClosed == \A t \in Threads : pc[t] # "panic"
=============================================================================
