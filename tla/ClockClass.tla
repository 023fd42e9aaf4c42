----------------------------- MODULE ClockClass -----------------------------
(***************************************************************************)
(* How the clock class of the grandmaster gets into ptp4l (pkg/event and   *)
(* pkg/pmc).  Three kinds of goroutines share the fields:                  *)
(*   - the main loop of ProcessEvents compares the class of each event     *)
(*     with clockClass and clockAccuracy, which it believes are announced; *)
(*   - a short-lived sender per difference offers its request to           *)
(*     clockClassRequestCh (capacity 1) and gives up when it is full;      *)
(*   - the clock class goroutine receives a request, reads the settings of *)
(*     ptp4l through pmc, writes them, and stores the outcome in the       *)
(*     fields the main loop compares with.                                 *)
(***************************************************************************)
EXTENDS Naturals, PtpState

CONSTANTS
  WantedClasses,      \* classes updateGMState computes
  OffsetAccuracies,   \* accuracies ClockAccuracyFromOffset returns
  Senders,            \* bound on the sender goroutines alive at once
  Ptp4lDefault,       \* grandmaster settings ptp4l has when it starts
  MaxRestarts,        \* bound on the restarts of ptp4l
  MaxLost             \* bound on the lost answers to SETs that were applied

(* The zero value of a ClockAccuracy, ClockAccuracyUnknown and             *)
(* ClockAccuracyNanosecond100.                                             *)
AccuracyZero    == "zero"
AccuracyUnknown == "unknown"
Accuracy100ns   == "ns100"
Accuracies ==
  {AccuracyZero, AccuracyUnknown, Accuracy100ns} \cup OffsetAccuracies

(* An event without the offset of a DPLL.                                  *)
NoOffset == "no offset"

Settings == [class : Classes, accuracy : Accuracies]

(* Zero settings, which also stand for no request: a request is made for   *)
(* an initialized class only.                                              *)
NoSettings == [class |-> ClassUninitialized, accuracy |-> AccuracyZero]

ASSUME ClassAssumption ==
  /\ WantedClasses \subseteq Classes
  /\ OffsetAccuracies \subseteq STRING
  /\ NoOffset \notin OffsetAccuracies
  /\ Ptp4lDefault \in Settings
  /\ MaxRestarts \in Nat
  /\ MaxLost \in Nat

VARIABLES
  wanted,         \* the class updateGMState returned for the last event
  clockClass,     \* e.clockClass
  clockAccuracy,  \* e.clockAccuracy
  sending,        \* the requests of the sender goroutines, by goroutine
  requestCh,      \* clockClassRequestCh: its one slot, or NoSettings
  worker,         \* the clock class goroutine
  ptp4l,          \* the grandmaster settings ptp4l announces
  restarts,       \* how often ptp4l was restarted
  lost            \* how often the answer to an applied SET was lost

vars == <<wanted, clockClass, clockAccuracy, sending, requestCh, worker, ptp4l,
          restarts, lost>>

-----------------------------------------------------------------------------
(* The main loop.                                                          *)

(* A slip: the type assertion on the offset is not checked. *)
RequestedAccuracyUnchecked(class, reported) == reported

(* The accuracy to ask for: the one believed to be announced, unless a     *)
(* DPLL reported its offset in holdover.                                   *)
RequestedAccuracy(class, reported) ==
  IF class \in {ClassHoldover, ClassOutOfSpec} /\ reported # NoOffset
  THEN reported ELSE clockAccuracy

ChangeRequested(req) ==
  /\ req.class # ClassUninitialized
  /\ req.class # clockClass \/ req.accuracy # clockAccuracy

(* go func() { select { case clockClassRequestCh <- ...: default: } }()    *)
SpawnSender(req) ==
  \/ /\ ChangeRequested(req)
     /\ \E s \in Senders :
          /\ sending[s] = NoSettings
          /\ sending' = [sending EXCEPT ![s] = req]
  \/ /\ ~ChangeRequested(req)
     /\ UNCHANGED sending

(* A slip: the request is taken for the outcome. *)
AnnounceClassAtOnce(class, reported) ==
  /\ wanted' = class
  /\ SpawnSender([class |-> class, accuracy |-> RequestedAccuracy(class, reported)])
  /\ clockClass' = IF class = ClassUninitialized THEN clockClass ELSE class
  /\ clockAccuracy' = RequestedAccuracy(class, reported)
  /\ UNCHANGED <<requestCh, worker, ptp4l, restarts, lost>>

(* The end of the handling of an event for which updateGMState returned    *)
(* class; reported is the accuracy of the offset a DPLL event carries.     *)
AnnounceClass(class, reported) ==
  /\ wanted' = class
  /\ SpawnSender([class |-> class, accuracy |-> RequestedAccuracy(class, reported)])
  /\ UNCHANGED <<clockClass, clockAccuracy, requestCh, worker, ptp4l, restarts, lost>>

-----------------------------------------------------------------------------
(* A sender: its request is dropped when the channel is full.              *)

SendRequest(s) ==
  /\ sending[s] # NoSettings
  /\ requestCh' = IF requestCh = NoSettings THEN sending[s] ELSE requestCh
  /\ sending' = [sending EXCEPT ![s] = NoSettings]
  /\ UNCHANGED <<wanted, clockClass, clockAccuracy, worker, ptp4l, restarts, lost>>

-----------------------------------------------------------------------------
(* The clock class goroutine: UpdateClockClass and updateCLockClass for a  *)
(* clock of type GM.                                                       *)

WorkerIdle == [pc |-> "idle", settings |-> NoSettings]

ReceiveRequest ==
  /\ worker.pc = "idle"
  /\ requestCh # NoSettings
  /\ worker' = [pc |-> "get", settings |-> requestCh]
  /\ requestCh' = NoSettings
  /\ UNCHANGED <<wanted, clockClass, clockAccuracy, sending, ptp4l, restarts, lost>>

(* The accuracy that goes with a class in GRANDMASTER_SETTINGS_NP.         *)
AccuracyOf(req) ==
  CASE req.class = ClassLocked  -> Accuracy100ns
    [] req.class = ClassFreerun -> AccuracyUnknown
    [] OTHER                    -> req.accuracy

(* A slip: the class is compared with the field of the event handler. *)
ChangeBelieved(g, req) == clockClass # req.class

(* The settings are written only when the class changes.                   *)
ChangeNeeded(g, req) == g.class # req.class

(* pmc returned the settings g.  Settings that have the class already are  *)
(* not written, and are believed to be the ones announced.                 *)
GotSettings(g) ==
  /\ worker.pc = "get"
  /\ \/ /\ ChangeNeeded(g, worker.settings)
        /\ worker' = [pc |-> "set",
                      settings |-> [class |-> worker.settings.class,
                                    accuracy |-> AccuracyOf(worker.settings)]]
        /\ UNCHANGED <<clockClass, clockAccuracy>>
     \/ /\ ~ChangeNeeded(g, worker.settings)
        /\ worker' = WorkerIdle
        /\ clockClass' = g.class
        /\ clockAccuracy' = g.accuracy
  /\ UNCHANGED <<wanted, sending, requestCh, ptp4l, restarts, lost>>

GetAnswered == GotSettings(ptp4l)

(* Every retry of the GET timed out: RunPMCExpGetGMSettings returns zero   *)
(* settings and a nil error.                                               *)
GetTimedOut == GotSettings(NoSettings)

GetFailed ==
  /\ worker.pc = "get"
  /\ worker' = WorkerIdle
  /\ UNCHANGED <<wanted, clockClass, clockAccuracy, sending, requestCh, ptp4l,
                 restarts, lost>>

SetAnswered ==
  /\ worker.pc = "set"
  /\ ptp4l' = worker.settings
  /\ clockClass' = worker.settings.class
  /\ clockAccuracy' = worker.settings.accuracy
  /\ worker' = WorkerIdle
  /\ UNCHANGED <<wanted, sending, requestCh, restarts, lost>>

(* A slip: the outcome is stored although the SET failed. *)
SetFailedStored ==
  /\ worker.pc = "set"
  /\ worker' = WorkerIdle
  /\ clockClass' = worker.settings.class
  /\ clockAccuracy' = worker.settings.accuracy
  /\ UNCHANGED <<wanted, sending, requestCh, ptp4l, restarts, lost>>

(* pmc could not be run or the SET did not reach ptp4l.                    *)
SetFailed ==
  /\ worker.pc = "set"
  /\ worker' = WorkerIdle
  /\ UNCHANGED <<wanted, clockClass, clockAccuracy, sending, requestCh, ptp4l,
                 restarts, lost>>

(* ptp4l applied the SET and Expect timed out before its answer came.      *)
SetAnswerLost ==
  /\ worker.pc = "set"
  /\ lost < MaxLost
  /\ lost' = lost + 1
  /\ ptp4l' = worker.settings
  /\ worker' = WorkerIdle
  /\ UNCHANGED <<wanted, clockClass, clockAccuracy, sending, requestCh, restarts>>

(* ptp4l died and cmdRun started it again.                                 *)
Ptp4lRestart ==
  /\ restarts < MaxRestarts
  /\ restarts' = restarts + 1
  /\ ptp4l' = Ptp4lDefault
  /\ UNCHANGED <<wanted, clockClass, clockAccuracy, sending, requestCh, worker,
                 lost>>

-----------------------------------------------------------------------------
Init ==
  /\ wanted = ClassUninitialized
  /\ clockClass = ClassUninitialized
  /\ clockAccuracy = AccuracyZero
  /\ sending = [s \in Senders |-> NoSettings]
  /\ requestCh = NoSettings
  /\ worker = WorkerIdle
  /\ ptp4l = Ptp4lDefault
  /\ restarts = 0
  /\ lost = 0

Announce ==
  \E class \in WantedClasses, reported \in OffsetAccuracies \cup {NoOffset} :
    AnnounceClass(class, reported)

Next ==
  \/ Announce
  \/ \E s \in Senders : SendRequest(s)
  \/ ReceiveRequest
  \/ GetAnswered
  \/ GetTimedOut
  \/ GetFailed
  \/ SetAnswered
  \/ SetFailed
  \/ SetAnswerLost
  \/ Ptp4lRestart

Spec == Init /\ [][Next]_vars

(* Another event for which the class stays the same.                       *)
AnnounceAgain ==
  \E reported \in OffsetAccuracies \cup {NoOffset} :
    AnnounceClass(wanted, reported)

(* The GNSS monitor and ts2phc cause an event every second, so a           *)
(* difference that is there to stay is seen by an event; no goroutine here *)
(* blocks for ever, since pmc calls are bounded by timeouts; and ptp4l     *)
(* answers a request that is made over and over again.                     *)
Fairness ==
  /\ WF_vars(AnnounceAgain)
  /\ \A s \in Senders : WF_vars(SendRequest(s))
  /\ WF_vars(ReceiveRequest)
  /\ WF_vars(GetAnswered \/ GetTimedOut \/ GetFailed)
  /\ WF_vars(SetAnswered \/ SetFailed)
  /\ SF_vars(GetAnswered)
  /\ SF_vars(SetAnswered)

FairSpec == Spec /\ Fairness

-----------------------------------------------------------------------------
(* Properties.                                                             *)

(* Every variable has its type, and the worker never carries a request for *)
(* the uninitialized class.                                                *)
TypeOK ==
  /\ wanted \in Classes
  /\ clockClass \in Classes
  /\ clockAccuracy \in Accuracies
  /\ sending \in [Senders -> Settings]
  /\ requestCh \in Settings
  /\ worker \in [pc : {"idle", "get", "set"}, settings : Settings]
  /\ ptp4l \in Settings
  /\ restarts \in 0 .. MaxRestarts
  /\ lost \in 0 .. MaxLost

(* What the handler believes is announced is what ptp4l announces, however *)
(* requests overtake each other, fail or are dropped, and even when every  *)
(* retry of a GET timed out and pmc returned zero settings with a nil      *)
(* error; only a restart of ptp4l or a lost answer to a SET breaks it.     *)
(* The comparison of the main loop with clockClass and clockAccuracy rests *)
(* on this.                                                                *)
BeliefIsAnnounced ==
  restarts = 0 /\ lost = 0 /\ clockClass # ClassUninitialized =>
    ptp4l = [class |-> clockClass, accuracy |-> clockAccuracy]

(* If the grandmaster settles on a class then, although requests are       *)
(* dropped when the channel is full, overtake each other and fail in pmc,  *)
(* the handler comes to believe in that class for good and, unless ptp4l   *)
(* was restarted or an answer was lost, ptp4l announces it.                *)
ClassConverges ==
  \A c \in {ClassLocked, ClassHoldover, ClassFreerun} :
    <>[](wanted = c) =>
      <>[](clockClass = c /\ (restarts = 0 /\ lost = 0 => ptp4l.class = c))

(* The classes of the requests in flight: with a sender, in the channel,   *)
(* with the worker.                                                        *)
InFlight ==
  ({sending[s].class : s \in Senders} \cup {requestCh.class, worker.settings.class})
    \ {ClassUninitialized}

Service == INSTANCE ClassService WITH
  Class     <- Classes,
  NoClass   <- ClassUninitialized,
  Default   <- Ptp4lDefault.class,
  asked     <- InFlight,
  announced <- ptp4l.class,
  believed  <- clockClass

(* The goroutines together do what the announcement of a class promises:   *)
(* however requests overtake each other, ptp4l announces nothing that no   *)
(* request in flight asks for, and the fields the main loop compares with  *)
(* change only to a class ptp4l has confirmed.                             *)
ImplementsClassService == Service!Spec

-----------------------------------------------------------------------------
(* Statements the code does not satisfy.                                   *)

(* The comment on clockClassRequestCh: "if it fails next try will pass".   *)
(* An update that failed is tried again until ptp4l announces the class    *)
(* the grandmaster settled on.                                             *)
FailedUpdateIsRetried ==
  \A c \in {ClassLocked, ClassFreerun} :
    <>[](wanted = c) => <>[](ptp4l.class = c)

(* The comments on the request and in updateCLockClass: "if there is a     *)
(* change in clockClass or clockAccuracy, log the change and update".  In  *)
(* holdover the accuracy a DPLL reported is not left unwritten when ptp4l  *)
(* announces another one.                                                  *)
AccuracyChangeIsWritten ==
  [][/\ GetAnswered
     /\ worker'.pc = "idle"
     /\ worker.settings.class = ClassHoldover
     /\ worker.settings.accuracy \in OffsetAccuracies
     => ptp4l.accuracy = worker.settings.accuracy]_vars
=============================================================================
