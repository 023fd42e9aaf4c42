-------------------------- MODULE ClockClassProofs --------------------------
(***************************************************************************)
(* Proofs about ClockClass, for any number of concurrent senders, any set  *)
(* of classes and accuracies and any bound on restarts and lost answers.   *)
(***************************************************************************)
EXTENDS ClockClass, TLAPS

(* Every constant set of settings contains the zero settings.              *)
LEMMA NoSettingsType == NoSettings \in Settings
BY DEF NoSettings, Settings, Classes, Accuracies

(* The accuracy of a request is an accuracy: the offset of a DPLL is used  *)
(* only when there is one.                                                 *)
LEMMA RequestedAccuracyType ==
  ASSUME TypeOK, NEW class \in Classes,
         NEW reported \in OffsetAccuracies \cup {NoOffset}
  PROVE  RequestedAccuracy(class, reported) \in Accuracies
BY DEF TypeOK, RequestedAccuracy, Accuracies

(* What is written to ptp4l for a request are settings.                    *)
LEMMA AccuracyOfType ==
  ASSUME NEW req \in Settings
  PROVE  AccuracyOf(req) \in Accuracies
BY DEF Settings, AccuracyOf, Accuracies

LEMMA TypeStep ==
  ASSUME TypeOK, [Next]_vars
  PROVE  TypeOK'
<1> USE ClassAssumption
<1>1. CASE Announce
  <2>1. PICK class \in WantedClasses,
             reported \in OffsetAccuracies \cup {NoOffset} :
               AnnounceClass(class, reported)
    BY <1>1 DEF Announce
  <2> DEFINE req == [class |-> class, accuracy |-> RequestedAccuracy(class, reported)]
  <2>2. class \in Classes
    OBVIOUS
  <2>3. req \in Settings
    BY <2>2, RequestedAccuracyType DEF Settings
  <2>4. SpawnSender(req)
    BY <2>1 DEF AnnounceClass
  <2> HIDE DEF req
  <2>5. sending' \in [Senders -> Settings]
    BY <2>3, <2>4 DEF SpawnSender, TypeOK
  <2> QED
    BY <2>1, <2>2, <2>5 DEF AnnounceClass, TypeOK
<1>3. ASSUME NEW s \in Senders, SendRequest(s) PROVE TypeOK'
  BY <1>3, NoSettingsType DEF SendRequest, TypeOK
<1>4. CASE ReceiveRequest
  BY <1>4, NoSettingsType DEF ReceiveRequest, TypeOK
<1>5. ASSUME NEW g \in Settings, GotSettings(g) PROVE TypeOK'
  BY <1>5, NoSettingsType, AccuracyOfType
  DEF GotSettings, TypeOK, Settings, WorkerIdle
<1>6. CASE GetAnswered
  BY <1>5, <1>6 DEF GetAnswered, TypeOK
<1>7. CASE GetTimedOut
  BY <1>5, <1>7, NoSettingsType DEF GetTimedOut
<1>8. CASE GetFailed
  BY <1>8, NoSettingsType DEF GetFailed, TypeOK, WorkerIdle
<1>9. CASE SetAnswered
  BY <1>9, NoSettingsType DEF SetAnswered, TypeOK, WorkerIdle, Settings
<1>10. CASE SetFailed
  BY <1>10, NoSettingsType DEF SetFailed, TypeOK, WorkerIdle
<1>11. CASE SetAnswerLost
  BY <1>11, NoSettingsType DEF SetAnswerLost, TypeOK, WorkerIdle
<1>12. CASE Ptp4lRestart
  BY <1>12 DEF Ptp4lRestart, TypeOK
<1>13. CASE UNCHANGED vars
  BY <1>13 DEF vars, TypeOK
<1> QED
  BY <1>1, <1>3, <1>4, <1>6, <1>7, <1>8, <1>9, <1>10, <1>11, <1>12,
     <1>13 DEF Next

(* Every variable of the clock class update keeps its type: whatever the   *)
(* order of the events, the requests and the answers of pmc, nothing but   *)
(* settings is stored, sent or written to ptp4l.                           *)
THEOREM TypeCorrect == Spec => []TypeOK
<1>1. Init => TypeOK
  BY ClassAssumption, NoSettingsType
  DEF Init, TypeOK, Classes, Accuracies, WorkerIdle
<1> QED
  BY <1>1, TypeStep, PTL DEF Spec

-----------------------------------------------------------------------------
(* A request, wherever it is, asks for an initialized class.  A GET that   *)
(* timed out returns zero settings with a nil error; it is harmless        *)
(* because the zero class then always differs from the requested one.      *)
RequestsAreInitialized ==
  /\ \A s \in Senders : sending[s] # NoSettings =>
       sending[s].class # ClassUninitialized
  /\ requestCh # NoSettings => requestCh.class # ClassUninitialized
  /\ worker.pc # "idle" => worker.settings.class # ClassUninitialized

LEMMA RequestsStep ==
  ASSUME TypeOK, RequestsAreInitialized, [Next]_vars
  PROVE  RequestsAreInitialized'
<1> USE ClassAssumption DEF RequestsAreInitialized
<1>1. CASE Announce
  <2>1. PICK class \in WantedClasses,
             reported \in OffsetAccuracies \cup {NoOffset} :
               AnnounceClass(class, reported)
    BY <1>1 DEF Announce
  <2> DEFINE req == [class |-> class, accuracy |-> RequestedAccuracy(class, reported)]
  <2>2. SpawnSender(req)
    BY <2>1 DEF AnnounceClass
  <2>3. ChangeRequested(req) => req.class # ClassUninitialized
    BY DEF ChangeRequested
  <2> HIDE DEF req
  <2> QED
    BY <2>1, <2>2, <2>3 DEF AnnounceClass, SpawnSender, TypeOK
<1>3. ASSUME NEW s \in Senders, SendRequest(s) PROVE RequestsAreInitialized'
  BY <1>3 DEF SendRequest, TypeOK
<1>4. CASE ReceiveRequest
  BY <1>4 DEF ReceiveRequest, TypeOK
<1>5. ASSUME NEW g, GotSettings(g) PROVE RequestsAreInitialized'
  BY <1>5 DEF GotSettings, WorkerIdle
<1>6. CASE GetAnswered \/ GetTimedOut
  BY <1>5, <1>6 DEF GetAnswered, GetTimedOut
<1>7. CASE GetFailed \/ SetAnswered \/ SetFailed \/ SetAnswerLost
  BY <1>7 DEF GetFailed, SetAnswered, SetFailed, SetAnswerLost, WorkerIdle
<1>8. CASE Ptp4lRestart \/ UNCHANGED vars
  BY <1>8 DEF Ptp4lRestart, vars
<1> QED
  BY <1>1, <1>3, <1>4, <1>6, <1>7, <1>8 DEF Next

(* What the fields hold is what ptp4l announces.                           *)
LEMMA BeliefStep ==
  ASSUME TypeOK, RequestsAreInitialized, BeliefIsAnnounced, [Next]_vars
  PROVE  BeliefIsAnnounced'
<1> USE DEF BeliefIsAnnounced
<1>1. CASE Announce
  BY <1>1 DEF Announce, AnnounceClass
<1>3. ASSUME NEW s \in Senders, SendRequest(s) PROVE BeliefIsAnnounced'
  BY <1>3 DEF SendRequest
<1>4. CASE ReceiveRequest
  BY <1>4 DEF ReceiveRequest
<1>5. CASE GetAnswered
  BY <1>5 DEF GetAnswered, GotSettings, TypeOK, Settings
<1>6. CASE GetTimedOut
  <2>1. ChangeNeeded(NoSettings, worker.settings)
    BY <1>6 DEF GetTimedOut, GotSettings, ChangeNeeded, RequestsAreInitialized,
                NoSettings
  <2> QED
    BY <1>6, <2>1 DEF GetTimedOut, GotSettings
<1>7. CASE GetFailed \/ SetFailed
  BY <1>7 DEF GetFailed, SetFailed
<1>8. CASE SetAnswered
  BY <1>8 DEF SetAnswered, TypeOK, Settings
<1>9. CASE SetAnswerLost
  BY <1>9 DEF SetAnswerLost, TypeOK
<1>10. CASE Ptp4lRestart
  BY <1>10 DEF Ptp4lRestart, TypeOK
<1>11. CASE UNCHANGED vars
  BY <1>11 DEF vars
<1> QED
  BY <1>1, <1>3, <1>4, <1>5, <1>6, <1>7, <1>8, <1>9, <1>10, <1>11
  DEF Next

(* The class and accuracy the main loop compares each event with are the   *)
(* ones ptp4l announces, with any number of requests in flight and however *)
(* pmc fails, as long as ptp4l was not restarted and no answer to an       *)
(* applied SET was lost.                                                   *)
THEOREM Belief == Spec => []BeliefIsAnnounced
<1> DEFINE Inv == TypeOK /\ RequestsAreInitialized /\ BeliefIsAnnounced
<1>1. Init => Inv
  BY ClassAssumption, NoSettingsType
  DEF Init, TypeOK, Classes, Accuracies, WorkerIdle, RequestsAreInitialized,
      BeliefIsAnnounced
<1>2. Inv /\ [Next]_vars => Inv'
  BY TypeStep, RequestsStep, BeliefStep
<1>3. Inv => BeliefIsAnnounced
  OBVIOUS
<1> QED
  BY <1>1, <1>2, <1>3, PTL DEF Spec
-----------------------------------------------------------------------------
(* The mapping of the initial state.                                       *)
LEMMA ServiceInit ==
  ASSUME Init
  PROVE  Service!Init
BY DEF Init, Service!Init, InFlight, NoSettings, WorkerIdle

(* A request in flight is one that was asked for.                          *)
LEMMA AskedFor ==
  ASSUME TypeOK, RequestsAreInitialized
  PROVE  /\ InFlight \subseteq Classes
         /\ worker.pc # "idle" => worker.settings.class \in InFlight
BY DEF TypeOK, RequestsAreInitialized, InFlight, Settings

(* When the worker becomes idle its request is settled, though there may   *)
(* be another for the same class.                                          *)
LEMMA WorkerSettles ==
  ASSUME TypeOK, RequestsAreInitialized, worker.pc # "idle",
         worker' = WorkerIdle, UNCHANGED <<sending, requestCh>>
  PROVE  Service!Settle(worker.settings.class)
<1> DEFINE c == worker.settings.class
           others == ({sending[s].class : s \in Senders} \cup {requestCh.class})
                       \ {ClassUninitialized}
<1>1. c # ClassUninitialized /\ c \in InFlight
  BY AskedFor DEF RequestsAreInitialized
<1>2. InFlight = others \cup {c}
  BY <1>1 DEF InFlight
<1>3. InFlight' = others
  BY DEF InFlight, WorkerIdle, NoSettings
<1> HIDE DEF c, others
<1>4. InFlight' \in {InFlight, InFlight \ {c}}
  BY <1>2, <1>3
<1> QED
  BY <1>1, <1>4 DEF Service!Settle, c

(* Every step of the goroutines is a step of the service, or none.         *)
LEMMA ServiceStep ==
  ASSUME TypeOK, RequestsAreInitialized, [Next]_vars
  PROVE  [Service!Next]_(Service!vars)
<1> USE ClassAssumption
<1> DEFINE w == worker.settings.class
<1>0. /\ worker \in [pc : {"idle", "get", "set"}, settings : Settings]
      /\ worker.pc # "idle" => w \in Classes
  BY DEF TypeOK, Settings
<1>1. CASE Announce
  <2>1. PICK class \in WantedClasses,
             reported \in OffsetAccuracies \cup {NoOffset} :
               AnnounceClass(class, reported)
    BY <1>1 DEF Announce
  <2> DEFINE req == [class |-> class, accuracy |-> RequestedAccuracy(class, reported)]
  <2>2. SpawnSender(req)
    BY <2>1 DEF AnnounceClass
  <2>3. class \in Classes
    OBVIOUS
  <2>4. wanted' = class /\ UNCHANGED <<ptp4l, clockClass, requestCh, worker>>
    BY <2>1 DEF AnnounceClass
  <2>5. CASE ~ChangeRequested(req)
    <3>1. class \in {clockClass, ClassUninitialized}
      BY <2>5 DEF ChangeRequested
    <3>2. InFlight' = InFlight
      BY <2>2, <2>4, <2>5 DEF SpawnSender, InFlight
    <3> QED
      BY <2>3, <2>4, <3>1, <3>2 DEF Service!Next, Service!Want
  <2>6. CASE ChangeRequested(req)
    <3>1. PICK s \in Senders : /\ sending[s] = NoSettings
                               /\ sending' = [sending EXCEPT ![s] = req]
      BY <2>2, <2>6 DEF SpawnSender
    <3>2. class # ClassUninitialized
      BY <2>6 DEF ChangeRequested
    <3>3. sending \in [Senders -> Settings]
      BY DEF TypeOK
    <3>4. {sending'[t].class : t \in Senders} \ {ClassUninitialized}
            = ({sending[t].class : t \in Senders} \ {ClassUninitialized}) \cup {class}
      BY <3>1, <3>2, <3>3 DEF NoSettings
    <3>5. InFlight' = InFlight \cup ({class} \ {ClassUninitialized})
      BY <2>4, <3>2, <3>4 DEF InFlight
    <3> QED
      BY <2>3, <2>4, <3>2, <3>5 DEF Service!Next, Service!Want
  <2> QED
    BY <2>5, <2>6
<1>2. ASSUME NEW s \in Senders, SendRequest(s)
      PROVE  [Service!Next]_(Service!vars)
  <2> DEFINE c == sending[s].class
             rest == {sending[t].class : t \in Senders \ {s}}
  <2>1. /\ sending \in [Senders -> Settings]
        /\ sending[s] # NoSettings /\ c # ClassUninitialized
        /\ c \in Classes
    BY <1>2 DEF TypeOK, SendRequest, RequestsAreInitialized, Settings
  <2>2. sending' = [sending EXCEPT ![s] = NoSettings]
    BY <1>2 DEF SendRequest
  <2>3. {sending[t].class : t \in Senders} = rest \cup {c}
    OBVIOUS
  <2>4. {sending'[t].class : t \in Senders} = rest \cup {ClassUninitialized}
    BY <2>1, <2>2 DEF NoSettings
  <2>5. requestCh'.class = IF requestCh = NoSettings THEN c ELSE requestCh.class
    BY <1>2 DEF SendRequest
  <2>6. requestCh = NoSettings => requestCh.class = ClassUninitialized
    BY DEF NoSettings
  <2>7. UNCHANGED <<worker, wanted, ptp4l, clockClass>>
    BY <1>2 DEF SendRequest
  <2> DEFINE all == rest \cup {requestCh.class, worker.settings.class}
  <2>8. InFlight = (all \cup {c}) \ {ClassUninitialized}
    BY <2>3 DEF InFlight
  <2>9. \/ InFlight' = (all \cup {c}) \ {ClassUninitialized}
        \/ InFlight' = all \ {ClassUninitialized}
    BY <2>4, <2>5, <2>6, <2>7 DEF InFlight
  <2> HIDE DEF c, rest, all
  <2>10. c \in InFlight /\ InFlight' \in {InFlight, InFlight \ {c}}
    BY <2>1, <2>8, <2>9
  <2> QED
    BY <2>1, <2>7, <2>10 DEF Service!Next, Service!Lose, Service!Settle
<1>3. CASE ReceiveRequest
  <2>1. worker.settings.class \in {ClassUninitialized} \cup InFlight
    BY DEF InFlight
  <2>2. \/ InFlight' = InFlight
        \/ /\ w \in InFlight
           /\ InFlight' = InFlight \ {w}
    <3>1. /\ worker'.settings.class = requestCh.class
          /\ requestCh'.class = ClassUninitialized
          /\ sending' = sending
      BY <1>3 DEF ReceiveRequest, NoSettings
    <3> QED
      BY <3>1 DEF InFlight
  <2>3. UNCHANGED <<wanted, ptp4l, clockClass>>
    BY <1>3 DEF ReceiveRequest
  <2>4. InFlight \subseteq Classes
    BY AskedFor
  <2> QED
    BY <2>2, <2>3, <2>4
    DEF Service!Next, Service!Lose, Service!Settle, Service!vars
<1>4. ASSUME NEW g \in Settings, GotSettings(g), ChangeNeeded(g, worker.settings)
      PROVE  UNCHANGED Service!vars
  <2>1. worker'.settings.class = worker.settings.class
    BY <1>0, <1>4 DEF GotSettings
  <2> QED
    BY <1>4, <2>1 DEF GotSettings, InFlight, Service!vars
<1>5. CASE GetAnswered
  <2>1. GotSettings(ptp4l) /\ ptp4l \in Settings
    BY <1>5 DEF GetAnswered, TypeOK
  <2>2. CASE ChangeNeeded(ptp4l, worker.settings)
    BY <1>4, <2>1, <2>2
  <2>3. CASE ~ChangeNeeded(ptp4l, worker.settings)
    <3>1. /\ worker.pc # "idle" /\ worker' = WorkerIdle
          /\ clockClass' = ptp4l.class /\ ptp4l.class = w
          /\ UNCHANGED <<wanted, sending, requestCh, ptp4l>>
      BY <2>1, <2>3 DEF GotSettings, ChangeNeeded
    <3>2. Service!Settle(w)
      BY <3>1, WorkerSettles
    <3> QED
      BY <1>0, <3>1, <3>2 DEF Service!Next, Service!Confirm
  <2> QED
    BY <2>2, <2>3
<1>6. CASE GetTimedOut
  <2>1. GotSettings(NoSettings) /\ worker.pc = "get"
    BY <1>6 DEF GetTimedOut, GotSettings
  <2>2. ChangeNeeded(NoSettings, worker.settings)
    BY <2>1 DEF RequestsAreInitialized, ChangeNeeded, NoSettings
  <2> QED
    BY <1>4, <2>1, <2>2, NoSettingsType
<1>7. CASE GetFailed \/ SetFailed
  <2>1. /\ worker.pc # "idle" /\ worker' = WorkerIdle
        /\ UNCHANGED <<wanted, clockClass, sending, requestCh, ptp4l>>
    BY <1>7 DEF GetFailed, SetFailed
  <2>2. Service!Settle(w)
    BY <2>1, WorkerSettles
  <2> QED
    BY <1>0, <2>1, <2>2 DEF Service!Next, Service!Lose
<1>8. CASE SetAnswered
  <2>1. /\ worker.pc # "idle" /\ worker' = WorkerIdle
        /\ clockClass' = w /\ ptp4l'.class = w
        /\ UNCHANGED <<wanted, sending, requestCh>>
    BY <1>8 DEF SetAnswered
  <2>2. Service!Settle(w)
    BY <2>1, WorkerSettles
  <2> QED
    BY <1>0, <2>1, <2>2 DEF Service!Next, Service!Announce
<1>9. CASE SetAnswerLost
  <2>1. /\ worker.pc # "idle" /\ worker' = WorkerIdle
        /\ ptp4l'.class = w
        /\ UNCHANGED <<wanted, clockClass, sending, requestCh>>
    BY <1>9 DEF SetAnswerLost
  <2>2. Service!Settle(w)
    BY <2>1, WorkerSettles
  <2> QED
    BY <1>0, <2>1, <2>2 DEF Service!Next, Service!AnnounceUnheard
<1>10. CASE Ptp4lRestart
  BY <1>10 DEF Ptp4lRestart, InFlight, Service!Next, Service!Restart
<1>11. CASE UNCHANGED vars
  BY <1>11 DEF vars, InFlight, Service!vars
<1> QED
  BY <1>1, <1>2, <1>3, <1>5, <1>6, <1>7, <1>8, <1>9, <1>10, <1>11 DEF Next

(* The main loop, its senders, the channel and the worker with pmc         *)
(* implement the announcement of a class, for any number of requests in    *)
(* flight and however pmc fails and ptp4l restarts: ptp4l announces no     *)
(* class that no request in flight asks for, and the fields change only to *)
(* a class ptp4l has confirmed.                                            *)
THEOREM Implements == Spec => ImplementsClassService
<1> DEFINE Inv == TypeOK /\ RequestsAreInitialized
<1>1. Init => Inv
  BY ClassAssumption, NoSettingsType
  DEF Init, TypeOK, Classes, Accuracies, WorkerIdle, RequestsAreInitialized
<1>2. Inv /\ [Next]_vars => Inv'
  BY TypeStep, RequestsStep
<1>3. Init => Service!Init
  BY ServiceInit
<1>4. Inv /\ [Next]_vars => [Service!Next]_(Service!vars)
  BY ServiceStep
<1> QED
  BY <1>1, <1>2, <1>3, <1>4, PTL
  DEF Spec, ImplementsClassService, Service!Spec
=============================================================================
