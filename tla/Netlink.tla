------------------------------- MODULE Netlink -------------------------------
(***************************************************************************)
(* How the monitor of a DPLL gets its status over netlink (pkg/dpll,       *)
(* MonitorDpllNetlink and monitorNtf; pkg/dpll-netlink): it dials, dumps   *)
(* the devices, joins the multicast group and starts a goroutine that      *)
(* reads the notifications.  When that goroutine ends, the monitor closes  *)
(* the connection and starts over.                                         *)
(*                                                                         *)
(* The kernel and the cards are external.  Their devices and pins are      *)
(* counted changes: the number of a change stands for the lock status or   *)
(* the phase offset it brought, so that older and newer can be told apart. *)
(* What stateDecision makes of a status is the subject of Dpll.            *)
(***************************************************************************)
EXTENDS Naturals, Sequences

CONSTANTS
  Devices,     \* DPLLs of all cards, records [clockId, type]
  Pins,        \* pins of all cards, records [clockId, boardLabel, panelLabel]
  clockId,     \* the card that is monitored
  pinFilter,   \* phaseOffsetPinFilter[clockId]: labels by name of the label
  MaxChanges,  \* bound on the changes, by device and pin
  MaxQueue,    \* notifications the socket buffers
  MaxBatch     \* messages one Receive returns at most

Sources == Devices \cup Pins

ASSUME NetlinkAssumption ==
  /\ \A d, e \in Devices : d.clockId = e.clockId /\ d.type = e.type => d = e
  /\ DOMAIN pinFilter \subseteq {"boardLabel", "panelLabel"}
  /\ MaxChanges \in [Sources -> Nat]
  /\ MaxQueue \in Nat \ {0}
  /\ MaxBatch \in Nat \ {0}

VARIABLES
  hw,        \* how often a device or pin has changed
  queue,     \* the notifications in the socket
  overrun,   \* the socket has dropped one: the next Receive fails
  joined,    \* the socket is a member of the multicast group
  missed,    \* devices whose last change nobody will tell the monitor of
  pc,        \* where the monitor is
  conn,      \* d.conn
  sem,       \* the semaphore: nil, held or free
  ntf,       \* the goroutine that runs monitorNtf
  exitCh,    \* CmdStop closed it
  seen       \* the fields of DpllConfig: the source and the change they hold

hardware == <<hw, queue, overrun, joined, missed>>
monitor == <<pc, conn, sem, exitCh>>
vars == <<hw, queue, overrun, joined, missed, pc, conn, sem, ntf, exitCh, seen>>

(* DPLL_INVALID, a lock status that is not in the message, and MaxInt64,   *)
(* the phase offset of a pin message without one.                          *)
Absent == 0

Nil == "nil"
Fields == {"frequencyStatus", "phaseStatus", "phaseOffset"}
Nothing == [from |-> [clockId |-> Nil], change |-> Absent]

-----------------------------------------------------------------------------
(* What the code makes of a message.                                       *)

(* PhaseOffsetPin, for a pin that was sent with a phase offset.            *)
PhaseOffsetPin(pin) ==
  /\ pin.clockId = clockId
  /\ \A label \in DOMAIN pinFilter : pin[label] = pinFilter[label]

(* nlUpdateState: the fields a source is recorded in.  A slip: the DPLL of *)
(* any card.                                                               *)
FieldsOfAnyClock(source) ==
  {f \in Fields :
     \/ /\ source \in Devices
        /\ \/ source.type = "eec" /\ f = "frequencyStatus"
           \/ source.type = "pps" /\ f = "phaseStatus"
     \/ source \notin Devices /\ PhaseOffsetPin(source) /\ f = "phaseOffset"}

FieldsOf(source) ==
  {f \in Fields :
     \/ /\ source \in Devices
        /\ source.clockId = clockId
        /\ \/ source.type = "eec" /\ f = "frequencyStatus"
           \/ source.type = "pps" /\ f = "phaseStatus"
     \/ source \notin Devices /\ PhaseOffsetPin(source) /\ f = "phaseOffset"}

(* nlUpdateState on one message.                                           *)
Record(m) ==
  [f \in Fields |->
     IF m.change # Absent /\ f \in FieldsOf(m.from) THEN m ELSE seen[f]]

(* The message a source sends of its last change.                          *)
Status(s) == [from |-> s, change |-> hw[s]]

(* nlUpdateState on a dump, in which some devices have no lock status.     *)
RecordDump(valid) ==
  [f \in Fields |->
     IF \E d \in valid : f \in FieldsOf(d)
     THEN Status(CHOOSE d \in valid : f \in FieldsOf(d))
     ELSE seen[f]]

-----------------------------------------------------------------------------
(* The kernel.                                                             *)

(* A message is sent to the socket; a full socket drops it.                *)
Send(m) ==
  IF ~joined
  THEN UNCHANGED <<queue, overrun>>
  ELSE IF Len(queue) < MaxQueue
       THEN queue' = Append(queue, m) /\ UNCHANGED overrun
       ELSE overrun' = TRUE /\ UNCHANGED queue

(* A device or pin changes.  A change between the dump and the join is in  *)
(* neither.                                                                *)
Change(s) ==
  /\ hw[s] < MaxChanges[s]
  /\ hw' = [hw EXCEPT ![s] = @ + 1]
  /\ Send([from |-> s, change |-> hw[s] + 1])
  /\ missed' = IF pc = "join" THEN missed \cup {s} ELSE missed \ {s}
  /\ UNCHANGED <<joined, ntf, seen>>
  /\ UNCHANGED monitor

(* A notification that nlUpdateState finds nothing in: a device without a  *)
(* lock status, a pin without an offset, or a command that is not handled. *)
OtherNtf ==
  /\ Send(Nothing)
  /\ UNCHANGED <<hw, joined, missed, ntf, seen>>
  /\ UNCHANGED monitor

(* stopDpll: the socket is closed with what it holds.                      *)
StopDpll ==
  /\ conn' = Nil
  /\ joined' = FALSE
  /\ queue' = <<>>
  /\ overrun' = FALSE

-----------------------------------------------------------------------------
(* MonitorDpllNetlink.                                                     *)

(* A slip: the group is joined before the dump, so that the socket holds   *)
(* messages that are older than it.                                        *)
DialAndJoin ==
  /\ pc = "dial"
  /\ \/ conn' = "open" /\ pc' = "dump" /\ joined' = TRUE
     \/ conn' = Nil /\ pc' = "loop" /\ UNCHANGED joined
  /\ UNCHANGED <<hw, queue, overrun, missed, sem, ntf, exitCh, seen>>

(* Dial, and GetMcastGroupId on the family it looked up.                   *)
Dial ==
  /\ pc = "dial"
  /\ \/ conn' = "open" /\ pc' = "dump"
     \/ conn' = Nil /\ pc' = "loop"
  /\ UNCHANGED <<sem, ntf, exitCh, seen>>
  /\ UNCHANGED hardware

DumpDeviceGet ==
  /\ pc = "dump"
  /\ \/ \E valid \in SUBSET Devices :
          /\ seen' = RecordDump(valid)
          /\ missed' = Devices \ valid
          /\ pc' = "join"
          /\ UNCHANGED <<queue, overrun, joined, conn>>
     \/ StopDpll /\ pc' = "loop" /\ UNCHANGED <<missed, seen>>
  /\ UNCHANGED <<hw, sem, ntf, exitCh>>

(* JoinGroup, a new semaphore and the goroutine that holds it.             *)
JoinGroup ==
  /\ pc = "join"
  /\ pc' = "loop"
  /\ \/ /\ joined' = TRUE
        /\ sem' = "held"
        /\ ntf' = "receive"
        /\ UNCHANGED <<queue, overrun, conn>>
     \/ StopDpll /\ UNCHANGED <<sem, ntf>>
  /\ UNCHANGED <<hw, missed, exitCh, seen>>

(* sem.Acquire: the goroutine has ended.  The monitor keeps the semaphore. *)
Redial ==
  /\ pc = "loop"
  /\ sem = "free"
  /\ sem' = "held"
  /\ ntf' = "off"
  /\ StopDpll
  /\ pc' = "dial"
  /\ UNCHANGED <<hw, missed, exitCh, seen>>

CmdStop ==
  /\ ~exitCh
  /\ exitCh' = TRUE
  /\ UNCHANGED <<pc, conn, sem, ntf, seen>>
  /\ UNCHANGED hardware

Exit ==
  /\ pc = "loop"
  /\ exitCh
  /\ StopDpll
  /\ pc' = "done"
  /\ UNCHANGED <<hw, missed, sem, ntf, exitCh, seen>>

-----------------------------------------------------------------------------
(* monitorNtf.                                                             *)

(* Receive returns the first n messages.  Each is parsed, and the devices  *)
(* and pins of the last one are recorded.                                  *)
Receive(n) ==
  /\ ntf = "receive"
  /\ conn = "open"
  /\ ~overrun
  /\ n \in 1 .. Len(queue)
  /\ seen' = Record(queue[n])
  /\ missed' = missed \cup {d \in Devices : \E i \in 1 .. n - 1 :
                                queue[i] = Status(d)}
  /\ queue' = SubSeq(queue, n + 1, Len(queue))
  /\ UNCHANGED <<hw, overrun, joined, ntf>>
  /\ UNCHANGED monitor

(* A slip: the semaphore is not released.                                  *)
NtfReturnsHolding ==
  /\ ntf = "receive"
  /\ ntf' = "off"
  /\ UNCHANGED <<pc, conn, sem, exitCh, seen>>
  /\ UNCHANGED hardware

(* Receive fails, or a message cannot be parsed: the goroutine ends, and   *)
(* the deferred sem.Release runs.                                          *)
NtfReturns ==
  /\ ntf = "receive"
  /\ ntf' = "off"
  /\ sem' = "free"
  /\ UNCHANGED <<pc, conn, exitCh, seen>>
  /\ UNCHANGED hardware

-----------------------------------------------------------------------------
Init ==
  /\ hw = [s \in Sources |-> 1]
  /\ queue = <<>>
  /\ overrun = FALSE
  /\ joined = FALSE
  /\ missed = {}
  /\ pc = "dial"
  /\ conn = Nil
  /\ sem = Nil
  /\ ntf = "off"
  /\ exitCh = FALSE
  /\ seen = [f \in Fields |-> Nothing]

Monitor == Dial \/ DumpDeviceGet \/ JoinGroup \/ Redial \/ Exit

Next ==
  \/ \E s \in Sources : Change(s)
  \/ OtherNtf
  \/ Monitor
  \/ CmdStop
  \/ \E n \in 1 .. MaxBatch : Receive(n)
  \/ NtfReturns

Spec == Init /\ [][Next]_vars

(* The goroutines are scheduled.  Receive returns what there is to return, *)
(* and fails when a message was dropped or the connection is closed; other *)
(* errors may happen or not.                                               *)
Fairness ==
  /\ WF_vars(Monitor)
  /\ WF_vars(\E n \in 1 .. MaxBatch : Receive(n))
  /\ WF_vars((overrun \/ conn = Nil) /\ NtfReturns)

FairSpec == Spec /\ Fairness

-----------------------------------------------------------------------------
(* Properties.                                                             *)

Messages == [from : Sources, change : Nat \ {Absent}] \cup {Nothing}

(* Every variable has its type.                                            *)
TypeOK ==
  /\ hw \in [Sources -> Nat \ {Absent}]
  /\ queue \in Seq(Messages)
  /\ overrun \in BOOLEAN
  /\ joined \in BOOLEAN
  /\ missed \subseteq Sources
  /\ pc \in {"dial", "dump", "join", "loop", "done"}
  /\ conn \in {Nil, "open"}
  /\ sem \in {Nil, "held", "free"}
  /\ ntf \in {"off", "receive"}
  /\ exitCh \in BOOLEAN
  /\ seen \in [Fields -> Messages]

(* What is recorded of a device or pin is never replaced by something      *)
(* older, whether it comes from a dump, from a notification that was       *)
(* queued before or from the connection made after a failure.              *)
NeverOlder ==
  [][\A f \in Fields :
       seen'[f].from = seen[f].from => seen'[f].change >= seen[f].change]_vars

(* When the goroutine has read all there is, the status recorded for a     *)
(* field is the current one of the device of this card, unless its last    *)
(* change was missed: nothing is lost on the way from the first dump,      *)
(* through the socket and the reconnections.                               *)
InStep ==
  ntf = "receive" /\ conn = "open" /\ ~overrun /\ queue = <<>> =>
    \A d \in Devices \ missed : \A f \in FieldsOf(d) : seen[f] = Status(d)

(* The monitor has no connection and will not dial again: after a failure  *)
(* the semaphore is nil or its own.                                        *)
GaveUp == pc = "loop" /\ conn = Nil

(* The status of every device of the card is recorded in the end: a reader *)
(* that ends, because a message was dropped or could not be parsed, is     *)
(* replaced by a new dump and a new reader.                                *)
StatusIsRecorded ==
  \A d \in Devices : \A f \in FieldsOf(d) :
    <>[](seen[f] = Status(d) \/ d \in missed \/ GaveUp \/ pc = "done")

-----------------------------------------------------------------------------
(* Statements the code does not satisfy.                                   *)

(* No change is missed: but one between the dump and the join is, and so   *)
(* is one that shares a batch with a later message.                        *)
NothingMissed ==
  \A d \in Devices : \A f \in FieldsOf(d) :
    <>[](seen[f] = Status(d) \/ GaveUp \/ pc = "done")

(* A failure to dial, to dump or to join is tried again.                   *)
FailureIsRetried == GaveUp ~> (pc # "loop" \/ conn # Nil)
=============================================================================
