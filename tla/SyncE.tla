------------------------------- MODULE SyncE --------------------------------
(***************************************************************************)
(* SyncE: the devices of a synce4l configuration (extractSynceRelations in *)
(* pkg/daemon/config.go), the lines of synce4l's log that the daemon       *)
(* handles (ParseLog, ProcessSynceEvents), and the quality levels they are *)
(* translated to (pkg/synce).  synce4l logs the quality level of a port,   *)
(* and the extended one in a line of its own; the daemon puts them         *)
(* together.  Lines about a device instead of a port ("EEC_LOCKED on       *)
(* synce1") have no source and are not used, and are left out.             *)
(*                                                                         *)
(* An external source section only sets a name nobody reads.  synce4l logs *)
(* extended levels only if the device has extended_tlv, so the case of one *)
(* that is logged without it does not arise.                               *)
(***************************************************************************)
EXTENDS Naturals, Sequences, FiniteSets, PtpState

CONSTANTS
  Ports,        \* the names of interfaces
  DeviceNames,
  Configs,      \* configurations: sequences of sections
  Levels,       \* the pairs of a level and an extended one that synce4l sends
  EECStates,    \* states of the clock synce4l reports
  MaxLines,     \* bound on the unread output of synce4l
  MaxEvents     \* capacity of the event channel

QL_DEFAULT_SSM == 3
QL_DEFAULT_ENHSSM == 255
ExtendedTLV_DISABLED == 0
ExtendedTLV_ENABLED == 1

DeviceSections == [kind : {"device"}, name : DeviceNames, option : {1, 2}, tlv : {0, 1}]
PortSections == [kind : {"port"}, name : Ports]

(* The lines of a configuration without a device are not used.             *)
ASSUME SyncEAssumption ==
  /\ Configs \subseteq Seq(DeviceSections \cup PortSections)
  /\ \A c \in Configs : \E d \in DOMAIN c : c[d].kind = "device"
  /\ Levels \subseteq ((0 .. 15) \ {QL_DEFAULT_SSM}) \X ((0 .. 255) \ {QL_DEFAULT_SSM})
  /\ EECStates \subseteq {"EEC_INVALID", "EEC_FREERUN", "EEC_LOCKED",
                          "EEC_LOCKED_HO_ACQ", "EEC_HOLDOVER"}
  /\ MaxLines \in Nat
  /\ MaxEvents \in Nat

VARIABLES
  conf,            \* the configuration, a sequence of sections
  up,              \* "run", "down" after a crash, "stopped"
  sent,            \* the levels a port sends: none, ssm, ext, and what is logged
  lines,           \* output of synce4l the daemon has not read
  LastQLState,     \* per port; None, or both levels
  LastClockState,  \* per device section
  qlMetric,        \* SynceQLInfo, per device section and port
  eventCh,
  clockState       \* ClockState of synce4l, per port

vars == <<conf, up, sent, lines, LastQLState, LastClockState, qlMetric, eventCh,
          clockState>>

None == <<>>
Unset == ""    \* a state or a quality that is not there

-----------------------------------------------------------------------------
(* extractSynceRelations and SyncEDeviceByInterface.  A device is named by *)
(* the index of its section.                                               *)

Devices == {i \in DOMAIN conf : conf[i].kind = "device"}

(* The list of ports is put into a device when the next one begins, and is *)
(* not emptied.                                                            *)
Ifaces(d) ==
  {conf[j].name : j \in {j \in DOMAIN conf :
     conf[j].kind = "port" /\ \A e \in Devices : e > d => j < e}}

(* A slip: the last device with the port is taken. *)
SyncEDeviceByInterfaceLast(p) ==
  CHOOSE d \in Devices : p \in Ifaces(d) /\ \A e \in Devices : p \in Ifaces(e) => e <= d

(* The first device with the port.                                         *)
SyncEDeviceByInterface(p) ==
  CHOOSE d \in Devices : p \in Ifaces(d) /\ \A e \in Devices : p \in Ifaces(e) => d <= e

Known(p) == \E d \in Devices : p \in Ifaces(d)
PortsOf(c) == {c[j].name : j \in {j \in DOMAIN c : c[j].kind = "port"}}

-----------------------------------------------------------------------------
(* Config.ClockQuality                                                     *)

qualityLevelInfo(option) ==
  IF option = 1
  THEN {[name |-> "EPRTC", priority |-> 0, ssm |-> 2, ext |-> 33],
        [name |-> "PRTC", priority |-> 1, ssm |-> 2, ext |-> 32],
        [name |-> "PRC", priority |-> 2, ssm |-> 2, ext |-> 255],
        [name |-> "SSUA", priority |-> 3, ssm |-> 4, ext |-> 255],
        [name |-> "SSUB", priority |-> 4, ssm |-> 8, ext |-> 255],
        [name |-> "EEC1", priority |-> 5, ssm |-> 11, ext |-> 255],
        [name |-> "DNU", priority |-> 6, ssm |-> 15, ext |-> 255]}
  ELSE {[name |-> "EPRTC", priority |-> 0, ssm |-> 1, ext |-> 33],
        [name |-> "PRTC", priority |-> 1, ssm |-> 1, ext |-> 32],
        [name |-> "PRS", priority |-> 2, ssm |-> 1, ext |-> 255],
        [name |-> "STU", priority |-> 3, ssm |-> 0, ext |-> 255],
        [name |-> "ST2", priority |-> 4, ssm |-> 7, ext |-> 255],
        [name |-> "UNKNOWN", priority |-> 5, ssm |-> 4, ext |-> 255],
        [name |-> "ST3E", priority |-> 6, ssm |-> 13, ext |-> 255],
        [name |-> "EEC2", priority |-> 7, ssm |-> 10, ext |-> 255],
        [name |-> "PROV", priority |-> 8, ssm |-> 14, ext |-> 255],
        [name |-> "DUS", priority |-> 9, ssm |-> 15, ext |-> 255]}

Compare(info, ssm, ext) ==
  info.ssm = ssm /\ (ext = QL_DEFAULT_SSM \/ info.ext = ext)

(* A slip: a missing extended level is not replaced. *)
ExtOrAny(dev, ext) == IF dev.tlv = ExtendedTLV_DISABLED THEN QL_DEFAULT_SSM ELSE ext

ExtOrDefault(dev, ext) ==
  IF dev.tlv = ExtendedTLV_DISABLED THEN QL_DEFAULT_ENHSSM ELSE ext

(* The names ClockQuality may return: the table is a map, and its rows are *)
(* tried in any order.                                                     *)
ClockQuality(dev, ssm, ext) ==
  LET rows == {info \in qualityLevelInfo(dev.option) :
                 Compare(info, ssm, ExtOrDefault(dev, ext))}
  IN IF dev.tlv = ExtendedTLV_ENABLED /\ ext = QL_DEFAULT_SSM THEN {Unset}
     ELSE IF rows # {} THEN {info.name : info \in rows}
     ELSE IF dev.option = 1 THEN {"DNU"} ELSE {"DUS"}

-----------------------------------------------------------------------------
(* ProcessSynceEvents                                                      *)

ToPTPState(s) ==
  CASE s = "EEC_FREERUN" -> FREERUN
    [] s \in {"EEC_LOCKED", "EEC_LOCKED_HO_ACQ"} -> LOCKED
    [] s = "EEC_HOLDOVER" -> HOLDOVER
    [] OTHER -> UNKNOWN

(* A slip: the channel takes one event more than it can hold. *)
SendOneMore(e) ==
  eventCh' = IF Len(eventCh) <= MaxEvents THEN Append(eventCh, e) ELSE eventCh

(* The event is dropped when the channel is full.                          *)
Send(e) == eventCh' = IF Len(eventCh) < MaxEvents THEN Append(eventCh, e) ELSE eventCh

QualityEvent(p, d, ssm, ext) ==
  \E quality \in ClockQuality(conf[d], ssm, ext) :
    Send([port |-> p, state |-> LastClockState[d], ssm |-> ssm, ext |-> ext,
          quality |-> quality])

ProcessState(p, state) ==
  LET d == SyncEDeviceByInterface(p) IN
    /\ LastClockState' = [LastClockState EXCEPT ![d] = ToPTPState(state)]
    /\ Send([port |-> p, state |-> ToPTPState(state), ssm |-> 0, ext |-> 0,
             quality |-> Unset])
    /\ UNCHANGED <<LastQLState, qlMetric>>

(* Without extended levels a level is complete,                            *)
ProcessQL(p, ssm) ==
  LET d == SyncEDeviceByInterface(p) IN
    /\ conf[d].tlv = ExtendedTLV_DISABLED
    /\ LastQLState' = [LastQLState EXCEPT ![p] = <<ssm, QL_DEFAULT_ENHSSM>>]
    /\ qlMetric' = [qlMetric EXCEPT ![<<d, p>>] = <<ssm, QL_DEFAULT_ENHSSM>>]
    /\ QualityEvent(p, d, ssm, 0)
    /\ UNCHANGED LastClockState

(* A slip: only the first level of a port is kept. *)
ProcessQLWaitsOnce(p, ssm) ==
  /\ conf[SyncEDeviceByInterface(p)].tlv = ExtendedTLV_ENABLED
  /\ LastQLState' = [LastQLState EXCEPT ![p] =
                       IF @ = None THEN <<ssm, QL_DEFAULT_SSM>> ELSE @]
  /\ UNCHANGED <<LastClockState, qlMetric, eventCh>>

(* with them it waits for the extended one,                                *)
ProcessQLWaits(p, ssm) ==
  /\ conf[SyncEDeviceByInterface(p)].tlv = ExtendedTLV_ENABLED
  /\ LastQLState' = [LastQLState EXCEPT ![p] =
                       IF @ = None THEN <<ssm, QL_DEFAULT_SSM>> ELSE <<ssm, @[2]>>]
  /\ UNCHANGED <<LastClockState, qlMetric, eventCh>>

(* which is put together with the last level; that one is 0 if there was   *)
(* none yet.                                                               *)
ProcessExtQL(p, ext) ==
  LET d == SyncEDeviceByInterface(p)
      ssm == IF LastQLState[p] = None THEN 0 ELSE LastQLState[p][1]
  IN
    /\ conf[d].tlv = ExtendedTLV_ENABLED
    /\ LastQLState' = [LastQLState EXCEPT ![p] = <<ssm, ext>>]
    /\ qlMetric' = [qlMetric EXCEPT ![<<d, p>>] = <<ssm, ext>>]
    /\ QualityEvent(p, d, ssm, ext)
    /\ UNCHANGED LastClockState

ReadLine ==
  /\ lines # <<>>
  /\ LET l == Head(lines) IN
       \/ l.kind = "state" /\ ProcessState(l.port, l.value)
       \/ l.kind = "QL" /\ ProcessQL(l.port, l.value)
       \/ l.kind = "QL" /\ ProcessQLWaits(l.port, l.value)
       \/ l.kind = "EXT_QL" /\ ProcessExtQL(l.port, l.value)
  /\ lines' = Tail(lines)
  /\ UNCHANGED <<conf, up, sent, clockState>>

(* The event handler; the metric of a state that is not known is 3.        *)
UpdateClockStateMetrics(e) ==
  clockState' = [clockState EXCEPT ![e.port] =
                   IF e.state \in {LOCKED, FREERUN, HOLDOVER} THEN e.state ELSE UNKNOWN]

HandleEvent ==
  /\ eventCh # <<>>
  /\ UpdateClockStateMetrics(Head(eventCh))
  /\ eventCh' = Tail(eventCh)
  /\ UNCHANGED <<conf, up, sent, lines, LastQLState, LastClockState, qlMetric>>

(* A slip: only the ports that belong to the last device are cleaned up. *)
StopLast ==
  /\ up # "stopped"
  /\ lines = <<>>
  /\ up' = "stopped"
  /\ qlMetric' = [k \in DOMAIN qlMetric |->
                    IF \A e \in Devices : e <= k[1] THEN None ELSE qlMetric[k]]
  /\ clockState' = [p \in Ports |-> IF Known(p) THEN Unset ELSE clockState[p]]
  /\ UNCHANGED <<conf, sent, lines, LastQLState, LastClockState, eventCh>>

(* The process is stopped, its output was read to the end, and             *)
(* deleteSyncEMetrics removes the metrics of every device and its ports.   *)
Stop ==
  /\ up # "stopped"
  /\ lines = <<>>
  /\ up' = "stopped"
  /\ qlMetric' = [k \in DOMAIN qlMetric |->
                    IF k[1] \in Devices /\ k[2] \in Ifaces(k[1]) THEN None
                    ELSE qlMetric[k]]
  /\ clockState' = [p \in Ports |-> IF Known(p) THEN Unset ELSE clockState[p]]
  /\ UNCHANGED <<conf, sent, lines, LastQLState, LastClockState, eventCh>>

-----------------------------------------------------------------------------
(* synce4l                                                                 *)

Log(kind, p, value) ==
  lines' = Append(lines, [kind |-> kind, port |-> p, value |-> value])

LogState(p) ==
  /\ up = "run"
  /\ Len(lines) < MaxLines
  /\ \E s \in EECStates : Log("state", p, s)
  /\ UNCHANGED <<conf, up, sent, LastQLState, LastClockState, qlMetric, eventCh,
                 clockState>>

(* tx_rebuild_tlv logs the new level                                       *)
LogQL(p) ==
  /\ up = "run"
  /\ Len(lines) < MaxLines
  /\ sent[p].logged
  /\ \E levels \in Levels :
       /\ conf[SyncEDeviceByInterface(p)].tlv = ExtendedTLV_DISABLED
            => levels[2] = QL_DEFAULT_ENHSSM
       /\ sent' = [sent EXCEPT ![p] =
            [levels |-> levels,
             logged |-> conf[SyncEDeviceByInterface(p)].tlv = ExtendedTLV_DISABLED]]
       /\ Log("QL", p, levels[1])
  /\ UNCHANGED <<conf, up, LastQLState, LastClockState, qlMetric, eventCh, clockState>>

(* and the extended one.                                                   *)
LogExtQL(p) ==
  /\ up = "run"
  /\ Len(lines) < MaxLines
  /\ ~sent[p].logged
  /\ sent' = [sent EXCEPT ![p].logged = TRUE]
  /\ Log("EXT_QL", p, sent[p].levels[2])
  /\ UNCHANGED <<conf, up, LastQLState, LastClockState, qlMetric, eventCh, clockState>>

Crash ==
  /\ up = "run"
  /\ up' = "down"
  /\ UNCHANGED <<conf, sent, lines, LastQLState, LastClockState, qlMetric, eventCh,
                 clockState>>

(* cmdRun starts it again when it has read the output.                     *)
Restart ==
  /\ up = "down"
  /\ lines = <<>>
  /\ up' = "run"
  /\ sent' = [p \in Ports |-> [levels |-> None, logged |-> TRUE]]
  /\ UNCHANGED <<conf, lines, LastQLState, LastClockState, qlMetric, eventCh,
                 clockState>>

Init ==
  /\ conf \in Configs
  /\ up = "run"
  /\ sent = [p \in Ports |-> [levels |-> None, logged |-> TRUE]]
  /\ lines = <<>>
  /\ LastQLState = [p \in Ports |-> None]
  /\ LastClockState = [d \in DOMAIN conf |-> Unset]
  /\ qlMetric = [k \in (DOMAIN conf) \X Ports |-> None]
  /\ eventCh = <<>>
  /\ clockState = [p \in Ports |-> Unset]

Synce4l(p) == p \in PortsOf(conf) /\ (LogState(p) \/ LogQL(p) \/ LogExtQL(p))

Next ==
  \/ ReadLine \/ HandleEvent \/ Stop
  \/ \E p \in Ports : Synce4l(p)
  \/ Crash \/ Restart

Spec == Init /\ [][Next]_vars

-----------------------------------------------------------------------------
(* Properties.                                                             *)

PtpStates == {FREERUN, LOCKED, HOLDOVER, UNKNOWN, Unset}
Qualities == {Unset} \cup {info.name : info \in qualityLevelInfo(1) \cup qualityLevelInfo(2)}
Bytes == 0 .. 255

(* Every variable has its type, and no channel overflows.                  *)
TypeOK ==
  /\ conf \in Configs
  /\ up \in {"run", "down", "stopped"}
  /\ sent \in [Ports -> [levels : Levels \cup {None}, logged : BOOLEAN]]
  /\ lines \in Seq([kind : {"state"}, port : PortsOf(conf), value : EECStates] \cup
                   [kind : {"QL", "EXT_QL"}, port : PortsOf(conf), value : Bytes])
  /\ Len(lines) <= MaxLines
  /\ LastQLState \in [Ports -> (Bytes \X Bytes) \cup {None}]
  /\ LastClockState \in [DOMAIN conf -> PtpStates]
  /\ qlMetric \in [(DOMAIN conf) \X Ports -> (Bytes \X Bytes) \cup {None}]
  /\ eventCh \in Seq([port : Ports, state : PtpStates, ssm : Bytes, ext : Bytes,
                      quality : Qualities])
  /\ Len(eventCh) <= MaxEvents
  /\ clockState \in [Ports -> PtpStates]

(* The first section of a port, if a device precedes it.                   *)
IsFirst(j) ==
  /\ conf[j].kind = "port"
  /\ \A i \in 1 .. j - 1 : conf[i].kind = "port" => conf[i].name # conf[j].name
  /\ \E d \in Devices : d < j

(* A port belongs to the device whose section precedes it, as the comment  *)
(* on extractSynceRelations has it, although the list of ports is never    *)
(* emptied.                                                                *)
DeviceIsItsSection ==
  \A j \in DOMAIN conf : IsFirst(j) =>
    LET d == SyncEDeviceByInterface(conf[j].name) IN
      d < j /\ \A e \in Devices : e < j => e <= d

(* When the output has been read the levels in the metrics are the pair    *)
(* the port sends: a level is never put together with an extended level of *)
(* another time, whatever other ports log in between and although synce4l  *)
(* may crash between the two lines.                                        *)
LevelsAreSent ==
  up = "run" /\ lines = <<>> =>
    \A p \in PortsOf(conf) :
      sent[p].logged /\ sent[p].levels # None
        => qlMetric[<<SyncEDeviceByInterface(p), p>>] = sent[p].levels

(* The quality of an event is that of the best row of the table with its   *)
(* levels, in whichever order the map is walked.                           *)
QualityIsBest ==
  \A i \in DOMAIN eventCh : eventCh[i].quality # Unset =>
    LET e == eventCh[i]
        dev == conf[SyncEDeviceByInterface(e.port)]
        ext == IF dev.tlv = ExtendedTLV_ENABLED THEN e.ext ELSE QL_DEFAULT_ENHSSM
        rows == {r \in qualityLevelInfo(dev.option) : r.ssm = e.ssm /\ r.ext = ext}
    IN IF rows = {} THEN e.quality \in {"DNU", "DUS"}
       ELSE \E r \in rows : r.name = e.quality /\ \A s \in rows : r.priority <= s.priority

(* After the process was stopped no quality metric of it is left.          *)
NoMetricLeft == up = "stopped" => \A k \in DOMAIN qlMetric : qlMetric[k] = None

-----------------------------------------------------------------------------
(* Statements the code does not satisfy.                                   *)

(* Nor is a clock state: an event that is handled late puts it back.       *)
NoClockStateLeft == up = "stopped" => \A p \in Ports : clockState[p] = Unset

(* The ports of a device are those between its section and the next one.   *)
IfacesAreItsSections ==
  \A d \in Devices : \A j \in DOMAIN conf :
    conf[j].kind = "port" /\ conf[j].name \in Ifaces(d) => d < j
=============================================================================
