----------------------------- MODULE SyncEProofs -----------------------------
(***************************************************************************)
(* The quality levels the daemon shows are the pairs the ports send, for   *)
(* any configuration, any number of ports, any length of the unread output *)
(* and any capacity of the event channel; their quality is the best that   *)
(* applies, and none is left when synce4l was stopped.                     *)
(*                                                                         *)
(* A level that a port sends is in the last unread line with a level of    *)
(* its kind, or there is no such line and the daemon has the level.        *)
(***************************************************************************)
EXTENDS SyncE, WellFoundedInduction, TLAPS

Kinds == {"QL", "EXT_QL"}
StateLines == [kind : {"state"}, port : PortsOf(conf), value : EECStates]
LevelLines == [kind : Kinds, port : PortsOf(conf), value : Bytes]
Lines == StateLines \cup LevelLines
Events == [port : Ports, state : PtpStates, ssm : Bytes, ext : Bytes,
           quality : Qualities]

(* The last element of s in A is in B, or no element of s is in A.         *)
LastIn(s, A, B) ==
  \E i \in 1 .. Len(s) : s[i] \in B /\ \A j \in i + 1 .. Len(s) : s[j] \notin A
NoneIn(s, A) == \A i \in 1 .. Len(s) : s[i] \notin A

LinesOf(p) == {l \in LevelLines : l.port = p}
SSMLines(p) == {l \in LinesOf(p) : l.kind = "QL"}

(* The line that completes the levels of a port.                           *)
HasTLV(p) == conf[SyncEDeviceByInterface(p)].tlv = ExtendedTLV_ENABLED
LastLine(p) ==
  IF HasTLV(p)
  THEN [kind |-> "EXT_QL", port |-> p, value |-> sent[p].levels[2]]
  ELSE [kind |-> "QL", port |-> p, value |-> sent[p].levels[1]]

Sending(p) == p \in PortsOf(conf) /\ sent[p].levels # None

(* Both levels are logged at once if there are no extended ones.           *)
LogsBoth ==
  \A p \in PortsOf(conf) :
    /\ ~sent[p].logged => HasTLV(p) /\ sent[p].levels # None
    /\ sent[p].levels # None /\ ~HasTLV(p) => sent[p].levels[2] = QL_DEFAULT_ENHSSM

(* The first level of a port waits for the extended one.                   *)
SSMTold ==
  \A p \in PortsOf(conf) : Sending(p) /\ HasTLV(p) =>
    \/ LastIn(lines, SSMLines(p), {l \in SSMLines(p) : l.value = sent[p].levels[1]})
    \/ /\ NoneIn(lines, SSMLines(p))
       /\ LastQLState[p] # None /\ LastQLState[p][1] = sent[p].levels[1]

(* The last line about a port completes its levels, or they are stored.    *)
LevelsTold ==
  \A p \in PortsOf(conf) : Sending(p) /\ sent[p].logged /\ up # "stopped" =>
    \/ LastIn(lines, LinesOf(p), {LastLine(p)})
    \/ /\ NoneIn(lines, LinesOf(p))
       /\ qlMetric[<<SyncEDeviceByInterface(p), p>>] = sent[p].levels

(* Metrics are of ports of devices, and gone after a stop.                 *)
MetricsOfPorts ==
  /\ \A k \in DOMAIN qlMetric :
       qlMetric[k] # None => k[1] \in Devices /\ k[2] \in Ifaces(k[1])
  /\ up = "stopped" => lines = <<>> /\ \A k \in DOMAIN qlMetric : qlMetric[k] = None

TypeInv == TypeOK /\ LogsBoth
IInv == TypeInv /\ SSMTold /\ LevelsTold /\ MetricsOfPorts

-----------------------------------------------------------------------------
(* Sequences of lines.                                                     *)

LEMMA NoneTail ==
  ASSUME NEW S, NEW s \in Seq(S), s # <<>>, NEW A, NoneIn(s, A)
  PROVE  Head(s) \notin A /\ NoneIn(Tail(s), A)
BY DEF NoneIn

LEMMA LastTail ==
  ASSUME NEW S, NEW s \in Seq(S), s # <<>>, NEW A, NEW B, LastIn(s, A, B)
  PROVE  \/ LastIn(Tail(s), A, B)
         \/ Head(s) \in B /\ NoneIn(Tail(s), A)
<1>1. PICK i \in 1 .. Len(s) : s[i] \in B /\ \A j \in i + 1 .. Len(s) : s[j] \notin A
  BY DEF LastIn
<1>2. /\ Len(Tail(s)) = Len(s) - 1 /\ Len(s) \in Nat
      /\ \A j \in 1 .. Len(Tail(s)) : Tail(s)[j] = s[j + 1] /\ j + 1 \in 1 .. Len(s)
  OBVIOUS
<1>3. CASE i = 1
  <2>1. Head(s) \in B
    BY <1>1, <1>3
  <2>2. NoneIn(Tail(s), A)
    BY <1>1, <1>2, <1>3 DEF NoneIn
  <2> QED
    BY <2>1, <2>2
<1>4. CASE i # 1
  <2>1. i - 1 \in 1 .. Len(Tail(s)) /\ Tail(s)[i - 1] = s[i]
    BY <1>2, <1>4
  <2>2. \A j \in (i - 1) + 1 .. Len(Tail(s)) : Tail(s)[j] \notin A
    BY <1>1, <1>2, <1>4
  <2> QED
    BY <1>1, <2>1, <2>2 DEF LastIn
<1> QED
  BY <1>3, <1>4

LEMMA AppendOther ==
  ASSUME NEW S, NEW s \in Seq(S), NEW x \in S, NEW A, NEW B, x \notin A
  PROVE  /\ LastIn(s, A, B) => LastIn(Append(s, x), A, B)
         /\ NoneIn(s, A) => NoneIn(Append(s, x), A)
BY DEF LastIn, NoneIn

LEMMA AppendLast ==
  ASSUME NEW S, NEW s \in Seq(S), NEW x \in S, NEW A, NEW B, x \in B
  PROVE  LastIn(Append(s, x), A, B)
<1>1. /\ Len(s) + 1 \in 1 .. Len(Append(s, x)) /\ Append(s, x)[Len(s) + 1] = x
      /\ \A j \in (Len(s) + 1) + 1 .. Len(Append(s, x)) : FALSE
  OBVIOUS
<1> QED
  BY <1>1 DEF LastIn

LEMMA Emptied ==
  ASSUME NEW A, NEW B
  PROVE  ~LastIn(<<>>, A, B) /\ NoneIn(<<>>, A)
BY DEF LastIn, NoneIn

-----------------------------------------------------------------------------
(* The devices of a configuration: every port has a first one.             *)

LEMMA MinExists ==
  ASSUME NEW T \in SUBSET Nat, T # {}
  PROVE  \E m \in T : \A x \in T : m <= x
<1> DEFINE R == {ss \in Nat \X Nat : ss[1] < ss[2]}
<1>1. IsWellFoundedOn(R, Nat)
  BY NatLessThanWellFounded, Zenon DEF OpToRel
<1>2. \E m \in T : \A x \in T : ~(<<x, m>> \in R)
  BY <1>1, WFMin, Zenon
<1>3. \A x, m \in Nat : <<x, m>> \notin R => m <= x
  OBVIOUS
<1> QED
  BY <1>2, <1>3

LEMMA MaxExists ==
  ASSUME NEW n \in Nat, NEW S \in SUBSET (0 .. n), S # {}
  PROVE  \E m \in S : \A x \in S : x <= m
<1> DEFINE T == {n - x : x \in S}
<1>1. T \in SUBSET Nat /\ T # {}
  <2>1. \A x \in S : n - x \in Nat
    OBVIOUS
  <2> QED
    BY <2>1
<1>2. PICK m \in T : \A y \in T : m <= y
  BY <1>1, MinExists
<1>3. PICK x \in S : m = n - x
  BY <1>2
<1>4. \A y \in S : y <= x
  BY <1>2, <1>3
<1> QED
  BY <1>4

LEMMA ConfType ==
  ASSUME conf \in Configs
  PROVE  /\ DOMAIN conf = 1 .. Len(conf) /\ Len(conf) \in Nat
         /\ Devices \in SUBSET (0 .. Len(conf)) /\ Devices \subseteq DOMAIN conf
         /\ Devices # {}
         /\ PortsOf(conf) \subseteq Ports
         /\ \A d \in Devices : conf[d].tlv \in {0, 1} /\ conf[d].option \in {1, 2}
<1>1. conf \in Seq(DeviceSections \cup PortSections)
  BY SyncEAssumption
<1>2. \E d \in DOMAIN conf : conf[d].kind = "device"
  BY SyncEAssumption
<1>3. \A i \in DOMAIN conf : conf[i] \in DeviceSections \cup PortSections
  BY <1>1
<1>4. DOMAIN conf = 1 .. Len(conf) /\ Len(conf) \in Nat
  BY <1>1
<1>5. \A s \in DeviceSections \cup PortSections :
        /\ s.kind = "device" => s.tlv \in {0, 1} /\ s.option \in {1, 2}
        /\ s.kind = "port" => s.name \in Ports
  BY DEF DeviceSections, PortSections
<1>6. PortsOf(conf) \subseteq Ports
  BY <1>3, <1>5 DEF PortsOf
<1>7. Devices \in SUBSET (0 .. Len(conf)) /\ Devices \subseteq DOMAIN conf
  BY <1>4 DEF Devices
<1>8. Devices # {}
  BY <1>2 DEF Devices
<1>9. \A d \in Devices : conf[d].tlv \in {0, 1} /\ conf[d].option \in {1, 2}
  BY <1>3, <1>5 DEF Devices
<1> QED
  BY <1>4, <1>6, <1>7, <1>8, <1>9

(* SyncEDeviceByInterface finds a device, the first one with the port.     *)
LEMMA DeviceFound ==
  ASSUME conf \in Configs, NEW p \in PortsOf(conf)
  PROVE  /\ SyncEDeviceByInterface(p) \in Devices
         /\ p \in Ifaces(SyncEDeviceByInterface(p))
         /\ \A e \in Devices : p \in Ifaces(e) => SyncEDeviceByInterface(p) <= e
<1> DEFINE with == {d \in Devices : p \in Ifaces(d)}
<1>1. PICK j \in DOMAIN conf : conf[j].kind = "port" /\ conf[j].name = p
  BY DEF PortsOf
<1>2. PICK last \in Devices : \A e \in Devices : e <= last
  BY ConfType, MaxExists
<1>3. p \in Ifaces(last)
  <2>1. \A e \in Devices : ~(e > last)
    BY <1>2, ConfType
  <2> QED
    BY <1>1, <2>1 DEF Ifaces
<1>4. with \in SUBSET Nat /\ with # {}
  BY <1>2, <1>3, ConfType
<1>5. \E d \in with : \A e \in with : d <= e
  BY <1>4, MinExists
<1>6. \E d \in Devices : p \in Ifaces(d) /\ \A e \in Devices : p \in Ifaces(e) => d <= e
  BY <1>5
<1> QED
  BY <1>6 DEF SyncEDeviceByInterface

(* It is the one whose section precedes the first section of the port.     *)
LEMMA DeviceOfSection ==
  ASSUME conf \in Configs
  PROVE  DeviceIsItsSection
<1> SUFFICES ASSUME NEW j \in DOMAIN conf, IsFirst(j)
             PROVE  LET d == SyncEDeviceByInterface(conf[j].name) IN
                      d < j /\ \A e \in Devices : e < j => e <= d
  BY DEF DeviceIsItsSection
<1> DEFINE p == conf[j].name
           d == SyncEDeviceByInterface(p)
           before == {e \in Devices : e < j}
<1>1. p \in PortsOf(conf)
  BY DEF PortsOf, IsFirst
<1>2. PICK o \in before : \A e \in before : e <= o
  <2>1. before \in SUBSET (0 .. Len(conf)) /\ before # {}
    BY ConfType DEF IsFirst
  <2> QED
    BY <2>1, ConfType, MaxExists
<1>3. \A e \in Devices : e \in Int /\ (e > o => j < e)
  <2> SUFFICES ASSUME NEW e \in Devices PROVE e \in Int /\ (e > o => j < e)
    OBVIOUS
  <2>1. e \in Int /\ o \in Int /\ j \in Int
    BY ConfType
  <2>2. e # j
    BY DEF Devices, IsFirst
  <2> QED
    BY <1>2, <2>1, <2>2
<1>4. p \in Ifaces(o)
  BY <1>3 DEF Ifaces, IsFirst
<1>5. d <= o /\ d \in Devices /\ p \in Ifaces(d)
  BY <1>1, <1>4, DeviceFound
<1>6. ~(o > d)
  <2> SUFFICES ASSUME o > d PROVE FALSE
    OBVIOUS
  <2>1. PICK i \in DOMAIN conf : conf[i].kind = "port" /\ conf[i].name = p /\ i < o
    BY <1>5 DEF Ifaces
  <2>2. i \in 1 .. j - 1
    BY <1>2, <2>1, ConfType
  <2> QED
    BY <2>1, <2>2 DEF IsFirst
<1>7. d = o
  BY <1>3, <1>5, <1>6
<1> QED
  BY <1>2, <1>7

-----------------------------------------------------------------------------
(* The configuration does not change, and what is made from it neither.    *)

LEMMA SameConf ==
  ASSUME UNCHANGED conf
  PROVE  /\ Devices' = Devices
         /\ \A d : Ifaces(d)' = Ifaces(d)
         /\ \A p : SyncEDeviceByInterface(p)' = SyncEDeviceByInterface(p)
         /\ \A p : HasTLV(p)' = HasTLV(p)
         /\ PortsOf(conf)' = PortsOf(conf)
         /\ Lines' = Lines
         /\ \A p : LinesOf(p)' = LinesOf(p) /\ SSMLines(p)' = SSMLines(p)
<1>1. Devices' = Devices
  BY DEF Devices
<1>2. \A d : Ifaces(d)' = Ifaces(d)
  BY <1>1 DEF Ifaces
<1>3. \A p : SyncEDeviceByInterface(p)' = SyncEDeviceByInterface(p)
  BY DEF SyncEDeviceByInterface, Devices, Ifaces
<1>4. \A p : HasTLV(p)' = HasTLV(p)
  BY <1>3 DEF HasTLV
<1>5. PortsOf(conf)' = PortsOf(conf)
  BY DEF PortsOf
<1>6. Lines' = Lines /\ LevelLines' = LevelLines
  BY <1>5 DEF Lines, StateLines, LevelLines
<1>7. \A p : LinesOf(p)' = LinesOf(p) /\ SSMLines(p)' = SSMLines(p)
  BY <1>6 DEF LinesOf, SSMLines
<1> QED
  BY <1>1, <1>2, <1>3, <1>4, <1>5, <1>6, <1>7

-----------------------------------------------------------------------------
(* The table of quality levels: no two rows of an option apply.            *)

LEMMA OneRowApplies ==
  ASSUME NEW option, NEW r \in qualityLevelInfo(option), NEW s \in qualityLevelInfo(option)
  PROVE  /\ r.priority \in Nat
         /\ r.ssm = s.ssm /\ r.ext = s.ext => r.priority = s.priority
<1>1. r.priority \in Nat
  BY DEF qualityLevelInfo
<1>2. r.ssm = s.ssm /\ r.ext = s.ext => r.priority = s.priority
  <2>1. CASE option = 1
    BY <2>1, SMTT(60) DEF qualityLevelInfo
  <2>2. CASE option # 1
    BY <2>2, SMTT(60) DEF qualityLevelInfo
  <2> QED
    BY <2>1, <2>2
<1> QED
  BY <1>1, <1>2

LEMMA QualityTypes ==
  /\ {Unset, "DNU", "DUS"} \subseteq Qualities
  /\ \A option : \A r \in qualityLevelInfo(option) : r.name \in Qualities
<1>1. \E r \in qualityLevelInfo(1) : r.name = "DNU"
  BY DEF qualityLevelInfo
<1>2. \E r \in qualityLevelInfo(2) : r.name = "DUS"
  BY DEF qualityLevelInfo
<1>3. \A option : qualityLevelInfo(option) \in {qualityLevelInfo(1), qualityLevelInfo(2)}
  BY DEF qualityLevelInfo
<1> QED
  BY <1>1, <1>2, <1>3 DEF Qualities

(* ClockQuality, in a form without its cases.                              *)
LEMMA ClockQualityRows ==
  ASSUME NEW dev, NEW ssm, NEW ext, NEW q \in ClockQuality(dev, ssm, ext)
  PROVE  LET rows == {info \in qualityLevelInfo(dev.option) :
                        Compare(info, ssm, ExtOrDefault(dev, ext))}
         IN \/ q = Unset
            \/ /\ ~(dev.tlv = ExtendedTLV_ENABLED /\ ext = QL_DEFAULT_SSM)
               /\ \/ \E r \in rows : q = r.name
                  \/ rows = {} /\ q \in {"DNU", "DUS"}
<1> DEFINE rows == {info \in qualityLevelInfo(dev.option) :
                      Compare(info, ssm, ExtOrDefault(dev, ext))}
           none == dev.tlv = ExtendedTLV_ENABLED /\ ext = QL_DEFAULT_SSM
<1>1. q \in IF none THEN {Unset}
           ELSE IF rows # {} THEN {info.name : info \in rows}
           ELSE IF dev.option = 1 THEN {"DNU"} ELSE {"DUS"}
  BY DEF ClockQuality
<1> HIDE DEF rows, none
<1>2. \/ q = Unset
      \/ ~none /\ ((\E r \in rows : q = r.name) \/ (rows = {} /\ q \in {"DNU", "DUS"}))
  <2>1. CASE none
    BY <1>1, <2>1
  <2>2. CASE ~none /\ rows # {}
    BY <1>1, <2>2
  <2>3. CASE ~none /\ rows = {}
    BY <1>1, <2>3
  <2> QED
    BY <2>1, <2>2, <2>3
<1> QED
  BY <1>2 DEF rows, none

LEMMA QualityTyped ==
  ASSUME NEW dev, NEW ssm, NEW ext, NEW q \in ClockQuality(dev, ssm, ext)
  PROVE  q \in Qualities
<1>1. q = Unset \/ (\E r \in qualityLevelInfo(dev.option) : q = r.name) \/ q \in {"DNU", "DUS"}
  BY ClockQualityRows
<1> QED
  BY <1>1, QualityTypes

(* What QualityIsBest says of an event.                                    *)
IsBest(dev, ssm, ext, q) ==
  LET e == IF dev.tlv = ExtendedTLV_ENABLED THEN ext ELSE QL_DEFAULT_ENHSSM
      rows == {r \in qualityLevelInfo(dev.option) : r.ssm = ssm /\ r.ext = e}
  IN IF rows = {} THEN q \in {"DNU", "DUS"}
     ELSE \E r \in rows : r.name = q /\ \A s \in rows : r.priority <= s.priority

LEMMA ClockQualityIsBest ==
  ASSUME NEW dev, dev.tlv \in {0, 1}, NEW ssm, NEW ext,
         NEW q \in ClockQuality(dev, ssm, ext), q # Unset
  PROVE  IsBest(dev, ssm, ext, q)
<1> DEFINE e == IF dev.tlv = ExtendedTLV_ENABLED THEN ext ELSE QL_DEFAULT_ENHSSM
           rows == {r \in qualityLevelInfo(dev.option) : r.ssm = ssm /\ r.ext = e}
           found == {info \in qualityLevelInfo(dev.option) :
                       Compare(info, ssm, ExtOrDefault(dev, ext))}
<1>1. /\ ~(dev.tlv = ExtendedTLV_ENABLED /\ ext = QL_DEFAULT_SSM)
      /\ \/ \E r \in found : q = r.name
         \/ found = {} /\ q \in {"DNU", "DUS"}
  BY ClockQualityRows
<1>2. e # QL_DEFAULT_SSM /\ e = ExtOrDefault(dev, ext)
  <2> USE DEF QL_DEFAULT_SSM, QL_DEFAULT_ENHSSM, ExtendedTLV_DISABLED, ExtendedTLV_ENABLED
  <2>1. CASE dev.tlv = 1
    BY <1>1, <2>1 DEF ExtOrDefault
  <2>2. CASE dev.tlv = 0
    BY <2>2 DEF ExtOrDefault
  <2> QED
    BY <2>1, <2>2
<1>3. \A r : Compare(r, ssm, ExtOrDefault(dev, ext)) <=> r.ssm = ssm /\ r.ext = e
  BY <1>2 DEF Compare
<1>4. found = rows
  BY <1>3
<1>5. ASSUME NEW r \in rows
      PROVE  \A s \in rows : r.priority <= s.priority
  <2> SUFFICES ASSUME NEW s \in rows PROVE r.priority <= s.priority
    OBVIOUS
  <2>1. r \in qualityLevelInfo(dev.option) /\ s \in qualityLevelInfo(dev.option)
        /\ r.ssm = s.ssm /\ r.ext = s.ext
    OBVIOUS
  <2>2. PICK n \in Nat : n = r.priority /\ n = s.priority
    BY <2>1, OneRowApplies
  <2> QED
    BY <2>2
<1>6. IF rows = {} THEN q \in {"DNU", "DUS"}
      ELSE \E r \in rows : r.name = q /\ \A s \in rows : r.priority <= s.priority
  BY <1>1, <1>4, <1>5
<1> QED
  BY <1>6 DEF IsBest

-----------------------------------------------------------------------------
(* Types.                                                                  *)

LEMMA SendTyped ==
  ASSUME eventCh \in Seq(Events), Len(eventCh) <= MaxEvents, NEW e \in Events, Send(e)
  PROVE  eventCh' \in Seq(Events) /\ Len(eventCh') <= MaxEvents
<1>1. MaxEvents \in Nat
  BY SyncEAssumption
<1> QED
  BY <1>1 DEF Send

LEMMA QualityEventTyped ==
  ASSUME eventCh \in Seq(Events), Len(eventCh) <= MaxEvents,
         NEW p \in Ports, NEW d, LastClockState[d] \in PtpStates,
         NEW ssm \in Bytes, NEW ext \in Bytes, QualityEvent(p, d, ssm, ext)
  PROVE  eventCh' \in Seq(Events) /\ Len(eventCh') <= MaxEvents
<1>1. PICK q \in ClockQuality(conf[d], ssm, ext) :
        Send([port |-> p, state |-> LastClockState[d], ssm |-> ssm, ext |-> ext,
              quality |-> q])
  BY DEF QualityEvent
<1>2. [port |-> p, state |-> LastClockState[d], ssm |-> ssm, ext |-> ext,
       quality |-> q] \in Events
  BY <1>1, QualityTyped DEF Events
<1> QED
  BY <1>1, <1>2, SendTyped

LEMMA LineTyped ==
  ASSUME TypeOK, lines # <<>>
  PROVE  /\ lines \in Seq(Lines) /\ Len(lines) <= MaxLines
         /\ Head(lines) \in Lines /\ Tail(lines) \in Seq(Lines)
         /\ Len(Tail(lines)) <= MaxLines
         /\ Head(lines).port \in PortsOf(conf) /\ Head(lines).port \in Ports
         /\ Head(lines).kind \in Kinds => Head(lines).value \in Bytes
<1>1. lines \in Seq(Lines) /\ Len(lines) <= MaxLines
  BY DEF TypeOK, Lines, StateLines, LevelLines, Kinds
<1>2. Head(lines) \in Lines /\ Tail(lines) \in Seq(Lines) /\ Len(Tail(lines)) <= MaxLines
  <2>1. MaxLines \in Nat
    BY SyncEAssumption
  <2> QED
    BY <1>1, <2>1
<1>3. \A l \in Lines : l.port \in PortsOf(conf) /\ (l.kind \in Kinds => l.value \in Bytes)
  BY DEF Lines, StateLines, LevelLines, Kinds
<1>4. PortsOf(conf) \subseteq Ports
  BY ConfType DEF TypeOK
<1> QED
  BY <1>1, <1>2, <1>3, <1>4

LEMMA PtpStateTyped ==
  ASSUME NEW s
  PROVE  ToPTPState(s) \in PtpStates
BY DEF ToPTPState, PtpStates

(* A line changes what is kept of a port and its device.                   *)
LEMMA ReadTyped ==
  ASSUME TypeOK, ReadLine
  PROVE  TypeOK'
<1>1. PICK p \in PortsOf(conf) : p = Head(lines).port
  BY LineTyped DEF ReadLine
<1>2. PICK d \in Devices : d = SyncEDeviceByInterface(p)
  BY <1>1, DeviceFound DEF TypeOK
<1>3. p \in Ports /\ d \in DOMAIN conf /\ <<d, p>> \in (DOMAIN conf) \X Ports
  BY <1>1, ConfType DEF TypeOK
<1>4. eventCh \in Seq(Events) /\ Len(eventCh) <= MaxEvents
  BY DEF TypeOK, Events
<1>5. /\ LastQLState' \in [Ports -> (Bytes \X Bytes) \cup {None}]
      /\ LastClockState' \in [DOMAIN conf -> PtpStates]
      /\ qlMetric' \in [(DOMAIN conf) \X Ports -> (Bytes \X Bytes) \cup {None}]
      /\ eventCh' \in Seq(Events) /\ Len(eventCh') <= MaxEvents
  <2>0. 0 \in Bytes /\ QL_DEFAULT_SSM \in Bytes /\ QL_DEFAULT_ENHSSM \in Bytes
    BY DEF Bytes, QL_DEFAULT_SSM, QL_DEFAULT_ENHSSM
  <2> USE <1>3 DEF TypeOK
  <2>1. ASSUME NEW s, ProcessState(p, s) PROVE <1>5
    <3>1. [port |-> p, state |-> ToPTPState(s), ssm |-> 0, ext |-> 0, quality |-> Unset]
          \in Events
      BY PtpStateTyped, QualityTypes, <2>0 DEF Events
    <3>2. Send([port |-> p, state |-> ToPTPState(s), ssm |-> 0, ext |-> 0, quality |-> Unset])
      BY <2>1 DEF ProcessState
    <3>3. eventCh' \in Seq(Events) /\ Len(eventCh') <= MaxEvents
      BY <1>4, <3>1, <3>2, SendTyped
    <3>4. LastClockState' \in [DOMAIN conf -> PtpStates]
      BY <1>2, <2>1, PtpStateTyped DEF ProcessState
    <3> QED
      BY <2>1, <3>3, <3>4 DEF ProcessState
  <2>2. ASSUME NEW v \in Bytes, ProcessQL(p, v) PROVE <1>5
    <3>1. QualityEvent(p, d, v, 0)
      BY <1>2, <2>2 DEF ProcessQL
    <3>2. eventCh' \in Seq(Events) /\ Len(eventCh') <= MaxEvents
      BY <1>4, <2>0, <3>1, QualityEventTyped
    <3> QED
      BY <1>2, <2>0, <2>2, <3>2 DEF ProcessQL
  <2>3. ASSUME NEW v \in Bytes, ProcessQLWaits(p, v) PROVE <1>5
    <3>1. LastQLState[p] # None => LastQLState[p][2] \in Bytes
      OBVIOUS
    <3> QED
      BY <1>4, <2>0, <2>3, <3>1 DEF ProcessQLWaits
  <2>4. ASSUME NEW v \in Bytes, ProcessExtQL(p, v) PROVE <1>5
    <3>1. PICK ssm \in Bytes : ssm = IF LastQLState[p] = None THEN 0 ELSE LastQLState[p][1]
      BY <2>0
    <3>2. QualityEvent(p, d, ssm, v)
      BY <1>2, <2>4, <3>1 DEF ProcessExtQL
    <3>3. eventCh' \in Seq(Events) /\ Len(eventCh') <= MaxEvents
      BY <1>4, <2>0, <3>2, QualityEventTyped
    <3>4. <<ssm, v>> \in Bytes \X Bytes
      OBVIOUS
    <3> QED
      BY <1>2, <2>0, <2>4, <3>1, <3>3, <3>4 DEF ProcessExtQL
  <2> QED
    BY <1>1, <2>1, <2>2, <2>3, <2>4, LineTyped DEF ReadLine, Kinds
<1>6. lines' \in Seq(Lines) /\ Len(lines') <= MaxLines
  BY LineTyped DEF ReadLine
<1>7. UNCHANGED <<conf, up, sent, clockState>>
  BY DEF ReadLine
<1> QED
  BY <1>5, <1>6, <1>7, SameConf DEF TypeOK, Lines, StateLines, LevelLines, Kinds, Events

LEMMA LevelsTyped ==
  /\ Levels \subseteq Bytes \X Bytes
  /\ \A v \in Levels : v[1] \in Bytes /\ v[2] \in Bytes /\ v = <<v[1], v[2]>> /\ v # None
<1>1. Levels \subseteq Bytes \X Bytes
  <2> SUFFICES ASSUME NEW v \in Levels PROVE v \in Bytes \X Bytes
    OBVIOUS
  <2>1. v \in ((0 .. 15) \ {QL_DEFAULT_SSM}) \X ((0 .. 255) \ {QL_DEFAULT_SSM})
    BY SyncEAssumption
  <2> QED
    BY <2>1 DEF Bytes
<1>2. \A v \in Bytes \X Bytes : v[1] \in Bytes /\ v[2] \in Bytes /\ v = <<v[1], v[2]>>
  OBVIOUS
<1>3. \A v \in Bytes \X Bytes : v # None
  BY DEF None
<1> QED
  BY <1>1, <1>2, <1>3

(* synce4l writes a line.                                                  *)
LEMMA LogTyped ==
  ASSUME TypeOK, NEW l \in Lines, lines' = Append(lines, l), Len(lines) < MaxLines,
         UNCHANGED conf
  PROVE  lines' \in Seq(Lines') /\ Len(lines') <= MaxLines
<1>1. lines \in Seq(Lines) /\ Len(lines) \in Nat /\ MaxLines \in Nat
  BY SyncEAssumption DEF TypeOK, Lines, StateLines, LevelLines, Kinds
<1>2. lines' \in Seq(Lines) /\ Len(lines') <= MaxLines
  BY <1>1
<1> QED
  BY <1>2, SameConf

LEMMA LogStateLine ==
  ASSUME NEW p \in PortsOf(conf), LogState(p)
  PROVE  \E l \in StateLines : l.port = p /\ lines' = Append(lines, l)
BY DEF LogState, Log, StateLines

LEMMA LogQLLine ==
  ASSUME TypeOK, NEW p \in PortsOf(conf), LogQL(p)
  PROVE  \E v \in Levels, both \in BOOLEAN :
           /\ both = ~HasTLV(p)
           /\ both => v[2] = QL_DEFAULT_ENHSSM
           /\ sent' = [sent EXCEPT ![p] = [levels |-> v, logged |-> both]]
           /\ lines' = Append(lines, [kind |-> "QL", port |-> p, value |-> v[1]])
           /\ [kind |-> "QL", port |-> p, value |-> v[1]] \in LevelLines
<1> DEFINE none == conf[SyncEDeviceByInterface(p)].tlv = ExtendedTLV_DISABLED
<1>1. PICK v \in Levels :
        /\ none => v[2] = QL_DEFAULT_ENHSSM
        /\ sent' = [sent EXCEPT ![p] = [levels |-> v, logged |-> none]]
        /\ Log("QL", p, v[1])
  BY DEF LogQL
<1>2. none = ~HasTLV(p)
  <2>1. conf[SyncEDeviceByInterface(p)].tlv \in {0, 1}
    BY ConfType, DeviceFound DEF TypeOK
  <2> QED
    BY <2>1 DEF HasTLV, ExtendedTLV_DISABLED, ExtendedTLV_ENABLED
<1>3. none \in BOOLEAN
  OBVIOUS
<1> HIDE DEF none
<1>4. PICK both \in BOOLEAN : both = none
  BY <1>3
<1>5. sent' = [sent EXCEPT ![p] = [levels |-> v, logged |-> both]]
  BY <1>1, <1>4, Zenon
<1>6. [kind |-> "QL", port |-> p, value |-> v[1]] \in LevelLines
  BY LevelsTyped DEF LevelLines, Kinds
<1> QED
  BY <1>1, <1>2, <1>4, <1>5, <1>6, Zenon DEF Log

LEMMA LogExtQLLine ==
  ASSUME TypeOK, LogsBoth, NEW p \in PortsOf(conf), LogExtQL(p)
  PROVE  /\ HasTLV(p) /\ sent[p].levels \in Levels
         /\ \E true \in BOOLEAN : true /\ sent' = [sent EXCEPT ![p].logged = true]
         /\ lines' = Append(lines, [kind |-> "EXT_QL", port |-> p, value |-> sent[p].levels[2]])
         /\ [kind |-> "EXT_QL", port |-> p, value |-> sent[p].levels[2]] \in LevelLines
<1>1. p \in Ports
  BY ConfType DEF TypeOK
<1>2. HasTLV(p) /\ sent[p].levels \in Levels
  BY <1>1 DEF TypeOK, LogsBoth, LogExtQL
<1>3. [kind |-> "EXT_QL", port |-> p, value |-> sent[p].levels[2]] \in LevelLines
  BY <1>2, LevelsTyped DEF LevelLines, Kinds
<1>4. \E true \in BOOLEAN : true /\ sent' = [sent EXCEPT ![p].logged = true]
  BY Zenon DEF LogExtQL
<1> QED
  BY <1>2, <1>3, <1>4 DEF LogExtQL, Log

LEMMA Synce4lTyped ==
  ASSUME TypeInv, NEW p \in Ports, Synce4l(p)
  PROVE  TypeInv'
<1> USE DEF TypeInv
<1>1. p \in PortsOf(conf)
  BY DEF Synce4l
<1>2. UNCHANGED <<conf, up, LastQLState, LastClockState, qlMetric, eventCh, clockState>>
      /\ Len(lines) < MaxLines
  BY DEF Synce4l, LogState, LogQL, LogExtQL
<1>3. ASSUME lines' \in Seq(Lines'), Len(lines') <= MaxLines,
             sent' \in [Ports -> [levels : Levels \cup {None}, logged : BOOLEAN]]
      PROVE  TypeOK'
  BY <1>2, <1>3, SameConf DEF TypeOK, Lines, StateLines, LevelLines, Kinds
<1>4. \A q \in PortsOf(conf) : q \in Ports
  BY ConfType DEF TypeOK
<1>5. CASE LogState(p)
  <2>1. UNCHANGED sent
    BY <1>5 DEF LogState
  <2>2. PICK l \in Lines : lines' = Append(lines, l)
    BY <1>1, <1>5, LogStateLine DEF Lines
  <2>3. TypeOK'
    BY <1>2, <1>3, <2>1, <2>2, LogTyped DEF TypeOK
  <2> QED
    BY <1>2, <2>1, <2>3, SameConf DEF LogsBoth
<1>6. CASE LogQL(p)
  <2>1. PICK v \in Levels, both \in BOOLEAN :
          /\ both = ~HasTLV(p)
          /\ both => v[2] = QL_DEFAULT_ENHSSM
          /\ sent' = [sent EXCEPT ![p] = [levels |-> v, logged |-> both]]
          /\ lines' = Append(lines, [kind |-> "QL", port |-> p, value |-> v[1]])
          /\ [kind |-> "QL", port |-> p, value |-> v[1]] \in LevelLines
    BY <1>1, <1>6, LogQLLine
  <2>2. sent' \in [Ports -> [levels : Levels \cup {None}, logged : BOOLEAN]]
    BY <2>1 DEF TypeOK
  <2>3. TypeOK'
    BY <1>2, <1>3, <2>1, <2>2, LogTyped DEF Lines
  <2>5. LogsBoth'
    <3> SUFFICES ASSUME NEW q \in PortsOf(conf)
                 PROVE  /\ ~sent'[q].logged => HasTLV(q) /\ sent'[q].levels # None
                        /\ sent'[q].levels # None /\ ~HasTLV(q)
                             => sent'[q].levels[2] = QL_DEFAULT_ENHSSM
      BY <1>2, SameConf DEF LogsBoth
    <3>1. CASE q = p
      <4>1. sent'[p].levels = v /\ sent'[p].logged = both
        BY <2>1 DEF TypeOK
      <4> QED
        BY <2>1, <3>1, <4>1, LevelsTyped
    <3>2. CASE q # p
      <4>1. sent'[q] = sent[q]
        BY <1>4, <2>1, <3>2 DEF TypeOK
      <4> QED
        BY <4>1 DEF LogsBoth
    <3> QED
      BY <3>1, <3>2
  <2> QED
    BY <2>3, <2>5
<1>7. CASE LogExtQL(p)
  <2>1. PICK true \in BOOLEAN : true /\ sent' = [sent EXCEPT ![p].logged = true]
    BY <1>1, <1>7, LogExtQLLine
  <2>2. /\ lines' = Append(lines, [kind |-> "EXT_QL", port |-> p, value |-> sent[p].levels[2]])
        /\ [kind |-> "EXT_QL", port |-> p, value |-> sent[p].levels[2]] \in LevelLines
    BY <1>1, <1>7, LogExtQLLine
  <2>3. sent' \in [Ports -> [levels : Levels \cup {None}, logged : BOOLEAN]]
    BY <2>1 DEF TypeOK
  <2>4. TypeOK'
    BY <1>2, <1>3, <2>2, <2>3, LogTyped DEF Lines
  <2>5. \A q \in PortsOf(conf) :
          sent'[q].levels = sent[q].levels /\ (~sent'[q].logged => ~sent[q].logged)
    BY <1>4, <2>1 DEF TypeOK
  <2>6. LogsBoth'
    BY <1>2, <2>5, SameConf DEF LogsBoth
  <2> QED
    BY <2>4, <2>6
<1> QED
  BY <1>5, <1>6, <1>7 DEF Synce4l

-----------------------------------------------------------------------------
(* What a line does to the levels of a port.                               *)

LEMMA LineAbout ==
  ASSUME NEW l \in Lines, NEW p
  PROVE  /\ l \in LinesOf(p) <=> l.kind \in Kinds /\ l.port = p
         /\ l \in SSMLines(p) <=> l.kind = "QL" /\ l.port = p
BY DEF Lines, StateLines, LevelLines, LinesOf, SSMLines, Kinds

(* A complete pair is put into the metrics.                                *)
LEMMA ReadMetric ==
  ASSUME TypeInv, ReadLine, NEW p \in PortsOf(conf)
  PROVE  LET l == Head(lines)
             k == <<SyncEDeviceByInterface(p), p>>
         IN  /\ l \notin LinesOf(p) => qlMetric'[k] = qlMetric[k]
             /\ l \in LinesOf(p) /\ l.kind = "QL" /\ ~HasTLV(p)
                  => qlMetric'[k] = <<l.value, QL_DEFAULT_ENHSSM>>
             /\ l.kind = "EXT_QL" /\ l \in LinesOf(p) /\ LastQLState[p] # None
                  => qlMetric'[k] = <<LastQLState[p][1], l.value>>
<1> USE DEF TypeInv
<1>1. PICK l \in Lines : l = Head(lines)
  BY LineTyped DEF ReadLine
<1>2. PICK q \in PortsOf(conf) : q = l.port
  BY <1>1, LineTyped DEF ReadLine
<1>3. PICK d \in Devices : d = SyncEDeviceByInterface(p)
  BY DeviceFound DEF TypeOK
<1>4. PICK e \in Devices : e = SyncEDeviceByInterface(q)
  BY DeviceFound DEF TypeOK
<1>5. <<d, p>> \in DOMAIN qlMetric /\ <<e, q>> \in DOMAIN qlMetric
  BY ConfType DEF TypeOK
<1>6. \/ l.kind = "state" /\ UNCHANGED qlMetric
      \/ /\ l.kind = "QL" /\ ~HasTLV(q)
         /\ qlMetric' = [qlMetric EXCEPT ![<<e, q>>] = <<l.value, QL_DEFAULT_ENHSSM>>]
      \/ l.kind = "QL" /\ HasTLV(q) /\ UNCHANGED qlMetric
      \/ /\ l.kind = "EXT_QL"
         /\ LastQLState[q] # None =>
              qlMetric' = [qlMetric EXCEPT ![<<e, q>>] = <<LastQLState[q][1], l.value>>]
         /\ \E ssm : qlMetric' = [qlMetric EXCEPT ![<<e, q>>] = <<ssm, l.value>>]
  <2>1. \/ l.kind = "state" /\ ProcessState(q, l.value)
        \/ l.kind = "QL" /\ ProcessQL(q, l.value)
        \/ l.kind = "QL" /\ ProcessQLWaits(q, l.value)
        \/ l.kind = "EXT_QL" /\ ProcessExtQL(q, l.value)
    BY <1>1, <1>2 DEF ReadLine
  <2> QED
    BY <1>4, <2>1 DEF ProcessState, ProcessQL, ProcessQLWaits, ProcessExtQL, HasTLV,
                      ExtendedTLV_DISABLED, ExtendedTLV_ENABLED
<1>7. l \in LinesOf(p) <=> l.kind \in Kinds /\ q = p
  BY <1>2, LineAbout
<1>8. CASE q = p
  BY <1>1, <1>3, <1>4, <1>5, <1>6, <1>7, <1>8 DEF Kinds, TypeOK
<1>9. CASE q # p
  <2>1. qlMetric'[<<d, p>>] = qlMetric[<<d, p>>]
    BY <1>5, <1>6, <1>9 DEF TypeOK
  <2> QED
    BY <1>1, <1>3, <1>7, <1>9, <2>1
<1> QED
  BY <1>8, <1>9

(* The level of a line is kept.                                            *)
LEMMA ReadSSM ==
  ASSUME TypeInv, ReadLine, NEW p \in PortsOf(conf), HasTLV(p)
  PROVE  LET l == Head(lines) IN
         /\ l \in SSMLines(p) => LastQLState'[p] # None /\ LastQLState'[p][1] = l.value
         /\ l \notin SSMLines(p) /\ LastQLState[p] # None
              => LastQLState'[p] # None /\ LastQLState'[p][1] = LastQLState[p][1]
<1> USE DEF TypeInv
<1>1. PICK l \in Lines : l = Head(lines)
  BY LineTyped DEF ReadLine
<1>2. PICK q \in PortsOf(conf) : q = l.port
  BY <1>1, LineTyped DEF ReadLine
<1>3. p \in DOMAIN LastQLState /\ q \in DOMAIN LastQLState
  BY ConfType DEF TypeOK
<1>4. l \in SSMLines(p) <=> l.kind = "QL" /\ q = p
  BY <1>2, LineAbout
<1>5. \A a, b : <<a, b>> # None /\ <<a, b>>[1] = a
  BY DEF None
<1>6. \/ l.kind = "state" /\ UNCHANGED LastQLState
      \/ l.kind = "QL" /\ \E b : LastQLState' = [LastQLState EXCEPT ![q] = <<l.value, b>>]
      \/ /\ l.kind = "EXT_QL"
         /\ \E a, b : /\ LastQLState' = [LastQLState EXCEPT ![q] = <<a, b>>]
                      /\ LastQLState[q] # None => a = LastQLState[q][1]
  <2>1. \/ l.kind = "state" /\ ProcessState(q, l.value)
        \/ l.kind = "QL" /\ ProcessQL(q, l.value)
        \/ l.kind = "QL" /\ ProcessQLWaits(q, l.value)
        \/ l.kind = "EXT_QL" /\ ProcessExtQL(q, l.value)
    BY <1>1, <1>2 DEF ReadLine
  <2>2. CASE l.kind = "QL" /\ ProcessQLWaits(q, l.value)
    <3>1. LastQLState' = [LastQLState EXCEPT ![q] =
                            <<l.value, IF LastQLState[q] = None THEN QL_DEFAULT_SSM
                                       ELSE LastQLState[q][2]>>]
      BY <2>2 DEF ProcessQLWaits
    <3> QED
      BY <2>2, <3>1
  <2>3. CASE l.kind = "EXT_QL" /\ ProcessExtQL(q, l.value)
    BY <2>3 DEF ProcessExtQL
  <2> QED
    BY <2>1, <2>2, <2>3 DEF ProcessState, ProcessQL
<1>7. CASE q = p
  BY <1>1, <1>3, <1>4, <1>5, <1>6, <1>7
<1>8. CASE q # p
  <2>1. LastQLState'[p] = LastQLState[p]
    BY <1>3, <1>6, <1>8
  <2> QED
    BY <1>1, <1>4, <1>8, <2>1
<1> QED
  BY <1>7, <1>8

-----------------------------------------------------------------------------
(* The levels that are sent and those that are shown.                      *)

Value(p) == {l \in SSMLines(p) : l.value = sent[p].levels[1]}

(* The level of a port once the lines with one have been read.             *)
LEMMA SSMKnown ==
  ASSUME SSMTold, NEW p \in PortsOf(conf), Sending(p), HasTLV(p), NoneIn(lines, SSMLines(p))
  PROVE  LastQLState[p] # None /\ LastQLState[p][1] = sent[p].levels[1]
<1>1. ~LastIn(lines, SSMLines(p), {l \in SSMLines(p) : l.value = sent[p].levels[1]})
  BY DEF LastIn, NoneIn
<1> QED
  BY <1>1 DEF SSMTold

LEMMA ReadKeepsSSM ==
  ASSUME IInv, ReadLine
  PROVE  SSMTold'
<1> USE DEF IInv, TypeInv
<1>1. UNCHANGED <<conf, sent>> /\ lines' = Tail(lines) /\ lines # <<>> /\ lines \in Seq(Lines)
  BY LineTyped DEF ReadLine
<1> SUFFICES ASSUME NEW p \in PortsOf(conf), Sending(p), HasTLV(p)
             PROVE  \/ LastIn(Tail(lines), SSMLines(p), Value(p))
                    \/ /\ NoneIn(Tail(lines), SSMLines(p))
                       /\ LastQLState'[p] # None
                       /\ LastQLState'[p][1] = sent[p].levels[1]
  BY <1>1, SameConf DEF SSMTold, Sending, Value
<1>2. CASE LastIn(lines, SSMLines(p), Value(p))
  <2>1. \/ LastIn(Tail(lines), SSMLines(p), Value(p))
        \/ Head(lines) \in Value(p) /\ NoneIn(Tail(lines), SSMLines(p))
    BY <1>1, <1>2, LastTail
  <2> QED
    BY <2>1, ReadSSM DEF Value
<1>3. CASE NoneIn(lines, SSMLines(p))
  <2>1. LastQLState[p] # None /\ LastQLState[p][1] = sent[p].levels[1]
    BY <1>3, SSMKnown
  <2>2. Head(lines) \notin SSMLines(p) /\ NoneIn(Tail(lines), SSMLines(p))
    BY <1>1, <1>3, NoneTail
  <2> QED
    BY <2>1, <2>2, ReadSSM
<1>4. LastIn(lines, SSMLines(p), Value(p)) \/ NoneIn(lines, SSMLines(p))
  BY DEF SSMTold, Value
<1> QED
  BY <1>2, <1>3, <1>4

(* The line that completes a pair is read: the pair is in the metrics.     *)
LEMMA LastLineRead ==
  ASSUME IInv, ReadLine, NEW p \in PortsOf(conf), Sending(p),
         Head(lines) = LastLine(p), NoneIn(Tail(lines), LinesOf(p))
  PROVE  qlMetric'[<<SyncEDeviceByInterface(p), p>>] = sent[p].levels
<1> USE DEF IInv, TypeInv
<1>1. sent[p].levels \in Levels
  <2>1. p \in Ports
    BY ConfType DEF TypeOK
  <2> QED
    BY <2>1 DEF TypeOK, Sending
<1>2. PICK v \in Levels : v = sent[p].levels /\ v = <<v[1], v[2]>>
  BY <1>1, LevelsTyped
<1>3. PICK l \in Lines : l = Head(lines) /\ l.port = p /\ l.kind \in Kinds
  BY LineTyped DEF ReadLine, LastLine, Kinds
<1>4. l \in LinesOf(p)
  BY <1>3, LineAbout
<1>5. CASE HasTLV(p)
  <2>1. l.kind = "EXT_QL" /\ l.value = v[2]
    BY <1>2, <1>3, <1>5 DEF LastLine
  <2>2. NoneIn(lines, SSMLines(p))
    <3> SUFFICES ASSUME NEW i \in 1 .. Len(lines) PROVE lines[i] \notin SSMLines(p)
      BY DEF NoneIn
    <3>1. CASE i = 1
      BY <1>3, <2>1, <3>1, LineAbout
    <3>2. CASE i # 1
      <4>1. lines \in Seq(Lines) /\ lines # <<>>
        BY LineTyped DEF ReadLine
      <4>2. i - 1 \in 1 .. Len(Tail(lines)) /\ Tail(lines)[i - 1] = lines[i]
        BY <3>2, <4>1
      <4> QED
        BY <4>2 DEF NoneIn, SSMLines
    <3> QED
      BY <3>1, <3>2
  <2>3. LastQLState[p] # None /\ LastQLState[p][1] = v[1]
    BY <1>2, <1>5, <2>2, SSMKnown
  <2> QED
    BY <1>2, <1>3, <1>4, <2>1, <2>3, ReadMetric
<1>6. CASE ~HasTLV(p)
  <2>1. l.kind = "QL" /\ l.value = v[1]
    BY <1>2, <1>3, <1>6 DEF LastLine
  <2>2. v[2] = QL_DEFAULT_ENHSSM
    BY <1>2, <1>6 DEF LogsBoth, Sending
  <2> QED
    BY <1>2, <1>3, <1>4, <1>6, <2>1, <2>2, ReadMetric
<1> QED
  BY <1>5, <1>6

LEMMA ReadKeepsLevels ==
  ASSUME IInv, ReadLine
  PROVE  LevelsTold'
<1> USE DEF IInv, TypeInv
<1>1. /\ UNCHANGED <<conf, sent, up>> /\ lines' = Tail(lines)
      /\ lines # <<>> /\ lines \in Seq(Lines)
  BY LineTyped DEF ReadLine
<1>2. \A p : LastLine(p)' = LastLine(p)
  BY <1>1, SameConf DEF LastLine
<1> SUFFICES ASSUME NEW p \in PortsOf(conf), Sending(p), sent[p].logged, up # "stopped"
             PROVE  \/ LastIn(Tail(lines), LinesOf(p), {LastLine(p)})
                    \/ /\ NoneIn(Tail(lines), LinesOf(p))
                       /\ qlMetric'[<<SyncEDeviceByInterface(p), p>>] = sent[p].levels
  BY <1>1, <1>2, SameConf DEF LevelsTold, Sending
<1>3. CASE LastIn(lines, LinesOf(p), {LastLine(p)})
  <2>1. \/ LastIn(Tail(lines), LinesOf(p), {LastLine(p)})
        \/ Head(lines) \in {LastLine(p)} /\ NoneIn(Tail(lines), LinesOf(p))
    BY <1>1, <1>3, LastTail
  <2> QED
    BY <2>1, LastLineRead
<1>4. CASE /\ NoneIn(lines, LinesOf(p))
           /\ qlMetric[<<SyncEDeviceByInterface(p), p>>] = sent[p].levels
  <2>1. Head(lines) \notin LinesOf(p) /\ NoneIn(Tail(lines), LinesOf(p))
    BY <1>1, <1>4, NoneTail
  <2> QED
    BY <1>4, <2>1, ReadMetric
<1> QED
  BY <1>3, <1>4 DEF LevelsTold

LEMMA ReadKeepsMetrics ==
  ASSUME IInv, ReadLine
  PROVE  MetricsOfPorts'
<1> USE DEF IInv, TypeInv
<1>1. UNCHANGED <<conf, up>> /\ up # "stopped"
  BY DEF ReadLine, MetricsOfPorts
<1>2. PICK p \in PortsOf(conf) : p = Head(lines).port
  BY LineTyped DEF ReadLine
<1>3. PICK d \in Devices : d = SyncEDeviceByInterface(p) /\ p \in Ifaces(d)
  BY DeviceFound DEF TypeOK
<1>4. UNCHANGED qlMetric \/ \E v : qlMetric' = [qlMetric EXCEPT ![<<d, p>>] = v]
  BY <1>2, <1>3 DEF ReadLine, ProcessState, ProcessQL, ProcessQLWaits, ProcessExtQL
<1>5. \A k \in DOMAIN qlMetric' : qlMetric'[k] # None => k[1] \in Devices /\ k[2] \in Ifaces(k[1])
  BY <1>3, <1>4 DEF MetricsOfPorts
<1> QED
  BY <1>1, <1>5, SameConf DEF MetricsOfPorts

(* synce4l logs a line: it becomes the last one of the port.               *)
LEMMA LogKeepsTold ==
  ASSUME IInv, NEW p \in Ports, Synce4l(p)
  PROVE  IInv'
<1> USE DEF IInv
<1>1. TypeInv'
  BY Synce4lTyped
<1>2. /\ UNCHANGED <<conf, up, LastQLState, qlMetric>> /\ up = "run"
      /\ p \in PortsOf(conf) /\ \A q \in PortsOf(conf) : q \in Ports
  BY ConfType DEF Synce4l, LogState, LogQL, LogExtQL, TypeInv, TypeOK
<1>3. lines \in Seq(Lines)
  BY DEF TypeInv, TypeOK, Lines, StateLines, LevelLines, Kinds
<1>4. MetricsOfPorts'
  BY <1>2, SameConf DEF MetricsOfPorts
<1>5. ASSUME NEW q \in PortsOf(conf), NEW l \in Lines, lines' = Append(lines, l),
             sent'[q].levels = sent[q].levels, sent'[q].logged = sent[q].logged
      PROVE  /\ LastLine(q)' = LastLine(q) /\ Value(q)' = Value(q)
             /\ Sending(q)' <=> Sending(q)
             /\ l \notin SSMLines(q) =>
                  /\ LastIn(lines, SSMLines(q), Value(q)) => LastIn(lines', SSMLines(q), Value(q))
                  /\ NoneIn(lines, SSMLines(q)) => NoneIn(lines', SSMLines(q))
             /\ l \notin LinesOf(q) =>
                  /\ LastIn(lines, LinesOf(q), {LastLine(q)})
                       => LastIn(lines', LinesOf(q), {LastLine(q)})
                  /\ NoneIn(lines, LinesOf(q)) => NoneIn(lines', LinesOf(q))
  <2>1. LastLine(q)' = LastLine(q) /\ Value(q)' = Value(q) /\ (Sending(q)' <=> Sending(q))
    BY <1>2, <1>5, SameConf DEF LastLine, Value, Sending
  <2>2. l \notin SSMLines(q) =>
          /\ LastIn(lines, SSMLines(q), Value(q)) => LastIn(lines', SSMLines(q), Value(q))
          /\ NoneIn(lines, SSMLines(q)) => NoneIn(lines', SSMLines(q))
    BY <1>3, <1>5, AppendOther
  <2>3. l \notin LinesOf(q) =>
          /\ LastIn(lines, LinesOf(q), {LastLine(q)})
               => LastIn(lines', LinesOf(q), {LastLine(q)})
          /\ NoneIn(lines, LinesOf(q)) => NoneIn(lines', LinesOf(q))
    BY <1>3, <1>5, AppendOther
  <2> QED
    BY <2>1, <2>2, <2>3
<1> DEFINE SSMOf(q) == \/ LastIn(lines', SSMLines(q), Value(q)')
                       \/ /\ NoneIn(lines', SSMLines(q))
                          /\ LastQLState[q] # None
                          /\ LastQLState[q][1] = sent'[q].levels[1]
           LevelsOf(q) == \/ LastIn(lines', LinesOf(q), {LastLine(q)'})
                          \/ /\ NoneIn(lines', LinesOf(q))
                             /\ qlMetric[<<SyncEDeviceByInterface(q), q>>] = sent'[q].levels
<1>6. ASSUME \A q \in PortsOf(conf) : Sending(q)' /\ HasTLV(q) => SSMOf(q),
             \A q \in PortsOf(conf) : Sending(q)' /\ sent'[q].logged => LevelsOf(q)
      PROVE  IInv'
  <2>1. SSMTold'
    BY <1>2, <1>6, SameConf DEF SSMTold, Value
  <2>2. LevelsTold'
    BY <1>2, <1>6, SameConf DEF LevelsTold
  <2> QED
    BY <1>1, <1>4, <2>1, <2>2
<1>7. ASSUME NEW q \in PortsOf(conf), NEW l \in Lines, lines' = Append(lines, l),
             sent'[q].levels = sent[q].levels, sent'[q].logged = sent[q].logged,
             l \notin LinesOf(q)
      PROVE  /\ Sending(q)' /\ HasTLV(q) => SSMOf(q)
             /\ Sending(q)' /\ sent'[q].logged => LevelsOf(q)
  <2>1. l \notin SSMLines(q)
    BY <1>7 DEF SSMLines
  <2>2. Sending(q) /\ HasTLV(q) =>
          \/ LastIn(lines, SSMLines(q), Value(q))
          \/ /\ NoneIn(lines, SSMLines(q))
             /\ LastQLState[q] # None /\ LastQLState[q][1] = sent[q].levels[1]
    BY DEF SSMTold, Value
  <2>3. Sending(q) /\ sent[q].logged =>
          \/ LastIn(lines, LinesOf(q), {LastLine(q)})
          \/ /\ NoneIn(lines, LinesOf(q))
             /\ qlMetric[<<SyncEDeviceByInterface(q), q>>] = sent[q].levels
    BY <1>2 DEF LevelsTold
  <2> QED
    BY <1>5, <1>7, <2>1, <2>2, <2>3
<1>8. CASE LogState(p)
  <2>1. PICK l \in StateLines : lines' = Append(lines, l)
    BY <1>2, <1>8, LogStateLine
  <2>2. UNCHANGED sent
    BY <1>8 DEF LogState
  <2>3. l \in Lines /\ \A q : l \notin LinesOf(q)
    BY DEF Lines, StateLines, LinesOf, LevelLines, Kinds
  <2> QED
    BY <1>6, <1>7, <2>1, <2>2, <2>3
<1>9. CASE LogQL(p)
  <2>1. PICK v \in Levels, both \in BOOLEAN :
          /\ both = ~HasTLV(p)
          /\ sent' = [sent EXCEPT ![p] = [levels |-> v, logged |-> both]]
          /\ lines' = Append(lines, [kind |-> "QL", port |-> p, value |-> v[1]])
          /\ [kind |-> "QL", port |-> p, value |-> v[1]] \in LevelLines
    BY <1>2, <1>9, LogQLLine DEF TypeInv
  <2>2. PICK l \in Lines : l = [kind |-> "QL", port |-> p, value |-> v[1]]
    BY <2>1 DEF Lines
  <2>3. sent'[p].levels = v /\ sent'[p].logged = both
    BY <2>1 DEF TypeInv, TypeOK
  <2>4. l \in Value(p)' /\ l \in SSMLines(p)
    BY <1>2, <2>1, <2>2, <2>3, SameConf DEF Value, SSMLines, LinesOf
  <2>5. ~HasTLV(p) => l = LastLine(p)'
    BY <1>2, <2>2, <2>3, SameConf DEF LastLine
  <2>6. SSMOf(p)
    BY <1>3, <2>1, <2>2, <2>4, AppendLast
  <2>7. ~HasTLV(p) => LevelsOf(p)
    BY <1>3, <2>1, <2>2, <2>5, AppendLast
  <2>8. ASSUME NEW q \in PortsOf(conf), q # p
        PROVE  /\ sent'[q].levels = sent[q].levels /\ sent'[q].logged = sent[q].logged
               /\ l \notin LinesOf(q)
    BY <1>2, <2>1, <2>2, <2>8 DEF TypeInv, TypeOK, LinesOf
  <2>9. ASSUME NEW q \in PortsOf(conf)
        PROVE  /\ Sending(q)' /\ HasTLV(q) => SSMOf(q)
               /\ Sending(q)' /\ sent'[q].logged => LevelsOf(q)
    <3>1. CASE q = p
      BY <2>1, <2>3, <2>6, <2>7, <3>1
    <3>2. CASE q # p
      BY <1>7, <2>1, <2>2, <2>8, <3>2
    <3> QED
      BY <3>1, <3>2
  <2> QED
    BY <1>6, <2>9
<1>10. CASE LogExtQL(p)
  <2>1. /\ HasTLV(p)
        /\ lines' = Append(lines, [kind |-> "EXT_QL", port |-> p, value |-> sent[p].levels[2]])
        /\ [kind |-> "EXT_QL", port |-> p, value |-> sent[p].levels[2]] \in LevelLines
    BY <1>2, <1>10, LogExtQLLine DEF TypeInv
  <2>2. PICK true \in BOOLEAN : sent' = [sent EXCEPT ![p].logged = true]
    BY <1>2, <1>10, LogExtQLLine DEF TypeInv
  <2>3. PICK l \in Lines : l = [kind |-> "EXT_QL", port |-> p, value |-> sent[p].levels[2]]
    BY <2>1 DEF Lines
  <2>4. sent'[p].levels = sent[p].levels
    BY <2>2 DEF TypeInv, TypeOK
  <2>5. l = LastLine(p)' /\ l \notin SSMLines(p)
    BY <1>2, <2>1, <2>3, <2>4, SameConf DEF LastLine, SSMLines
  <2>6. LevelsOf(p)
    BY <1>3, <2>1, <2>3, <2>5, AppendLast
  <2>7. Sending(p)' /\ HasTLV(p) => SSMOf(p)
    <3>1. Value(p)' = Value(p) /\ (Sending(p)' <=> Sending(p))
      BY <1>2, <2>4, SameConf DEF Value, Sending
    <3>2. /\ LastIn(lines, SSMLines(p), Value(p)) => LastIn(lines', SSMLines(p), Value(p))
          /\ NoneIn(lines, SSMLines(p)) => NoneIn(lines', SSMLines(p))
      BY <1>3, <2>1, <2>3, <2>5, AppendOther
    <3>3. Sending(p) /\ HasTLV(p) =>
            \/ LastIn(lines, SSMLines(p), Value(p))
            \/ /\ NoneIn(lines, SSMLines(p))
               /\ LastQLState[p] # None /\ LastQLState[p][1] = sent[p].levels[1]
      BY <1>2 DEF SSMTold, Value
    <3> QED
      BY <2>4, <3>1, <3>2, <3>3
  <2>8. ASSUME NEW q \in PortsOf(conf), q # p
        PROVE  /\ sent'[q].levels = sent[q].levels /\ sent'[q].logged = sent[q].logged
               /\ l \notin LinesOf(q)
    BY <1>2, <2>2, <2>3, <2>8 DEF TypeInv, TypeOK, LinesOf
  <2>9. ASSUME NEW q \in PortsOf(conf)
        PROVE  /\ Sending(q)' /\ HasTLV(q) => SSMOf(q)
               /\ Sending(q)' /\ sent'[q].logged => LevelsOf(q)
    <3>1. CASE q = p
      BY <2>6, <2>7, <3>1
    <3>2. CASE q # p
      BY <1>7, <2>1, <2>3, <2>8, <3>2
    <3> QED
      BY <3>1, <3>2
  <2> QED
    BY <1>6, <2>9
<1> QED
  BY <1>8, <1>9, <1>10 DEF Synce4l

(* The other steps.                                                        *)
LEMMA RestKeepsTold ==
  ASSUME IInv, HandleEvent \/ Stop \/ Crash \/ Restart \/ UNCHANGED vars
  PROVE  IInv'
<1> USE DEF IInv, TypeInv
<1>1. UNCHANGED <<conf, lines, LastQLState>>
  BY DEF HandleEvent, Stop, Crash, Restart, vars
<1>2. ASSUME UNCHANGED sent, up' # "stopped" => up # "stopped" /\ UNCHANGED qlMetric
      PROVE  LogsBoth' /\ SSMTold' /\ LevelsTold'
  <2>1. \A p : LastLine(p)' = LastLine(p) /\ Value(p)' = Value(p) /\ (Sending(p)' <=> Sending(p))
    BY <1>1, <1>2, SameConf DEF LastLine, Value, Sending
  <2>2. LogsBoth'
    BY <1>1, <1>2, SameConf DEF LogsBoth
  <2>3. SSMTold'
    BY <1>1, <1>2, <2>1, SameConf DEF SSMTold, Value
  <2>4. LevelsTold'
    BY <1>1, <1>2, <2>1, SameConf DEF LevelsTold
  <2> QED
    BY <2>2, <2>3, <2>4
<1>3. CASE HandleEvent
  <2>1. eventCh \in Seq(Events) /\ Len(eventCh) <= MaxEvents /\ eventCh # <<>>
        /\ MaxEvents \in Nat
    BY <1>3, SyncEAssumption DEF TypeOK, Events, HandleEvent
  <2>2. Head(eventCh) \in Events /\ Tail(eventCh) \in Seq(Events)
        /\ Len(Tail(eventCh)) <= MaxEvents
    BY <2>1
  <2>3. clockState' \in [Ports -> PtpStates]
    <3>1. LOCKED \in PtpStates /\ FREERUN \in PtpStates /\ HOLDOVER \in PtpStates
          /\ UNKNOWN \in PtpStates
      BY DEF PtpStates
    <3> QED
      BY <1>3, <2>2, <3>1 DEF HandleEvent, UpdateClockStateMetrics, TypeOK, Events
  <2>4. TypeOK'
    BY <1>3, <2>2, <2>3, SameConf DEF HandleEvent, TypeOK, Events
  <2>5. MetricsOfPorts'
    BY <1>3, SameConf DEF HandleEvent, MetricsOfPorts
  <2> QED
    BY <1>2, <1>3, <2>4, <2>5 DEF HandleEvent
<1>4. CASE Stop
  <2>1. Unset \in PtpStates /\ None \in (Bytes \X Bytes) \cup {None}
    BY DEF PtpStates
  <2>2. TypeOK'
    BY <1>4, <2>1, SameConf DEF Stop, TypeOK
  <2>3. \A k \in DOMAIN qlMetric' : qlMetric'[k] = None
    BY <1>4 DEF Stop, MetricsOfPorts
  <2>4. MetricsOfPorts'
    BY <1>4, <2>3, SameConf DEF Stop, MetricsOfPorts
  <2> QED
    BY <1>2, <1>4, <2>2, <2>4 DEF Stop
<1>5. CASE Crash
  <2>1. TypeOK' /\ MetricsOfPorts'
    BY <1>5, SameConf DEF Crash, TypeOK, MetricsOfPorts
  <2> QED
    BY <1>2, <1>5, <2>1 DEF Crash
<1>6. CASE Restart
  <2>1. PICK true \in BOOLEAN :
          true /\ sent' = [p \in Ports |-> [levels |-> None, logged |-> true]]
    BY <1>6, Zenon DEF Restart
  <2>2. sent' \in [Ports -> [levels : Levels \cup {None}, logged : BOOLEAN]]
    BY <2>1
  <2>3. TypeOK' /\ MetricsOfPorts'
    BY <1>6, <2>2, SameConf DEF Restart, TypeOK, MetricsOfPorts
  <2>4. \A p \in PortsOf(conf) : p \in Ports
    BY ConfType DEF TypeOK
  <2>5. \A p \in PortsOf(conf) : sent'[p].levels = None /\ sent'[p].logged
    BY <2>1, <2>4
  <2>6. LogsBoth' /\ SSMTold' /\ LevelsTold'
    BY <1>1, <2>5, SameConf DEF LogsBoth, SSMTold, LevelsTold, Sending
  <2> QED
    BY <2>3, <2>6
<1>7. CASE UNCHANGED vars
  <2>1. TypeOK' /\ MetricsOfPorts'
    BY <1>7, SameConf DEF vars, TypeOK, MetricsOfPorts
  <2> QED
    BY <1>2, <1>7, <2>1 DEF vars
<1> QED
  BY <1>3, <1>4, <1>5, <1>6, <1>7

LEMMA Initially ==
  ASSUME Init
  PROVE  IInv /\ QualityIsBest
<1>1. TypeOK
  <2>1. Unset \in PtpStates /\ <<>> \in Seq(Events) /\ MaxLines \in Nat /\ MaxEvents \in Nat
    BY SyncEAssumption DEF PtpStates
  <2>2. PICK true \in BOOLEAN :
          true /\ sent = [p \in Ports |-> [levels |-> None, logged |-> true]]
    BY Zenon DEF Init
  <2>3. sent \in [Ports -> [levels : Levels \cup {None}, logged : BOOLEAN]]
    BY <2>2
  <2> QED
    BY <2>1, <2>3 DEF Init, TypeOK, Events
<1>2. \A p \in Ports : sent[p].levels = None /\ sent[p].logged
  BY DEF Init
<1>3. LogsBoth /\ SSMTold /\ LevelsTold
  BY <1>1, <1>2, ConfType DEF TypeOK, LogsBoth, SSMTold, LevelsTold, Sending
<1>4. MetricsOfPorts
  BY DEF Init, MetricsOfPorts
<1>5. QualityIsBest
  BY DEF Init, QualityIsBest
<1> QED
  BY <1>1, <1>3, <1>4, <1>5 DEF IInv, TypeInv

LEMMA InvStep ==
  ASSUME IInv, [Next]_vars
  PROVE  IInv'
<1>1. CASE ReadLine
  <2>1. TypeInv'
    <3>1. UNCHANGED <<conf, sent>>
      BY <1>1 DEF ReadLine
    <3>2. LogsBoth'
      BY <3>1, SameConf DEF IInv, TypeInv, LogsBoth
    <3> QED
      BY <1>1, <3>2, ReadTyped DEF IInv, TypeInv
  <2> QED
    BY <1>1, <2>1, ReadKeepsSSM, ReadKeepsLevels, ReadKeepsMetrics DEF IInv
<1>2. CASE \E p \in Ports : Synce4l(p)
  BY <1>2, LogKeepsTold
<1>3. CASE HandleEvent \/ Stop \/ Crash \/ Restart \/ UNCHANGED vars
  BY <1>3, RestKeepsTold
<1> QED
  BY <1>1, <1>2, <1>3 DEF Next

-----------------------------------------------------------------------------
(* The quality of an event does not change while the event waits.          *)

LEMMA BestEvents ==
  QualityIsBest <=>
    \A i \in DOMAIN eventCh : eventCh[i].quality # Unset =>
      IsBest(conf[SyncEDeviceByInterface(eventCh[i].port)],
             eventCh[i].ssm, eventCh[i].ext, eventCh[i].quality)
BY DEF QualityIsBest, IsBest

LEMMA SendBest ==
  ASSUME TypeOK, QualityIsBest, UNCHANGED conf, NEW e, Send(e),
         e.quality # Unset =>
           IsBest(conf[SyncEDeviceByInterface(e.port)], e.ssm, e.ext, e.quality)
  PROVE  QualityIsBest'
<1>1. \A i \in DOMAIN eventCh' :
        eventCh'[i] = e \/ \E j \in DOMAIN eventCh : eventCh'[i] = eventCh[j]
  <2>1. eventCh \in Seq(Events)
    BY DEF TypeOK, Events
  <2> QED
    BY <2>1 DEF Send
<1> QED
  BY <1>1, BestEvents, SameConf DEF QualityIsBest, IsBest

LEMMA QualityEventBest ==
  ASSUME TypeOK, QualityIsBest, UNCHANGED conf, NEW p \in PortsOf(conf), NEW ssm, NEW ext,
         QualityEvent(p, SyncEDeviceByInterface(p), ssm, ext)
  PROVE  QualityIsBest'
<1> DEFINE d == SyncEDeviceByInterface(p)
           Event(q) == [port |-> p, state |-> LastClockState[d], ssm |-> ssm, ext |-> ext,
                        quality |-> q]
<1>1. PICK q \in ClockQuality(conf[d], ssm, ext) : Send(Event(q))
  BY DEF QualityEvent
<1>2. conf[d].tlv \in {0, 1}
  BY ConfType, DeviceFound DEF TypeOK
<1>3. q # Unset => IsBest(conf[d], ssm, ext, q)
  BY <1>2, ClockQualityIsBest
<1>4. Event(q).quality = q /\ Event(q).port = p /\ Event(q).ssm = ssm /\ Event(q).ext = ext
  OBVIOUS
<1> HIDE DEF Event
<1> QED
  BY <1>1, <1>3, <1>4, SendBest

LEMMA QualityStep ==
  ASSUME TypeOK, QualityIsBest, [Next]_vars
  PROVE  QualityIsBest'
<1>1. UNCHANGED conf
  BY DEF Next, ReadLine, HandleEvent, Stop, Synce4l, LogState, LogQL, LogExtQL, Crash,
         Restart, vars
<1>2. CASE ReadLine
  <2>1. PICK p \in PortsOf(conf) : p = Head(lines).port
    BY <1>2, LineTyped DEF ReadLine
  <2>2. CASE \E s : ProcessState(p, s)
    <3>1. PICK s : Send([port |-> p, state |-> ToPTPState(s), ssm |-> 0, ext |-> 0,
                         quality |-> Unset])
      BY <2>2 DEF ProcessState
    <3>2. [port |-> p, state |-> ToPTPState(s), ssm |-> 0, ext |-> 0,
           quality |-> Unset].quality = Unset
      OBVIOUS
    <3> QED
      BY <1>1, <3>1, <3>2, SendBest
  <2>3. CASE \E ssm, ext : QualityEvent(p, SyncEDeviceByInterface(p), ssm, ext)
    BY <1>1, <2>3, QualityEventBest
  <2>4. CASE UNCHANGED eventCh
    BY <1>1, <2>4, BestEvents, SameConf DEF QualityIsBest, IsBest
  <2>5. \/ \E s : ProcessState(p, s)
        \/ \E ssm, ext : QualityEvent(p, SyncEDeviceByInterface(p), ssm, ext)
        \/ UNCHANGED eventCh
    BY <1>2, <2>1 DEF ReadLine, ProcessQL, ProcessQLWaits, ProcessExtQL
  <2> QED
    BY <2>2, <2>3, <2>4, <2>5
<1>3. CASE HandleEvent
  <2>1. \A i \in DOMAIN eventCh' : \E j \in DOMAIN eventCh : eventCh'[i] = eventCh[j]
    <3>1. eventCh \in Seq(Events) /\ eventCh # <<>> /\ eventCh' = Tail(eventCh)
      BY <1>3 DEF HandleEvent, TypeOK, Events
    <3> QED
      BY <3>1
  <2> QED
    BY <1>1, <2>1, BestEvents, SameConf DEF QualityIsBest, IsBest
<1>4. CASE UNCHANGED eventCh
  BY <1>1, <1>4, BestEvents, SameConf DEF QualityIsBest, IsBest
<1> QED
  BY <1>2, <1>3, <1>4 DEF Next, Stop, Synce4l, LogState, LogQL, LogExtQL, Crash, Restart, vars

-----------------------------------------------------------------------------
(* The theorems.                                                           *)

LEMMA Invariant == Spec => [](IInv /\ QualityIsBest)
<1>1. Init => IInv /\ QualityIsBest
  BY Initially
<1>2. IInv /\ QualityIsBest /\ [Next]_vars => (IInv /\ QualityIsBest)'
  BY InvStep, QualityStep DEF IInv, TypeInv
<1> QED
  BY <1>1, <1>2, PTL DEF Spec

(* The daemon and synce4l stay within their types, and no channel          *)
(* overflows.                                                              *)
THEOREM TypeCorrect == Spec => []TypeOK
<1>1. IInv => TypeOK
  BY DEF IInv, TypeInv
<1> QED
  BY <1>1, Invariant, PTL

(* SyncEDeviceByInterface finds the device a port was configured for,      *)
(* although the later devices have the port, too.                          *)
THEOREM DeviceCorrect == Spec => []DeviceIsItsSection
<1>1. IInv => DeviceIsItsSection
  BY DeviceOfSection DEF IInv, TypeInv, TypeOK
<1> QED
  BY <1>1, Invariant, PTL

(* ProcessSynceEvents puts together what was sent together, wherever the   *)
(* lines of other ports stand and whenever synce4l crashes.                *)
THEOREM LevelsCorrect == Spec => []LevelsAreSent
<1>1. IInv => LevelsAreSent
  <2> SUFFICES ASSUME IInv, up = "run", lines = <<>>,
                      NEW p \in PortsOf(conf), sent[p].logged, sent[p].levels # None
               PROVE  qlMetric[<<SyncEDeviceByInterface(p), p>>] = sent[p].levels
    BY DEF LevelsAreSent
  <2> QED
    BY Emptied DEF IInv, LevelsTold, Sending
<1> QED
  BY <1>1, Invariant, PTL

(* ClockQuality returns the best row that applies, in whichever order the  *)
(* rows are tried.                                                         *)
THEOREM QualityCorrect == Spec => []QualityIsBest
BY Invariant, PTL

(* deleteSyncEMetrics leaves no quality metric.                            *)
THEOREM MetricsCorrect == Spec => []NoMetricLeft
<1>1. IInv => NoMetricLeft
  BY DEF IInv, MetricsOfPorts, NoMetricLeft
<1> QED
  BY <1>1, Invariant, PTL
=============================================================================
