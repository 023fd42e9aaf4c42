------------------------------- MODULE Ports --------------------------------
(***************************************************************************)
(* What the daemon makes of the output of ptp4l and phc2sys                *)
(* (pkg/daemon/metrics.go and daemon.go): the role of every port, the port *)
(* that offsets are attributed to, the state of the clocks, and, when      *)
(* several profiles back each other up, the active profile.  Every profile *)
(* has a ptp4l whose output one goroutine reads; another one reads that of *)
(* phc2sys.                                                                *)
(*                                                                         *)
(* ptp4l and phc2sys are modelled from the lines the code looks for.  Only *)
(* ptp4l writes under its configuration name, so masterOffsetSource always *)
(* is ptp4l.  The values of offsets, frequency and delay are left out: an  *)
(* offset is measured, or the value that stands for a fault.  So are the   *)
(* metrics of CLOCK_REALTIME, which the offset lines of phc2sys write, and *)
(* a fault too.                                                            *)
(***************************************************************************)
EXTENDS Naturals, Sequences, FiniteSets, PtpState

CONSTANTS
  Profiles, Names,  \* profiles and interfaces
  ProfileOf,        \* the profile of an interface
  Running,          \* the profiles whose ptp4l runs, the others are silent
  Alias,            \* the interface without its last character
  NoIface,
  MaxLog            \* bound on the unread lines of a process

ASSUME PortsAssumption ==
  /\ IsFiniteSet(Profiles)
  /\ ProfileOf \in [Names -> Profiles]
  /\ Running \subseteq Profiles
  /\ NoIface \notin Names
  /\ MaxLog \in Nat

Aliases == {Alias[n] : n \in Names}

VARIABLES
  port,               \* the state of every port in ptp4l
  log,                \* unread output of the ptp4l of a profile
  role,               \* InterfaceRole
  masterOffsetIface, slaveIface,
  clockState,         \* ClockState of ptp4l, by alias
  offset,             \* Offset: by alias, and by name for summary lines
  domain, outOfDomain, \* the clocks phc2sys has selected
  phcLog,             \* unread output of phc2sys
  ha                  \* PTPHAMetrics

ptp4l == <<port, log>>
phc2sys == <<domain, outOfDomain, phcLog>>
tracked == <<masterOffsetIface, slaveIface>>
vars == <<port, log, role, masterOffsetIface, slaveIface, clockState, offset, domain,
          outOfDomain, phcLog, ha>>

States == {"LISTENING", "UNCALIBRATED", "SLAVE", "MASTER", "PASSIVE", "FAULTY"}
Roles == {"SLAVE", "PASSIVE", "MASTER", "FAULTY", "UNKNOWN"}

-----------------------------------------------------------------------------
(* extractPTP4lEventState                                                  *)

RoleOf(l) ==
  CASE l.from = "UNCALIBRATED" /\ l.to = "SLAVE" -> "SLAVE"
    [] l.from \in {"UNCALIBRATED", "MASTER", "SLAVE"} /\ l.to = "PASSIVE" -> "PASSIVE"
    [] l.from \in {"UNCALIBRATED", "LISTENING"} /\ l.to = "MASTER" -> "MASTER"
    [] l.fault -> "FAULTY"
    [] OTHER -> "UNKNOWN"

(* A slip: the configuration name is not used. *)
NewSlaveEverywhere(f, n) ==
  /\ masterOffsetIface' = [g \in Profiles |-> n]
  /\ slaveIface' = [g \in Profiles |-> n]
  /\ UNCHANGED <<clockState, offset>>

(* A slip: the first slave is kept until it fails. *)
NewSlaveFirst(f, n) ==
  /\ masterOffsetIface' = [masterOffsetIface EXCEPT ![f] = IF @ = NoIface THEN n ELSE @]
  /\ slaveIface' = [slaveIface EXCEPT ![f] = IF @ = NoIface THEN n ELSE @]
  /\ UNCHANGED <<clockState, offset>>

(* extractMetrics for a line about a port: a new slave is tracked,         *)
NewSlave(f, n) ==
  /\ masterOffsetIface' = [masterOffsetIface EXCEPT ![f] = n]
  /\ slaveIface' = [slaveIface EXCEPT ![f] = n]
  /\ UNCHANGED <<clockState, offset>>

(* A slip: the clock state of a faulty slave is kept. *)
SlaveFaultyKeepsState(f) ==
  /\ offset' = [offset EXCEPT ![Alias[masterOffsetIface[f]]] = "faulty"]
  /\ masterOffsetIface' = [masterOffsetIface EXCEPT ![f] = NoIface]
  /\ slaveIface' = [slaveIface EXCEPT ![f] = NoIface]
  /\ UNCHANGED clockState

(* and forgotten when it is faulty.                                        *)
SlaveFaulty(f) ==
  /\ offset' = [offset EXCEPT ![Alias[masterOffsetIface[f]]] = "faulty"]
  /\ clockState' = [clockState EXCEPT ![Alias[masterOffsetIface[f]]] = FREERUN]
  /\ masterOffsetIface' = [masterOffsetIface EXCEPT ![f] = NoIface]
  /\ slaveIface' = [slaveIface EXCEPT ![f] = NoIface]

ReadPort(f, l) ==
  /\ l.kind = "port"
  /\ role' = IF RoleOf(l) = "UNKNOWN" THEN role
             ELSE [role EXCEPT ![l.name] = RoleOf(l)]
  /\ \/ RoleOf(l) = "SLAVE" /\ NewSlave(f, l.name)
     \/ RoleOf(l) = "FAULTY" /\ slaveIface[f] = l.name /\ SlaveFaulty(f)
     \/ /\ RoleOf(l) # "SLAVE"
        /\ ~(RoleOf(l) = "FAULTY" /\ slaveIface[f] = l.name)
        /\ UNCHANGED <<tracked, clockState, offset>>

-----------------------------------------------------------------------------
(* extractRegularMetrics and extractSummaryMetrics                         *)

ClockStateOf(servo) == IF servo \in {"s2", "s3"} THEN LOCKED ELSE FREERUN

(* ProcessTs2PhcEvents, the state of an offset in or out of range.         *)
PtpStateOf(state, inRange) ==
  IF state \notin {HOLDOVER, FREERUN} /\ inRange THEN LOCKED ELSE state

(* The offset is attributed to the alias of the tracked port,              *)
ReadOffset(f, l) ==
  /\ l.kind = "offset"
  /\ \/ /\ masterOffsetIface[f] # NoIface
        /\ LET a == Alias[masterOffsetIface[f]] IN
             /\ clockState' = [clockState EXCEPT ![a] =
                                 PtpStateOf(ClockStateOf(l.servo), l.inRange)]
             /\ offset' = [offset EXCEPT ![a] = "measured"]
     \/ masterOffsetIface[f] = NoIface /\ UNCHANGED <<clockState, offset>>
  /\ UNCHANGED <<role, tracked>>

(* that of a summary to its name.                                          *)
ReadSummary(f, l) ==
  /\ l.kind = "max"
  /\ offset' = IF masterOffsetIface[f] = NoIface THEN offset
               ELSE [offset EXCEPT ![masterOffsetIface[f]] = "measured"]
  /\ UNCHANGED <<role, tracked, clockState>>

ReadPtp4l(f) ==
  /\ log[f] # <<>>
  /\ \/ ReadPort(f, Head(log[f]))
     \/ ReadOffset(f, Head(log[f]))
     \/ ReadSummary(f, Head(log[f]))
  /\ log' = [log EXCEPT ![f] = Tail(@)]
  /\ UNCHANGED <<port, ha>>
  /\ UNCHANGED phc2sys

-----------------------------------------------------------------------------
(* announceHAFailOver                                                      *)

(* ApplyHaProfiles: the interfaces of a profile.                           *)
haProfile(f) == {n \in Names : ProfileOf[n] = f}

(* failOverIndicator: the profile in its domain is active only if it is    *)
(* the only one.                                                           *)
ActiveState(l) == IF l.inDomain /\ Cardinality(Profiles) > 1 THEN 0 ELSE 1

(* A slip: the other profiles are not marked as inactive. *)
InactiveNone(l) == {}

Inactive(l) == IF ActiveState(l) = 1 THEN {f \in Profiles : l.name \notin haProfile(f)}
                                     ELSE {}

AnnounceHAFailOver(l) ==
  /\ ha' = [f \in Profiles |-> IF l.name \in haProfile(f) THEN ActiveState(l)
                               ELSE IF f \in Inactive(l) THEN 0 ELSE ha[f]]
  /\ UNCHANGED <<clockState, offset>>

ReadPhc2sys ==
  /\ phcLog # <<>>
  /\ AnnounceHAFailOver(Head(phcLog))
  /\ phcLog' = Tail(phcLog)
  /\ UNCHANGED <<ptp4l, role, tracked, domain, outOfDomain>>

-----------------------------------------------------------------------------
(* ptp4l: one port at most follows a master; any port may fail.            *)

Moves ==
  {<<"LISTENING", "UNCALIBRATED">>, <<"LISTENING", "MASTER">>,
   <<"LISTENING", "PASSIVE">>, <<"UNCALIBRATED", "SLAVE">>,
   <<"UNCALIBRATED", "MASTER">>, <<"UNCALIBRATED", "PASSIVE">>,
   <<"SLAVE", "MASTER">>, <<"SLAVE", "PASSIVE">>, <<"SLAVE", "LISTENING">>,
   <<"MASTER", "UNCALIBRATED">>, <<"MASTER", "PASSIVE">>,
   <<"PASSIVE", "UNCALIBRATED">>, <<"PASSIVE", "MASTER">>,
   <<"FAULTY", "LISTENING">>}
Faults == {<<s, "FAULTY">> : s \in States \ {"FAULTY"}} \cup {<<"SLAVE", "UNCALIBRATED">>}

Follows(n) == port[n] \in {"UNCALIBRATED", "SLAVE"}

PortChanges(n) ==
  LET f == ProfileOf[n] IN
    /\ f \in Running
    /\ Len(log[f]) < MaxLog
    /\ \E m \in Moves \cup Faults :
         /\ port[n] = m[1]
         /\ m[2] = "UNCALIBRATED" => \A o \in haProfile(f) \ {n} : ~Follows(o)
         /\ port' = [port EXCEPT ![n] = m[2]]
         /\ log' = [log EXCEPT ![f] = Append(@, [kind |-> "port", name |-> n,
                      from |-> m[1], to |-> m[2], fault |-> m \in Faults])]
    /\ UNCHANGED <<role, tracked, clockState, offset, ha>>
    /\ UNCHANGED phc2sys

Measures(n) ==
  LET f == ProfileOf[n] IN
    /\ port[n] = "SLAVE"
    /\ Len(log[f]) < MaxLog
    /\ \/ \E servo \in {"s0", "s2"}, inRange \in BOOLEAN :
            log' = [log EXCEPT ![f] =
                      Append(@, [kind |-> "offset", servo |-> servo, inRange |-> inRange])]
       \/ log' = [log EXCEPT ![f] = Append(@, [kind |-> "max"])]
    /\ UNCHANGED <<port, role, tracked, clockState, offset, ha>>
    /\ UNCHANGED phc2sys

(* ptp4l ends and is started again; its output is read before.             *)
Crash(f) ==
  /\ log[f] = <<>>
  /\ port' = [n \in Names |-> IF ProfileOf[n] = f THEN "LISTENING" ELSE port[n]]
  /\ UNCHANGED <<log, role, tracked, clockState, offset, ha>>
  /\ UNCHANGED phc2sys

-----------------------------------------------------------------------------
(* phc2sys selects a clock in the domain of every profile, and one of them *)
(* for the system clock.                                                   *)

Select(n, inDomain) == [name |-> n, inDomain |-> inDomain]

SelectInDomain(n) ==
  /\ Len(phcLog) < MaxLog
  /\ domain[ProfileOf[n]] # n
  /\ domain' = [domain EXCEPT ![ProfileOf[n]] = n]
  /\ LET active == outOfDomain # NoIface /\ ProfileOf[outOfDomain] = ProfileOf[n] IN
       /\ outOfDomain' = IF active THEN n ELSE outOfDomain
       /\ phcLog' = phcLog \o (IF active THEN <<Select(n, TRUE), Select(n, FALSE)>>
                               ELSE <<Select(n, TRUE)>>)
  /\ UNCHANGED <<ptp4l, role, tracked, clockState, offset, ha>>

FailOver(f) ==
  /\ Len(phcLog) < MaxLog
  /\ domain[f] \notin {NoIface, outOfDomain}
  /\ outOfDomain' = domain[f]
  /\ phcLog' = Append(phcLog, Select(domain[f], FALSE))
  /\ UNCHANGED <<ptp4l, role, tracked, clockState, offset, ha, domain>>

Init ==
  /\ port = [n \in Names |-> "LISTENING"]
  /\ log = [f \in Profiles |-> <<>>]
  /\ role = [n \in Names |-> "UNKNOWN"]
  /\ masterOffsetIface = [f \in Profiles |-> NoIface]
  /\ slaveIface = [f \in Profiles |-> NoIface]
  /\ clockState = [c \in Aliases |-> NOTSET]
  /\ offset = [c \in Aliases \cup Names |-> "none"]
  /\ domain = [f \in Profiles |-> NoIface]
  /\ outOfDomain = NoIface
  /\ phcLog = <<>>
  /\ ha = [f \in Profiles |-> 0]

Next ==
  \/ \E f \in Profiles : ReadPtp4l(f) \/ Crash(f) \/ FailOver(f)
  \/ \E n \in Names : PortChanges(n) \/ Measures(n) \/ SelectInDomain(n)
  \/ ReadPhc2sys

Spec == Init /\ [][Next]_vars

-----------------------------------------------------------------------------
(* Properties.                                                             *)

(* Every variable has its type.                                            *)
TypeOK ==
  /\ port \in [Names -> States]
  /\ \A f \in Profiles : Len(log[f]) <= MaxLog
  /\ role \in [Names -> Roles]
  /\ masterOffsetIface \in [Profiles -> Names \cup {NoIface}]
  /\ slaveIface \in [Profiles -> Names \cup {NoIface}]
  /\ \A f \in Profiles : masterOffsetIface[f] # NoIface => ProfileOf[masterOffsetIface[f]] = f
  /\ clockState \in [Aliases -> {NOTSET, FREERUN, LOCKED}]
  /\ offset \in [Aliases \cup Names -> {"none", "faulty", "measured"}]
  /\ domain \in [Profiles -> Names \cup {NoIface}]
  /\ outOfDomain \in Names \cup {NoIface}
  /\ Len(phcLog) <= MaxLog + 1
  /\ ha \in [Profiles -> {0, 1}]

(* When the output of its ptp4l has been read, a port that is SLAVE is the *)
(* one that offsets are attributed to and whose fault is noticed, and its  *)
(* role is known: whichever ports were slaves, failed or were restarted    *)
(* before.                                                                 *)
SlaveIsTracked ==
  \A n \in Names :
    LET f == ProfileOf[n] IN
      log[f] = <<>> /\ port[n] = "SLAVE"
        => masterOffsetIface[f] = n /\ slaveIface[f] = n /\ role[n] = "SLAVE"

(* The ports of the profile of n are those of its card.                    *)
HasOwnCard(n) == \A m \in Names : Alias[m] = Alias[n] <=> ProfileOf[m] = ProfileOf[n]

(* A port that has failed is not the one offsets are attributed to, and a  *)
(* profile without such a port has no clock that is LOCKED, if it has a    *)
(* card of its own.                                                        *)
FaultIsNoticed ==
  \A n \in Names :
    LET f == ProfileOf[n] IN
      /\ log[f] = <<>> /\ port[n] = "FAULTY" => slaveIface[f] # n /\ role[n] = "FAULTY"
      /\ HasOwnCard(n) /\ slaveIface[f] = NoIface => clockState[Alias[n]] # LOCKED

(* When the output of phc2sys has been read, the profile it follows is     *)
(* active, and the only one.                                               *)
ActiveProfileIsFollowed ==
  phcLog = <<>> /\ outOfDomain # NoIface =>
    \A f \in Profiles : (ha[f] = 1) <=> (f = ProfileOf[outOfDomain])

-----------------------------------------------------------------------------
(* Statements the code does not satisfy.                                   *)

(* A clock is LOCKED only while a port of its profile is SLAVE: a slave    *)
(* that becomes passive, loses its master or crashes leaves it LOCKED.     *)
LockedHasSlave ==
  \A f \in Profiles : log[f] = <<>> /\ (\E n \in haProfile(f) : clockState[Alias[n]] = LOCKED)
    => \E n \in haProfile(f) : port[n] = "SLAVE"

(* The same on several cards: that of the slave before the last stays      *)
(* LOCKED when the last one fails.                                         *)
NoCardLockedAfterFault ==
  \A n \in Names :
    LET f == ProfileOf[n] IN
      log[f] = <<>> /\ port[n] = "FAULTY" /\ slaveIface[f] = NoIface
        => clockState[Alias[n]] # LOCKED

(* The role of a port is the one it has: "LISTENING to PASSIVE", "SLAVE to *)
(* MASTER" and "PASSIVE to MASTER" are not recognised.                     *)
RoleIsKnown ==
  \A n \in Names : log[ProfileOf[n]] = <<>> /\ port[n] \in {"MASTER", "PASSIVE"}
    => role[n] = port[n]

(* After the fault of the slave its last offset is not shown any more:     *)
(* that of a summary line is kept under the name of the interface.         *)
FaultyOffsetIsShown ==
  \A n \in Names : log[ProfileOf[n]] = <<>> /\ port[n] = "FAULTY" => offset[n] # "measured"
=============================================================================
