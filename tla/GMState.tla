------------------------------ MODULE GMState -------------------------------
(***************************************************************************)
(* The state of the grandmaster (T-GM): the main loop of the event handler *)
(* (pkg/event) folds the reports of the GNSS monitor, of the DPLLs and of  *)
(* ts2phc into one state and one clock class.                              *)
(*                                                                         *)
(* There is one ts2phc profile on a node, hence one key in e.data and in   *)
(* e.gmSyncState; the key is left out.  Prometheus metrics and log lines   *)
(* are left out, and so are SyncE events, which only update metrics.  The  *)
(* fields clockAccuracy and sourceLost of grandMasterSyncState are written *)
(* and never read, so gm holds only state and class.  What the loop does   *)
(* with the class is in ClockClass.                                        *)
(***************************************************************************)
EXTENDS Naturals, PtpState

CONSTANTS
  Ifaces,         \* network interfaces that events name
  GnssIfaces,     \* those a GNSS receiver is attached to
  NoIface,        \* GM_INTERFACE_UNKNOWN
  MaxTime,        \* bound on the time stamps of events
  Traceable       \* values an event's FrequencyTraceable takes

Processes == {GNSS, DPLL, TS2PHC}

(* States a process reports, and the mark of an interface it has not       *)
(* reported on (no DataDetails).                                           *)
ReportStates == {FREERUN, HOLDOVER, LOCKED}
NoReport == "none"

Times == 0 .. MaxTime

ASSUME GMAssumption ==
  /\ GnssIfaces \subseteq Ifaces
  /\ NoIface \notin Ifaces
  /\ MaxTime \in Nat
  /\ Traceable \subseteq BOOLEAN

VARIABLES
  data,        \* e.data: the last report of a process on an interface
  gnssFirst,   \* the interface of Details[0] of the GNSS Data
  gm,          \* e.gmSyncState; state NOTSET when there is no entry
  spec         \* e.outOfSpec and e.frequencyTraceable

vars == <<data, gnssFirst, gm, spec>>

-----------------------------------------------------------------------------
(* The events of the producers: gpsd, the DPLLs, and ts2phc's log.  A GNSS *)
(* report is LOCKED only when its source is not lost; ts2phc never sets    *)
(* OutOfSpec.  SourceLost is read back for GNSS alone, so the others' is   *)
(* left FALSE.  Time stamps are arbitrary: concurrent senders overtake     *)
(* each other and the wall clock they are taken from is stepped.           *)

GnssEvents ==
  {e \in [process : {GNSS}, iface : GnssIfaces, state : {FREERUN, LOCKED},
          time : Times, sourceLost : BOOLEAN] :
     e.state = LOCKED => ~e.sourceLost}

DpllEvents ==
  [process : {DPLL}, iface : Ifaces, state : ReportStates, time : Times,
   sourceLost : {FALSE}, outOfSpec : BOOLEAN, frequencyTraceable : Traceable]

Ts2phcEvents ==
  [process : {TS2PHC}, iface : Ifaces, state : ReportStates, time : Times,
   sourceLost : {FALSE}]

Events == GnssEvents \cup DpllEvents \cup Ts2phcEvents

-----------------------------------------------------------------------------
(* The reports of the processes.                                           *)

Detail == [state : ReportStates \cup {NoReport}, time : Times,
           sourceLost : BOOLEAN]

NoDetail == [state |-> NoReport, time |-> 0, sourceLost |-> FALSE]

NoDetails == [i \in Ifaces |-> NoDetail]

Reported(details) == {details[i].state : i \in Ifaces} \ {NoReport}

(* A slip: FREERUN has priority over HOLDOVER. *)
UpdateStateFreerunFirst(details) ==
  CASE FREERUN \in Reported(details) -> FREERUN
    [] FREERUN \notin Reported(details) /\ HOLDOVER \in Reported(details) -> HOLDOVER
    [] Reported(details) = {LOCKED} -> LOCKED
    [] OTHER -> UNKNOWN

(* Data.UpdateState: one interface in HOLDOVER makes the process HOLDOVER, *)
(* else one in FREERUN makes it FREERUN, else one in LOCKED LOCKED.        *)
UpdateState(details) ==
  CASE HOLDOVER \in Reported(details) -> HOLDOVER
    [] HOLDOVER \notin Reported(details) /\ FREERUN \in Reported(details) -> FREERUN
    [] Reported(details) = {LOCKED} -> LOCKED
    [] OTHER -> UNKNOWN

(* The state updateGMState uses for a process; `missing' when e.data has   *)
(* no Data for it.                                                         *)
ProcessState(d, process, missing) ==
  IF Reported(d[process]) = {} THEN missing ELSE UpdateState(d[process])

IsSourceLost(d, first) == d[GNSS][first].sourceLost

(* A slip: the times are not compared. *)
StaleNever(detail, ev) == FALSE

(* Data.AddEvent: a report that is older than the stored one is discarded. *)
Stale(detail, ev) == detail.state # NoReport /\ detail.time > ev.time

AddEvent(d, ev) ==
  IF Stale(d[ev.process][ev.iface], ev)
  THEN d
  ELSE [d EXCEPT ![ev.process][ev.iface] =
          [state |-> ev.state, time |-> ev.time, sourceLost |-> ev.sourceLost]]

(* Details[0] is the first interface GNSS reported on.                     *)
FirstGnss(first, ev) ==
  IF ev.process = GNSS /\ first = NoIface THEN ev.iface ELSE first

(* A stale report of a DPLL still sets outOfSpec.                          *)
UpdateSpecState(s, ev) ==
  IF ev.process = DPLL
  THEN [outOfSpec |-> ev.outOfSpec, frequencyTraceable |-> ev.frequencyTraceable]
  ELSE s

-----------------------------------------------------------------------------
(* The state of the grandmaster, from the states of the three processes.   *)

NoGM       == [state |-> NOTSET,   class |-> ClassUninitialized]
GMInitial  == [state |-> FREERUN,  class |-> ClassUninitialized]
GMFreerun  == [state |-> FREERUN,  class |-> ClassFreerun]
GMHoldover == [state |-> HOLDOVER, class |-> ClassHoldover]
GMLocked   == [state |-> LOCKED,   class |-> ClassLocked]

(* Slips in the branch for DPLLs that are LOCKED: the grandmaster waits    *)
(* whether the source is lost or only its offset is bad; the class is not  *)
(* assigned when ts2phc is in FREERUN; while it waits for HOLDOVER the     *)
(* grandmaster is taken to be LOCKED.                                      *)
GMDpllLockedWaits(g, gnss, ts2phc, lost) ==
  CASE gnss = LOCKED /\ ts2phc = FREERUN  -> GMFreerun
    [] gnss = LOCKED /\ ts2phc = LOCKED   -> GMLocked
    [] ts2phc = HOLDOVER -> GMHoldover
    [] OTHER -> g

GMDpllLockedKeepsClass(g, gnss, ts2phc, lost) ==
  CASE gnss = LOCKED /\ ts2phc = FREERUN  -> [g EXCEPT !.state = FREERUN]
    [] gnss = LOCKED /\ ts2phc = LOCKED   -> GMLocked
    [] ts2phc = HOLDOVER -> GMHoldover
    [] gnss = FREERUN /\ ~lost /\ ts2phc # HOLDOVER -> GMFreerun
    [] OTHER -> g

GMDpllLockedGuesses(g, gnss, ts2phc, lost) ==
  CASE gnss = LOCKED /\ ts2phc = FREERUN  -> GMFreerun
    [] gnss = LOCKED /\ ts2phc = LOCKED   -> GMLocked
    [] ts2phc = HOLDOVER -> GMHoldover
    [] gnss = FREERUN /\ lost /\ ts2phc # HOLDOVER -> GMLocked
    [] gnss = FREERUN /\ ~lost /\ ts2phc # HOLDOVER -> GMFreerun
    [] OTHER -> g

(* All DPLLs LOCKED, or no DPLL.  While the source is lost the grandmaster *)
(* stays as it is, waiting for the DPLL to move to HOLDOVER.               *)
GMDpllLocked(g, gnss, ts2phc, lost) ==
  CASE gnss = LOCKED /\ ts2phc = FREERUN  -> GMFreerun
    [] gnss = LOCKED /\ ts2phc = LOCKED   -> GMLocked
    [] gnss = LOCKED /\ ts2phc = HOLDOVER -> GMHoldover
    [] gnss = FREERUN /\ lost /\ ts2phc = HOLDOVER  -> GMHoldover
    [] gnss = FREERUN /\ ~lost /\ ts2phc # HOLDOVER -> GMFreerun
    [] OTHER -> g

(* The state of the DPLL is UNKNOWN.                                       *)
GMDpllUnknown(g, gnss, ts2phc) ==
  CASE gnss \in {LOCKED, FREERUN} /\ ts2phc = HOLDOVER -> GMHoldover
    [] gnss = LOCKED /\ ts2phc = LOCKED -> GMLocked
    [] gnss = LOCKED /\ ts2phc \in {FREERUN, UNKNOWN, NOTSET} -> GMFreerun
    [] gnss = FREERUN /\ ts2phc # HOLDOVER -> GMFreerun
    [] OTHER -> [state |-> ts2phc,
                 class |-> CASE ts2phc = FREERUN -> ClassFreerun
                             [] ts2phc = LOCKED  -> ClassHoldover
                             [] OTHER            -> g.class]

(* A DPLL in FREERUN: class 140 is for a traceable frequency only.         *)
GMDpllFreerun(s) ==
  IF s.outOfSpec /\ s.frequencyTraceable
  THEN [state |-> FREERUN, class |-> ClassOutOfSpec]
  ELSE GMFreerun

(* EventHandler.updateGMState, once the GNSS interface is known.  Its      *)
(* branch for a missing e.data entry is dead: the interface comes from it. *)
ComputeGM(g, d, first, s) ==
  LET dpll   == ProcessState(d, DPLL, NOTSET)
      gnss   == ProcessState(d, GNSS, FREERUN)
      ts2phc == ProcessState(d, TS2PHC, FREERUN)
  IN  CASE dpll = FREERUN  -> GMDpllFreerun(s)
        [] dpll = HOLDOVER -> GMHoldover
        [] dpll \in {LOCKED, NOTSET} ->
             GMDpllLocked(g, gnss, ts2phc, IsSourceLost(d, first))
        [] dpll = UNKNOWN -> GMDpllUnknown(g, gnss, ts2phc)

(* updateGMState.  A missing gmSyncState entry is created first.           *)
UpdateGMState(g, d, first, s) ==
  IF first = NoIface THEN g
  ELSE ComputeGM(IF g = NoGM THEN GMInitial ELSE g, d, first, s)

-----------------------------------------------------------------------------
(* The main loop of ProcessEvents.                                         *)

(* One event that is not a Reset. *)
ProcessEvent(ev) ==
  /\ data' = AddEvent(data, ev)
  /\ gnssFirst' = FirstGnss(gnssFirst, ev)
  /\ spec' = UpdateSpecState(spec, ev)
  /\ gm' = UpdateGMState(gm, data', gnssFirst', spec')

(* gpsd.go and dpll.go send Reset events.  ts2phc, for which ProcessEvents *)
(* has a branch of its own, sends none.                                    *)
ResetSources == {GNSS, DPLL}

(* A slip: the entry of gmSyncState becomes UNKNOWN instead of going away. *)
ResetProcessToUnknown(p) ==
  /\ data' = [data EXCEPT ![p] = NoDetails]
  /\ gnssFirst' = IF p = GNSS THEN NoIface ELSE gnssFirst
  /\ gm' = [state |-> UNKNOWN, class |-> ClassUninitialized]
  /\ UNCHANGED spec

(* A Reset event forgets the reports of its process on every interface,    *)
(* and the state of the grandmaster.                                       *)
ResetProcess(p) ==
  /\ data' = [data EXCEPT ![p] = NoDetails]
  /\ gnssFirst' = IF p = GNSS THEN NoIface ELSE gnssFirst
  /\ gm' = NoGM
  /\ spec' = [outOfSpec |-> FALSE, frequencyTraceable |-> FALSE]

Init ==
  /\ data = [p \in Processes |-> NoDetails]
  /\ gnssFirst = NoIface
  /\ gm = NoGM
  /\ spec = [outOfSpec |-> FALSE, frequencyTraceable |-> FALSE]

Next ==
  \/ \E ev \in Events : ProcessEvent(ev)
  \/ \E p \in ResetSources : ResetProcess(p)

Spec == Init /\ [][Next]_vars

-----------------------------------------------------------------------------
(* Properties.                                                             *)

(* Every variable has its type; in particular the state of the grandmaster *)
(* is never UNKNOWN (the branches of updateGMState for an UNKNOWN DPLL     *)
(* copy the state of ts2phc).                                              *)
TypeOK ==
  /\ data \in [Processes -> [Ifaces -> Detail]]
  /\ gnssFirst \in Ifaces \cup {NoIface}
  /\ gm \in [state : ReportStates \cup {NOTSET}, class : Classes]
  /\ spec \in [outOfSpec : BOOLEAN, frequencyTraceable : BOOLEAN]

(* The state and the clock class of the grandmaster never disagree, over   *)
(* any sequence of reports, stale reports and resets: class 6 is LOCKED,   *)
(* class 7 is HOLDOVER, and 140 and 248 are FREERUN (the branches of       *)
(* updateGMState assign the two fields separately, and some assign none).  *)
ClassMatchesState ==
  /\ gm.state = LOCKED   <=> gm.class = ClassLocked
  /\ gm.state = HOLDOVER <=> gm.class = ClassHoldover
  /\ gm.class \in {ClassOutOfSpec, ClassFreerun} => gm.state = FREERUN

LastReports(p) == Reported(data[p])

(* A grandmaster that claims LOCKED is entitled to it by the reports of    *)
(* every single interface: no DPLL reports FREERUN or HOLDOVER, and either *)
(* GNSS and every ts2phc interface report LOCKED, or the source was lost   *)
(* and updateGMState waits for the DPLL to move to HOLDOVER.               *)
LockedIsJustified ==
  gm.state = LOCKED /\ gnssFirst # NoIface =>
    /\ LastReports(DPLL) \subseteq {LOCKED}
    /\ \/ LastReports(GNSS) = {LOCKED} /\ LastReports(TS2PHC) = {LOCKED}
       \/ /\ FREERUN \in LastReports(GNSS)
          /\ data[GNSS][gnssFirst].sourceLost
          /\ HOLDOVER \notin LastReports(TS2PHC)

(* One DPLL in HOLDOVER puts the grandmaster in HOLDOVER whatever the      *)
(* other interfaces and processes report, and a DPLL in FREERUN puts it in *)
(* FREERUN unless another is in HOLDOVER: Data.UpdateState and             *)
(* updateGMState together, also after resets and discarded reports.        *)
WorstDpllDecides ==
  gm # NoGM /\ gnssFirst # NoIface =>
    /\ HOLDOVER \in LastReports(DPLL) => gm.state = HOLDOVER
    /\ FREERUN \in LastReports(DPLL) /\ HOLDOVER \notin LastReports(DPLL)
         => gm.state = FREERUN

(* The grandmaster comes (back) to LOCKED only in a step after which GNSS, *)
(* every ts2phc interface and every DPLL there is are LOCKED; the branch   *)
(* that waits for HOLDOVER never leads into LOCKED.                        *)
RelockNeedsEverySource ==
  [][gm.state # LOCKED /\ gm'.state = LOCKED =>
       /\ LastReports(GNSS)' = {LOCKED}
       /\ LastReports(TS2PHC)' = {LOCKED}
       /\ LastReports(DPLL)' \subseteq {LOCKED}]_vars

(* A report never replaces a younger one of the same process and           *)
(* interface, however the events of concurrent senders are ordered on the  *)
(* channel: until a reset the time of the stored report never decreases    *)
(* (Data.AddEvent).                                                        *)
ReportsNeverGoBack ==
  [][\A p \in Processes, i \in Ifaces :
       data[p][i].state # NoReport /\ data'[p][i].state # NoReport =>
         data'[p][i].time >= data[p][i].time]_vars

-----------------------------------------------------------------------------
(* Statements the code does not satisfy.                                   *)

(* A DPLL that reports FREERUN out of spec makes the clock class 140.      *)
OutOfSpecIsClass140 ==
  gm # NoGM /\ gnssFirst # NoIface =>
    (ProcessState(data, DPLL, NOTSET) = FREERUN /\ spec.outOfSpec
       => gm.class = ClassOutOfSpec)

(* Without a DPLL, GNSS in FREERUN makes the grandmaster FREERUN, whether  *)
(* ts2phc is LOCKED or FREERUN.                                            *)
FreerunWithoutDpll ==
  gm # NoGM /\ gnssFirst # NoIface =>
    (/\ ProcessState(data, DPLL, NOTSET) = NOTSET
     /\ ProcessState(data, GNSS, FREERUN) = FREERUN
     /\ ProcessState(data, TS2PHC, FREERUN) \in {LOCKED, FREERUN}
     => gm.state = FREERUN)
=============================================================================
