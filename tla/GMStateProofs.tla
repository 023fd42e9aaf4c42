---------------------------- MODULE GMStateProofs ---------------------------
(***************************************************************************)
(* Proofs about GMState, for any interfaces, time stamps and producers of  *)
(* Reset events.  What updateGMState returns depends on the reports only   *)
(* through the state of each process, so the proofs first relate these     *)
(* states to the reports, then characterise ComputeGM, and only then look  *)
(* at the steps of the main loop.                                          *)
(*                                                                         *)
(* The last two sections are about the parts that the GNSS receiver feeds: *)
(* GnssMonitor, whose reports the main loop handles, and Leap.             *)
(***************************************************************************)
EXTENDS GMState, GnssMonitor, Leap, TLAPS

USE GMAssumption

GMType == [state : ReportStates \cup {NOTSET}, class : Classes]

(* The reports e.data holds. *)
DataType == [Processes -> [Ifaces -> Detail]]

-----------------------------------------------------------------------------
(* Events and reports.                                                     *)

LEMMA EventType ==
  ASSUME NEW ev \in Events
  PROVE  /\ ev.process \in Processes
         /\ ev.iface \in Ifaces
         /\ [state |-> ev.state, time |-> ev.time,
             sourceLost |-> ev.sourceLost] \in Detail
         /\ ev.process = DPLL =>
              /\ ev.outOfSpec \in BOOLEAN
              /\ ev.frequencyTraceable \in BOOLEAN
<1>1. CASE ev \in GnssEvents
  BY <1>1 DEF GnssEvents, Processes, Detail, ReportStates, GNSS, DPLL
<1>2. CASE ev \in DpllEvents
  BY <1>2 DEF DpllEvents, Processes, Detail
<1>3. CASE ev \in Ts2phcEvents
  BY <1>3 DEF Ts2phcEvents, Processes, Detail, TS2PHC, DPLL
<1> QED
  BY <1>1, <1>2, <1>3 DEF Events

LEMMA NoDetailsType == NoDetails \in [Ifaces -> Detail]
BY DEF NoDetails, NoDetail, Detail, Times

LEMMA AddEventType ==
  ASSUME NEW d \in DataType, NEW ev \in Events
  PROVE  AddEvent(d, ev) \in DataType
BY EventType DEF AddEvent, DataType

(* The state of a process is one that was reported on some interface:      *)
(* UpdateState never returns UNKNOWN for a process that has reported.      *)
LEMMA ProcessStateReports ==
  ASSUME NEW d \in DataType, NEW p \in Processes, NEW missing
  PROVE  LET s == ProcessState(d, p, missing)
             r == Reported(d[p])
         IN  /\ r = {} => s = missing
             /\ r # {} => s \in ReportStates
             /\ r # {} /\ s = LOCKED => r = {LOCKED}
             /\ HOLDOVER \in r => s = HOLDOVER
             /\ FREERUN \in r /\ HOLDOVER \notin r => s = FREERUN
             /\ r # {} => s \in r
<1> DEFINE r == Reported(d[p])
<1>1. r \subseteq ReportStates
  BY DEF Reported, DataType, Detail
<1>2. ProcessState(d, p, missing) = IF r = {} THEN missing ELSE UpdateState(d[p])
  BY DEF ProcessState
<1>3. UpdateState(d[p]) =
        CASE HOLDOVER \in r -> HOLDOVER
          [] HOLDOVER \notin r /\ FREERUN \in r -> FREERUN
          [] r = {LOCKED} -> LOCKED
          [] OTHER -> UNKNOWN
  BY DEF UpdateState
<1> HIDE DEF r
<1>4. CASE HOLDOVER \in r
  BY <1>2, <1>3, <1>4 DEF ReportStates, HOLDOVER, FREERUN, LOCKED, r
<1>5. CASE HOLDOVER \notin r /\ FREERUN \in r
  BY <1>2, <1>3, <1>5 DEF ReportStates, HOLDOVER, FREERUN, LOCKED, r
<1>6. CASE HOLDOVER \notin r /\ FREERUN \notin r /\ r # {}
  <2>1. r = {LOCKED}
    BY <1>1, <1>6 DEF ReportStates
  <2> QED
    BY <1>2, <1>3, <2>1 DEF ReportStates, HOLDOVER, FREERUN, LOCKED, r
<1>7. CASE r = {}
  BY <1>2, <1>7 DEF r
<1> QED
  BY <1>4, <1>5, <1>6, <1>7

-----------------------------------------------------------------------------
(* What updateGMState computes.                                            *)

GMOutOfSpec == [state |-> FREERUN, class |-> ClassOutOfSpec]

(* The branches of updateGMState, one by one.                              *)
LEMMA ComputeGMBranches ==
  ASSUME NEW gm1, NEW d, NEW first, NEW s
  PROVE  LET dpll   == ProcessState(d, DPLL, NOTSET)
             gnss   == ProcessState(d, GNSS, FREERUN)
             ts2phc == ProcessState(d, TS2PHC, FREERUN)
             lost   == IsSourceLost(d, first)
             gm2    == ComputeGM(gm1, d, first, s)
         IN  /\ dpll = FREERUN  => gm2 = GMDpllFreerun(s)
             /\ dpll = HOLDOVER => gm2 = GMHoldover
             /\ dpll \in {LOCKED, NOTSET} =>
                  gm2 = GMDpllLocked(gm1, gnss, ts2phc, lost)
<1> DEFINE dpll   == ProcessState(d, DPLL, NOTSET)
           gnss   == ProcessState(d, GNSS, FREERUN)
           ts2phc == ProcessState(d, TS2PHC, FREERUN)
           lost   == IsSourceLost(d, first)
<1>1. ComputeGM(gm1, d, first, s) =
        CASE dpll = FREERUN  -> GMDpllFreerun(s)
          [] dpll = HOLDOVER -> GMHoldover
          [] dpll \in {LOCKED, NOTSET} -> GMDpllLocked(gm1, gnss, ts2phc, lost)
          [] dpll = UNKNOWN -> GMDpllUnknown(gm1, gnss, ts2phc)
  BY Zenon DEF ComputeGM
<1> HIDE DEF dpll, gnss, ts2phc, lost
<1>2. /\ FREERUN # HOLDOVER /\ FREERUN # LOCKED /\ FREERUN # NOTSET
      /\ FREERUN # UNKNOWN /\ HOLDOVER # LOCKED /\ HOLDOVER # NOTSET
      /\ HOLDOVER # UNKNOWN /\ LOCKED # UNKNOWN /\ NOTSET # UNKNOWN
  BY DEF FREERUN, HOLDOVER, LOCKED, NOTSET, UNKNOWN
<1>3. dpll = FREERUN => ComputeGM(gm1, d, first, s) = GMDpllFreerun(s)
  BY <1>1, <1>2, Zenon
<1>4. dpll = HOLDOVER => ComputeGM(gm1, d, first, s) = GMHoldover
  BY <1>1, <1>2, Zenon
<1>5. dpll \in {LOCKED, NOTSET} =>
        ComputeGM(gm1, d, first, s) = GMDpllLocked(gm1, gnss, ts2phc, lost)
  BY <1>1, <1>2, Zenon
<1> QED
  BY <1>3, <1>4, <1>5 DEF dpll, gnss, ts2phc, lost

(* GNSS in FREERUN not lost and ts2phc in HOLDOVER fall through.           *)
LEMMA GMDpllLockedBranches ==
  ASSUME NEW gm1, NEW gnss, NEW ts2phc, NEW lost \in BOOLEAN
  PROVE  LET gm2 == GMDpllLocked(gm1, gnss, ts2phc, lost)
         IN  /\ gm2 \in {GMFreerun, GMHoldover, GMLocked, gm1}
             /\ gnss # LOCKED \/ ts2phc # LOCKED =>
                  gm2 \in {GMFreerun, GMHoldover, gm1}
             /\ gnss = LOCKED /\ ts2phc = FREERUN  => gm2 = GMFreerun
             /\ gnss = LOCKED /\ ts2phc = LOCKED   => gm2 = GMLocked
             /\ gnss = LOCKED /\ ts2phc = HOLDOVER => gm2 = GMHoldover
             /\ gnss = FREERUN /\ lost /\ ts2phc = HOLDOVER => gm2 = GMHoldover
             /\ gnss = FREERUN /\ ~lost /\ ts2phc # HOLDOVER => gm2 = GMFreerun
<1>1. /\ FREERUN # HOLDOVER /\ FREERUN # LOCKED /\ HOLDOVER # LOCKED
  BY DEF FREERUN, HOLDOVER, LOCKED
<1>2. GMDpllLocked(gm1, gnss, ts2phc, lost) \in {GMFreerun, GMHoldover, GMLocked, gm1}
  BY Zenon DEF GMDpllLocked
<1>3. gnss = LOCKED /\ ts2phc = FREERUN =>
        GMDpllLocked(gm1, gnss, ts2phc, lost) = GMFreerun
  BY <1>1, Zenon DEF GMDpllLocked
<1>4. gnss = LOCKED /\ ts2phc = LOCKED =>
        GMDpllLocked(gm1, gnss, ts2phc, lost) = GMLocked
  BY <1>1, Zenon DEF GMDpllLocked
<1>5. gnss = LOCKED /\ ts2phc = HOLDOVER =>
        GMDpllLocked(gm1, gnss, ts2phc, lost) = GMHoldover
  BY <1>1, Zenon DEF GMDpllLocked
<1>6. gnss = FREERUN /\ lost /\ ts2phc = HOLDOVER =>
        GMDpllLocked(gm1, gnss, ts2phc, lost) = GMHoldover
  BY <1>1, Zenon DEF GMDpllLocked
<1>7. gnss = FREERUN /\ ~lost /\ ts2phc # HOLDOVER =>
        GMDpllLocked(gm1, gnss, ts2phc, lost) = GMFreerun
  BY <1>1, Zenon DEF GMDpllLocked
<1>8. gnss # LOCKED \/ ts2phc # LOCKED =>
        GMDpllLocked(gm1, gnss, ts2phc, lost) \in {GMFreerun, GMHoldover, gm1}
  BY <1>1, Zenon DEF GMDpllLocked
<1> QED
  BY <1>2, <1>3, <1>4, <1>5, <1>6, <1>7, <1>8, Zenon

LEMMA GMDpllFreerunValues ==
  ASSUME NEW s
  PROVE  GMDpllFreerun(s) \in {GMFreerun, GMOutOfSpec}
BY DEF GMDpllFreerun, GMOutOfSpec

(* The entry of gmSyncState after an event is one of four pairs of state   *)
(* and class, or the one before.  The branches for an UNKNOWN DPLL, which  *)
(* copy the state of ts2phc, are not taken; and LOCKED comes from GNSS and *)
(* ts2phc only.                                                            *)
LEMMA ComputeGMValues ==
  ASSUME NEW gm1, NEW d \in DataType, NEW first \in Ifaces, NEW s
  PROVE  LET gm2 == ComputeGM(gm1, d, first, s)
         IN  /\ gm2 \in {GMFreerun, GMHoldover, GMLocked, GMOutOfSpec, gm1}
             /\ gm2.state = LOCKED => Reported(d[DPLL]) \subseteq {LOCKED}
             /\ gm2.state = LOCKED /\ gm1.state # LOCKED =>
                  /\ Reported(d[GNSS]) = {LOCKED}
                  /\ Reported(d[TS2PHC]) = {LOCKED}
<1> DEFINE dpll   == ProcessState(d, DPLL, NOTSET)
           gnss   == ProcessState(d, GNSS, FREERUN)
           ts2phc == ProcessState(d, TS2PHC, FREERUN)
           lost   == IsSourceLost(d, first)
           gm2    == ComputeGM(gm1, d, first, s)
<1>1. DPLL \in Processes /\ GNSS \in Processes /\ TS2PHC \in Processes
  BY DEF Processes
<1>2. /\ FREERUN # HOLDOVER /\ FREERUN # LOCKED /\ HOLDOVER # LOCKED
      /\ NOTSET # LOCKED
  BY DEF FREERUN, HOLDOVER, LOCKED, NOTSET
<1>3. /\ GMFreerun.state # LOCKED /\ GMHoldover.state # LOCKED
      /\ GMOutOfSpec.state # LOCKED
  BY <1>2 DEF GMFreerun, GMHoldover, GMOutOfSpec
<1>4. lost \in BOOLEAN
  BY <1>1 DEF IsSourceLost, DataType, Detail
<1>5. /\ dpll \in {FREERUN, HOLDOVER, LOCKED, NOTSET}
      /\ dpll \in {LOCKED, NOTSET} => Reported(d[DPLL]) \subseteq {LOCKED}
  BY <1>1, <1>2, ProcessStateReports DEF ReportStates, NOTSET, FREERUN, HOLDOVER, LOCKED
<1>6. /\ gnss = LOCKED => Reported(d[GNSS]) = {LOCKED}
      /\ ts2phc = LOCKED => Reported(d[TS2PHC]) = {LOCKED}
  BY <1>1, <1>2, ProcessStateReports
<1>7. /\ dpll = FREERUN => gm2 = GMDpllFreerun(s)
      /\ dpll = HOLDOVER => gm2 = GMHoldover
      /\ dpll \in {LOCKED, NOTSET} => gm2 = GMDpllLocked(gm1, gnss, ts2phc, lost)
  BY ComputeGMBranches
<1> HIDE DEF dpll, gnss, ts2phc, lost, gm2
<1>8. CASE dpll = FREERUN
  BY <1>3, <1>7, <1>8, GMDpllFreerunValues DEF gm2
<1>9. CASE dpll = HOLDOVER
  BY <1>3, <1>7, <1>9 DEF gm2
<1>10. CASE dpll \in {LOCKED, NOTSET}
  <2>1. gm2 = GMDpllLocked(gm1, gnss, ts2phc, lost)
    BY <1>7, <1>10
  <2>2. gm2 \in {GMFreerun, GMHoldover, GMLocked, gm1}
    BY <1>4, <2>1, GMDpllLockedBranches
  <2>3. gnss # LOCKED \/ ts2phc # LOCKED => gm2 \in {GMFreerun, GMHoldover, gm1}
    BY <1>4, <2>1, GMDpllLockedBranches
  <2> QED
    BY <1>3, <1>5, <1>6, <1>10, <2>2, <2>3 DEF gm2
<1> QED
  BY <1>5, <1>8, <1>9, <1>10

-----------------------------------------------------------------------------
(* The steps of the main loop.                                             *)

(* The entry updateGMState starts from. *)
Entry == IF gm = NoGM THEN GMInitial ELSE gm

(* An event whose interface is known updates the entry by ComputeGM.       *)
LEMMA EventUpdates ==
  ASSUME TypeOK, NEW ev \in Events, ProcessEvent(ev)
  PROVE  /\ data' \in DataType
         /\ gnssFirst' \in Ifaces \cup {NoIface}
         /\ spec' \in [outOfSpec : BOOLEAN, frequencyTraceable : BOOLEAN]
         /\ gnssFirst' = NoIface => gnssFirst = NoIface /\ gm' = gm
         /\ gnssFirst' # NoIface => gm' = ComputeGM(Entry, data', gnssFirst', spec')
<1>1. data' \in DataType
  BY AddEventType DEF TypeOK, ProcessEvent, DataType
<1>2. gnssFirst' \in Ifaces \cup {NoIface}
  BY EventType DEF TypeOK, ProcessEvent, FirstGnss
<1>3. spec' \in [outOfSpec : BOOLEAN, frequencyTraceable : BOOLEAN]
  BY EventType DEF TypeOK, ProcessEvent, UpdateSpecState
<1>4. gnssFirst' = NoIface => gnssFirst = NoIface
  BY EventType DEF TypeOK, ProcessEvent, FirstGnss
<1>5. gm' = UpdateGMState(gm, data', gnssFirst', spec')
  BY DEF ProcessEvent
<1> QED
  BY <1>1, <1>2, <1>3, <1>4, <1>5 DEF UpdateGMState, Entry

LEMMA InitialType == Init => TypeOK
BY NoDetailsType DEF Init, TypeOK, NoGM, Classes

LEMMA TypeStep ==
  ASSUME TypeOK, [Next]_vars
  PROVE  TypeOK'
<1>1. ASSUME NEW ev \in Events, ProcessEvent(ev) PROVE TypeOK'
  <2>1. {GMFreerun, GMHoldover, GMLocked, GMOutOfSpec, Entry} \subseteq GMType
    BY DEF GMType, GMFreerun, GMHoldover, GMLocked, GMOutOfSpec, Entry, GMInitial,
           TypeOK, ReportStates, Classes
  <2>2. gm' \in GMType
    <3>1. CASE gnssFirst' = NoIface
      BY <1>1, <3>1, EventUpdates DEF TypeOK, GMType
    <3>2. CASE gnssFirst' # NoIface
      BY <1>1, <2>1, <3>2, EventUpdates, ComputeGMValues
    <3> QED
      BY <3>1, <3>2
  <2> QED
    BY <1>1, <2>2, EventUpdates DEF TypeOK, GMType, DataType
<1>2. ASSUME NEW p \in ResetSources, ResetProcess(p) PROVE TypeOK'
  BY <1>2, NoDetailsType DEF ResetProcess, TypeOK, NoGM, Classes
<1>3. CASE UNCHANGED vars
  BY <1>3 DEF vars, TypeOK
<1> QED
  BY <1>1, <1>2, <1>3 DEF Next

(* The grandmaster is never in the state UNKNOWN, for any sequence of      *)
(* reports, stale reports and resets: updateGMState copies a state that    *)
(* may be UNKNOWN only in branches that no reports lead to.                *)
THEOREM TypeCorrect == Spec => []TypeOK
BY InitialType, TypeStep, PTL DEF Spec

(* State and class go together in every entry.                             *)
LEMMA ClassStep ==
  ASSUME TypeOK, ClassMatchesState, [Next]_vars
  PROVE  ClassMatchesState'
<1> DEFINE Matches(gm1) ==
      /\ gm1.state = LOCKED   <=> gm1.class = ClassLocked
      /\ gm1.state = HOLDOVER <=> gm1.class = ClassHoldover
      /\ gm1.class \in {ClassOutOfSpec, ClassFreerun} => gm1.state = FREERUN
<1>1. \A gm1 \in {GMFreerun, GMHoldover, GMLocked, GMOutOfSpec, NoGM, GMInitial} :
        Matches(gm1)
  BY DEF GMFreerun, GMHoldover, GMLocked, GMOutOfSpec, NoGM, GMInitial, LOCKED,
         HOLDOVER, FREERUN, NOTSET, ClassLocked, ClassHoldover, ClassOutOfSpec,
         ClassFreerun, ClassUninitialized
<1>2. Matches(gm)
  BY DEF ClassMatchesState
<1> SUFFICES Matches(gm')
  BY DEF ClassMatchesState
<1> HIDE DEF Matches
<1>3. ASSUME NEW ev \in Events, ProcessEvent(ev) PROVE Matches(gm')
  <2>1. CASE gnssFirst' = NoIface
    BY <1>2, <1>3, <2>1, EventUpdates
  <2>2. CASE gnssFirst' # NoIface
    BY <1>1, <1>2, <1>3, <2>2, EventUpdates, ComputeGMValues DEF Entry
  <2> QED
    BY <2>1, <2>2
<1>4. ASSUME NEW p \in ResetSources, ResetProcess(p) PROVE Matches(gm')
  BY <1>1, <1>4 DEF ResetProcess
<1>5. CASE UNCHANGED vars
  BY <1>2, <1>5 DEF vars
<1> QED
  BY <1>3, <1>4, <1>5 DEF Next

(* The clock class that is announced always tells the state: a grandmaster *)
(* in holdover or free run never announces class 6, and one that is LOCKED *)
(* announces no other.                                                     *)
THEOREM ClassCorrect == Spec => []ClassMatchesState
<1>1. Init => ClassMatchesState
  BY DEF Init, ClassMatchesState, NoGM, LOCKED, HOLDOVER, FREERUN, NOTSET,
         ClassLocked, ClassHoldover, ClassOutOfSpec, ClassFreerun,
         ClassUninitialized
<1> QED
  BY <1>1, InitialType, TypeStep, ClassStep, PTL DEF Spec

(* The grandmaster gets to LOCKED only when GNSS, every ts2phc interface   *)
(* and every DPLL that has reported are LOCKED, over any number of         *)
(* interfaces and after any reset.                                         *)
THEOREM Relock == Spec => RelockNeedsEverySource
<1>1. ASSUME TypeOK, [Next]_vars, gm.state # LOCKED, gm'.state = LOCKED
      PROVE  /\ LastReports(GNSS)' = {LOCKED}
             /\ LastReports(TS2PHC)' = {LOCKED}
             /\ LastReports(DPLL)' \subseteq {LOCKED}
  <2>1. CASE UNCHANGED vars
    BY <1>1, <2>1 DEF vars
  <2>2. ASSUME NEW p \in ResetSources PROVE ~ResetProcess(p)
    BY <1>1 DEF ResetProcess, NoGM, NOTSET, LOCKED
  <2>3. ASSUME NEW ev \in Events, ProcessEvent(ev)
        PROVE  /\ LastReports(GNSS)' = {LOCKED}
               /\ LastReports(TS2PHC)' = {LOCKED}
               /\ LastReports(DPLL)' \subseteq {LOCKED}
    <3>1. Entry.state # LOCKED
      BY <1>1 DEF Entry, GMInitial, FREERUN, LOCKED
    <3>2. gnssFirst' \in Ifaces
      BY <1>1, <2>3, EventUpdates
    <3>3. gm' = ComputeGM(Entry, data', gnssFirst', spec') /\ data' \in DataType
      BY <1>1, <2>3, <3>2, EventUpdates
    <3> QED
      BY <1>1, <3>1, <3>2, <3>3, ComputeGMValues DEF LastReports
  <2> QED
    BY <1>1, <2>1, <2>2, <2>3 DEF Next
<1>2. TypeOK /\ [Next]_vars =>
        [gm.state # LOCKED /\ gm'.state = LOCKED =>
           /\ LastReports(GNSS)' = {LOCKED}
           /\ LastReports(TS2PHC)' = {LOCKED}
           /\ LastReports(DPLL)' \subseteq {LOCKED}]_vars
  BY <1>1
<1> QED
  BY <1>2, TypeCorrect, PTL DEF Spec, RelockNeedsEverySource

-----------------------------------------------------------------------------
(* A report is never replaced by an older one before a reset, on any       *)
(* interface and for any process (Data.AddEvent).                          *)
THEOREM NeverGoBack == Spec => ReportsNeverGoBack
<1> DEFINE NotBack ==
      \A p \in Processes, i \in Ifaces :
        data[p][i].state # NoReport /\ data'[p][i].state # NoReport =>
          data'[p][i].time >= data[p][i].time
<1>1. ASSUME TypeOK, [Next]_vars PROVE NotBack
  <2>1. \A p \in Processes, i \in Ifaces :
          data[p][i].time \in Nat
    BY <1>1 DEF TypeOK, Detail, Times
  <2>2. ASSUME NEW ev \in Events, ProcessEvent(ev) PROVE NotBack
    <3>1. ev.process \in Processes /\ ev.iface \in Ifaces /\ ev.time \in Nat
      <4>1. [state |-> ev.state, time |-> ev.time,
             sourceLost |-> ev.sourceLost] \in Detail
        BY EventType
      <4> QED
        BY <4>1, EventType DEF Detail, Times
    <3>2. CASE Stale(data[ev.process][ev.iface], ev)
      <4>1. data' = data
        BY <2>2, <3>2 DEF ProcessEvent, AddEvent
      <4> QED
        BY <2>1, <4>1
    <3>3. CASE ~Stale(data[ev.process][ev.iface], ev)
      <4>1. data' = [data EXCEPT ![ev.process][ev.iface] =
               [state |-> ev.state, time |-> ev.time, sourceLost |-> ev.sourceLost]]
        BY <2>2, <3>3 DEF ProcessEvent, AddEvent
      <4>2. ASSUME NEW p \in Processes, NEW i \in Ifaces,
                   p # ev.process \/ i # ev.iface
            PROVE  data'[p][i] = data[p][i]
        BY <1>1, <4>1, <4>2 DEF TypeOK
      <4>3. data'[ev.process][ev.iface].time = ev.time
        BY <1>1, <3>1, <4>1 DEF TypeOK
      <4>4. data[ev.process][ev.iface].state # NoReport =>
              data[ev.process][ev.iface].time <= ev.time
        BY <2>1, <3>1, <3>3 DEF Stale
      <4> QED
        BY <2>1, <3>1, <4>2, <4>3, <4>4
    <3> QED
      BY <3>2, <3>3
  <2>3. ASSUME NEW p \in ResetSources, ResetProcess(p) PROVE NotBack
    BY <1>1, <2>1, <2>3 DEF ResetProcess, ResetSources, NoDetails, NoDetail,
       TypeOK, Processes
  <2>4. CASE UNCHANGED vars
    BY <2>1, <2>4 DEF vars
  <2> QED
    BY <1>1, <2>2, <2>3, <2>4 DEF Next
<1>2. TypeOK /\ [Next]_vars => [NotBack]_vars
  BY <1>1
<1> QED
  BY <1>2, TypeCorrect, PTL DEF Spec, ReportsNeverGoBack

-----------------------------------------------------------------------------
(* The DPLLs decide.                                                       *)

LEMMA ComputeGMWorst ==
  ASSUME NEW gm1, NEW d \in DataType, NEW first, NEW s
  PROVE  LET gm2 == ComputeGM(gm1, d, first, s)
         IN  /\ HOLDOVER \in Reported(d[DPLL]) => gm2.state = HOLDOVER
             /\ FREERUN \in Reported(d[DPLL]) /\ HOLDOVER \notin Reported(d[DPLL])
                  => gm2.state = FREERUN
<1>1. DPLL \in Processes
  BY DEF Processes
<1>2. /\ HOLDOVER \in Reported(d[DPLL]) =>
           ProcessState(d, DPLL, NOTSET) = HOLDOVER
      /\ FREERUN \in Reported(d[DPLL]) /\ HOLDOVER \notin Reported(d[DPLL])
           => ProcessState(d, DPLL, NOTSET) = FREERUN
  BY <1>1, ProcessStateReports
<1>3. GMHoldover.state = HOLDOVER /\ GMDpllFreerun(s).state = FREERUN
  BY GMDpllFreerunValues DEF GMHoldover, GMFreerun, GMOutOfSpec
<1> QED
  BY <1>2, <1>3, ComputeGMBranches

(* The worst DPLL decides on the state of the grandmaster, whatever GNSS,  *)
(* ts2phc and the other DPLLs report, for any number of interfaces and     *)
(* after any reset.                                                        *)
THEOREM WorstDpll == Spec => []WorstDpllDecides
<1>1. Init => WorstDpllDecides
  BY DEF Init, WorstDpllDecides
<1>2. ASSUME TypeOK, WorstDpllDecides, [Next]_vars PROVE WorstDpllDecides'
  <2>1. ASSUME NEW ev \in Events, ProcessEvent(ev) PROVE WorstDpllDecides'
    <3>1. CASE gnssFirst' = NoIface
      BY <3>1 DEF WorstDpllDecides
    <3>2. CASE gnssFirst' # NoIface
      BY <1>2, <2>1, <3>2, EventUpdates, ComputeGMWorst
      DEF WorstDpllDecides, LastReports
    <3> QED
      BY <3>1, <3>2
  <2>2. ASSUME NEW p \in ResetSources, ResetProcess(p) PROVE WorstDpllDecides'
    BY <2>2 DEF ResetProcess, WorstDpllDecides
  <2>3. CASE UNCHANGED vars
    BY <1>2, <2>3 DEF vars, WorstDpllDecides, LastReports
  <2> QED
    BY <1>2, <2>1, <2>2, <2>3 DEF Next
<1> QED
  BY <1>1, <1>2, InitialType, TypeStep, PTL DEF Spec

-----------------------------------------------------------------------------
(* LOCKED is justified.  updateGMState keeps its entry when GNSS is in     *)
(* FREERUN without being lost and ts2phc in HOLDOVER, so that what it      *)
(* computes does not justify LOCKED by itself: the proof needs the reports *)
(* before the event too.  It also needs that GNSS never reports HOLDOVER,  *)
(* that there are reports for the interface of the grandmaster and that    *)
(* there is no entry before GNSS has reported; the last is false if ts2phc *)
(* sends Reset events, which leave the entry behind.                       *)

GnssReports ==
  \A i \in Ifaces : data[GNSS][i].state \in {NoReport, FREERUN, LOCKED}

FirstReported ==
  gnssFirst # NoIface => FREERUN \in LastReports(GNSS) \/ LOCKED \in LastReports(GNSS)

NoEntryBeforeGnss == gnssFirst = NoIface => gm = NoGM

GMInv ==
  /\ TypeOK
  /\ GnssReports
  /\ FirstReported
  /\ NoEntryBeforeGnss
  /\ LockedIsJustified

(* An event of a process leaves the reports of the others alone.           *)
LEMMA AddEventOthers ==
  ASSUME NEW d \in DataType, NEW ev \in Events, NEW p \in Processes,
         p # ev.process
  PROVE  AddEvent(d, ev)[p] = d[p]
BY EventType DEF AddEvent, DataType

LEMMA GnssStep ==
  ASSUME TypeOK, GnssReports, FirstReported, NEW ev \in Events, ProcessEvent(ev)
  PROVE  GnssReports' /\ FirstReported'
<1>1. data \in DataType /\ GNSS \in Processes /\ data' = AddEvent(data, ev)
  BY DEF TypeOK, DataType, ProcessEvent, Processes
<1>2. CASE ev.process # GNSS
  <2>1. data'[GNSS] = data[GNSS] /\ gnssFirst' = gnssFirst
    BY <1>1, <1>2, AddEventOthers DEF ProcessEvent, FirstGnss
  <2> QED
    BY <2>1 DEF GnssReports, FirstReported, LastReports, Reported
<1>3. CASE ev.process = GNSS
  <2>1. ev.state \in {FREERUN, LOCKED} /\ ev.iface \in Ifaces
    BY <1>3 DEF Events, GnssEvents, DpllEvents, Ts2phcEvents, GNSS, DPLL, TS2PHC
  <2>2. CASE Stale(data[GNSS][ev.iface], ev)
    <3>1. data' = data /\ data[GNSS][ev.iface].state # NoReport
      BY <1>1, <1>3, <2>2 DEF AddEvent, Stale
    <3>2. data[GNSS][ev.iface].state \in LastReports(GNSS)
      BY <2>1, <3>1 DEF LastReports, Reported
    <3> QED
      BY <2>1, <3>1, <3>2 DEF GnssReports, FirstReported, LastReports
  <2>3. CASE ~Stale(data[GNSS][ev.iface], ev)
    <3>1. data' = [data EXCEPT ![GNSS][ev.iface] =
             [state |-> ev.state, time |-> ev.time, sourceLost |-> ev.sourceLost]]
      BY <1>1, <1>3, <2>3 DEF AddEvent
    <3>2. data'[GNSS][ev.iface].state = ev.state
      BY <1>1, <2>1, <3>1 DEF DataType
    <3>3. \A i \in Ifaces \ {ev.iface} : data'[GNSS][i] = data[GNSS][i]
      BY <1>1, <2>1, <3>1 DEF DataType
    <3>4. ev.state \in LastReports(GNSS)'
      BY <2>1, <3>2 DEF LastReports, Reported, NoReport, FREERUN, LOCKED
    <3> QED
      BY <2>1, <3>2, <3>3, <3>4 DEF GnssReports, FirstReported
  <2> QED
    BY <2>2, <2>3
<1> QED
  BY <1>2, <1>3

(* The step that LockedIsJustified is about.                               *)
LEMMA JustifiedStep ==
  ASSUME GMInv, NEW ev \in Events, ProcessEvent(ev)
  PROVE  LockedIsJustified'
<1> SUFFICES ASSUME gm'.state = LOCKED, gnssFirst' # NoIface
             PROVE  /\ LastReports(DPLL)' \subseteq {LOCKED}
                    /\ \/ /\ LastReports(GNSS)' = {LOCKED}
                          /\ LastReports(TS2PHC)' = {LOCKED}
                       \/ /\ FREERUN \in LastReports(GNSS)'
                          /\ data'[GNSS][gnssFirst'].sourceLost
                          /\ HOLDOVER \notin LastReports(TS2PHC)'
  BY DEF LockedIsJustified
<1> DEFINE gnss   == ProcessState(data', GNSS, FREERUN)
           ts2phc == ProcessState(data', TS2PHC, FREERUN)
           lost   == IsSourceLost(data', gnssFirst')
<1>1. /\ DPLL \in Processes /\ GNSS \in Processes /\ TS2PHC \in Processes
      /\ GNSS # TS2PHC
      /\ FREERUN # HOLDOVER /\ FREERUN # LOCKED /\ HOLDOVER # LOCKED
      /\ NoReport \notin {FREERUN, HOLDOVER, LOCKED}
  BY DEF Processes, GNSS, TS2PHC, FREERUN, HOLDOVER, LOCKED, NoReport
<1>2. /\ data' \in DataType /\ gnssFirst' \in Ifaces
      /\ gm' = ComputeGM(Entry, data', gnssFirst', spec')
  BY EventUpdates DEF GMInv
<1>3. LastReports(DPLL)' \subseteq {LOCKED}
  BY <1>2, ComputeGMValues DEF LastReports
<1>4. gm' = GMDpllLocked(Entry, gnss, ts2phc, lost)
  <2>1. ProcessState(data', DPLL, NOTSET) \in {LOCKED, NOTSET}
    BY <1>1, <1>2, <1>3, ProcessStateReports DEF LastReports
  <2> QED
    BY <1>2, <2>1, ComputeGMBranches
<1>5. /\ gnss = LOCKED => LastReports(GNSS)' = {LOCKED}
      /\ gnss # LOCKED => gnss = FREERUN /\ FREERUN \in LastReports(GNSS)'
  <2>1. GnssReports' /\ FirstReported'
    BY GnssStep DEF GMInv
  <2>2. LastReports(GNSS)' \subseteq {FREERUN, LOCKED} /\ LastReports(GNSS)' # {}
    BY <1>2, <2>1 DEF GnssReports, FirstReported, LastReports, Reported
  <2>3. LastReports(GNSS)' = Reported(data'[GNSS])
    BY DEF LastReports
  <2> QED
    BY <1>1, <1>2, <2>2, <2>3, ProcessStateReports
<1>6. /\ ts2phc = LOCKED => LastReports(TS2PHC)' = {LOCKED}
      /\ ts2phc # HOLDOVER => HOLDOVER \notin LastReports(TS2PHC)'
      /\ ts2phc = HOLDOVER => HOLDOVER \in LastReports(TS2PHC)'
      /\ ts2phc \in {FREERUN, HOLDOVER, LOCKED}
  BY <1>1, <1>2, ProcessStateReports DEF LastReports, ReportStates
<1>7. lost = data'[GNSS][gnssFirst'].sourceLost /\ lost \in BOOLEAN
  BY <1>1, <1>2 DEF IsSourceLost, DataType, Detail
<1>8. GMFreerun.state # LOCKED /\ GMHoldover.state # LOCKED
  BY <1>1 DEF GMFreerun, GMHoldover
<1> HIDE DEF gnss, ts2phc, lost
<1>9. CASE gnss = LOCKED
  BY <1>3, <1>4, <1>5, <1>6, <1>7, <1>8, <1>9, GMDpllLockedBranches
<1>10. CASE gnss # LOCKED /\ ts2phc # HOLDOVER
  BY <1>3, <1>4, <1>5, <1>6, <1>7, <1>8, <1>10, GMDpllLockedBranches
<1>11. CASE gnss # LOCKED /\ ts2phc = HOLDOVER
  <2>1. ~lost
    BY <1>4, <1>5, <1>7, <1>8, <1>11, GMDpllLockedBranches
  <2>2. gm' = Entry
    <3>1. gm' \in {GMFreerun, GMHoldover, Entry}
      BY <1>4, <1>7, <1>11, GMDpllLockedBranches
    <3> QED
      BY <1>8, <3>1
  <2>3. gm # NoGM /\ gm.state = LOCKED
    BY <1>1, <2>2 DEF Entry, GMInitial
  <2>4. gnssFirst # NoIface /\ gnssFirst' = gnssFirst
    BY <2>3 DEF GMInv, NoEntryBeforeGnss, ProcessEvent, FirstGnss
  <2>5. \/ LastReports(GNSS) = {LOCKED} /\ LastReports(TS2PHC) = {LOCKED}
        \/ /\ data[GNSS][gnssFirst].sourceLost
           /\ HOLDOVER \notin LastReports(TS2PHC)
    BY <2>3, <2>4 DEF GMInv, LockedIsJustified
  <2>6. /\ data \in DataType
        /\ data' = AddEvent(data, ev)
    BY DEF GMInv, TypeOK, DataType, ProcessEvent
  <2>7. HOLDOVER \notin LastReports(TS2PHC)
    BY <1>1, <2>5
  <2>8. ev.process = TS2PHC
    BY <1>1, <1>6, <1>11, <2>6, <2>7, AddEventOthers DEF LastReports
  <2>9. data'[GNSS] = data[GNSS]
    BY <1>1, <2>6, <2>8, AddEventOthers
  <2>10. FREERUN \in LastReports(GNSS)
    BY <1>5, <1>11, <2>9 DEF LastReports
  <2> QED
    BY <1>1, <1>7, <2>1, <2>4, <2>5, <2>9, <2>10
<1> QED
  BY <1>9, <1>10, <1>11

LEMMA GMInvStep ==
  ASSUME GMInv, [Next]_vars
  PROVE  GMInv'
<1>1. TypeOK'
  BY TypeStep DEF GMInv
<1>2. ASSUME NEW ev \in Events, ProcessEvent(ev) PROVE GMInv'
  <2>1. NoEntryBeforeGnss'
    BY <1>2, EventUpdates DEF GMInv, NoEntryBeforeGnss
  <2> QED
    BY <1>1, <1>2, <2>1, GnssStep, JustifiedStep DEF GMInv
<1>3. ASSUME NEW p \in ResetSources, ResetProcess(p) PROVE GMInv'
  <2>1. gm' = NoGM /\ NoGM.state # LOCKED
    BY <1>3 DEF ResetProcess, NoGM, NOTSET, LOCKED
  <2>2. CASE p = GNSS
    <3>1. gnssFirst' = NoIface /\ data'[GNSS] = NoDetails
      BY <1>3, <2>2 DEF ResetProcess, GMInv, TypeOK, Processes
    <3> QED
      BY <1>1, <2>1, <3>1 DEF GMInv, GnssReports, FirstReported,
         NoEntryBeforeGnss, LockedIsJustified, NoDetails, NoDetail
  <2>3. CASE p # GNSS
    <3>1. gnssFirst' = gnssFirst /\ data'[GNSS] = data[GNSS]
      BY <1>3, <2>3 DEF ResetProcess, GMInv, TypeOK, Processes
    <3> QED
      BY <1>1, <2>1, <3>1 DEF GMInv, GnssReports, FirstReported,
         NoEntryBeforeGnss, LockedIsJustified, LastReports
  <2> QED
    BY <2>2, <2>3
<1>4. CASE UNCHANGED vars
  BY <1>1, <1>4 DEF vars, GMInv, GnssReports, FirstReported, NoEntryBeforeGnss,
     LockedIsJustified, LastReports
<1> QED
  BY <1>2, <1>3, <1>4 DEF Next

(* A grandmaster that claims LOCKED is entitled to it by the reports of    *)
(* every interface, or is waiting for a DPLL to notice that the source was *)
(* lost: for any number of interfaces, any order and age of the events and *)
(* any resets.                                                             *)
THEOREM Justified == Spec => []LockedIsJustified
<1>1. Init => GMInv
  <2> SUFFICES ASSUME Init PROVE GMInv
    OBVIOUS
  <2>1. GNSS \in Processes
    BY DEF Processes
  <2>2. GnssReports
    BY <2>1 DEF Init, GnssReports, NoDetails, NoDetail
  <2> QED
    BY <2>2, InitialType DEF Init, GMInv, FirstReported, NoEntryBeforeGnss,
       LockedIsJustified
<1>2. GMInv /\ [Next]_vars => GMInv'
  BY GMInvStep
<1>3. GMInv => LockedIsJustified
  BY DEF GMInv
<1> QED
  BY <1>1, <1>2, <1>3, PTL DEF Spec
-----------------------------------------------------------------------------
(* The GNSS monitor.                                                       *)

HIDE GMAssumption

(* A tool is alive only after it was started, and a push goroutine of it   *)
(* starts with it.                                                         *)
ReadInv ==
  /\ cmd \in Tools \cup {NoTool}
  /\ reader \in [Tools -> Tools \cup {NoTool, Failed}]
  /\ pc = "start" => cmd \in Tools /\ ~started
  /\ ~started => cmd \notin alive
  /\ CurrentToolIsRead

(* What the monitor does with a tool it has, CmdStop, the end of a tool.   *)
ToolKept ==
  /\ UNCHANGED <<cmd, started, reader>>
  /\ alive' \subseteq alive
  /\ pc' = pc \/ pc' # "start"

LEMMA KeptIsRead ==
  ASSUME ReadInv, ToolKept PROVE ReadInv'
BY DEF ReadInv, ToolKept, CurrentToolIsRead

LEMMA ReadInit ==
  ASSUME GnssInit PROVE ReadInv
BY DEF GnssInit, ReadInv, CurrentToolIsRead

LEMMA ReadNext ==
  ASSUME ReadInv, [GnssNext]_gnssVars PROVE ReadInv'
<1> USE GnssAssumption DEF ublox, poll
<1>1. CASE Create
  BY <1>1 DEF ReadInv, CurrentToolIsRead, Create, Free
<1>2. CASE Start
  BY <1>2 DEF ReadInv, CurrentToolIsRead, Start
<1>3. ASSUME NEW t \in Tools, PushThread(t) PROVE ReadInv'
  <2>1. CASE PushLine(t)
    BY <2>1 DEF ReadInv, CurrentToolIsRead, PushLine
  <2>2. CASE ReadFails(t)
    BY <2>2 DEF ReadInv, CurrentToolIsRead, ReadFails
  <2>3. CASE SetDead(t)
    BY <2>3 DEF ReadInv, CurrentToolIsRead, SetDead
  <2> QED
    BY <1>3, <2>1, <2>2, <2>3 DEF PushThread
<1>4. ASSUME MonitorStarts \/ Tick \/ Report \/ Done PROVE ToolKept
  BY <1>4 DEF ToolKept, MonitorStarts, Tick, Report, Done
<1>5. ASSUME StopTool \/ StopKill \/ StopCancel PROVE ToolKept
  BY <1>5 DEF ToolKept, StopTool, StopKill, StopCancel
<1>6. ASSUME ReceiverChanges \/ ToolDies PROVE ToolKept
  BY <1>6 DEF ToolKept, ReceiverChanges, ToolDies
<1>7. ASSUME PollInit \/ StartFails PROVE ToolKept
  BY <1>7 DEF ToolKept, PollInit, StartFails
<1>8. ASSUME PullHeader \/ PullOther \/ PullNothing \/ PullValue PROVE ToolKept
  BY <1>8 DEF ToolKept, PullHeader, PullOther, PullNothing, PullValue
<1>9. ASSUME ResetKill \/ ResetDead PROVE ToolKept
  BY <1>9 DEF ToolKept, ResetKill, ResetDead
<1>10. ASSUME UNCHANGED gnssVars PROVE ToolKept
  BY <1>10 DEF ToolKept, gnssVars
<1> QED
  BY <1>1, <1>2, <1>3, <1>4, <1>5, <1>6, <1>7, <1>8, <1>9, <1>10, KeptIsRead
  DEF GnssNext, UbloxPoll

(* The output of the current ubxtool is read by some push goroutine, for   *)
(* any number of tools and goroutines and whenever they die or are stopped.*)
THEOREM CurrentToolRead == GnssSpec => []CurrentToolIsRead
<1>1. ReadInv => CurrentToolIsRead
  BY DEF ReadInv
<1> QED
  BY <1>1, ReadInit, ReadNext, PTL DEF GnssSpec
-----------------------------------------------------------------------------
(* The leap second manager.                                                *)

(* The steps of setUtcOffset.                                              *)
Updating == {"utcOffsetTime", "utcOffset"}
FileEvents == [time : Int, sec : Int]
LeapMsgs == [valid : BOOLEAN, past : BOOLEAN, currLs : Int, lsChange : Int, date : Int]

(* The types that the arguments need.                                      *)
LeapType ==
  /\ now \in Nat \ {0}
  /\ lastLeap \in Nat
  /\ curr \in Int
  /\ leaps \in Nat
  /\ DOMAIN worker = {"step", "at", "utc", "leap"}
  /\ worker.at \in Nat /\ worker.at <= now
  /\ planned \in [time : Nat, change : Changes] \cup {NoLeap}
  /\ planned # NoLeap => leaps # 0
  /\ UbloxLsInd \in Seq(LeapMsgs)
  /\ LeapEvents \in Seq(FileEvents) \ {<<>>}
  /\ configmap \in Seq(FileEvents) \ {<<>>}

LEMMA ChangesType == Changes \subseteq Int \ {0}
BY LeapAssumption

(* Until the leap happens.                                                 *)
Before == leaps = 0 \/ planned # NoLeap

FirstFile == <<[time |-> 0, sec |-> Offset0]>>

(* The file has the first offset, and the announced leap or not.           *)
UpToDate(f) ==
  \/ f = FirstFile
  \/ /\ planned # NoLeap
     /\ f = <<[time |-> 0, sec |-> Offset0],
              [time |-> planned.time, sec |-> Offset0 + planned.change]>>

(* A message that may be older than the announcement.                      *)
Early(m) ==
  /\ m.currLs = Offset0
  /\ \/ m.lsChange = 0 /\ m.date = 0
     \/ planned # NoLeap /\ m.lsChange = planned.change /\ m.date = planned.time

(* What GetUtcOffset reads is of the last entry, but during an update.     *)
UtcTold ==
  /\ step # "utcOffsetTime" => utcOffsetTime = Last(LeapEvents).time
  /\ step \notin Updating => utcOffset = Last(LeapEvents).sec

(* No message is of a later time.                                          *)
AllEarly == \A i \in DOMAIN UbloxLsInd : Early(UbloxLsInd[i])

(* Until the leap, file, configmap and messages are of the first offset or *)
(* of the announced leap, which lies ahead.  An update is of that leap,    *)
(* and until it is done the old offset or the last entry but one is read,  *)
(* which is there if the worker is about to read it.                       *)
BeforeInv ==
  /\ curr = Offset0
  /\ lastLeap = 0
  /\ planned # NoLeap => now < planned.time
  /\ UpToDate(LeapEvents) /\ UpToDate(configmap)
  /\ AllEarly
  /\ step \in Updating => LeapEvents # FirstFile /\ utcOffset = Offset0
  /\ step = "utcOffsetTime" => utcOffsetTime = 0
  /\ worker.step = "LeapEvents" => LeapEvents # FirstFile

(* The time of a leap that was, or of a correction.                        *)
Passed(t) == t \in Int /\ (t <= lastLeap \/ t < now)

(* Afterwards everything on file and in the messages is past, so the last  *)
(* entry is read, but by a worker that has tested the time before.         *)
AfterInv ==
  /\ lastLeap <= now
  /\ Passed(Last(LeapEvents).time) /\ Passed(Last(configmap).time)
  /\ Passed(utcOffsetTime)
  /\ \A i \in DOMAIN UbloxLsInd : UbloxLsInd[i].date <= lastLeap
  /\ worker.step = "LeapEvents" => worker.at <= lastLeap

(* Nothing is said of the time after a second leap was announced: without  *)
(* an entry for the first one, the entry before the second is too old.     *)
LeapInv ==
  /\ LeapType
  /\ UtcTold
  /\ leaps <= 1 /\ Before => BeforeInv
  /\ leaps <= 1 /\ ~Before => AfterInv

(* Facts about the last entry of a file.                                   *)
LEMMA LastOf ==
  ASSUME NEW S, NEW s \in Seq(S), s # <<>>
  PROVE  Last(s) = s[Len(s)] /\ Last(s) \in S
BY DEF Last

LEMMA LastAppended ==
  ASSUME NEW S, NEW s \in Seq(S), NEW e \in S
  PROVE  /\ Last(Append(s, e)) = e
         /\ Append(s, e) \in Seq(S) \ {<<>>}
BY DEF Last

LEMMA AppendToOne ==
  ASSUME NEW a, NEW b PROVE Append(<<a>>, b) = <<a, b>>
<1> DEFINE S == {a, b}
<1>1. <<a>> \in Seq(S) /\ b \in S /\ <<a, b>> \in Seq(S)
  OBVIOUS
<1>2. Append(<<a>>, b) = [i \in 1 .. 2 |-> IF i = 1 THEN a ELSE b]
  BY <1>1
<1>3. <<a, b>> = [i \in 1 .. 2 |-> IF i = 1 THEN a ELSE b]
  BY <1>1
<1> QED
  BY <1>2, <1>3

LEMMA LastOfFile ==
  ASSUME LeapType, NEW f, UpToDate(f)
  PROVE  Last(f) = IF f = FirstFile THEN [time |-> 0, sec |-> Offset0]
                        ELSE [time |-> planned.time, sec |-> Offset0 + planned.change]
<1>1. CASE f = FirstFile
  BY <1>1 DEF FirstFile, Last
<1>2. CASE f # FirstFile
  <2>1. Len(f) = 2 /\ f[2] = [time |-> planned.time, sec |-> Offset0 + planned.change]
    BY <1>2 DEF UpToDate
  <2> QED
    BY <1>2, <2>1 DEF Last
<1> QED
  BY <1>1, <1>2

(* Only one action reads the offset.                                       *)
LEMMA WhoReads ==
  ASSUME ReadsOffset, [LeapNext]_leapVars
  PROVE  ClassReadsOffset
<1>1. worker' # worker
  BY DEF ReadsOffset
<1>2. CASE Manager \/ Indicate \/ Announce \/ TimePasses \/ LastTick \/ UNCHANGED leapVars
  BY <1>1, <1>2 DEF Manager, HandleIndication, SetUtcOffsetTime, SetUtcOffset,
    UpdateLeapConfigmap, Maintain, CheckWindow, PmcGet, PmcGetFails, PmcSet, Indicate, Announce,
    TimePasses, LastTick, leapVars
<1>3. CASE ClassGet \/ ClassTestsTime \/ ClassSet \/ Restart
  BY <1>3 DEF ReadsOffset, ClassGet, ClassTestsTime, ClassSet, Restart, Idle
<1> QED
  BY <1>2, <1>3 DEF LeapNext, ClassWorker

(* What the worker reads in a state of the invariant.                      *)
LEMMA RightOffset ==
  ASSUME LeapInv, leaps <= 1, worker.step \in {"utcOffset", "LeapEvents"}, FileIsRight,
         ~Overtaken
  PROVE  OffsetRead(worker.step) = curr
<1>1. CASE Before
  <2>1. BeforeInv /\ LeapType /\ UtcTold
    BY <1>1 DEF LeapInv
  <2>2. CASE worker.step = "utcOffset"
    <3>1. utcOffset = Offset0
      <4>1. CASE step \in Updating
        BY <2>1, <4>1 DEF BeforeInv
      <4>2. CASE step \notin Updating
        <5>1. utcOffsetTime = Last(LeapEvents).time /\ utcOffset = Last(LeapEvents).sec
          BY <2>1, <4>2 DEF UtcTold, Updating
        <5>2. ~(worker.at <= utcOffsetTime)
          BY <2>2, <4>2 DEF Overtaken, Updating
        <5>3. LeapEvents = FirstFile
          <6> SUFFICES ASSUME LeapEvents # FirstFile PROVE FALSE
            OBVIOUS
          <6>1. planned # NoLeap
            BY <2>1 DEF BeforeInv, UpToDate
          <6>2. now < planned.time /\ planned.time \in Nat
            BY <2>1, <6>1 DEF BeforeInv, LeapType
          <6>3. utcOffsetTime = planned.time
            BY <2>1, <5>1, LastOfFile DEF BeforeInv
          <6> QED
            BY <2>1, <5>2, <6>2, <6>3 DEF LeapType
        <5> QED
          BY <2>1, <5>1, <5>3, LastOfFile DEF BeforeInv
      <4> QED
        BY <4>1, <4>2
    <3> QED
      BY <2>1, <2>2, <3>1 DEF OffsetRead, BeforeInv
  <2>3. CASE worker.step = "LeapEvents"
    <3>1. LeapEvents = <<[time |-> 0, sec |-> Offset0],
                         [time |-> planned.time, sec |-> Offset0 + planned.change]>>
      BY <2>1, <2>3 DEF BeforeInv, UpToDate
    <3>2. Len(LeapEvents) = 2 /\ LeapEvents[Len(LeapEvents) - 1].sec = Offset0
      BY <3>1
    <3> QED
      BY <2>1, <2>3, <3>2 DEF OffsetRead, BeforeInv
  <2> QED
    BY <2>2, <2>3
<1>2. CASE ~Before
  <2>1. AfterInv /\ LeapType /\ UtcTold
    BY <1>2 DEF LeapInv
  <2>2. worker.step = "utcOffset"
    BY <2>1 DEF AfterInv, FileIsRight, LeapType
  <2>3. step \notin Updating
    BY <2>1 DEF AfterInv, Passed, FileIsRight, Updating, LeapType
  <2>4. utcOffset = Last(LeapEvents).sec
    BY <2>1, <2>3 DEF UtcTold
  <2>5. Coming = curr
    BY <1>2 DEF Coming, Before
  <2> QED
    BY <2>2, <2>4, <2>5 DEF OffsetRead, FileIsRight
<1> QED
  BY <1>1, <1>2

LEMMA LeapInvInit ==
  ASSUME Outdated = {0}, LeapInit
  PROVE  LeapInv
<1> USE LeapAssumption
<1>1. LeapEvents = FirstFile /\ configmap = FirstFile
  BY DEF LeapInit, FirstFile
<1>2. FirstFile \in Seq(FileEvents) \ {<<>>}
  BY DEF FirstFile, FileEvents
<1>3. LeapType
  BY <1>1, <1>2 DEF LeapInit, LeapType, Idle
<1>4. UtcTold
  BY DEF LeapInit, UtcTold
<1>5. Before /\ BeforeInv
  BY <1>1 DEF LeapInit, Before, BeforeInv, UpToDate, AllEarly, Updating, Idle
<1> QED
  BY <1>3, <1>4, <1>5 DEF LeapInv

(* Steps that leave the file, its copy, the receiver and the messages.     *)
LeapKept ==
  /\ UNCHANGED <<now, curr, lastLeap, planned, leaps, UbloxLsInd, LeapEvents, configmap>>
  /\ \/ UNCHANGED <<utcOffsetTime, utcOffset, step>>
     \/ UNCHANGED <<utcOffsetTime, utcOffset>> /\ step \notin Updating /\ step' \notin Updating
  /\ \/ UNCHANGED worker
     \/ /\ DOMAIN worker' = DOMAIN worker
        /\ worker'.at \in {0, worker.at} /\ worker'.step # "LeapEvents"

(* Such a step preserves the invariant.                                    *)
LEMMA KeptIsLeap ==
  ASSUME LeapInv, LeapKept PROVE LeapInv'
<1>1. LeapType'
  <2>1. DOMAIN worker' = DOMAIN worker /\ worker'.at \in Nat /\ worker'.at <= now
    BY DEF LeapInv, LeapKept, LeapType
  <2> QED
    BY <2>1 DEF LeapInv, LeapKept, LeapType
<1>2. UtcTold'
  BY DEF LeapInv, LeapKept, UtcTold, Updating
<1>3. Before' = Before /\ leaps' = leaps
  BY DEF LeapKept, Before
<1>4. BeforeInv => BeforeInv'
  BY DEF LeapKept, BeforeInv, UpToDate, AllEarly, Early, Updating
<1>5. AfterInv => AfterInv'
  BY DEF LeapKept, AfterInv, Passed
<1> QED
  BY <1>1, <1>2, <1>3, <1>4, <1>5 DEF LeapInv

(* Maintenance, pmc and the clock class worker only take such steps.       *)
LEMMA LeapStays ==
  ASSUME LeapInv,
         \/ Maintain \/ CheckWindow \/ PmcGet \/ PmcGetFails \/ PmcSet
         \/ ClassGet \/ ClassReadsOffset \/ ClassSet \/ LastTick \/ UNCHANGED leapVars
  PROVE  LeapKept
<1> USE DEF LeapKept, Updating, utc, receiver, manager
<1>1. CASE Maintain \/ CheckWindow
  BY <1>1 DEF Maintain, CheckWindow
<1>2. CASE PmcGet
  BY <1>2 DEF PmcGet
<1>3. CASE PmcGetFails \/ PmcSet
  BY <1>3 DEF PmcGetFails, PmcSet
<1>4. CASE ClassGet \/ ClassReadsOffset \/ ClassSet
  <2>1. UNCHANGED <<now, curr, lastLeap, planned, leaps, UbloxLsInd, LeapEvents, configmap,
                    utcOffsetTime, utcOffset, step>>
    BY <1>4 DEF ClassGet, ClassReadsOffset, ClassSet
  <2>2. /\ DOMAIN worker' = DOMAIN worker
        /\ worker'.at \in {0, worker.at} /\ worker'.step # "LeapEvents"
    <3>1. DOMAIN worker = {"step", "at", "utc", "leap"}
      BY DEF LeapInv, LeapType
    <3>2. CASE ClassGet
      <4> PICK read \in {ptp4l, Empty} :
            worker' = [worker EXCEPT !.step = "time", !.leap = read.leap]
        BY <3>2 DEF ClassGet
      <4> QED
        BY <3>1
    <3>3. CASE ClassReadsOffset
      BY <3>1, <3>3 DEF ClassReadsOffset
    <3>4. CASE ClassSet
      BY <3>1, <3>4 DEF ClassSet, Idle
    <3> QED
      BY <1>4, <3>2, <3>3, <3>4
  <2> QED
    BY <2>1, <2>2
<1>5. CASE LastTick \/ UNCHANGED leapVars
  BY <1>5 DEF LastTick, leapVars
<1> QED
  BY <1>1, <1>2, <1>3, <1>4, <1>5

(* The worker finds a leap ahead only if it is on file.                    *)
LEMMA LeapTested ==
  ASSUME LeapInv, ClassTestsTime PROVE LeapInv'
<1>1. LeapType /\ UtcTold
  BY DEF LeapInv
<1>2. UNCHANGED <<now, curr, lastLeap, planned, leaps, UbloxLsInd, LeapEvents, configmap,
                  utcOffsetTime, utcOffset, step>>
  BY DEF ClassTestsTime, receiver, manager
<1>3. /\ DOMAIN worker' = DOMAIN worker
      /\ worker'.at = now
      /\ worker'.step = WhatToRead
  BY <1>1 DEF ClassTestsTime, LeapType
<1>4. worker'.step = "LeapEvents" => ~(now > utcOffsetTime)
  BY <1>3 DEF WhatToRead
<1>5. LeapType'
  BY <1>1, <1>2, <1>3 DEF LeapType
<1>6. UtcTold'
  BY <1>1, <1>2 DEF UtcTold
<1>7. Before' = Before /\ leaps' = leaps
  BY <1>2 DEF Before
<1>8. BeforeInv => BeforeInv'
  <2> SUFFICES ASSUME BeforeInv, LeapEvents = FirstFile, ~(now > utcOffsetTime)
               PROVE  FALSE
    BY <1>2, <1>4 DEF BeforeInv, UpToDate, AllEarly, Early, Updating
  <2>1. step \notin Updating /\ utcOffsetTime = 0
    BY <1>1, LastOfFile DEF BeforeInv, UtcTold, Updating
  <2> QED
    BY <1>1, <2>1 DEF LeapType
<1>9. AfterInv => AfterInv'
  BY <1>1, <1>2, <1>3, <1>4 DEF AfterInv, Passed, LeapType
<1> QED
  BY <1>5, <1>6, <1>7, <1>8, <1>9 DEF LeapInv

(* The receiver says what it knows.                                        *)
LEMMA LeapIndicate ==
  ASSUME LeapInv, Indicate PROVE LeapInv'
<1> DEFINE m(valid, past) ==
      [valid |-> valid, past |-> past, currLs |-> curr,
       lsChange |-> IF planned = NoLeap THEN 0 ELSE planned.change,
       date |-> IF planned = NoLeap THEN lastLeap ELSE planned.time]
<1> PICK valid \in BOOLEAN, past \in BOOLEAN : UbloxLsInd' = Append(UbloxLsInd, m(valid, past))
  BY DEF Indicate
<1> USE DEF receiver, manager
<1>1. UNCHANGED <<now, curr, lastLeap, planned, leaps, LeapEvents, configmap, utcOffsetTime,
                  utcOffset, step, worker>>
  BY DEF Indicate
<1>2. LeapType
  BY DEF LeapInv
<1>3. m(valid, past) \in LeapMsgs
  <2>1. (IF planned = NoLeap THEN 0 ELSE planned.change) \in Int
    <3>1. CASE planned # NoLeap
      <4>1. planned \in [time : Nat, change : Changes]
        BY <1>2, <3>1 DEF LeapType
      <4> QED
        BY <3>1, <4>1, ChangesType
    <3> QED
      BY <3>1
  <2>2. (IF planned = NoLeap THEN lastLeap ELSE planned.time) \in Int
    BY <1>2 DEF LeapType
  <2>3. curr \in Int
    BY <1>2 DEF LeapType
  <2> QED
    BY <2>1, <2>2, <2>3 DEF LeapMsgs
<1>4. m(valid, past).date = (IF planned = NoLeap THEN lastLeap ELSE planned.time)
  OBVIOUS
<1>5. m(valid, past).lsChange = (IF planned = NoLeap THEN 0 ELSE planned.change)
  OBVIOUS
<1>6. m(valid, past).currLs = curr
  OBVIOUS
<1>7. UbloxLsInd' \in Seq(LeapMsgs)
      /\ \A i \in DOMAIN UbloxLsInd' :
           \/ UbloxLsInd'[i] = m(valid, past)
           \/ i \in DOMAIN UbloxLsInd /\ UbloxLsInd'[i] = UbloxLsInd[i]
  <2> HIDE DEF m
  <2> QED
    BY <1>2, <1>3 DEF LeapType
<1> HIDE DEF m
<1>8. LeapType'
  BY <1>1, <1>2, <1>7 DEF LeapType
<1>9. UtcTold'
  BY <1>1 DEF LeapInv, UtcTold
<1>10. Before' = Before /\ leaps' = leaps
  BY <1>1 DEF Before
<1>11. BeforeInv => BeforeInv'
  <2> SUFFICES ASSUME BeforeInv PROVE AllEarly'
    BY <1>1 DEF BeforeInv, UpToDate
  <2>1. Early(m(valid, past))
    BY <1>4, <1>5, <1>6 DEF BeforeInv, Early
  <2>2. \A i \in DOMAIN UbloxLsInd' : Early(UbloxLsInd'[i])
    BY <1>7, <2>1 DEF BeforeInv, AllEarly
  <2> QED
    BY <1>1, <2>2 DEF AllEarly, Early
<1>12. ~Before /\ AfterInv => AfterInv'
  BY <1>1, <1>2, <1>4, <1>7 DEF AfterInv, Before, Passed, LeapType
<1> QED
  BY <1>8, <1>9, <1>10, <1>11, <1>12 DEF LeapInv

(* A leap that is announced goes on file with the time at which it happens *)
(* and the offset it leads to.                                             *)
LEMMA LeapHandled ==
  ASSUME LeapInv, HandleIndication PROVE LeapInv'
<1> DEFINE m == Head(UbloxLsInd)
<1> DEFINE e == [time |-> LeapTime(m), sec |-> LeapSec(m)]
<1>1. LeapType /\ UtcTold
  BY DEF LeapInv
<1>2. /\ UNCHANGED <<now, curr, lastLeap, planned, leaps, configmap, utcOffsetTime, utcOffset,
                      worker>>
      /\ UbloxLsInd # <<>> /\ UbloxLsInd' = Tail(UbloxLsInd)
      /\ step = "select"
  BY DEF HandleIndication, receiver, utc
<1>3. /\ UbloxLsInd' \in Seq(LeapMsgs)
      /\ \A i \in DOMAIN UbloxLsInd' :
           i + 1 \in DOMAIN UbloxLsInd /\ UbloxLsInd'[i] = UbloxLsInd[i + 1]
      /\ 1 \in DOMAIN UbloxLsInd /\ m = UbloxLsInd[1] /\ m \in LeapMsgs
  BY <1>1, <1>2 DEF LeapType
<1>4. Before' = Before /\ leaps' = leaps
  BY <1>2 DEF Before
<1>5. BeforeInv => AllEarly'
  BY <1>2, <1>3 DEF BeforeInv, AllEarly, Early
<1>6. AfterInv => \A i \in DOMAIN UbloxLsInd' : UbloxLsInd'[i].date <= lastLeap'
  BY <1>2, <1>3 DEF AfterInv
<1>7. CASE ~NeedsUpdate(m)
  <2>1. UNCHANGED <<LeapEvents, step>>
    BY <1>7 DEF HandleIndication
  <2>2. LeapType' /\ UtcTold'
    BY <1>1, <1>2, <1>3, <2>1 DEF LeapType, UtcTold
  <2>3. BeforeInv => BeforeInv'
    BY <1>2, <1>5, <2>1 DEF BeforeInv, UpToDate
  <2>4. AfterInv => AfterInv'
    BY <1>2, <1>6, <2>1 DEF AfterInv, Passed
  <2> QED
    BY <1>4, <2>2, <2>3, <2>4 DEF LeapInv
<1>8. CASE NeedsUpdate(m)
  <2>1. LeapEvents' = Append(LeapEvents, e) /\ step' = "utcOffsetTime"
    BY <1>8 DEF HandleIndication
  <2>2. e \in FileEvents
    <3>1. m.date \in Int /\ m.currLs \in Int /\ m.lsChange \in Int
      BY <1>3 DEF LeapMsgs
    <3>2. now \in Int /\ WindowEnd \in Int
      BY <1>1, LeapAssumption DEF LeapType
    <3>3. LeapTime(m) \in Int /\ LeapSec(m) \in Int
      BY <3>1, <3>2 DEF LeapTime, LeapSec
    <3> QED
      BY <3>3 DEF FileEvents
  <2>3. Last(LeapEvents') = e /\ LeapEvents' \in Seq(FileEvents) \ {<<>>}
    <3> HIDE DEF e
    <3> QED
      BY <1>1, <2>1, <2>2, LastAppended DEF LeapType
  <2>4. LeapType' /\ UtcTold'
    BY <1>1, <1>2, <1>3, <2>1, <2>3 DEF LeapType, UtcTold, Updating
  <2>5. ASSUME leaps <= 1, Before, BeforeInv PROVE BeforeInv'
    <3>1. Early(m)
      BY <1>3, <2>5 DEF BeforeInv, AllEarly
    <3>2. LeapSec(m) # Last(LeapEvents).sec /\ Last(LeapEvents).time < now
      BY <1>8 DEF NeedsUpdate
    <3>3. LeapEvents = FirstFile
      <4> SUFFICES ASSUME LeapEvents # FirstFile PROVE FALSE
        OBVIOUS
      <4>1. Last(LeapEvents) = [time |-> planned.time, sec |-> Offset0 + planned.change]
            /\ planned # NoLeap
        BY <1>1, <2>5, LastOfFile DEF BeforeInv, UpToDate
      <4> QED
        BY <1>1, <2>5, <3>2, <4>1 DEF BeforeInv, LeapType
    <3>4. Last(LeapEvents).sec = Offset0
      BY <1>1, <2>5, <3>3, LastOfFile DEF BeforeInv
    <3>5. planned # NoLeap /\ m.lsChange = planned.change /\ m.date = planned.time
      BY <3>1, <3>2, <3>4, LeapAssumption DEF Early, LeapSec
    <3>6. m.lsChange # 0
      BY <1>1, <3>5, ChangesType DEF LeapType
    <3>7. e = [time |-> planned.time, sec |-> Offset0 + planned.change]
      BY <3>1, <3>5, <3>6 DEF LeapTime, LeapSec, Early
    <3>8. LeapEvents' = <<[time |-> 0, sec |-> Offset0], e>>
      <4> HIDE DEF e
      <4> QED
        BY <2>1, <3>3, AppendToOne, Zenon DEF FirstFile
    <3>9. UpToDate(LeapEvents)' /\ LeapEvents' # FirstFile
      BY <1>2, <3>5, <3>7, <3>8 DEF UpToDate, FirstFile
    <3>10. UpToDate(configmap)'
      BY <1>2, <2>5 DEF BeforeInv, UpToDate
    <3>11. utcOffsetTime = 0 /\ utcOffset = Offset0
      BY <1>1, <1>2, <2>5, <3>3, LastOfFile DEF UtcTold, Updating, BeforeInv
    <3> QED
      BY <1>2, <1>5, <2>1, <2>5, <3>9, <3>10, <3>11 DEF BeforeInv
  <2>6. ASSUME leaps <= 1, ~Before, AfterInv PROVE AfterInv'
    <3>1. m.date \in Int /\ m.date <= lastLeap
      BY <1>3, <2>6 DEF AfterInv, LeapMsgs
    <3>2. Passed(LeapTime(m))
      BY <1>1, <3>1, LeapAssumption DEF LeapTime, LeapType, Passed
    <3>3. Last(LeapEvents').time = LeapTime(m)
      BY <2>3
    <3> QED
      BY <1>2, <1>6, <2>6, <3>2, <3>3 DEF AfterInv, Passed
  <2> QED
    BY <1>4, <2>4, <2>5, <2>6 DEF LeapInv
<1> QED
  BY <1>7, <1>8

(* setUtcOffset reads the last entry twice.                                *)
LEMMA LeapSetUtc ==
  ASSUME LeapInv, SetUtcOffsetTime \/ SetUtcOffset PROVE LeapInv'
<1>1. LeapType /\ UtcTold
  BY DEF LeapInv
<1>2. UNCHANGED <<now, curr, lastLeap, planned, leaps, UbloxLsInd, LeapEvents, configmap,
                  worker>>
  BY DEF SetUtcOffsetTime, SetUtcOffset, receiver
<1>3. \/ /\ step = "utcOffsetTime" /\ step' = "utcOffset"
         /\ utcOffsetTime' = Last(LeapEvents).time
         /\ UNCHANGED utcOffset
      \/ /\ step = "utcOffset" /\ step' = "configmap"
         /\ utcOffset' = Last(LeapEvents).sec
         /\ UNCHANGED utcOffsetTime
  BY DEF SetUtcOffsetTime, SetUtcOffset
<1>4. LeapType'
  BY <1>1, <1>2 DEF LeapType
<1>5. UtcTold'
  BY <1>1, <1>2, <1>3 DEF UtcTold, Updating
<1>6. Before' = Before /\ leaps' = leaps
  BY <1>2 DEF Before
<1>7. BeforeInv => BeforeInv'
  BY <1>2, <1>3 DEF BeforeInv, UpToDate, AllEarly, Early, Updating
<1>8. AfterInv => AfterInv'
  BY <1>2, <1>3 DEF AfterInv, Passed
<1> QED
  BY <1>4, <1>5, <1>6, <1>7, <1>8 DEF LeapInv

(* The configmap gets the file, or the write fails.                        *)
LEMMA LeapWritten ==
  ASSUME LeapInv, UpdateLeapConfigmap PROVE LeapInv'
<1>1. LeapType /\ UtcTold
  BY DEF LeapInv
<1>2. /\ UNCHANGED <<now, curr, lastLeap, planned, leaps, UbloxLsInd, LeapEvents, utcOffset,
                     utcOffsetTime, worker>>
      /\ configmap' \in {configmap, LeapEvents}
      /\ step \notin Updating /\ step' \notin Updating
  BY DEF UpdateLeapConfigmap, receiver, utc, Updating
<1>3. LeapType'
  BY <1>1, <1>2 DEF LeapType
<1>4. UtcTold'
  BY <1>1, <1>2 DEF UtcTold, Updating
<1>5. Before' = Before /\ leaps' = leaps
  BY <1>2 DEF Before
<1>6. BeforeInv => BeforeInv'
  BY <1>2 DEF BeforeInv, UpToDate, AllEarly, Early, Updating
<1>7. AfterInv => AfterInv'
  BY <1>2 DEF AfterInv, Passed
<1> QED
  BY <1>3, <1>4, <1>5, <1>6, <1>7 DEF LeapInv

(* The first leap is announced; nothing is said of later ones.             *)
LEMMA LeapAnnounced ==
  ASSUME LeapInv, Announce PROVE LeapInv'
<1>1. LeapType /\ UtcTold
  BY DEF LeapInv
<1> PICK time \in now + 1 .. LastTime - 1, change \in Changes :
           planned' = [time |-> time, change |-> change]
  BY DEF Announce
<1>2. /\ UNCHANGED <<now, curr, lastLeap, UbloxLsInd, LeapEvents, configmap, utcOffset,
                     utcOffsetTime, step, worker>>
      /\ planned = NoLeap /\ leaps' = leaps + 1
  BY DEF Announce, manager
<1>3. time \in Nat /\ now < time
  BY <1>1, LeapAssumption DEF LeapType
<1>4. planned' \in [time : Nat, change : Changes]
  BY <1>3
<1>5. LeapType'
  BY <1>1, <1>2, <1>4 DEF LeapType
<1>6. UtcTold'
  BY <1>1, <1>2 DEF UtcTold
<1>7. SUFFICES ASSUME leaps' <= 1
               PROVE  (Before' => BeforeInv') /\ (~Before' => AfterInv')
  BY <1>5, <1>6 DEF LeapInv
<1>8. leaps = 0
  BY <1>1, <1>2, <1>7 DEF LeapType
<1>9. BeforeInv
  BY <1>8 DEF LeapInv, Before
<1>10. CASE planned' # NoLeap
  <2>1. LeapEvents' = FirstFile /\ configmap' = FirstFile
    BY <1>2, <1>9 DEF BeforeInv, UpToDate
  <2>2. AllEarly'
    BY <1>2, <1>9 DEF BeforeInv, AllEarly, Early
  <2>3. planned'.time = time
    OBVIOUS
  <2>4. BeforeInv'
    BY <1>2, <1>3, <1>9, <2>1, <2>2, <2>3 DEF BeforeInv, UpToDate
  <2> QED
    BY <1>10, <2>4 DEF Before
<1>11. CASE planned' = NoLeap
  <2>1. AfterInv'
    <3>1. LeapEvents = FirstFile /\ configmap = FirstFile
      BY <1>2, <1>9 DEF BeforeInv, UpToDate
    <3>2. Last(FirstFile).time = 0
      BY DEF FirstFile, Last
    <3>3. \A i \in DOMAIN UbloxLsInd : UbloxLsInd[i].date = 0
      BY <1>2, <1>9 DEF BeforeInv, AllEarly, Early
    <3>4. utcOffsetTime = 0 /\ worker.step # "LeapEvents"
      BY <1>1, <1>9, <3>1, <3>2 DEF BeforeInv, UtcTold, Updating
    <3> QED
      BY <1>1, <1>2, <1>9, <3>1, <3>2, <3>3, <3>4 DEF AfterInv, BeforeInv, LeapType, Passed
  <2> QED
    BY <1>2, <1>11, <2>1, <1>8 DEF Before
<1> QED
  BY <1>10, <1>11

(* When the leap happens nothing on file or in a message lies ahead.       *)
LEMMA LeapPasses ==
  ASSUME LeapInv, TimePasses PROVE LeapInv'
<1>1. LeapType /\ UtcTold
  BY DEF LeapInv
<1>2. /\ UNCHANGED <<leaps, UbloxLsInd, LeapEvents, configmap, utcOffset, utcOffsetTime, step,
                     worker>>
      /\ now' = now + 1
  BY DEF TimePasses, manager
<1>3. UtcTold'
  BY <1>1, <1>2 DEF UtcTold
<1>4. CASE planned # NoLeap /\ planned.time = now'
  <2>1. curr' = curr + planned.change /\ lastLeap' = now' /\ planned' = NoLeap
    BY <1>4 DEF TimePasses
  <2>2. planned \in [time : Nat, change : Changes]
    BY <1>1, <1>4 DEF LeapType
  <2>3. planned.change \in Int
    BY <2>2, ChangesType
  <2>4. LeapType'
    BY <1>1, <1>2, <2>1, <2>3 DEF LeapType
  <2>5. ~Before' /\ Before /\ leaps' = leaps
    BY <1>1, <1>2, <1>4, <2>1 DEF Before, LeapType
  <2>6. ASSUME BeforeInv PROVE AfterInv'
    <3>1. lastLeap' <= now'
      BY <1>1, <1>2, <2>1 DEF LeapType
    <3>2. /\ Last(LeapEvents).time \in {0, now'} /\ Last(configmap).time \in {0, now'}
          /\ utcOffsetTime \in {0, now'}
      BY <1>1, <1>2, <1>4, <2>6, LastOfFile DEF BeforeInv, UtcTold
    <3>3. \A i \in DOMAIN UbloxLsInd : UbloxLsInd[i].date <= now'
      BY <1>1, <1>2, <1>4, <2>6 DEF BeforeInv, AllEarly, Early, LeapType
    <3>4. now' \in Nat /\ worker.at <= now'
      BY <1>1, <1>2 DEF LeapType
    <3> QED
      BY <1>2, <2>1, <3>1, <3>2, <3>3, <3>4 DEF AfterInv, Passed
  <2> QED
    BY <1>3, <2>4, <2>5, <2>6 DEF LeapInv
<1>5. CASE ~(planned # NoLeap /\ planned.time = now')
  <2>1. UNCHANGED <<curr, lastLeap, planned>>
    BY <1>5 DEF TimePasses
  <2>2. LeapType'
    BY <1>1, <1>2, <2>1 DEF LeapType
  <2>3. Before' = Before /\ leaps' = leaps
    BY <1>2, <2>1 DEF Before
  <2>4. ASSUME BeforeInv PROVE BeforeInv'
    <3>1. planned # NoLeap => now' < planned.time
      BY <1>1, <1>2, <1>5, <2>4 DEF BeforeInv, LeapType
    <3> QED
      BY <1>2, <2>1, <2>4, <3>1 DEF BeforeInv, UpToDate, AllEarly, Early
  <2>5. ASSUME AfterInv PROVE AfterInv'
    <3>1. \A x \in Int : x <= now \/ x < now => x < now'
      BY <1>1, <1>2 DEF LeapType
    <3>2. lastLeap' <= now'
      BY <1>1, <1>2, <2>1, <2>5 DEF AfterInv, LeapType
    <3>3. \A x : Passed(x) => Passed(x)'
      BY <2>1, <3>1 DEF Passed
    <3> QED
      BY <1>2, <2>1, <2>5, <3>2, <3>3 DEF AfterInv
  <2> QED
    BY <1>3, <2>2, <2>3, <2>4, <2>5 DEF LeapInv
<1> QED
  BY <1>4, <1>5

(* A restart reads the configmap, which is the file or an earlier one.     *)
LEMMA LeapRestart ==
  ASSUME LeapInv, Restart PROVE LeapInv'
<1>1. LeapType
  BY DEF LeapInv
<1>2. /\ UNCHANGED <<now, curr, lastLeap, planned, leaps, configmap>>
      /\ LeapEvents' = configmap /\ UbloxLsInd' = <<>> /\ step' = "select"
      /\ utcOffsetTime' = Last(configmap).time
      /\ utcOffset' = Last(configmap).sec
      /\ worker' = Idle
  BY DEF Restart, receiver
<1>3. LeapType'
  BY <1>1, <1>2 DEF LeapType, Idle
<1>4. UtcTold'
  BY <1>2 DEF UtcTold
<1>5. Before' = Before /\ leaps' = leaps
  BY <1>2 DEF Before
<1>6. BeforeInv => BeforeInv'
  BY <1>2 DEF BeforeInv, UpToDate, AllEarly, Updating, Idle
<1>7. AfterInv => AfterInv'
  BY <1>2 DEF AfterInv, Passed, Idle
<1> QED
  BY <1>3, <1>4, <1>5, <1>6, <1>7 DEF LeapInv

LEMMA LeapInvNext ==
  ASSUME LeapInv, [LeapNext]_leapVars PROVE LeapInv'
BY LeapIndicate, LeapHandled, LeapSetUtc, LeapWritten, LeapAnnounced, LeapPasses, LeapRestart,
   LeapTested, LeapStays, KeptIsLeap
DEF LeapNext, Manager, ClassWorker

(* With a first file that is up to date, and until a second leap is        *)
(* announced, what the worker gets from GetUtcOffset is the offset in      *)
(* force, unless an update overtakes it: for any times and windows, a leap *)
(* in either direction, and any number of restarts and failing writes.     *)
THEOREM OffsetRight ==
  ASSUME Outdated = {0}
  PROVE  LeapSpec /\ [](leaps <= 1) => OffsetIsRight
<1>1. LeapInv /\ leaps <= 1 /\ [LeapNext]_leapVars =>
        [ReadsOffset /\ FileIsRight /\ ~Overtaken => worker'.utc = curr]_leapVars
  <2> SUFFICES ASSUME LeapInv, leaps <= 1, [LeapNext]_leapVars,
                      ReadsOffset, FileIsRight, ~Overtaken
               PROVE  worker'.utc = curr
    OBVIOUS
  <2>1. ClassReadsOffset
    BY WhoReads
  <2>2. worker'.utc = OffsetRead(worker.step)
    BY <2>1 DEF ClassReadsOffset, LeapInv, LeapType
  <2>3. worker.step \in {"utcOffset", "LeapEvents"}
    BY <2>1 DEF ClassReadsOffset
  <2> QED
    BY <2>2, <2>3, RightOffset
<1> QED
  BY <1>1, LeapInvInit, LeapInvNext, PTL DEF LeapSpec, OffsetIsRight
=============================================================================
