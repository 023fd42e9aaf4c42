-------------------------------- MODULE Leap --------------------------------
(***************************************************************************)
(* The leap second manager (pkg/leap).  The GNSS monitor sends it what the *)
(* receiver says about leap seconds; the manager keeps the leap file in    *)
(* memory and in a configmap, from which it starts again, and tells ptp4l  *)
(* through pmc that a leap is near.  GetUtcOffset is called by the clock   *)
(* class worker, in another goroutine and without a lock, line by line,    *)
(* and the worker writes the same settings of ptp4l.                       *)
(*                                                                         *)
(* Time is counted in maintenance periods.  A message is valid if its      *)
(* source is GPS and both validity flags are set; one whose last lines     *)
(* were not there yet has no flags.  Offsets are TAI - UTC, so they        *)
(* include gpsToTaiDiff.  The file keeps what is decided upon: the text,   *)
(* the hash, the expiration and the update time are left out.              *)
(***************************************************************************)
EXTENDS Integers, Sequences, SequencesExt

CONSTANTS
  Offset0,      \* TAI - UTC at the beginning
  Outdated,     \* how many leaps the first leap file may lack, 0 or 1
  Changes,      \* -1, 1: the leaps that may be announced
  WindowStart,  \* 12 h
  WindowEnd,    \* 60 s
  FirstTime, LastTime, \* bounds on the time
  MaxLeaps,     \* bound on the leaps
  MaxRestarts,  \* bound on the restarts of the daemon
  NoLeap        \* no leap is announced

ASSUME LeapAssumption ==
  /\ Offset0 \in Nat \ {0}
  /\ Outdated \subseteq {0, 1}
  /\ Changes \subseteq {-1, 1}
  /\ WindowStart \in Nat
  /\ WindowEnd \in Nat \ {0}
  /\ {FirstTime, LastTime, MaxLeaps, MaxRestarts} \subseteq Nat
  /\ WindowEnd < FirstTime

VARIABLES
  now,
  curr, lastLeap, planned,     \* the receiver: offset, last and next leap
  leaps, restarts,             \* how many there have been
  UbloxLsInd,                  \* the channel from the GNSS monitor
  tick,                        \* ticker.C
  LeapEvents, utcOffsetTime, utcOffset, retryUpdate, pmcLeapSent,
  step, g,                     \* the manager's step and its pmc settings
  configmap,
  ptp4l,                       \* UTC offset and leap flag in ptp4l
  worker                       \* the clock class worker, see Idle

receiver == <<curr, lastLeap, planned, leaps>>
manager == <<LeapEvents, utcOffsetTime, utcOffset, retryUpdate, pmcLeapSent, step, g>>
utc == <<utcOffsetTime, utcOffset>>
leapVars ==
  <<now, curr, lastLeap, planned, leaps, restarts, UbloxLsInd, tick, LeapEvents,
    utcOffsetTime, utcOffset, retryUpdate, pmcLeapSent, step, g, configmap, ptp4l,
    worker>>

Empty == [utc |-> 0, leap |-> "none"]

(* The worker: its step, the settings it will write, and, while it is in   *)
(* GetUtcOffset, the time of its time.Now().                               *)
Idle == [step |-> "idle", at |-> 0, utc |-> 0, leap |-> "none"]

-----------------------------------------------------------------------------
(* The two lines of GetUtcOffset.  The first tests the time and says what  *)
(* the second reads; 0 is where that ends the program.  LeapEvents is only *)
(* ever appended to, so testing its length and indexing it are one step.   *)
WhatToRead == IF now > utcOffsetTime THEN "utcOffset" ELSE "LeapEvents"

OffsetRead(what) ==
  IF what = "utcOffset" THEN utcOffset
  ELSE IF Len(LeapEvents) > 1 THEN LeapEvents[Len(LeapEvents) - 1].sec ELSE 0

(* A call of which nobody else runs a line.                                *)
GetUtcOffset == OffsetRead(WhatToRead)

(* The GNSS monitor sends a message; it gives up when the channel is full. *)
(* Whether the last leap is past is not asked of one that is not valid.    *)
Indicate ==
  /\ Len(UbloxLsInd) < 2
  /\ \E valid, past \in BOOLEAN :
       /\ planned # NoLeap \/ ~valid => ~past
       /\ UbloxLsInd' = Append(UbloxLsInd,
            [valid |-> valid, past |-> past, currLs |-> curr,
             lsChange |-> IF planned = NoLeap THEN 0 ELSE planned.change,
             date |-> IF planned = NoLeap THEN lastLeap ELSE planned.time])
  /\ UNCHANGED <<now, receiver, restarts, tick, manager, configmap, ptp4l, worker>>

-----------------------------------------------------------------------------
(* handleLeapIndication                                                    *)

LeapSec(m) == m.currLs + m.lsChange

(* A slip: a message without a change is ignored. *)
NeedsUpdateIfChange(m) ==
  /\ m.valid
  /\ m.lsChange # 0
  /\ LeapSec(m) # Last(LeapEvents).sec
  /\ Last(LeapEvents).time < now

(* processLeapIndication: the last leap on file has passed and the offset  *)
(* is not the one it leads to.                                             *)
NeedsUpdate(m) ==
  /\ m.valid
  /\ LeapSec(m) # Last(LeapEvents).sec
  /\ Last(LeapEvents).time < now

LeapTime(m) == IF m.lsChange = 0 /\ ~m.past THEN now - WindowEnd ELSE m.date

HandleIndication ==
  /\ step = "select"
  /\ UbloxLsInd # <<>>
  /\ UbloxLsInd' = Tail(UbloxLsInd)
  /\ LET m == Head(UbloxLsInd) IN
       \/ /\ NeedsUpdate(m)
          /\ LeapEvents' = Append(LeapEvents, [time |-> LeapTime(m), sec |-> LeapSec(m)])
          /\ step' = "utcOffsetTime"
       \/ ~NeedsUpdate(m) /\ UNCHANGED <<LeapEvents, step>>
  /\ UNCHANGED <<now, receiver, restarts, tick, utc, retryUpdate, pmcLeapSent, g,
                 configmap, ptp4l, worker>>

(* A slip: the offset is assigned without the time it is valid from. *)
SetUtcOffsetOnly ==
  /\ step = "utcOffsetTime"
  /\ utcOffset' = Last(LeapEvents).sec
  /\ step' = "utcOffset"
  /\ UNCHANGED <<now, receiver, restarts, UbloxLsInd, tick, LeapEvents, utcOffsetTime,
                 retryUpdate, pmcLeapSent, g, configmap, ptp4l, worker>>

(* setUtcOffset: the time first,                                           *)
SetUtcOffsetTime ==
  /\ step = "utcOffsetTime"
  /\ utcOffsetTime' = Last(LeapEvents).time
  /\ step' = "utcOffset"
  /\ UNCHANGED <<now, receiver, restarts, UbloxLsInd, tick, LeapEvents, utcOffset,
                 retryUpdate, pmcLeapSent, g, configmap, ptp4l, worker>>

(* then the offset.                                                        *)
SetUtcOffset ==
  /\ step = "utcOffset"
  /\ utcOffset' = Last(LeapEvents).sec
  /\ step' = "configmap"
  /\ UNCHANGED <<now, receiver, restarts, UbloxLsInd, tick, LeapEvents, utcOffsetTime,
                 retryUpdate, pmcLeapSent, g, configmap, ptp4l, worker>>

(* A slip: a failed update is not remembered. *)
UpdateLeapConfigmapOnce ==
  /\ step \in {"configmap", "retry"}
  /\ \/ configmap' = LeapEvents
     \/ UNCHANGED configmap
  /\ retryUpdate' = FALSE
  /\ step' = IF step = "configmap" THEN "select" ELSE "window"
  /\ UNCHANGED <<now, receiver, restarts, UbloxLsInd, tick, LeapEvents, utc,
                 pmcLeapSent, g, ptp4l, worker>>

(* updateLeapConfigmap: Get or Update may fail.                            *)
UpdateLeapConfigmap ==
  /\ step \in {"configmap", "retry"}
  /\ \/ configmap' = LeapEvents /\ retryUpdate' = FALSE
     \/ UNCHANGED configmap /\ retryUpdate' = TRUE
  /\ step' = IF step = "configmap" THEN "select" ELSE "window"
  /\ UNCHANGED <<now, receiver, restarts, UbloxLsInd, tick, LeapEvents, utc,
                 pmcLeapSent, g, ptp4l, worker>>

-----------------------------------------------------------------------------
(* The maintenance tick of Run                                             *)

Maintain ==
  /\ step = "select"
  /\ tick
  /\ tick' = FALSE
  /\ step' = IF retryUpdate THEN "retry" ELSE "window"
  /\ UNCHANGED <<now, receiver, restarts, UbloxLsInd, LeapEvents, utc, retryUpdate,
                 pmcLeapSent, g, configmap, ptp4l, worker>>

IsLeapInWindow ==
  /\ now > Last(LeapEvents).time - WindowStart
  /\ now < Last(LeapEvents).time - WindowEnd

CheckWindow ==
  /\ step = "window"
  /\ step' = IF IsLeapInWindow /\ ~pmcLeapSent THEN "get" ELSE "select"
  /\ pmcLeapSent' = (IsLeapInWindow /\ pmcLeapSent)
  /\ UNCHANGED <<now, receiver, restarts, UbloxLsInd, tick, LeapEvents, utc,
                 retryUpdate, g, configmap, ptp4l, worker>>

(* A GET that times out is no error and leaves the settings empty.         *)
PmcGet ==
  /\ step = "get"
  /\ \E read \in {ptp4l, Empty} :
       LET leapDiff == Last(LeapEvents).sec - read.utc IN
         /\ g' = [read EXCEPT !.leap = IF leapDiff > 0 THEN "61"
                                       ELSE IF leapDiff < 0 THEN "59" ELSE @]
         /\ step' = IF leapDiff = 0 THEN "select" ELSE "set"
         /\ pmcLeapSent' = (leapDiff = 0)
  /\ UNCHANGED <<now, receiver, restarts, UbloxLsInd, tick, LeapEvents, utc,
                 retryUpdate, configmap, ptp4l, worker>>

PmcGetFails ==
  /\ step = "get"
  /\ step' = "select"
  /\ UNCHANGED <<now, receiver, restarts, UbloxLsInd, tick, LeapEvents, utc,
                 retryUpdate, pmcLeapSent, g, configmap, ptp4l, worker>>

(* A SET fails, or only its answer is lost, and is sent again at the next  *)
(* tick.                                                                   *)
PmcSet ==
  /\ step = "set"
  /\ \/ ptp4l' = g /\ pmcLeapSent' = TRUE
     \/ ptp4l' \in {ptp4l, g} /\ UNCHANGED pmcLeapSent
  /\ step' = "select"
  /\ g' = Empty
  /\ UNCHANGED <<now, receiver, restarts, UbloxLsInd, tick, LeapEvents, utc,
                 retryUpdate, configmap, worker>>

-----------------------------------------------------------------------------
(* The clock class worker (see ClockClass), which writes all the settings. *)

(* GET; the offset that is read is replaced.                               *)
ClassGet ==
  /\ worker.step = "idle"
  /\ \E read \in {ptp4l, Empty} :
       worker' = [worker EXCEPT !.step = "time", !.leap = read.leap]
  /\ UNCHANGED <<now, receiver, restarts, UbloxLsInd, tick, manager, configmap, ptp4l>>

ClassTestsTime ==
  /\ worker.step = "time"
  /\ worker' = [worker EXCEPT !.step = WhatToRead, !.at = now]
  /\ UNCHANGED <<now, receiver, restarts, UbloxLsInd, tick, manager, configmap, ptp4l>>

ClassReadsOffset ==
  /\ worker.step \in {"utcOffset", "LeapEvents"}
  /\ worker' = [worker EXCEPT !.step = "set", !.at = 0, !.utc = OffsetRead(worker.step)]
  /\ UNCHANGED <<now, receiver, restarts, UbloxLsInd, tick, manager, configmap, ptp4l>>

(* SET, if the settings are to change.                                     *)
ClassSet ==
  /\ worker.step = "set"
  /\ ptp4l' \in {ptp4l, [utc |-> worker.utc, leap |-> worker.leap]}
  /\ worker' = Idle
  /\ UNCHANGED <<now, receiver, restarts, UbloxLsInd, tick, manager, configmap>>

-----------------------------------------------------------------------------
(* The receiver, time, and the daemon                                      *)

Announce ==
  /\ planned = NoLeap
  /\ leaps < MaxLeaps
  /\ \E time \in now + 1 .. LastTime - 1, change \in Changes :
       planned' = [time |-> time, change |-> change]
  /\ leaps' = leaps + 1
  /\ UNCHANGED <<now, curr, lastLeap, restarts, UbloxLsInd, tick, manager, configmap,
                 ptp4l, worker>>

TimePasses ==
  /\ now < LastTime
  /\ now' = now + 1
  /\ tick' = TRUE
  /\ IF planned # NoLeap /\ planned.time = now'
     THEN /\ curr' = curr + planned.change
          /\ lastLeap' = now'
          /\ planned' = NoLeap
     ELSE UNCHANGED <<curr, lastLeap, planned>>
  /\ UNCHANGED <<leaps, restarts, UbloxLsInd, manager, configmap, ptp4l, worker>>

(* At the end of the bounded time the ticker still ticks.                  *)
LastTick ==
  /\ now = LastTime
  /\ ~tick
  /\ tick' = TRUE
  /\ UNCHANGED <<now, receiver, restarts, UbloxLsInd, manager, configmap, ptp4l, worker>>

(* New and populateLeapData: the daemon starts again with the configmap.   *)
Restart ==
  /\ restarts < MaxRestarts
  /\ restarts' = restarts + 1
  /\ LeapEvents' = configmap
  /\ utcOffsetTime' = Last(configmap).time
  /\ utcOffset' = Last(configmap).sec
  /\ retryUpdate' = FALSE
  /\ pmcLeapSent' = FALSE
  /\ step' = "select"
  /\ g' = Empty
  /\ UbloxLsInd' = <<>>
  /\ tick' = FALSE
  /\ worker' = Idle
  /\ UNCHANGED <<now, receiver, configmap, ptp4l>>

(* New was called just now, or a period ago and nothing happened since.    *)
LeapInit ==
  /\ now = FirstTime
  /\ curr = Offset0
  /\ lastLeap = 0
  /\ planned = NoLeap
  /\ leaps = 0
  /\ restarts = 0
  /\ UbloxLsInd = <<>>
  /\ tick \in BOOLEAN
  /\ \E n \in Outdated : LeapEvents = <<[time |-> 0, sec |-> Offset0 - n]>>
  /\ utcOffsetTime = Last(LeapEvents).time
  /\ utcOffset = Last(LeapEvents).sec
  /\ retryUpdate = FALSE
  /\ pmcLeapSent = FALSE
  /\ step = "select"
  /\ g = Empty
  /\ configmap = LeapEvents
  /\ ptp4l = [Empty EXCEPT !.utc = Offset0]
  /\ worker = Idle

Manager ==
  HandleIndication \/ SetUtcOffsetTime \/ SetUtcOffset \/ UpdateLeapConfigmap
    \/ Maintain \/ CheckWindow \/ PmcGet \/ PmcGetFails \/ PmcSet

ClassWorker == ClassGet \/ ClassTestsTime \/ ClassReadsOffset \/ ClassSet

LeapNext ==
  Manager \/ ClassWorker \/ Indicate \/ Announce \/ TimePasses \/ LastTick \/ Restart

LeapSpec == LeapInit /\ [][LeapNext]_leapVars

(* Time passes, the ticker ticks, and select serves both of its channels.  *)
(* The receiver is heard again and again.  Of the attempts to write the    *)
(* configmap not all fail.                                                 *)
LeapFairness ==
  /\ WF_leapVars(TimePasses)
  /\ WF_leapVars(LastTick)
  /\ WF_leapVars(Manager)
  /\ SF_leapVars(HandleIndication)
  /\ SF_leapVars(Maintain)
  /\ SF_leapVars(Indicate /\ Last(UbloxLsInd').valid)
  /\ SF_leapVars(UpdateLeapConfigmap /\ configmap' = LeapEvents)

LeapFairSpec == LeapSpec /\ LeapFairness

-----------------------------------------------------------------------------
(* Properties.                                                             *)

(* The offset the receiver will have after the announced leap.             *)
Coming == IF planned = NoLeap THEN curr ELSE curr + planned.change

(* What the worker gets from GetUtcOffset is the offset in force, before a *)
(* leap, after it, and in every interleaving of its two lines with those   *)
(* of setUtcOffset but one: the worker finds the old leap past, a new one  *)
(* is put on file and both lines of setUtcOffset run, and the offset the   *)
(* worker then reads is that of the new leap.                              *)
(* The file must lead to an offset the receiver has or announces, there    *)
(* is no leap from the one line of the worker to the other, nor is the     *)
(* manager in the middle of an update that is too late for its leap.       *)
ReadsOffset == worker.step \in {"utcOffset", "LeapEvents"} /\ worker'.step = "set"

FileIsRight ==
  /\ Last(LeapEvents).sec \in {curr, Coming}
  /\ lastLeap < worker.at
  /\ step \in {"utcOffsetTime", "utcOffset"} => now < Last(LeapEvents).time

Overtaken ==
  /\ worker.step = "utcOffset"
  /\ worker.at <= utcOffsetTime
  /\ step # "utcOffset"

OffsetIsRight ==
  [][ReadsOffset /\ FileIsRight /\ ~Overtaken => worker'.utc = curr]_leapVars

(* However the daemon was restarted and whatever leap it missed,           *)
(* GetUtcOffset becomes and stays the offset in force.                     *)
OffsetConverges == <>[](GetUtcOffset = curr)

(* A leap that is on file gets into the configmap, from which the daemon   *)
(* starts again, although single writes fail; or the daemon restarts.      *)
ConfigmapCatchesUp == (LeapEvents # configmap) ~> (LeapEvents = configmap)

-----------------------------------------------------------------------------
(* Statements the code does not satisfy.                                   *)

(* Nor is there an interleaving in which the offset of a leap to come is   *)
(* read: the exception in OffsetIsRight.                                   *)
NoOffsetBeforeItsLeap ==
  [][ReadsOffset /\ FileIsRight => worker'.utc = curr]_leapVars

(* A leap that was announced to ptp4l is announced until it happens: the   *)
(* clock class worker may put back settings it read before.                *)
AnnouncedUntilLeap ==
  [][pmcLeapSent /\ IsLeapInWindow /\ ptp4l.leap # "none" => ptp4l'.leap = ptp4l.leap]_leapVars

(* The flag in ptp4l has the direction of the leap: after a GET that timed *)
(* out every leap looks like a positive one.                               *)
FlagIsRight == ptp4l.leap = "61" /\ planned # NoLeap => planned.change = 1
=============================================================================
