----------------------------- MODULE GnssMonitor -----------------------------
(***************************************************************************)
(* The GNSS monitor of gpsd (pkg/daemon/gpsd.go) and the ubxtool process   *)
(* it polls (pkg/ublox).  Three kinds of goroutines share the UBlox object:*)
(*   - the monitor starts ubxtool, takes its lines from a buffer, kills it *)
(*     when it is silent for too long, and reports the state every second; *)
(*   - one push goroutine per ubxtool appends the lines it reads to the    *)
(*     buffer and marks the tool DEAD when reading fails;                  *)
(*   - the daemon stops the tool in GPSD.CmdStop.                          *)
(*                                                                         *)
(* NAV-STATUS and NAV-CLOCK are printed as a header and a line with the    *)
(* value.  A fix is 3 or better or not; an offset is in range or not, and  *)
(* so is -1, the value of a line that does not hold one.  NAV-TIMELS and   *)
(* the leap seconds it announces are left out.                             *)
(***************************************************************************)
EXTENDS Naturals, Sequences, FiniteSets, PtpState

CONSTANTS
  Tools,        \* bound on the ubxtool processes and push goroutines at once
  NoTool,
  Failed,       \* marks a push goroutine that is about to set DEAD
  Headers,      \* the messages the receiver is configured to send
  Fixes,        \* whether the receiver has a fix
  Accurate,     \* whether its offset is in range
  StartErrors,  \* whether ubxtool may fail to start
  MaxBatch,     \* bound on the lines printed between two ticks
  EmptyLimit,   \* 10 in the code
  MissedLimit   \* 3 in the code

ASSUME GnssAssumption ==
  /\ NoTool \notin Tools
  /\ Failed \notin Tools \cup {NoTool}
  /\ Headers \subseteq {"NAV-STATUS", "NAV-CLOCK"}
  /\ Fixes \subseteq BOOLEAN
  /\ Accurate \subseteq BOOLEAN
  /\ StartErrors \in BOOLEAN
  /\ MaxBatch \in Nat
  /\ EmptyLimit \in Nat \ {0}
  /\ MissedLimit \in Nat

VARIABLES
  fix, accurate,  \* the receiver
  alive,          \* the ubxtool processes that run
  status,         \* UBlox.status
  cmd,            \* UBlox.cmd and UBlox.reader
  started,        \* cmd.Process is set
  buffer,         \* UBlox.buffer
  reader,         \* the tool a push goroutine reads from
  printed,        \* the header a tool has printed last without its value
  pc, emptyCount, missedTickers, nStatus, nOffset, \* the monitor
  batch,          \* lines printed since the last tick
  stop,           \* GPSD.CmdStop
  reported        \* the last event sent: state, and whether the source is lost

ublox == <<status, cmd, started>>
poll == <<emptyCount, missedTickers, nStatus, nOffset>>
gnssVars ==
  <<fix, accurate, alive, status, cmd, started, buffer, reader, printed,
    pc, emptyCount, missedTickers, nStatus, nOffset, batch, stop, reported>>

Header(h) == [kind |-> h, good |-> FALSE]
Value(h) == IF h = "NAV-STATUS" THEN [kind |-> "status", good |-> fix]
                                ELSE [kind |-> "clock", good |-> accurate]

-----------------------------------------------------------------------------
(* UBlox.UbloxPollPushThread                                               *)

(* A line of the tool gets into the buffer; the next one is read from the  *)
(* reader that is in the field then.                                       *)
PushLine(t) ==
  /\ reader[t] \in alive
  /\ batch < MaxBatch
  /\ LET tool == reader[t] IN
       IF printed[tool] = "none"
       THEN \E h \in Headers :
              /\ buffer' = Append(buffer, Header(h))
              /\ printed' = [printed EXCEPT ![tool] = h]
       ELSE /\ buffer' = Append(buffer, Value(printed[tool]))
            /\ printed' = [printed EXCEPT ![tool] = "none"]
  /\ reader' = [reader EXCEPT ![t] = cmd]
  /\ batch' = batch + 1
  /\ UNCHANGED <<fix, accurate, alive, pc, stop, reported>>
  /\ UNCHANGED <<ublox, poll>>

(* Reading fails: the tool has ended, or it could not be started.  Until   *)
(* it is started reading from its pipe blocks.                             *)
ReadFails(t) ==
  /\ reader[t] \in Tools \ alive
  /\ ~(reader[t] = cmd /\ pc = "start")
  /\ reader' = [reader EXCEPT ![t] = IF status = "STOPPED" THEN NoTool ELSE Failed]
  /\ UNCHANGED <<fix, accurate, alive, buffer, printed, pc, batch, stop, reported>>
  /\ UNCHANGED <<ublox, poll>>

SetDead(t) ==
  /\ reader[t] = Failed
  /\ status' = "DEAD"
  /\ reader' = [reader EXCEPT ![t] = NoTool]
  /\ UNCHANGED <<fix, accurate, alive, cmd, started, buffer, printed, pc, batch,
                 stop, reported>>
  /\ UNCHANGED poll

-----------------------------------------------------------------------------
(* GPSD.MonitorGNSSEventsWithUblox                                         *)

(* NewUblox is done; it takes a while, and CmdStop may have been called.   *)
MonitorStarts ==
  /\ pc = "off"
  /\ pc' = "wait"
  /\ UNCHANGED <<fix, accurate, alive, buffer, reader, printed, batch, stop, reported>>
  /\ UNCHANGED <<ublox, poll>>

Tick ==
  /\ pc = "wait"
  /\ pc' = "poll"
  /\ emptyCount' = 0
  /\ batch' = 0
  /\ UNCHANGED <<fix, accurate, alive, buffer, reader, printed, missedTickers,
                 nStatus, nOffset, stop, reported>>
  /\ UNCHANGED ublox

(* A slip: a tool that died is not started again. *)
PollInitOnce ==
  /\ pc = "poll"
  /\ pc' = IF status = "NEW" THEN "create" ELSE "pull"
  /\ UNCHANGED <<fix, accurate, alive, buffer, reader, printed, batch, stop, reported>>
  /\ UNCHANGED <<ublox, poll>>

(* UbloxPollInit: the check of the status,                                 *)
PollInit ==
  /\ pc = "poll"
  /\ pc' = IF status \in {"NEW", "DEAD"} THEN "create" ELSE "pull"
  /\ UNCHANGED <<fix, accurate, alive, buffer, reader, printed, batch, stop, reported>>
  /\ UNCHANGED <<ublox, poll>>

(* A tool nobody refers to any more stands for a new one.                  *)
Free(tool) ==
  /\ tool \notin alive
  /\ tool # cmd
  /\ reader[tool] = NoTool
  /\ \A t \in Tools : reader[t] # tool

(* a new command, its reader, the status,                                  *)
Create ==
  /\ pc = "create"
  /\ \E tool \in Tools :
       /\ Free(tool)
       /\ cmd' = tool
       /\ printed' = [printed EXCEPT ![tool] = "none"]
  /\ started' = FALSE
  /\ buffer' = <<>>
  /\ status' = "ACTIVE"
  /\ pc' = "start"
  /\ UNCHANGED <<fix, accurate, alive, reader, batch, stop, reported>>
  /\ UNCHANGED poll

(* A slip: the output of the tool is not read. *)
StartUnread ==
  /\ pc = "start"
  /\ alive' = alive \cup {cmd}
  /\ started' = TRUE
  /\ pc' = "pull"
  /\ UNCHANGED <<fix, accurate, status, cmd, buffer, reader, printed, batch, stop,
                 reported>>
  /\ UNCHANGED poll

(* and the start of the tool and of its push goroutine.                    *)
Start ==
  /\ pc = "start"
  /\ alive' = alive \cup {cmd}
  /\ started' = TRUE
  /\ reader' = [reader EXCEPT ![cmd] = cmd]
  /\ pc' = "pull"
  /\ UNCHANGED <<fix, accurate, status, cmd, buffer, printed, batch, stop, reported>>
  /\ UNCHANGED poll

StartFails ==
  /\ StartErrors
  /\ pc = "start"
  /\ status' = "STOPPED"
  /\ pc' = "pull"
  /\ UNCHANGED <<fix, accurate, alive, cmd, started, buffer, reader, printed, batch,
                 stop, reported>>
  /\ UNCHANGED poll

(* UbloxPollPull: a header, whose value is pulled next,                    *)
PullHeader ==
  /\ pc = "pull"
  /\ buffer # <<>>
  /\ Head(buffer).kind \in Headers
  /\ pc' = Head(buffer).kind
  /\ buffer' = Tail(buffer)
  /\ emptyCount' = 0
  /\ missedTickers' = 0
  /\ UNCHANGED <<fix, accurate, alive, reader, printed, nStatus, nOffset, batch,
                 stop, reported>>
  /\ UNCHANGED ublox

(* another line, which is ignored,                                         *)
PullOther ==
  /\ pc = "pull"
  /\ buffer # <<>>
  /\ Head(buffer).kind \notin Headers
  /\ pc' = "poll"
  /\ buffer' = Tail(buffer)
  /\ UNCHANGED <<fix, accurate, alive, reader, printed, batch, stop, reported>>
  /\ UNCHANGED <<ublox, poll>>

(* or nothing: after EmptyLimit of these the tick is over, and after more  *)
(* than MissedLimit ticks without output the tool is killed.               *)
PullNothing ==
  /\ pc = "pull"
  /\ buffer = <<>>
  /\ emptyCount' = emptyCount + 1
  /\ \/ /\ emptyCount' < EmptyLimit
        /\ pc' = "poll"
        /\ UNCHANGED missedTickers
     \/ /\ emptyCount' >= EmptyLimit
        /\ missedTickers < MissedLimit
        /\ missedTickers' = missedTickers + 1
        /\ pc' = "report"
     \/ /\ emptyCount' >= EmptyLimit
        /\ missedTickers >= MissedLimit
        /\ missedTickers' = 0
        /\ pc' = "reset"
  /\ UNCHANGED <<fix, accurate, alive, buffer, reader, printed, nStatus, nOffset,
                 batch, stop, reported>>
  /\ UNCHANGED ublox

(* ExtractNavStatus and ExtractOffset: -1 when the line, which may not     *)
(* have arrived yet, does not hold the value.                              *)
ExtractNavStatus(line) == line.kind = "status" /\ line.good
ExtractOffset(line) == line.kind = "clock" => line.good

NextLine == IF buffer = <<>> THEN Header("NAV-STATUS") ELSE Head(buffer)

PullValue ==
  /\ pc \in Headers
  /\ IF pc = "NAV-STATUS"
     THEN nStatus' = ExtractNavStatus(NextLine) /\ UNCHANGED nOffset
     ELSE nOffset' = ExtractOffset(NextLine) /\ UNCHANGED nStatus
  /\ buffer' = IF buffer = <<>> THEN buffer ELSE Tail(buffer)
  /\ pc' = "poll"
  /\ UNCHANGED <<fix, accurate, alive, reader, printed, emptyCount, missedTickers,
                 batch, stop, reported>>
  /\ UNCHANGED ublox

(* UbloxPollReset: kill the tool; unless the status is STOPPED,            *)
ResetKill ==
  /\ pc = "reset"
  /\ alive' = IF started THEN alive \ {cmd} ELSE alive
  /\ pc' = CASE ~started -> "panic"
             [] started /\ status = "STOPPED" -> "report"
             [] started /\ status # "STOPPED" -> "resetDead"
  /\ UNCHANGED <<fix, accurate, buffer, reader, printed, batch, stop, reported>>
  /\ UNCHANGED <<ublox, poll>>

(* set it to DEAD.                                                         *)
ResetDead ==
  /\ pc = "resetDead"
  /\ status' = "DEAD"
  /\ pc' = "report"
  /\ UNCHANGED <<fix, accurate, alive, cmd, started, buffer, reader, printed, batch,
                 stop, reported>>
  /\ UNCHANGED poll

GnssEvent ==
  [state |-> IF nStatus /\ nOffset THEN LOCKED ELSE FREERUN,
   sourceLost |-> ~nStatus]

(* The event is dropped when the event channel is full.                    *)
Report ==
  /\ pc = "report"
  /\ reported' \in {reported, GnssEvent}
  /\ pc' = "wait"
  /\ UNCHANGED <<fix, accurate, alive, buffer, reader, printed, batch, stop>>
  /\ UNCHANGED <<ublox, poll>>

(* monitorCtx.Done(): the Reset event.                                     *)
Done ==
  /\ pc = "wait"
  /\ stop = "done"
  /\ reported' \in {reported, [state |-> NOTSET, sourceLost |-> FALSE]}
  /\ pc' = "done"
  /\ UNCHANGED <<fix, accurate, alive, buffer, reader, printed, batch, stop>>
  /\ UNCHANGED <<ublox, poll>>

-----------------------------------------------------------------------------
(* GPSD.CmdStop: UbloxPollStop, which dereferences cmd.Process; the rest,  *)
(* up to monitorCancel, is one step here (see ProcessManager).             *)

StopTool ==
  /\ stop = "run"
  /\ \/ pc = "off" /\ stop' = "cancel" /\ UNCHANGED status
     \/ pc # "off" /\ ~started /\ stop' = "panic" /\ UNCHANGED status
     \/ pc # "off" /\ started /\ stop' = "kill" /\ status' = "STOPPED"
  /\ UNCHANGED <<fix, accurate, alive, cmd, started, buffer, reader, printed, pc,
                 batch, reported>>
  /\ UNCHANGED poll

StopKill ==
  /\ stop = "kill"
  /\ alive' = IF started THEN alive \ {cmd} ELSE alive
  /\ stop' = IF started THEN "cancel" ELSE "panic"
  /\ UNCHANGED <<fix, accurate, buffer, reader, printed, pc, batch, reported>>
  /\ UNCHANGED <<ublox, poll>>

StopCancel ==
  /\ stop = "cancel"
  /\ stop' = "done"
  /\ UNCHANGED <<fix, accurate, alive, buffer, reader, printed, pc, batch, reported>>
  /\ UNCHANGED <<ublox, poll>>

-----------------------------------------------------------------------------
(* The receiver and ubxtool: both may fail at any time.                    *)

ReceiverChanges ==
  /\ fix' \in Fixes
  /\ accurate' \in Accurate
  /\ UNCHANGED <<alive, buffer, reader, printed, pc, batch, stop, reported>>
  /\ UNCHANGED <<ublox, poll>>

ToolDies ==
  /\ \E tool \in alive : alive' = alive \ {tool}
  /\ UNCHANGED <<fix, accurate, buffer, reader, printed, pc, batch, stop, reported>>
  /\ UNCHANGED <<ublox, poll>>

GnssInit ==
  /\ fix \in Fixes
  /\ accurate \in Accurate
  /\ alive = {}
  /\ status = "NEW"
  /\ cmd = NoTool
  /\ started = FALSE
  /\ buffer = <<>>
  /\ reader = [t \in Tools |-> NoTool]
  /\ printed = [t \in Tools |-> "none"]
  /\ pc = "off"
  /\ emptyCount = 0
  /\ missedTickers = 0
  /\ nStatus = FALSE
  /\ nOffset = FALSE
  /\ batch = 0
  /\ stop = "run"
  /\ reported = [state |-> NOTSET, sourceLost |-> FALSE]

UbloxPoll ==
  PollInit \/ Create \/ Start \/ StartFails \/ PullHeader \/ PullOther
    \/ PullNothing \/ PullValue \/ ResetKill \/ ResetDead

PushThread(t) == PushLine(t) \/ ReadFails(t) \/ SetDead(t)

GnssNext ==
  \/ MonitorStarts \/ Tick \/ UbloxPoll \/ Report \/ Done
  \/ \E t \in Tools : PushThread(t)
  \/ StopTool \/ StopKill \/ StopCancel
  \/ ReceiverChanges \/ ToolDies

GnssSpec == GnssInit /\ [][GnssNext]_gnssVars

(* Goroutines are scheduled, the ticker ticks, and the event handler       *)
(* empties the event channel.  Nothing is assumed of ubxtool, which may be *)
(* silent, nor of the receiver and of CmdStop.                             *)
GnssFairness ==
  /\ WF_gnssVars(MonitorStarts)
  /\ WF_gnssVars(Tick \/ UbloxPoll \/ Report)
  /\ SF_gnssVars(Report /\ reported' = GnssEvent)
  /\ \A t \in Tools : WF_gnssVars(ReadFails(t) \/ SetDead(t))

GnssFairSpec == GnssSpec /\ GnssFairness

-----------------------------------------------------------------------------
(* Properties.                                                             *)

(* The output of the tool the monitor relies on is read by some push       *)
(* goroutine, whichever of them die late or go on reading the output of a  *)
(* later tool: otherwise the last state would be reported for ever.        *)
CurrentToolIsRead ==
  started /\ cmd \in alive => \E t \in Tools : reader[t] = cmd

(* A tool that died, or was never started, is replaced until CmdStop is    *)
(* called: the push goroutine or the missed ticks find out, and a status   *)
(* set by a goroutine of an earlier tool does not hide it.  A tool that    *)
(* could not be started makes the next reset panic instead, and the daemon *)
(* ends.  (The tools of the instance must not be used up by earlier ones   *)
(* that never end.)                                                        *)
ToolIsReplaced ==
  []<>(\E tool \in Tools : Free(tool) \/ cmd \in alive)
    => ((stop = "run" /\ cmd # NoTool /\ cmd \notin alive)
          ~> (cmd \in alive \/ stop # "run" \/ pc = "panic"))

-----------------------------------------------------------------------------
(* Statements the code does not satisfy.                                   *)

(* At most one ubxtool runs.                                               *)
OneTool == Cardinality(alive) <= 1

(* When the monitor has ended no ubxtool is left.                          *)
NoToolLeft == pc = "done" => alive = {}

(* A receiver that has a fix and an offset in range all the time is not    *)
(* reported as lost once it was reported LOCKED.                           *)
FixIsLocked ==
  [][reported.state = LOCKED => ~reported'.sourceLost]_gnssVars
=============================================================================
