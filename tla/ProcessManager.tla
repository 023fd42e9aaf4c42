--------------------------- MODULE ProcessManager ---------------------------
(***************************************************************************)
(* The processes the daemon runs (pkg/daemon): ptp4l, phc2sys, ts2phc and  *)
(* synce4l (ptpProcess), and the processes that depend on ts2phc, gpsd and *)
(* gpspipe.  Each has a goroutine that starts it and restarts it when it   *)
(* ends; the daemon's loop stops them all and builds new ones whenever the *)
(* configuration changes.                                                  *)
(*                                                                         *)
(* A process of one configuration is an instance <<process, generation>>.  *)
(* Command lines, configuration files, the parsing of the output and       *)
(* metrics are left out.  The goroutine that reads the output is folded    *)
(* into the one that runs the process: it ends when the process does, and  *)
(* never if the process is not started, because the daemon itself holds    *)
(* the other end of the pipe.  The DPLLs, which are stopped along with     *)
(* gpsd and gpspipe but have no process, are in Dpll.                      *)
(***************************************************************************)
EXTENDS Naturals, Sequences

CONSTANTS
  Procs,          \* the processes of a configuration
  Kind,           \* "ptp" (a ptpProcess), "gpsd" or "gpspipe"
  StartOrder,     \* the order in which applyNodePTPProfiles starts them
  StopOrder,      \* the order in which applyNodePTPProfiles stops them
  ShutdownOrder,  \* the order in which Run stops them in the end
  Partial,        \* what is listed when applyNodePtpProfile fails
  PipeErrors,     \* whether StdoutPipe may fail
  MaxGen          \* bound on the configurations

Gens == 1 .. MaxGen
Instances == Procs \X Gens

Orders == {StartOrder, StopOrder, ShutdownOrder}

ASSUME ProcessAssumption ==
  /\ Kind \in [Procs -> {"ptp", "gpsd", "gpspipe"}]
  /\ \A o \in Orders :
       /\ o \in Seq(Procs) /\ {o[n] : n \in DOMAIN o} = Procs
       /\ \A n, k \in DOMAIN o : o[n] = o[k] => n = k
  /\ Partial \subseteq SUBSET Procs
  /\ PipeErrors \in BOOLEAN
  /\ MaxGen \in Nat

VARIABLES
  daemon,     \* the loop of Run: pc, the order it works on, its position in
              \* it, and whether it stops the processes for good
  gen,        \* the generation of the current configuration
  members,    \* processManager.process with the dependent processes
  run,        \* where cmdRun or CmdRun of an instance is
  stopped,    \* the field stopped of an instance
  process,    \* cmd.Process of an instance: "nil", "live", "reaped"
  alive,      \* whether the operating system's process is there
  signalled   \* whether it was sent SIGTERM

vars == <<daemon, gen, members, run, stopped, process, alive, signalled>>
cmdVars == <<run, process, alive, signalled>>

-----------------------------------------------------------------------------
(* cmdRun of a ptpProcess, CmdRun of gpsd and of gpspipe.                  *)

Proc(i) == i[1]
KindOf(i) == Kind[Proc(i)]

Goto(i, label) == run' = [run EXCEPT ![i] = label]

(* StdoutPipe, and the goroutine that reads the output.                    *)
Pipe(i) ==
  /\ run[i] = "top"
  /\ \/ Goto(i, "check")
     \/ PipeErrors /\ Goto(i, "exit")
  /\ UNCHANGED <<daemon, gen, members, stopped, process, alive, signalled>>

(* if !Stopped() { cmd.Start() }.  A ptpProcess that is not started never  *)
(* gets an end of output; gpsd goes on to the sleep; gpspipe offers to     *)
(* exitCh, from which nobody receives.                                     *)
NotStarted == [ptp |-> "noOutput", gpsd |-> "sleep", gpspipe |-> "exit"]

Check(i) ==
  /\ run[i] = "check"
  /\ Goto(i, IF stopped[i] THEN NotStarted[KindOf(i)] ELSE "start")
  /\ UNCHANGED <<daemon, gen, members, stopped, process, alive, signalled>>

Start(i) ==
  /\ run[i] = "start"
  /\ process' = [process EXCEPT ![i] = "live"]
  /\ alive' = [alive EXCEPT ![i] = TRUE]
  /\ Goto(i, "wait")
  /\ UNCHANGED <<daemon, gen, members, stopped, signalled>>

(* gpspipe makes its new command at once, the others after a sleep.        *)
StartFails(i) ==
  /\ run[i] = "start"
  /\ Goto(i, IF KindOf(i) = "gpspipe" THEN "check" ELSE "sleep")
  /\ UNCHANGED <<daemon, gen, members, stopped, process, alive, signalled>>

(* The process ends, by itself or because of the signal.                   *)
ProcessEnds(i) ==
  /\ alive[i]
  /\ alive' = [alive EXCEPT ![i] = FALSE]
  /\ UNCHANGED <<daemon, gen, members, run, stopped, process, signalled>>

(* The reader is done and cmd.Wait returns.                                *)
Wait(i) ==
  /\ run[i] = "wait"
  /\ ~alive[i]
  /\ \/ /\ KindOf(i) = "gpspipe"
        /\ process' = [process EXCEPT ![i] = "nil"]
        /\ signalled' = [signalled EXCEPT ![i] = FALSE]
        /\ Goto(i, "check")
     \/ /\ KindOf(i) # "gpspipe"
        /\ process' = [process EXCEPT ![i] = "reaped"]
        /\ UNCHANGED signalled
        /\ Goto(i, "sleep")
  /\ UNCHANGED <<daemon, gen, members, stopped, alive>>

(* Slips: a process that ended is not recreated; one that was stopped is.  *)
RecreateNever(i) ==
  /\ run[i] = "sleep"
  /\ Goto(i, "exit")
  /\ UNCHANGED <<daemon, gen, members, stopped, process, alive, signalled>>

RecreateAlways(i) ==
  /\ run[i] = "sleep"
  /\ process' = [process EXCEPT ![i] = "nil"]
  /\ Goto(i, IF KindOf(i) = "ptp" THEN "top" ELSE "check")
  /\ UNCHANGED <<daemon, gen, members, stopped, alive, signalled>>

(* After the sleep: a stopped process is not recreated.                    *)
Recreate(i) ==
  /\ run[i] = "sleep"
  /\ \/ /\ stopped[i]
        /\ Goto(i, "exit")
        /\ UNCHANGED process
     \/ /\ ~stopped[i]
        /\ process' = [process EXCEPT ![i] = "nil"]
        /\ Goto(i, IF KindOf(i) = "ptp" THEN "top" ELSE "check")
  /\ UNCHANGED <<daemon, gen, members, stopped, alive, signalled>>

CmdRun(i) ==
  Pipe(i) \/ Check(i) \/ Start(i) \/ StartFails(i) \/ Wait(i) \/ Recreate(i)

-----------------------------------------------------------------------------
(* The loop of Run.                                                        *)

(* The instance the daemon is at in its order.                             *)
Current == <<daemon.order[daemon.next], gen>>

AtEnd == daemon.next > Len(daemon.order)

Advance == daemon' = [daemon EXCEPT !.pc = "stop", !.next = @ + 1]

(* A new configuration: applyNodePTPProfiles begins to stop the processes. *)
UpdateConfig ==
  /\ daemon.pc = "idle"
  /\ gen < MaxGen
  /\ daemon' = [pc |-> "stop", order |-> StopOrder, next |-> 1,
                final |-> FALSE]
  /\ UNCHANGED <<gen, members, stopped>>
  /\ UNCHANGED cmdVars

(* main returns and closes stopCh.                                         *)
Shutdown ==
  /\ daemon.pc = "idle"
  /\ daemon' = [pc |-> "stop", order |-> ShutdownOrder, next |-> 1,
                final |-> TRUE]
  /\ UNCHANGED <<gen, members, stopped>>
  /\ UNCHANGED cmdVars

NotListed ==
  /\ daemon.pc = "stop"
  /\ ~AtEnd
  /\ daemon.order[daemon.next] \notin members
  /\ Advance
  /\ UNCHANGED <<gen, members, stopped>>
  /\ UNCHANGED cmdVars

(* cmdStop or CmdStop, in three steps: setStopped,                         *)
SetStopped ==
  /\ daemon.pc = "stop"
  /\ ~AtEnd
  /\ daemon.order[daemon.next] \in members
  /\ stopped' = [stopped EXCEPT ![Current] = TRUE]
  /\ daemon' = [daemon EXCEPT !.pc = "signal"]
  /\ UNCHANGED <<gen, members>>
  /\ UNCHANGED cmdVars

(* A slip: cmdStop does not wait for a process that is not running yet. *)
SignalOrSkip ==
  /\ daemon.pc = "signal"
  /\ signalled' = [signalled EXCEPT ![Current] = @ \/ process[Current] = "live"]
  /\ IF KindOf(Current) = "gpspipe" \/ process[Current] # "live"
     THEN Advance
     ELSE daemon' = [daemon EXCEPT !.pc = "waitExit"]
  /\ UNCHANGED <<gen, members, run, stopped, process, alive>>

(* SIGTERM, if cmd.Process is set: cmdStop of a ptpProcess returns if the  *)
(* process was waited for already, and gpspipe's CmdStop in any case;      *)
(* otherwise the receive from exitCh follows.                              *)
Signal ==
  /\ daemon.pc = "signal"
  /\ signalled' = [signalled EXCEPT ![Current] = @ \/ process[Current] = "live"]
  /\ IF KindOf(Current) = "gpspipe"
          \/ (KindOf(Current) = "ptp" /\ process[Current] = "reaped")
     THEN Advance
     ELSE daemon' = [daemon EXCEPT !.pc = "waitExit"]
  /\ UNCHANGED <<gen, members, run, stopped, process, alive>>

(* <-exitCh meets exitCh <-.  cmdStop then logs cmd.Process.Pid, which     *)
(* panics for a process that could not be started.                         *)
AwaitExit ==
  /\ daemon.pc = "waitExit"
  /\ run[Current] = "exit"
  /\ Goto(Current, "end")
  /\ IF KindOf(Current) = "ptp" /\ process[Current] = "nil"
     THEN daemon' = [daemon EXCEPT !.pc = "panic"]
     ELSE Advance
  /\ UNCHANGED <<gen, members, stopped, process, alive, signalled>>

(* All are stopped.  applyNodePtpProfile builds the processes of every     *)
(* profile; if it fails, those of the profiles before stay listed and      *)
(* nothing is started.                                                     *)
ApplyProfiles ==
  /\ daemon.pc = "stop"
  /\ AtEnd
  /\ ~daemon.final
  /\ gen' = gen + 1
  /\ \/ /\ members' = Procs
        /\ daemon' = [pc |-> "start", order |-> StartOrder, next |-> 1,
                      final |-> FALSE]
     \/ /\ members' \in Partial
        /\ daemon' = [daemon EXCEPT !.pc = "idle"]
  /\ UNCHANGED <<stopped, run, process, alive, signalled>>

(* go cmdRun                                                               *)
Launch ==
  /\ daemon.pc = "start"
  /\ ~AtEnd
  /\ Goto(Current, IF KindOf(Current) = "ptp" THEN "top" ELSE "check")
  /\ daemon' = [daemon EXCEPT !.next = @ + 1]
  /\ UNCHANGED <<gen, members, stopped, process, alive, signalled>>

Launched ==
  /\ daemon.pc = "start"
  /\ AtEnd
  /\ daemon' = [daemon EXCEPT !.pc = "idle"]
  /\ UNCHANGED <<gen, members, stopped>>
  /\ UNCHANGED cmdVars

ShutDown ==
  /\ daemon.pc = "stop"
  /\ AtEnd
  /\ daemon.final
  /\ daemon' = [daemon EXCEPT !.pc = "gone"]
  /\ UNCHANGED <<gen, members, stopped>>
  /\ UNCHANGED cmdVars

Run ==
  \/ UpdateConfig
  \/ Shutdown
  \/ NotListed
  \/ SetStopped
  \/ Signal
  \/ AwaitExit
  \/ ApplyProfiles
  \/ Launch
  \/ Launched
  \/ ShutDown

Init ==
  /\ daemon = [pc |-> "idle", order |-> StopOrder, next |-> 1, final |-> FALSE]
  /\ gen = 0
  /\ members = {}
  /\ run = [i \in Instances |-> "none"]
  /\ stopped = [i \in Instances |-> FALSE]
  /\ process = [i \in Instances |-> "nil"]
  /\ alive = [i \in Instances |-> FALSE]
  /\ signalled = [i \in Instances |-> FALSE]

Next ==
  \/ Run
  \/ \E i \in Instances : CmdRun(i) \/ ProcessEnds(i)

Spec == Init /\ [][Next]_vars

(* Goroutines are scheduled and sleeps end; a process ends after SIGTERM;  *)
(* starting it does not fail for ever.  Nobody has to change the           *)
(* configuration or to shut the daemon down.                               *)
Fairness ==
  /\ WF_vars(NotListed \/ SetStopped \/ Signal \/ AwaitExit \/ ApplyProfiles
               \/ Launch \/ Launched \/ ShutDown)
  /\ \A i \in Instances :
       /\ WF_vars(CmdRun(i))
       /\ SF_vars(Start(i))
       /\ WF_vars(signalled[i] /\ ProcessEnds(i))

FairSpec == Spec /\ Fairness

-----------------------------------------------------------------------------
(* Properties.                                                             *)

RunLabels == {"none", "top", "check", "start", "noOutput", "wait", "sleep",
              "exit", "end"}

(* Every variable has its type; the loops stay within their lists.         *)
TypeOK ==
  /\ daemon \in [pc : {"idle", "stop", "signal", "waitExit", "start", "gone",
                       "panic"},
                 order : Orders, next : Nat \ {0}, final : BOOLEAN]
  /\ daemon.next <= Len(daemon.order) + 1
  /\ gen \in 0 .. MaxGen
  /\ members \subseteq Procs
  /\ run \in [Instances -> RunLabels]
  /\ stopped \in [Instances -> BOOLEAN]
  /\ process \in [Instances -> {"nil", "live", "reaped"}]
  /\ alive \in [Instances -> BOOLEAN]
  /\ signalled \in [Instances -> BOOLEAN]

(* When the processes of a new configuration are built and started, or the *)
(* daemon has shut down, no process of an earlier configuration is there   *)
(* and none comes back, whenever the processes crash and whatever their    *)
(* goroutines are at when they are stopped: two ptp4l would fight over a   *)
(* clock.  gpspipe is exempt, its CmdStop does not wait.                   *)
OneGenerationAtATime ==
  \A i \in Instances :
    /\ KindOf(i) # "gpspipe"
    /\ i[2] < gen \/ daemon.pc = "gone"
    => ~alive[i]

(* cmdRun restarts a process that ended, until it is told to stop, or the  *)
(* pipe of the new command cannot be made.                                 *)
CrashedIsRestarted ==
  \A i \in Instances :
    run[i] = "wait" /\ ~alive[i]
      ~> alive[i] \/ stopped[i] \/ (run[i] = "exit" /\ process[i] = "nil")

(* Once SIGTERM was sent, cmdStop and CmdStop return.                      *)
SignalledIsStopped ==
  daemon.pc = "waitExit" /\ signalled[Current] ~> daemon.pc # "waitExit"

-----------------------------------------------------------------------------
(* Statements the code does not satisfy.                                   *)

(* cmdStop returns for every process that was launched.                    *)
LaunchedIsStopped ==
  daemon.pc = "waitExit" /\ run[Current] # "none" ~> daemon.pc # "waitExit"

(* After a profile that could not be applied the next configuration is.    *)
UpdateAfterFailedProfile ==
  daemon.pc = "waitExit" /\ run[Current] = "none" ~> daemon.pc # "waitExit"

(* A process that was stopped goes down and stays down.                    *)
StoppedStaysDown ==
  \A i \in Instances : stopped[i] ~> [](~alive[i])
=============================================================================
