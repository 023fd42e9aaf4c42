------------------------ MODULE ProcessManagerProofs ------------------------
(***************************************************************************)
(* Proofs about ProcessManager, for any processes of any kind, any orders  *)
(* of starting and stopping, any profiles that fail and any number of      *)
(* configurations.                                                         *)
(***************************************************************************)
EXTENDS ProcessManager, TLAPS

USE ProcessAssumption

(* An order is a sequence of processes, and every process is in it.        *)
LEMMA OrderFacts ==
  ASSUME NEW o \in Orders
  PROVE  /\ o \in Seq(Procs)
         /\ Len(o) \in Nat
         /\ \A n \in 1 .. Len(o) : o[n] \in Procs
         /\ \A p \in Procs : \E n \in 1 .. Len(o) : o[n] = p
         /\ \A n, k \in 1 .. Len(o) : o[n] = o[k] => n = k
OBVIOUS

(* The daemon works on an instance that exists as long as it is at a       *)
(* position of its order and there is a configuration.                     *)
LEMMA CurrentType ==
  ASSUME TypeOK, ~AtEnd, gen # 0
  PROVE  Current \in Instances
<1>1. daemon.order \in Orders /\ daemon.next \in 1 .. Len(daemon.order)
  BY OrderFacts DEF TypeOK, AtEnd
<1>2. daemon.order[daemon.next] \in Procs
  BY <1>1, OrderFacts
<1>3. gen \in 1 .. MaxGen
  BY DEF TypeOK
<1> QED
  BY <1>2, <1>3 DEF Current, Instances, Gens

-----------------------------------------------------------------------------
(* A goroutine that does not run, or that was stopped and is past the last *)
(* look at its flag, starts nothing any more.                              *)
Quiet(i) ==
  \/ run[i] = "none"
  \/ stopped[i] /\ run[i] \in {"sleep", "exit", "end"}

(* What the runs of instances look like.                                   *)
RunsInv ==
  \A i \in Instances :
    /\ alive[i] => run[i] = "wait"
    /\ process[i] = "reaped" => run[i] \in {"sleep", "exit", "end"}
    /\ run[i] # "none" => i[2] <= gen /\ (i[2] = gen => i[1] \in members)

(* The processes the daemon waits for are quiet once it is past them.      *)
Waited(i) == KindOf(i) # "gpspipe"

DaemonInv ==
  /\ gen = 0 => members = {}
  /\ daemon.pc = "start" => members = Procs /\ gen # 0
  /\ daemon.pc \in {"stop", "signal", "waitExit"} /\ ~daemon.final => gen < MaxGen
  /\ daemon.pc \in {"signal", "waitExit"} =>
       /\ ~AtEnd
       /\ gen # 0
       /\ stopped[Current]

(* What is still to be started has not been.                               *)
LaunchInv ==
  daemon.pc = "start" =>
    \A i \in Instances, n \in 1 .. Len(daemon.order) :
      n >= daemon.next /\ i = <<daemon.order[n], gen>> => run[i] = "none"

QuietInv ==
  /\ \A i \in Instances : Waited(i) /\ i[2] < gen => Quiet(i)
  /\ daemon.pc \in {"stop", "signal", "waitExit"} =>
       \A i \in Instances, n \in 1 .. Len(daemon.order) :
         n < daemon.next /\ i = <<daemon.order[n], gen>> /\ Waited(i) => Quiet(i)
  /\ daemon.pc = "gone" => \A i \in Instances : Waited(i) => Quiet(i)

Inv == TypeOK /\ RunsInv /\ DaemonInv /\ LaunchInv /\ QuietInv

-----------------------------------------------------------------------------
(* A step of the goroutine of a process, or its end.                       *)
LEMMA CmdRunStep ==
  ASSUME Inv, NEW i \in Instances, CmdRun(i) \/ ProcessEnds(i)
  PROVE  Inv'
<1> USE DEF Goto
<1>1. /\ daemon' = daemon /\ gen' = gen /\ members' = members /\ stopped' = stopped
      /\ \A j \in Instances \ {i} :
           run'[j] = run[j] /\ alive'[j] = alive[j] /\ process'[j] = process[j]
  BY DEF CmdRun, Pipe, Check, Start, StartFails, Wait, Recreate, ProcessEnds,
         Inv, TypeOK
<1>2. KindOf(i) \in {"ptp", "gpsd", "gpspipe"}
  BY DEF KindOf, Proc, Instances
<1>3. TypeOK'
  <2> USE DEF Inv, TypeOK, RunLabels
  <2>1. CASE Pipe(i)
    BY <2>1 DEF Pipe
  <2>2. CASE Check(i)
    BY <1>2, <2>2 DEF Check, NotStarted
  <2>3. CASE Start(i)
    BY <2>3 DEF Start
  <2>4. CASE StartFails(i)
    BY <2>4 DEF StartFails
  <2>5. CASE Wait(i)
    BY <2>5 DEF Wait
  <2>6. CASE Recreate(i)
    BY <2>6 DEF Recreate
  <2>7. CASE ProcessEnds(i)
    BY <2>7 DEF ProcessEnds
  <2> QED
    BY <2>1, <2>2, <2>3, <2>4, <2>5, <2>6, <2>7 DEF CmdRun
<1>4. /\ alive'[i] => run'[i] = "wait"
      /\ process'[i] = "reaped" => run'[i] \in {"sleep", "exit", "end"}
      /\ run[i] # "none"
      /\ Quiet(i) => Quiet(i)'
  <2> USE DEF Inv, TypeOK, RunsInv, Quiet
  <2>1. CASE Pipe(i)
    BY <2>1 DEF Pipe
  <2>2. CASE Check(i)
    BY <1>2, <2>2 DEF Check, NotStarted
  <2>3. CASE Start(i)
    BY <2>3 DEF Start
  <2>4. CASE StartFails(i)
    BY <2>4 DEF StartFails
  <2>5. CASE Wait(i)
    BY <2>5 DEF Wait
  <2>6. CASE Recreate(i)
    BY <2>6 DEF Recreate
  <2>7. CASE ProcessEnds(i)
    BY <2>7 DEF ProcessEnds
  <2> QED
    BY <2>1, <2>2, <2>3, <2>4, <2>5, <2>6, <2>7 DEF CmdRun
<1>5. RunsInv'
  BY <1>1, <1>4 DEF Inv, RunsInv
<1>6. DaemonInv' /\ LaunchInv'
  BY <1>1, <1>4 DEF Inv, DaemonInv, LaunchInv, AtEnd, Current
<1>7. \A j \in Instances : Quiet(j) => Quiet(j)'
  BY <1>1, <1>4 DEF Quiet
<1>8. QuietInv'
  BY <1>1, <1>7 DEF Inv, QuietInv, Waited
<1> QED
  BY <1>3, <1>5, <1>6, <1>8 DEF Inv

-----------------------------------------------------------------------------
(* The daemon begins to stop all processes.                                *)
LEMMA BeginStep ==
  ASSUME Inv, UpdateConfig \/ Shutdown
  PROVE  Inv'
<1>1. PICK o \in Orders, f \in BOOLEAN :
        daemon' = [pc |-> "stop", order |-> o, next |-> 1, final |-> f]
  BY DEF UpdateConfig, Shutdown, Orders
<1>2. UNCHANGED <<gen, members, stopped, run, process, alive, signalled>>
  BY DEF UpdateConfig, Shutdown, cmdVars
<1>3. TypeOK'
  BY <1>1, <1>2, OrderFacts DEF Inv, TypeOK
<1>4. RunsInv' /\ DaemonInv' /\ LaunchInv'
  BY <1>1, <1>2 DEF Inv, RunsInv, DaemonInv, LaunchInv, UpdateConfig, Shutdown
<1>5. QuietInv'
  BY <1>1, <1>2 DEF Inv, QuietInv, Quiet, Waited
<1> QED
  BY <1>3, <1>4, <1>5 DEF Inv

(* The daemon is done with the process at its position.                    *)
LEMMA AdvanceStep ==
  ASSUME NEW c, c = Current, Inv, Advance, ~AtEnd, daemon.pc \in {"stop", "signal", "waitExit"},
         UNCHANGED <<gen, members, stopped, process, alive>>,
         \A i \in Instances : Quiet(i) => Quiet(i)',
         c \in Instances /\ Waited(c) => Quiet(c)',
         TypeOK => run' \in [Instances -> RunLabels]
                     /\ signalled' \in [Instances -> BOOLEAN],
         RunsInv'
  PROVE  Inv'
<1>1. /\ daemon'.pc = "stop" /\ daemon'.order = daemon.order
      /\ daemon'.next = daemon.next + 1
      /\ daemon.order \in Orders
      /\ daemon.next \in 1 .. Len(daemon.order)
  BY OrderFacts DEF Advance, Inv, TypeOK, AtEnd
<1>2. TypeOK'
  <2>1. daemon' = [daemon EXCEPT !.pc = "stop", !.next = daemon.next + 1]
    BY DEF Advance
  <2>2. Len(daemon.order) \in Nat
    BY <1>1, OrderFacts
  <2>3. daemon.next + 1 \in Nat \ {0} /\ daemon.next + 1 <= Len(daemon.order) + 1
    BY <1>1, <2>2
  <2> QED
    BY <1>1, <2>1, <2>3 DEF Inv, TypeOK
<1>3. DaemonInv' /\ LaunchInv'
  BY <1>1 DEF Inv, DaemonInv, LaunchInv, Advance, TypeOK
<1>4. QuietInv'
  <2>1. \A i \in Instances : (Waited(i) /\ i[2] < gen => Quiet(i))'
    BY DEF Inv, QuietInv, Waited
  <2>2. ASSUME NEW i \in Instances, NEW n \in 1 .. Len(daemon.order),
               n < daemon.next + 1, i = <<daemon.order[n], gen>>, Waited(i)
        PROVE  Quiet(i)'
    <3>1. CASE n = daemon.next
      <4>1. i = c
        BY <2>2, <3>1 DEF Current
      <4> QED
        BY <2>2, <4>1
    <3>2. CASE n # daemon.next
      <4>1. n < daemon.next
        BY <1>1, <2>2, <3>2
      <4> QED
        BY <2>2, <4>1 DEF Inv, QuietInv
    <3> QED
      BY <3>1, <3>2
  <2> QED
    BY <1>1, <2>1, <2>2 DEF QuietInv, Waited
<1> QED
  BY <1>2, <1>3, <1>4 DEF Inv

LEMMA NotListedStep ==
  ASSUME Inv, NotListed
  PROVE  Inv'
<1>1. UNCHANGED <<gen, members, stopped, run, process, alive, signalled>>
  BY DEF NotListed, cmdVars
<1>0. PICK c : c = Current
  OBVIOUS
<1>2. c \in Instances => Quiet(c)
  BY <1>0 DEF NotListed, Inv, RunsInv, Quiet, Current
<1>3. /\ \A i \in Instances : Quiet(i) => Quiet(i)'
      /\ c \in Instances => Quiet(c)'
  BY <1>1, <1>2 DEF Quiet
<1>4. RunsInv'
  BY <1>1 DEF Inv, RunsInv
<1> QED
  BY <1>0, <1>1, <1>3, <1>4, AdvanceStep DEF NotListed, TypeOK, Inv

LEMMA SetStoppedStep ==
  ASSUME Inv, SetStopped
  PROVE  Inv'
<1>1. /\ daemon.pc = "stop" /\ daemon' = [daemon EXCEPT !.pc = "signal"]
      /\ daemon.order[daemon.next] \in members /\ ~AtEnd
      /\ UNCHANGED <<gen, members, run, process, alive, signalled>>
      /\ stopped' = [stopped EXCEPT ![Current] = TRUE]
  BY DEF SetStopped, cmdVars
<1>2. gen # 0 /\ Current \in Instances
  BY <1>1, CurrentType DEF Inv, DaemonInv
<1>3. /\ daemon'.pc = "signal" /\ daemon'.order = daemon.order
      /\ daemon'.next = daemon.next /\ Current' = Current /\ ~AtEnd'
  BY <1>1 DEF Inv, TypeOK, Current, AtEnd
<1>4. TypeOK'
  BY <1>1 DEF Inv, TypeOK
<1>5. stopped'[Current] /\ \A i \in Instances : stopped[i] => stopped'[i]
  BY <1>1, <1>2 DEF Inv, TypeOK
<1>6. RunsInv' /\ DaemonInv' /\ LaunchInv'
  BY <1>1, <1>2, <1>3, <1>5 DEF Inv, RunsInv, DaemonInv, LaunchInv, TypeOK
<1>7. \A i \in Instances : Quiet(i) => Quiet(i)'
  BY <1>1, <1>5 DEF Quiet
<1>8. QuietInv'
  BY <1>1, <1>3, <1>7 DEF Inv, QuietInv, Waited
<1> QED
  BY <1>4, <1>6, <1>8 DEF Inv

LEMMA SignalStep ==
  ASSUME Inv, Signal
  PROVE  Inv'
<1>1. /\ daemon.pc = "signal" /\ ~AtEnd /\ gen # 0 /\ stopped[Current]
      /\ UNCHANGED <<gen, members, run, stopped, process, alive>>
      /\ signalled' = [signalled EXCEPT ![Current] = @ \/ process[Current] = "live"]
  BY DEF Signal, Inv, DaemonInv
<1>2. Current \in Instances
  BY <1>1, CurrentType DEF Inv
<1>3. signalled' \in [Instances -> BOOLEAN]
  BY <1>1, <1>2 DEF Inv, TypeOK
<1>4. /\ RunsInv'
      /\ \A i \in Instances : Quiet(i) => Quiet(i)'
  BY <1>1 DEF Inv, RunsInv, Quiet
<1>5. CASE daemon' = [daemon EXCEPT !.pc = "waitExit"]
  <2>1. /\ daemon'.pc = "waitExit" /\ daemon'.order = daemon.order
        /\ daemon'.next = daemon.next /\ Current' = Current /\ ~AtEnd'
    BY <1>1, <1>5 DEF Inv, TypeOK, Current, AtEnd
  <2>2. TypeOK'
    BY <1>1, <1>3, <1>5 DEF Inv, TypeOK
  <2>3. DaemonInv' /\ LaunchInv'
    BY <1>1, <1>5, <2>1 DEF Inv, DaemonInv, LaunchInv, TypeOK
  <2>4. QuietInv'
    BY <1>1, <1>4, <2>1 DEF Inv, QuietInv, Waited
  <2> QED
    BY <1>4, <2>2, <2>3, <2>4 DEF Inv
<1>6. CASE Advance /\ (KindOf(Current) = "gpspipe" \/ process[Current] = "reaped")
  <2>0. PICK c : c = Current
    OBVIOUS
  <2>1. c \in Instances /\ (Waited(c) => stopped[c] /\ process[c] = "reaped")
    BY <1>1, <1>2, <1>6, <2>0 DEF Waited
  <2>2. Waited(c) => Quiet(c)'
    BY <1>1, <2>1 DEF Quiet, Inv, RunsInv
  <2>3. run' \in [Instances -> RunLabels]
    BY <1>1 DEF Inv, TypeOK
  <2> QED
    BY <1>1, <1>3, <1>4, <1>6, <2>0, <2>1, <2>2, <2>3, AdvanceStep
<1> QED
  BY <1>5, <1>6 DEF Signal

LEMMA AwaitExitStep ==
  ASSUME Inv, AwaitExit
  PROVE  Inv'
<1>3. PICK c : c = Current
  OBVIOUS
<1>1. /\ daemon.pc = "waitExit" /\ ~AtEnd /\ gen # 0 /\ stopped[c]
      /\ run[c] = "exit"
      /\ run' = [run EXCEPT ![c] = "end"]
      /\ UNCHANGED <<gen, members, stopped, process, alive, signalled>>
      /\ Advance \/ daemon' = [daemon EXCEPT !.pc = "panic"]
  BY <1>3 DEF AwaitExit, Goto, Inv, DaemonInv
<1>2. c \in Instances
  BY <1>1, <1>3, CurrentType DEF Inv
<1>4. /\ run' \in [Instances -> RunLabels]
      /\ run'[c] = "end"
      /\ \A i \in Instances \ {c} : run'[i] = run[i]
  BY <1>1, <1>2 DEF Inv, TypeOK, RunLabels
<1>5. RunsInv'
  BY <1>1, <1>2, <1>4 DEF Inv, RunsInv
<1>6. Quiet(c)' /\ \A i \in Instances : Quiet(i) => Quiet(i)'
  BY <1>1, <1>2, <1>4 DEF Quiet
<1>7. CASE Advance
  <2>1. signalled' \in [Instances -> BOOLEAN]
    BY <1>1 DEF Inv, TypeOK
  <2> QED
    BY <1>1, <1>3, <1>4, <1>5, <1>6, <1>7, <2>1, AdvanceStep
<1>8. CASE daemon' = [daemon EXCEPT !.pc = "panic"]
  <2>1. daemon'.pc = "panic"
    BY <1>8 DEF Inv, TypeOK
  <2>2. TypeOK'
    BY <1>1, <1>4, <1>8 DEF Inv, TypeOK
  <2>3. DaemonInv' /\ LaunchInv'
    BY <1>1, <2>1 DEF Inv, DaemonInv, LaunchInv
  <2>4. QuietInv'
    BY <1>1, <1>6, <2>1 DEF Inv, QuietInv, Waited
  <2> QED
    BY <1>5, <2>2, <2>3, <2>4 DEF Inv
<1> QED
  BY <1>1, <1>7, <1>8

(* All processes are stopped: what the daemon waits for is quiet.          *)
LEMMA AllQuiet ==
  ASSUME Inv, daemon.pc = "stop", AtEnd, NEW i \in Instances, Waited(i)
  PROVE  i[2] <= gen => Quiet(i)
<1>1. i[1] \in Procs /\ i[2] \in Nat /\ i = <<i[1], i[2]>> /\ gen \in Nat
  BY DEF Instances, Gens, Inv, TypeOK
<1>2. CASE i[2] < gen
  BY <1>2 DEF Inv, QuietInv
<1>3. CASE i[2] = gen
  <2>1. daemon.order \in Orders /\ daemon.next > Len(daemon.order)
    BY DEF Inv, TypeOK, AtEnd
  <2>2. PICK n \in 1 .. Len(daemon.order) : daemon.order[n] = i[1]
    BY <1>1, <2>1, OrderFacts
  <2>3. n < daemon.next
    BY <2>1, <2>2, OrderFacts DEF Inv, TypeOK
  <2> QED
    BY <1>1, <1>3, <2>2, <2>3 DEF Inv, QuietInv
<1> QED
  BY <1>1, <1>2, <1>3

LEMMA ApplyProfilesStep ==
  ASSUME Inv, ApplyProfiles
  PROVE  Inv'
<1>1. /\ daemon.pc = "stop" /\ AtEnd /\ gen' = gen + 1
      /\ UNCHANGED <<stopped, run, process, alive, signalled>>
      /\ gen \in Nat /\ gen < MaxGen
  BY DEF ApplyProfiles, Inv, TypeOK, DaemonInv
<1>2. TypeOK'
  <2>1. StartOrder \in Orders
    BY DEF Orders
  <2>2. CASE /\ members' = Procs
             /\ daemon' = [pc |-> "start", order |-> StartOrder, next |-> 1,
                           final |-> FALSE]
    BY <1>1, <2>1, <2>2, OrderFacts DEF Inv, TypeOK
  <2>3. CASE members' \in Partial /\ daemon' = [daemon EXCEPT !.pc = "idle"]
    <3>1. members' \subseteq Procs
      BY <2>3
    <3>2. gen' \in 0 .. MaxGen
      BY <1>1
    <3> QED
      BY <1>1, <2>3, <3>1, <3>2 DEF Inv, TypeOK
  <2> QED
    BY <2>2, <2>3 DEF ApplyProfiles
<1>3. \A i \in Instances : i[2] \in Nat
  BY DEF Instances, Gens
<1>4. RunsInv'
  BY <1>1, <1>3 DEF Inv, RunsInv
<1>5. daemon'.pc = "idle" \/ (daemon'.pc = "start" /\ members' = Procs)
  BY DEF ApplyProfiles, Inv, TypeOK
<1>6. DaemonInv'
  BY <1>1, <1>5 DEF Inv, DaemonInv
<1>9. LaunchInv'
  BY <1>1, <1>3 DEF Inv, RunsInv, LaunchInv
<1>7. \A i \in Instances : Waited(i) /\ i[2] < gen + 1 => Quiet(i)
  BY <1>1, <1>3, AllQuiet
<1>8. QuietInv'
  BY <1>1, <1>5, <1>7 DEF QuietInv, Quiet, Waited
<1> QED
  BY <1>2, <1>4, <1>6, <1>8, <1>9 DEF Inv

LEMMA LaunchStep ==
  ASSUME Inv, Launch
  PROVE  Inv'
<1>0. PICK c : c = Current
  OBVIOUS
<1>1. /\ daemon.pc = "start" /\ ~AtEnd /\ gen # 0 /\ members = Procs
      /\ UNCHANGED <<gen, members, stopped, process, alive, signalled>>
      /\ daemon' = [daemon EXCEPT !.next = daemon.next + 1]
      /\ run' = [run EXCEPT ![c] = IF KindOf(c) = "ptp" THEN "top" ELSE "check"]
  BY <1>0 DEF Launch, Goto, Inv, DaemonInv
<1>2. c \in Instances /\ c[2] = gen /\ c[1] \in Procs
        /\ c = <<daemon.order[daemon.next], gen>>
  BY <1>0, <1>1, CurrentType DEF Inv, Current, Instances
<1>3. daemon.order \in Orders /\ daemon.next \in 1 .. Len(daemon.order)
        /\ Len(daemon.order) \in Nat
  BY <1>1, OrderFacts DEF Inv, TypeOK, AtEnd
<1>4. /\ daemon'.pc = "start" /\ daemon'.order = daemon.order
      /\ daemon'.next = daemon.next + 1
      /\ daemon'.next \in Nat \ {0} /\ daemon'.next <= Len(daemon.order) + 1
  BY <1>1, <1>3 DEF Inv, TypeOK
<1>5. run' \in [Instances -> RunLabels] /\ run'[c] \in {"top", "check"}
        /\ \A i \in Instances \ {c} : run'[i] = run[i]
  BY <1>1, <1>2 DEF Inv, TypeOK, RunLabels
<1>6. TypeOK'
  BY <1>1, <1>3, <1>4, <1>5 DEF Inv, TypeOK
<1>7. run[c] = "none"
  BY <1>1, <1>2, <1>3 DEF Inv, LaunchInv
<1>8. RunsInv'
  <2>0. RunsInv /\ gen \in Nat
    BY DEF Inv, TypeOK
  <2>1. ~alive[c] /\ process[c] # "reaped"
    BY <1>2, <1>7, <2>0 DEF RunsInv
  <2>2. ASSUME NEW i \in Instances, i # c
        PROVE  run'[i] = run[i] /\ alive'[i] = alive[i] /\ process'[i] = process[i]
    BY <1>1, <1>5, <2>2
  <2>3. ~alive'[c] /\ process'[c] # "reaped" /\ c[2] <= gen' /\ c[1] \in members'
    BY <1>1, <1>2, <2>0, <2>1
  <2> QED
    BY <1>1, <2>0, <2>2, <2>3 DEF RunsInv
<1>9. DaemonInv'
  BY <1>1, <1>4 DEF Inv, DaemonInv
<1>10. LaunchInv'
  <2>1. ASSUME NEW i \in Instances, NEW n \in 1 .. Len(daemon'.order),
               n >= daemon'.next, i = <<daemon'.order[n], gen'>>
        PROVE  run'[i] = "none"
    <3>1. n \in 1 .. Len(daemon.order) /\ n # daemon.next /\ n >= daemon.next
      BY <1>3, <1>4, <2>1
    <3>2. daemon.order[n] # daemon.order[daemon.next]
      BY <1>3, <3>1, OrderFacts
    <3>3. i # c /\ i = <<daemon.order[n], gen>>
      BY <1>1, <1>2, <1>4, <2>1, <3>2
    <3> QED
      BY <1>1, <1>5, <3>1, <3>3 DEF Inv, LaunchInv
  <2> QED
    BY <2>1 DEF LaunchInv
<1>11. QuietInv'
  <2>1. \A i \in Instances : i[2] < gen => i # c
    BY <1>2 DEF Inv, TypeOK, Instances, Gens
  <2>2. \A i \in Instances : i # c => Quiet(i)' = Quiet(i)
    BY <1>1, <1>5 DEF Quiet
  <2> QED
    BY <1>1, <1>4, <2>1, <2>2 DEF Inv, QuietInv, Waited
<1> QED
  BY <1>6, <1>8, <1>9, <1>10, <1>11 DEF Inv

(* The daemon is done with starting, or with stopping for good.            *)
LEMMA DoneStep ==
  ASSUME Inv, Launched \/ ShutDown
  PROVE  Inv'
<1>1. UNCHANGED <<gen, members, stopped, run, process, alive, signalled>>
  BY DEF Launched, ShutDown, cmdVars
<1>2. PICK p \in {"idle", "gone"} : daemon' = [daemon EXCEPT !.pc = p]
  BY DEF Launched, ShutDown
<1>3. TypeOK' /\ daemon'.pc = p
  BY <1>1, <1>2 DEF Inv, TypeOK
<1>4. RunsInv' /\ DaemonInv' /\ LaunchInv'
  BY <1>1, <1>3 DEF Inv, RunsInv, DaemonInv, LaunchInv
<1>5. \A i \in Instances : Quiet(i)' = Quiet(i)
  BY <1>1 DEF Quiet
<1>6. CASE p = "idle"
  BY <1>1, <1>3, <1>4, <1>5, <1>6 DEF Inv, QuietInv, Waited
<1>7. CASE p = "gone"
  <2>1. daemon.pc = "stop" /\ AtEnd
    BY <1>2, <1>3, <1>7 DEF Launched, ShutDown, Inv, TypeOK
  <2>2. \A i \in Instances : Waited(i) => Quiet(i)
    <3> SUFFICES ASSUME NEW i \in Instances, Waited(i) PROVE Quiet(i)
      OBVIOUS
    <3>1. CASE i[2] <= gen
      BY <2>1, <3>1, AllQuiet
    <3>2. CASE ~(i[2] <= gen)
      BY <3>2 DEF Inv, RunsInv, Quiet
    <3> QED
      BY <3>1, <3>2
  <2> QED
    BY <1>1, <1>3, <1>4, <1>5, <1>7, <2>2 DEF Inv, QuietInv, Waited
<1> QED
  BY <1>6, <1>7

LEMMA InvStep ==
  ASSUME Inv, [Next]_vars
  PROVE  Inv'
<1>1. CASE UNCHANGED vars
  BY <1>1 DEF vars, Inv, TypeOK, RunsInv, DaemonInv, LaunchInv, QuietInv, Quiet,
              Waited, AtEnd, Current
<1>2. CASE Next
  BY <1>2, CmdRunStep, BeginStep, NotListedStep, SetStoppedStep, SignalStep,
     AwaitExitStep, ApplyProfilesStep, LaunchStep, DoneStep DEF Next, Run
<1> QED
  BY <1>1, <1>2

LEMMA InvInit ==
  ASSUME Init
  PROVE  Inv
<1>1. TypeOK
  BY OrderFacts DEF Init, TypeOK, Orders, RunLabels
<1> QED
  BY <1>1 DEF Init, Inv, RunsInv, DaemonInv, LaunchInv, QuietInv, Quiet

(* Every variable of the process manager keeps its type, and its loops     *)
(* stay within their lists of processes.                                   *)
THEOREM TypeCorrect == Spec => []TypeOK
<1>1. Inv => TypeOK
  BY DEF Inv
<1> QED
  BY <1>1, InvInit, InvStep, PTL DEF Spec

(* For any processes, orders and number of configurations, and whenever    *)
(* processes crash, profiles fail and pipes break: when a configuration is *)
(* built, and when the daemon has shut down, no process of an earlier      *)
(* configuration that cmdStop waits for is there, and none comes back.     *)
THEOREM OneGeneration == Spec => []OneGenerationAtATime
<1>1. Inv => OneGenerationAtATime
  <2> SUFFICES ASSUME Inv, NEW i \in Instances, KindOf(i) # "gpspipe",
                      i[2] < gen \/ daemon.pc = "gone"
               PROVE  ~alive[i]
    BY DEF OneGenerationAtATime
  <2>1. Quiet(i)
    BY DEF Inv, QuietInv, Waited
  <2> QED
    BY <2>1 DEF Quiet, Inv, RunsInv
<1> QED
  BY <1>1, InvInit, InvStep, PTL DEF Spec
=============================================================================
