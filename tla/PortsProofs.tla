----------------------------- MODULE PortsProofs -----------------------------
(***************************************************************************)
(* What the daemon believes about ports, cards and profiles is what ptp4l  *)
(* and phc2sys do, once their output is read: for any number of profiles   *)
(* and ports, any cards and any length of the unread output.               *)
(*                                                                         *)
(* The argument is the same three times: the last unread line that has a   *)
(* say in the matter says the truth, or there is no such line any more and *)
(* the truth is what is believed.                                          *)
(***************************************************************************)
EXTENDS Ports, FiniteSetTheorems, TLAPS

Lines ==
  [kind : {"port"}, name : Names, from : States, to : States, fault : BOOLEAN]
    \cup [kind : {"offset"}, servo : {"s0", "s2"}, inRange : BOOLEAN]
    \cup [kind : {"max"}]
Selections == [name : Names, inDomain : BOOLEAN]

(* The last element of s in A is in B, or no element of s is in A.         *)
LastIn(s, A, B) ==
  \E i \in 1 .. Len(s) : s[i] \in B /\ \A j \in i + 1 .. Len(s) : s[j] \notin A
NoneIn(s, A) == \A i \in 1 .. Len(s) : s[i] \notin A

(* Lines about a port, those that make it the slave and those with its     *)
(* fault; of the slave of its profile, those about another slave matter.   *)
PortLines == {l \in Lines : l.kind = "port"}
LinesOf(n) == {l \in PortLines : l.name = n}
Ups(n) == {l \in LinesOf(n) : RoleOf(l) = "SLAVE"}
Downs(n) == {l \in LinesOf(n) : RoleOf(l) = "FAULTY"}
SlaveLines(n) == {l \in PortLines : l.name = n \/ RoleOf(l) = "SLAVE"}

(* The output of a ptp4l is about its ports.                               *)
LinesTyped ==
  /\ log \in [Profiles -> Seq(Lines)]
  /\ \A f \in Profiles : \A i \in 1 .. Len(log[f]) :
       log[f][i] \in PortLines => ProfileOf[log[f][i].name] = f
  /\ phcLog \in Seq(Selections)

(* Offsets are attributed to the slave, and a ptp4l follows one master.    *)
OneTracked ==
  /\ \A f \in Profiles : slaveIface[f] = masterOffsetIface[f]
  /\ \A n, o \in Names : ProfileOf[n] = ProfileOf[o] /\ Follows(n) /\ Follows(o) => n = o

(* The last line about a SLAVE, or about another port that became one, is  *)
(* still to be read and is about it, or the daemon knows.                  *)
SlaveTold ==
  \A n \in Names : port[n] = "SLAVE" =>
    LET f == ProfileOf[n] IN
      \/ LastIn(log[f], SlaveLines(n), Ups(n))
      \/ NoneIn(log[f], SlaveLines(n)) /\ slaveIface[f] = n /\ role[n] = "SLAVE"

(* Likewise for a port that has failed.                                    *)
FaultTold ==
  \A n \in Names : port[n] = "FAULTY" =>
    LET f == ProfileOf[n] IN
      \/ LastIn(log[f], LinesOf(n), Downs(n))
      \/ NoneIn(log[f], LinesOf(n)) /\ slaveIface[f] # n /\ role[n] = "FAULTY"

(* The clock of a card is reset with the last slave of its profile.        *)
CardUnlocked ==
  \A n \in Names :
    HasOwnCard(n) /\ slaveIface[ProfileOf[n]] = NoIface => clockState[Alias[n]] # LOCKED

(* Selections that may change which profile is active, if a is.            *)
FailOversFrom(a) == {l \in Selections : ~l.inDomain \/ ProfileOf[l.name] = a}

(* The last fail-over that matters is still to be read, or the daemon      *)
(* believes in the profile that is followed.                               *)
ActiveTold ==
  outOfDomain # NoIface =>
    LET a == ProfileOf[outOfDomain] IN
      \/ LastIn(phcLog, FailOversFrom(a), {Select(outOfDomain, FALSE)})
      \/ /\ NoneIn(phcLog, FailOversFrom(a))
         /\ \A f \in Profiles : (ha[f] = 1) <=> (f = a)

IInv == /\ TypeOK /\ LinesTyped /\ OneTracked
        /\ SlaveTold /\ FaultTold /\ CardUnlocked /\ ActiveTold

-----------------------------------------------------------------------------
(* The last element of a sequence that is read and written.                *)

LEMMA NoneTail ==
  ASSUME NEW S, NEW s \in Seq(S), s # <<>>, NEW A, NoneIn(s, A)
  PROVE  Head(s) \notin A /\ NoneIn(Tail(s), A)
BY DEF NoneIn

LEMMA LastTail ==
  ASSUME NEW S, NEW s \in Seq(S), s # <<>>, NEW A, NEW B, LastIn(s, A, B)
  PROVE  \/ LastIn(Tail(s), A, B)
         \/ Head(s) \in B /\ NoneIn(Tail(s), A)
<1>1. PICK i \in 1 .. Len(s) : s[i] \in B /\ \A j \in i + 1 .. Len(s) : s[j] \notin A
  BY DEF LastIn
<1>2. /\ Len(Tail(s)) = Len(s) - 1 /\ Len(s) \in Nat
      /\ \A j \in 1 .. Len(Tail(s)) : Tail(s)[j] = s[j + 1] /\ j + 1 \in 1 .. Len(s)
  OBVIOUS
<1>3. CASE i = 1
  <2>1. Head(s) \in B
    BY <1>1, <1>3
  <2>2. NoneIn(Tail(s), A)
    BY <1>1, <1>2, <1>3 DEF NoneIn
  <2> QED
    BY <2>1, <2>2
<1>4. CASE i # 1
  <2>1. i - 1 \in 1 .. Len(Tail(s)) /\ Tail(s)[i - 1] = s[i]
    BY <1>2, <1>4
  <2>2. \A j \in (i - 1) + 1 .. Len(Tail(s)) : Tail(s)[j] \notin A
    BY <1>1, <1>2, <1>4
  <2> QED
    BY <1>1, <2>1, <2>2 DEF LastIn
<1> QED
  BY <1>3, <1>4

LEMMA AppendOther ==
  ASSUME NEW S, NEW s \in Seq(S), NEW x \in S, NEW A, NEW B, x \notin A
  PROVE  /\ LastIn(s, A, B) => LastIn(Append(s, x), A, B)
         /\ NoneIn(s, A) => NoneIn(Append(s, x), A)
BY DEF LastIn, NoneIn

LEMMA AppendLast ==
  ASSUME NEW S, NEW s \in Seq(S), NEW x \in S, NEW A, NEW B, x \in B
  PROVE  LastIn(Append(s, x), A, B)
<1>1. /\ Len(s) + 1 \in 1 .. Len(Append(s, x)) /\ Append(s, x)[Len(s) + 1] = x
      /\ \A j \in (Len(s) + 1) + 1 .. Len(Append(s, x)) : FALSE
  OBVIOUS
<1> QED
  BY <1>1 DEF LastIn

LEMMA Appended ==
  ASSUME NEW S, NEW s \in Seq(S), NEW x \in S, NEW y \in S
  PROVE  /\ Append(s, x) \in Seq(S) /\ Len(Append(s, x)) = Len(s) + 1 /\ Len(s) \in Nat
         /\ s \o <<x>> = Append(s, x)
         /\ s \o <<x, y>> = Append(Append(s, x), y)
OBVIOUS

LEMMA EmptyLog ==
  ASSUME NEW A, NEW B
  PROVE  ~LastIn(<<>>, A, B)
BY DEF LastIn

-----------------------------------------------------------------------------
(* The lines.                                                              *)

LEMMA LineKinds ==
  ASSUME NEW l \in Lines
  PROVE  /\ l.kind = "port" => l \in PortLines /\ l.name \in Names /\ RoleOf(l) \in Roles \cup {"UNKNOWN"}
         /\ l.kind # "port" => l \notin PortLines
BY DEF Lines, PortLines, RoleOf, Roles, States

(* What ptp4l says of a change of a port.                                  *)
LEMMA ChangeIsTold ==
  ASSUME NEW n \in Names, NEW m \in Moves \cup Faults, NEW l,
         l = [kind |-> "port", name |-> n, from |-> m[1], to |-> m[2], fault |-> m \in Faults]
  PROVE  /\ l \in LinesOf(n)
         /\ m[2] \in States
         /\ m[2] = "SLAVE" => m[1] = "UNCALIBRATED" /\ RoleOf(l) = "SLAVE"
         /\ RoleOf(l) = "SLAVE" => m[1] = "UNCALIBRATED" /\ m[2] = "SLAVE"
         /\ m[2] = "FAULTY" => RoleOf(l) = "FAULTY"
<1>1. m[1] \in States /\ m[2] \in States /\ (m \in Faults) \in BOOLEAN
  BY DEF Moves, Faults, States
<1>2. l \in LinesOf(n)
  BY <1>1 DEF LinesOf, PortLines, Lines
<1>3. l.from = m[1] /\ l.to = m[2] /\ l.fault = (m \in Faults)
  OBVIOUS
<1>4. ASSUME m \in Faults
      PROVE  m[2] \in {"FAULTY", "UNCALIBRATED"} /\ RoleOf(l) = "FAULTY"
  <2>1. m[2] = "FAULTY" \/ <<m[1], m[2]>> = <<"SLAVE", "UNCALIBRATED">>
    BY <1>4 DEF Faults
  <2> QED
    BY <1>3, <1>4, <2>1 DEF RoleOf
<1>5. ASSUME m \in Moves, m \notin Faults
      PROVE  /\ m[2] # "FAULTY" /\ (m[2] = "SLAVE" => m[1] = "UNCALIBRATED")
             /\ RoleOf(l) = "SLAVE" <=> m[2] = "SLAVE"
  <2>1. /\ m[2] # "FAULTY" /\ (m[2] = "SLAVE" => m[1] = "UNCALIBRATED")
        /\ m[2] = "UNCALIBRATED" => m[1] \in {"LISTENING", "MASTER", "PASSIVE"}
    BY <1>5 DEF Moves
  <2> QED
    BY <1>3, <1>5, <2>1 DEF RoleOf
<1> QED
  BY <1>1, <1>2, <1>4, <1>5

LEMMA MeasureIsTold ==
  ASSUME NEW n \in Names, Measures(n)
  PROVE  \E l \in Lines : /\ l \notin PortLines
                          /\ log' = [log EXCEPT ![ProfileOf[n]] = Append(@, l)]
<1>1. [kind |-> "max"] \in Lines
  BY DEF Lines
<1>2. [kind |-> "max"] \notin PortLines
  BY DEF PortLines
<1>3. \A servo \in {"s0", "s2"}, inRange \in BOOLEAN :
        LET o == [kind |-> "offset", servo |-> servo, inRange |-> inRange]
        IN  o \in Lines /\ o \notin PortLines
  BY DEF Lines, PortLines
<1> QED
  BY <1>1, <1>2, <1>3 DEF Measures

-----------------------------------------------------------------------------
(* What the actions do to the lines.                                       *)

LEMMA ReadsLine ==
  ASSUME TypeOK, LinesTyped, NEW f \in Profiles, ReadPtp4l(f)
  PROVE  /\ log[f] \in Seq(Lines) /\ log[f] # <<>> /\ Head(log[f]) \in Lines
         /\ log' = [log EXCEPT ![f] = Tail(@)]
         /\ Head(log[f]) \in PortLines => ProfileOf[Head(log[f]).name] = f
         /\ log'[f] = Tail(log[f])
         /\ \A g \in Profiles \ {f} : log'[g] = log[g]
BY DEF LinesTyped, ReadPtp4l

LEMMA ReadsSelection ==
  ASSUME LinesTyped, ReadPhc2sys
  PROVE  /\ phcLog # <<>> /\ Head(phcLog) \in Selections
         /\ phcLog' = Tail(phcLog)
BY DEF LinesTyped, ReadPhc2sys

(* A clock state of an offset.                                             *)
LEMMA StateOfOffset ==
  ASSUME NEW servo, NEW inRange
  PROVE  PtpStateOf(ClockStateOf(servo), inRange) \in {FREERUN, LOCKED}
BY DEF PtpStateOf, ClockStateOf, FREERUN, LOCKED, HOLDOVER

-----------------------------------------------------------------------------
(* Types.                                                                  *)

Typed == TypeOK /\ LinesTyped /\ OneTracked

LEMMA TypedInit == Init => Typed
<1> SUFFICES ASSUME Init PROVE Typed
  OBVIOUS
<1>1. TypeOK
  BY PortsAssumption DEF Init, TypeOK, States, Roles
<1>2. LinesTyped
  BY DEF Init, LinesTyped
<1>3. OneTracked
  BY PortsAssumption DEF Init, OneTracked, Follows
<1> QED
  BY <1>1, <1>2, <1>3 DEF Typed

LEMMA ReadPortTyped ==
  ASSUME Typed, NEW f \in Profiles, NEW l \in PortLines, ProfileOf[l.name] = f, ReadPort(f, l)
  PROVE  /\ role' \in [Names -> Roles]
         /\ masterOffsetIface' \in [Profiles -> Names \cup {NoIface}]
         /\ slaveIface' \in [Profiles -> Names \cup {NoIface}]
         /\ \A g \in Profiles : masterOffsetIface'[g] # NoIface => ProfileOf[masterOffsetIface'[g]] = g
         /\ clockState' \in [Aliases -> {NOTSET, FREERUN, LOCKED}]
         /\ offset' \in [Aliases \cup Names -> {"none", "faulty", "measured"}]
         /\ \A g \in Profiles : slaveIface'[g] = masterOffsetIface'[g]
<1>1. l \in Lines /\ l.kind = "port" /\ l.name \in Names
  BY LineKinds DEF PortLines
<1>2. RoleOf(l) \in Roles
  BY <1>1, LineKinds DEF Roles
<1>3. role' \in [Names -> Roles]
  BY <1>1, <1>2 DEF ReadPort, Typed, TypeOK
<1>4. CASE NewSlave(f, l.name)
  BY <1>1, <1>3, <1>4 DEF NewSlave, Typed, TypeOK, OneTracked
<1>5. CASE slaveIface[f] = l.name /\ SlaveFaulty(f)
  <2>1. masterOffsetIface[f] \in Names
    BY <1>1, <1>5 DEF Typed, OneTracked
  <2>2. Alias[masterOffsetIface[f]] \in Aliases
    BY <2>1 DEF Aliases
  <2> QED
    BY <1>3, <1>5, <2>2, PortsAssumption DEF SlaveFaulty, Typed, TypeOK, OneTracked
<1>6. CASE UNCHANGED <<tracked, clockState, offset>>
  BY <1>3, <1>6 DEF Typed, TypeOK, OneTracked, tracked
<1> QED
  BY <1>4, <1>5, <1>6 DEF ReadPort

LEMMA ReadTyped ==
  ASSUME Typed, NEW f \in Profiles, ReadPtp4l(f)
  PROVE  Typed'
<1> DEFINE l == Head(log[f])
<1>1. /\ log[f] \in Seq(Lines) /\ log[f] # <<>> /\ l \in Lines
      /\ log' = [log EXCEPT ![f] = Tail(@)]
      /\ l \in PortLines => ProfileOf[l.name] = f
  BY ReadsLine DEF Typed
<1>2. LinesTyped'
  <2>1. \A i \in 1 .. Len(Tail(log[f])) : Tail(log[f])[i] = log[f][i + 1] /\ i + 1 \in 1 .. Len(log[f])
    BY <1>1
  <2>2. log' \in [Profiles -> Seq(Lines)] /\ log'[f] = Tail(log[f])
    BY <1>1 DEF Typed, LinesTyped
  <2>3. \A g \in Profiles : \A i \in 1 .. Len(log'[g]) :
          log'[g][i] \in PortLines => ProfileOf[log'[g][i].name] = g
    BY <1>1, <2>1, <2>2 DEF Typed, LinesTyped
  <2> QED
    BY <2>2, <2>3 DEF ReadPtp4l, phc2sys, Typed, LinesTyped
<1>3. \A g \in Profiles : Len(log'[g]) <= MaxLog
  BY <1>1, PortsAssumption DEF Typed, TypeOK, LinesTyped
<1>4. port' = port /\ ha' = ha /\ domain' = domain /\ outOfDomain' = outOfDomain /\ phcLog' = phcLog
  BY DEF ReadPtp4l, phc2sys
<1>5. CASE ReadPort(f, l)
  <2>1. l \in PortLines
    BY <1>1, <1>5 DEF ReadPort, PortLines
  <2> QED
    BY <1>1, <1>2, <1>3, <1>4, <1>5, <2>1, ReadPortTyped
    DEF Typed, TypeOK, OneTracked, Follows
<1>6. CASE ReadOffset(f, l)
  <2>1. CASE masterOffsetIface[f] # NoIface
    <3>1. Alias[masterOffsetIface[f]] \in Aliases
      BY <2>1 DEF Typed, TypeOK, Aliases
    <3>2. clockState' \in [Aliases -> {NOTSET, FREERUN, LOCKED}]
      BY <1>6, <2>1, <3>1, StateOfOffset DEF ReadOffset, Typed, TypeOK
    <3>3. offset' \in [Aliases \cup Names -> {"none", "faulty", "measured"}]
      BY <1>6, <2>1, <3>1 DEF ReadOffset, Typed, TypeOK
    <3> QED
      BY <1>2, <1>3, <1>4, <1>6, <3>2, <3>3
      DEF ReadOffset, tracked, Typed, TypeOK, OneTracked, Follows
  <2>2. CASE masterOffsetIface[f] = NoIface
    BY <1>2, <1>3, <1>4, <1>6, <2>2 DEF ReadOffset, tracked, Typed, TypeOK, OneTracked, Follows
  <2> QED
    BY <2>1, <2>2
<1>7. CASE ReadSummary(f, l)
  <2>1. offset' \in [Aliases \cup Names -> {"none", "faulty", "measured"}]
    BY <1>7 DEF ReadSummary, Typed, TypeOK
  <2> QED
    BY <1>2, <1>3, <1>4, <1>7, <2>1
    DEF ReadSummary, tracked, Typed, TypeOK, OneTracked, Follows
<1> QED
  BY <1>5, <1>6, <1>7 DEF ReadPtp4l

(* A line is written.                                                      *)
LEMMA AppendTyped ==
  ASSUME Typed, NEW f \in Profiles, NEW l \in Lines, Len(log[f]) < MaxLog,
         l \in PortLines => ProfileOf[l.name] = f,
         log' = [log EXCEPT ![f] = Append(@, l)], phcLog' = phcLog
  PROVE  LinesTyped' /\ \A g \in Profiles : Len(log'[g]) <= MaxLog
<1>1. log' \in [Profiles -> Seq(Lines)] /\ log'[f] = Append(log[f], l) /\ log[f] \in Seq(Lines)
  BY DEF Typed, LinesTyped
<1>2. /\ Len(log'[f]) = Len(log[f]) + 1 /\ Len(log[f]) \in Nat
      /\ \A i \in 1 .. Len(log'[f]) :
           log'[f][i] = l \/ (i \in 1 .. Len(log[f]) /\ log'[f][i] = log[f][i])
  BY <1>1
<1>3. \A g \in Profiles \ {f} : log'[g] = log[g]
  BY DEF Typed, LinesTyped
<1>4. \A g \in Profiles : \A i \in 1 .. Len(log'[g]) :
        log'[g][i] \in PortLines => ProfileOf[log'[g][i].name] = g
  BY <1>2, <1>3 DEF Typed, LinesTyped
<1>5. \A g \in Profiles : Len(log'[g]) <= MaxLog
  BY <1>2, <1>3, PortsAssumption DEF Typed, TypeOK
<1> QED
  BY <1>1, <1>4, <1>5 DEF Typed, LinesTyped

LEMMA PortChangesTyped ==
  ASSUME Typed, NEW n \in Names, PortChanges(n)
  PROVE  Typed'
<1> DEFINE f == ProfileOf[n]
<1>1. PICK m \in Moves \cup Faults :
        /\ port[n] = m[1]
        /\ m[2] = "UNCALIBRATED" => \A o \in haProfile(f) \ {n} : ~Follows(o)
        /\ port' = [port EXCEPT ![n] = m[2]]
        /\ log' = [log EXCEPT ![f] = Append(@, [kind |-> "port", name |-> n,
                     from |-> m[1], to |-> m[2], fault |-> m \in Faults])]
  BY DEF PortChanges
<1> DEFINE l == [kind |-> "port", name |-> n, from |-> m[1], to |-> m[2], fault |-> m \in Faults]
<1>2. l \in LinesOf(n) /\ m[2] \in States /\ (m[2] = "SLAVE" => m[1] = "UNCALIBRATED")
  BY ChangeIsTold
<1>3. l \in Lines /\ ProfileOf[l.name] = f /\ f \in Profiles
  BY <1>2, PortsAssumption DEF LinesOf, PortLines
<1>4. LinesTyped' /\ \A g \in Profiles : Len(log'[g]) <= MaxLog
  BY <1>1, <1>3, AppendTyped DEF PortChanges, phc2sys
<1>5. TypeOK'
  BY <1>1, <1>2, <1>4 DEF PortChanges, phc2sys, tracked, Typed, TypeOK
<1>6. OneTracked'
  <2>1. \A o \in Names : port'[o] = IF o = n THEN m[2] ELSE port[o]
    BY <1>1 DEF Typed, TypeOK
  <2>2. m[2] = "SLAVE" => Follows(n)
    BY <1>1, <1>2 DEF Follows
  <2>3. \A o, p \in Names : ProfileOf[o] = ProfileOf[p] /\ Follows(o)' /\ Follows(p)' => o = p
    BY <1>1, <2>1, <2>2 DEF Follows, haProfile, Typed, OneTracked
  <2> QED
    BY <2>3 DEF PortChanges, tracked, Typed, OneTracked
<1> QED
  BY <1>4, <1>5, <1>6 DEF Typed

LEMMA MeasuresTyped ==
  ASSUME Typed, NEW n \in Names, Measures(n)
  PROVE  Typed'
<1> DEFINE f == ProfileOf[n]
<1>1. PICK l \in Lines : l \notin PortLines /\ log' = [log EXCEPT ![f] = Append(@, l)]
  BY MeasureIsTold
<1>2. LinesTyped' /\ \A g \in Profiles : Len(log'[g]) <= MaxLog
  BY <1>1, AppendTyped, PortsAssumption DEF Measures, phc2sys
<1>3. TypeOK' /\ OneTracked'
  BY <1>2 DEF Measures, phc2sys, tracked, Typed, TypeOK, OneTracked, Follows
<1> QED
  BY <1>2, <1>3 DEF Typed

LEMMA Phc2sysTyped ==
  ASSUME Typed,
         ReadPhc2sys \/ (\E n \in Names : SelectInDomain(n)) \/ (\E f \in Profiles : FailOver(f))
  PROVE  Typed'
<1>1. CASE ReadPhc2sys
  <2>1. phcLog \in Seq(Selections) /\ phcLog # <<>> /\ phcLog' = Tail(phcLog)
    BY <1>1, ReadsSelection DEF Typed, LinesTyped
  <2>2. phcLog' \in Seq(Selections) /\ Len(phcLog') = Len(phcLog) - 1 /\ Len(phcLog) \in Nat
    BY <2>1
  <2>3. ha' \in [Profiles -> {0, 1}]
    BY <1>1 DEF ReadPhc2sys, AnnounceHAFailOver, ActiveState, Typed, TypeOK
  <2>4. LinesTyped' /\ Len(phcLog') <= MaxLog + 1
    BY <1>1, <2>2, PortsAssumption DEF ReadPhc2sys, ptp4l, Typed, TypeOK, LinesTyped
  <2> QED
    BY <1>1, <2>3, <2>4
    DEF ReadPhc2sys, AnnounceHAFailOver, ptp4l, tracked, Typed, TypeOK, OneTracked, Follows
<1>2. ASSUME NEW n \in Names, SelectInDomain(n)
      PROVE  Typed'
  <2>1. Select(n, TRUE) \in Selections /\ Select(n, FALSE) \in Selections
    BY DEF Select, Selections
  <2>2. phcLog \in Seq(Selections) /\ Len(phcLog) < MaxLog
    BY <1>2 DEF SelectInDomain, Typed, LinesTyped
  <2>3. phcLog' \in Seq(Selections) /\ Len(phcLog') <= MaxLog + 1
    <3>1. \/ phcLog' = phcLog \o <<Select(n, TRUE), Select(n, FALSE)>>
          \/ phcLog' = phcLog \o <<Select(n, TRUE)>>
      BY <1>2 DEF SelectInDomain
    <3>2. PICK x \in Selections, y \in Selections :
            phcLog' = phcLog \o <<x, y>> \/ phcLog' = phcLog \o <<x>>
      BY <2>1, <3>1
    <3>3. /\ phcLog \o <<x, y>> \in Seq(Selections) /\ Len(phcLog \o <<x, y>>) = Len(phcLog) + 2
          /\ phcLog \o <<x>> \in Seq(Selections) /\ Len(phcLog \o <<x>>) = Len(phcLog) + 1
          /\ Len(phcLog) \in Nat /\ Len(phcLog) < MaxLog
      BY <2>2
    <3>4. phcLog' \in Seq(Selections) /\ (Len(phcLog') = Len(phcLog) + 1 \/ Len(phcLog') = Len(phcLog) + 2)
      BY <3>2, <3>3, Zenon
    <3> QED
      BY <3>3, <3>4, PortsAssumption
  <2>4. domain' \in [Profiles -> Names \cup {NoIface}] /\ outOfDomain' \in Names \cup {NoIface}
    BY <1>2 DEF SelectInDomain, Typed, TypeOK
  <2> QED
    BY <1>2, <2>3, <2>4
    DEF SelectInDomain, ptp4l, tracked, Typed, TypeOK, LinesTyped, OneTracked, Follows
<1>3. ASSUME NEW f \in Profiles, FailOver(f)
      PROVE  Typed'
  <2>1. domain[f] \in Names
    BY <1>3 DEF FailOver, Typed, TypeOK
  <2>2. Select(domain[f], FALSE) \in Selections
    BY <2>1 DEF Select, Selections
  <2>3. phcLog' \in Seq(Selections) /\ Len(phcLog') <= MaxLog + 1
    <3>1. phcLog \in Seq(Selections) /\ Len(phcLog) < MaxLog
          /\ phcLog' = Append(phcLog, Select(domain[f], FALSE))
      BY <1>3 DEF FailOver, Typed, LinesTyped
    <3>2. phcLog' \in Seq(Selections) /\ Len(phcLog') = Len(phcLog) + 1 /\ Len(phcLog) \in Nat
      BY <2>2, <3>1, Appended, Zenon
    <3>3. Len(phcLog) < MaxLog
      BY <3>1
    <3> QED
      BY <3>2, <3>3, PortsAssumption
  <2> QED
    BY <1>3, <2>1, <2>3
    DEF FailOver, ptp4l, tracked, Typed, TypeOK, LinesTyped, OneTracked, Follows
<1> QED
  BY <1>1, <1>2, <1>3

LEMMA TypedNext == Typed /\ [Next]_vars => Typed'
<1> SUFFICES ASSUME Typed, [Next]_vars PROVE Typed'
  OBVIOUS
<1>1. ASSUME NEW f \in Profiles, Crash(f)
      PROVE  Typed'
  <2>1. port' \in [Names -> States]
    BY <1>1 DEF Crash, Typed, TypeOK, States
  <2>2. \A n, o \in Names : ProfileOf[n] = ProfileOf[o] /\ Follows(n)' /\ Follows(o)' => n = o
    BY <1>1 DEF Crash, Follows, Typed, OneTracked
  <2> QED
    BY <1>1, <2>1, <2>2 DEF Crash, phc2sys, tracked, Typed, TypeOK, LinesTyped, OneTracked
<1>2. CASE UNCHANGED vars
  BY <1>2 DEF vars, Typed, TypeOK, LinesTyped, OneTracked, Follows
<1> QED
  BY <1>1, <1>2, ReadTyped, PortChangesTyped, MeasuresTyped, Phc2sysTyped DEF Next

-----------------------------------------------------------------------------
(* The slave and the faults of a profile.                                  *)

(* What a line changes, and what it leaves alone.                          *)
LEMMA LineIsApplied ==
  ASSUME Typed, NEW f \in Profiles, ReadPtp4l(f), NEW l, l = Head(log[f])
  PROVE  /\ \A g \in Profiles \ {f} : slaveIface'[g] = slaveIface[g]
         /\ \A n \in Names : l \notin LinesOf(n) => role'[n] = role[n]
         /\ l \notin PortLines => slaveIface' = slaveIface
         /\ l \in PortLines /\ RoleOf(l) = "SLAVE"
              => slaveIface'[f] = l.name /\ role'[l.name] = "SLAVE"
         /\ l \in PortLines /\ RoleOf(l) = "FAULTY"
              => /\ slaveIface'[f] # l.name /\ role'[l.name] = "FAULTY"
                 /\ slaveIface'[f] \in {slaveIface[f], NoIface}
                 /\ slaveIface[f] # l.name => slaveIface'[f] = slaveIface[f]
         /\ l \in PortLines /\ RoleOf(l) \notin {"SLAVE", "FAULTY"} => slaveIface' = slaveIface
<1>1. l \in Lines
  BY ReadsLine DEF Typed
<1>2. CASE ReadPort(f, l)
  <2>1. l \in PortLines /\ l.name \in Names
    BY <1>1, <1>2, LineKinds DEF ReadPort
  <2>2. role' = IF RoleOf(l) = "UNKNOWN" THEN role ELSE [role EXCEPT ![l.name] = RoleOf(l)]
    BY <1>2 DEF ReadPort
  <2>3. /\ \A n \in Names : l \notin LinesOf(n) => role'[n] = role[n]
        /\ RoleOf(l) # "UNKNOWN" => role'[l.name] = RoleOf(l)
    BY <2>1, <2>2 DEF LinesOf, Typed, TypeOK
  <2>4. CASE RoleOf(l) = "SLAVE" /\ NewSlave(f, l.name)
    BY <2>1, <2>3, <2>4 DEF NewSlave, Typed, TypeOK
  <2>5. CASE RoleOf(l) = "FAULTY" /\ slaveIface[f] = l.name /\ SlaveFaulty(f)
    BY <2>1, <2>3, <2>5, PortsAssumption DEF SlaveFaulty, Typed, TypeOK
  <2>6. CASE /\ RoleOf(l) # "SLAVE"
             /\ ~(RoleOf(l) = "FAULTY" /\ slaveIface[f] = l.name)
             /\ UNCHANGED <<tracked, clockState, offset>>
    BY <2>1, <2>3, <2>6 DEF tracked
  <2> QED
    BY <1>2, <2>4, <2>5, <2>6 DEF ReadPort
<1>3. CASE l.kind \in {"offset", "max"} /\ UNCHANGED <<role, tracked>>
  <2>1. l \notin PortLines /\ slaveIface' = slaveIface /\ role' = role
    BY <1>3 DEF PortLines, tracked
  <2> QED
    BY <2>1
<1> QED
  BY <1>2, <1>3 DEF ReadPtp4l, ReadOffset, ReadSummary

LEMMA SlaveToldRead ==
  ASSUME Typed, SlaveTold, NEW f \in Profiles, ReadPtp4l(f)
  PROVE  SlaveTold'
<1> DEFINE l == Head(log[f])
<1>1. /\ log[f] \in Seq(Lines) /\ log[f] # <<>> /\ l \in Lines
      /\ log'[f] = Tail(log[f])
      /\ \A g \in Profiles \ {f} : log'[g] = log[g]
      /\ l \in PortLines => ProfileOf[l.name] = f
  BY ReadsLine DEF Typed
<1> SUFFICES ASSUME NEW n \in Names, port'[n] = "SLAVE"
             PROVE  LET g == ProfileOf[n] IN
                      \/ LastIn(log'[g], SlaveLines(n), Ups(n))
                      \/ NoneIn(log'[g], SlaveLines(n)) /\ slaveIface'[g] = n /\ role'[n] = "SLAVE"
  BY DEF SlaveTold
<1> DEFINE g == ProfileOf[n]
<1>2. g \in Profiles /\ port[n] = "SLAVE"
  BY PortsAssumption DEF ReadPtp4l
<1>3. CASE g # f
  <2>1. l \notin LinesOf(n)
    BY <1>1, <1>3 DEF LinesOf
  <2>2. log'[g] = log[g] /\ slaveIface'[g] = slaveIface[g] /\ role'[n] = role[n]
    BY <1>1, <1>2, <1>3, <2>1, LineIsApplied
  <2> QED
    BY <1>2, <2>2 DEF SlaveTold
<1>4. CASE g = f
  <2>1. CASE LastIn(log[f], SlaveLines(n), Ups(n))
    <3>1. \/ LastIn(log'[f], SlaveLines(n), Ups(n))
          \/ l \in Ups(n) /\ NoneIn(log'[f], SlaveLines(n))
      BY <1>1, <2>1, LastTail
    <3>2. l \in Ups(n) => slaveIface'[f] = n /\ role'[n] = "SLAVE"
      BY LineIsApplied DEF Ups, LinesOf
    <3> QED
      BY <1>4, <3>1, <3>2
  <2>2. CASE NoneIn(log[f], SlaveLines(n)) /\ slaveIface[f] = n /\ role[n] = "SLAVE"
    <3>1. l \notin SlaveLines(n) /\ NoneIn(log'[f], SlaveLines(n))
      BY <1>1, <2>2, NoneTail
    <3>2. l \notin LinesOf(n) /\ (l \in PortLines => l.name # n /\ RoleOf(l) # "SLAVE")
      BY <3>1 DEF SlaveLines, LinesOf
    <3>3. slaveIface'[f] = n /\ role'[n] = "SLAVE"
      BY <2>2, <3>2, LineIsApplied
    <3> QED
      BY <1>4, <3>1, <3>3
  <2> QED
    BY <1>2, <1>4, <2>1, <2>2 DEF SlaveTold
<1> QED
  BY <1>3, <1>4

LEMMA FaultToldRead ==
  ASSUME Typed, FaultTold, NEW f \in Profiles, ReadPtp4l(f)
  PROVE  FaultTold'
<1> DEFINE l == Head(log[f])
<1>1. /\ log[f] \in Seq(Lines) /\ log[f] # <<>> /\ l \in Lines
      /\ log'[f] = Tail(log[f])
      /\ \A g \in Profiles \ {f} : log'[g] = log[g]
      /\ l \in PortLines => ProfileOf[l.name] = f
  BY ReadsLine DEF Typed
<1> SUFFICES ASSUME NEW n \in Names, port'[n] = "FAULTY"
             PROVE  LET g == ProfileOf[n] IN
                      \/ LastIn(log'[g], LinesOf(n), Downs(n))
                      \/ NoneIn(log'[g], LinesOf(n)) /\ slaveIface'[g] # n /\ role'[n] = "FAULTY"
  BY DEF FaultTold
<1> DEFINE g == ProfileOf[n]
<1>2. g \in Profiles /\ port[n] = "FAULTY"
  BY PortsAssumption DEF ReadPtp4l
<1>3. CASE g # f
  <2>1. l \notin LinesOf(n)
    BY <1>1, <1>3 DEF LinesOf
  <2>2. log'[g] = log[g] /\ slaveIface'[g] = slaveIface[g] /\ role'[n] = role[n]
    BY <1>1, <1>2, <1>3, <2>1, LineIsApplied
  <2> QED
    BY <1>2, <2>2 DEF FaultTold
<1>4. CASE g = f
  <2>1. CASE LastIn(log[f], LinesOf(n), Downs(n))
    <3>1. \/ LastIn(log'[f], LinesOf(n), Downs(n))
          \/ l \in Downs(n) /\ NoneIn(log'[f], LinesOf(n))
      BY <1>1, <2>1, LastTail
    <3>2. l \in Downs(n) => slaveIface'[f] # n /\ role'[n] = "FAULTY"
      BY LineIsApplied DEF Downs, LinesOf
    <3> QED
      BY <1>4, <3>1, <3>2
  <2>2. CASE NoneIn(log[f], LinesOf(n)) /\ slaveIface[f] # n /\ role[n] = "FAULTY"
    <3>1. l \notin LinesOf(n) /\ NoneIn(log'[f], LinesOf(n))
      BY <1>1, <2>2, NoneTail
    <3>2. l \in PortLines => l.name # n
      BY <3>1 DEF LinesOf
    <3>3. slaveIface'[f] # n
      BY <2>2, <3>2, LineIsApplied, PortsAssumption
    <3>4. role'[n] = "FAULTY"
      BY <2>2, <3>1, LineIsApplied
    <3> QED
      BY <1>4, <3>1, <3>3, <3>4
  <2> QED
    BY <1>2, <1>4, <2>1, <2>2 DEF FaultTold
<1> QED
  BY <1>3, <1>4

(* A line of a profile that has no say about n.                            *)
LEMMA OtherLine ==
  ASSUME Typed, NEW n \in Names, NEW f \in Profiles, NEW l \in Lines,
         log' = [log EXCEPT ![f] = Append(@, l)], NEW A, NEW B, ProfileOf[n] = f => l \notin A
  PROVE  /\ LastIn(log[ProfileOf[n]], A, B) => LastIn(log'[ProfileOf[n]], A, B)
         /\ NoneIn(log[ProfileOf[n]], A) => NoneIn(log'[ProfileOf[n]], A)
<1>1. ProfileOf[n] \in Profiles /\ log \in [Profiles -> Seq(Lines)]
  BY PortsAssumption DEF Typed, LinesTyped
<1>2. CASE ProfileOf[n] = f
  <2>1. log'[f] = Append(log[f], l) /\ log[f] \in Seq(Lines)
    BY <1>1
  <2> QED
    BY <1>2, <2>1, AppendOther
<1>3. CASE ProfileOf[n] # f
  BY <1>1, <1>3
<1> QED
  BY <1>2, <1>3

LEMMA PortChangesTold ==
  ASSUME Typed, SlaveTold, FaultTold, NEW n \in Names, PortChanges(n)
  PROVE  SlaveTold' /\ FaultTold'
<1> DEFINE f == ProfileOf[n]
<1>1. PICK m \in Moves \cup Faults :
        /\ port[n] = m[1]
        /\ port' = [port EXCEPT ![n] = m[2]]
        /\ log' = [log EXCEPT ![f] = Append(@, [kind |-> "port", name |-> n,
                     from |-> m[1], to |-> m[2], fault |-> m \in Faults])]
  BY DEF PortChanges
<1>2. PICK l : l = [kind |-> "port", name |-> n, from |-> m[1], to |-> m[2], fault |-> m \in Faults]
  OBVIOUS
<1>3. /\ l \in LinesOf(n)
      /\ m[2] = "SLAVE" => RoleOf(l) = "SLAVE"
      /\ RoleOf(l) = "SLAVE" => m[1] = "UNCALIBRATED"
      /\ m[2] = "FAULTY" => RoleOf(l) = "FAULTY"
  BY <1>2, ChangeIsTold
<1>4. l \in Lines /\ l \in PortLines /\ l.name = n /\ f \in Profiles
  BY <1>3, PortsAssumption DEF LinesOf, PortLines
<1>5. log' = [log EXCEPT ![f] = Append(@, l)]
  BY <1>1, <1>2
<1>6. log'[f] = Append(log[f], l) /\ log[f] \in Seq(Lines)
  BY <1>4, <1>5 DEF Typed, LinesTyped
<1>7. slaveIface' = slaveIface /\ role' = role
  BY DEF PortChanges, tracked
<1>8. \A o \in Names : port'[o] = IF o = n THEN m[2] ELSE port[o]
  BY <1>1 DEF Typed, TypeOK
<1>9. ASSUME NEW o \in Names, port'[o] = "SLAVE"
      PROVE  LET g == ProfileOf[o] IN
               \/ LastIn(log'[g], SlaveLines(o), Ups(o))
               \/ NoneIn(log'[g], SlaveLines(o)) /\ slaveIface'[g] = o /\ role'[o] = "SLAVE"
  <2>1. CASE o = n
    <3>1. l \in Ups(n)
      BY <1>3, <1>8, <1>9, <2>1 DEF Ups
    <3> QED
      BY <1>4, <1>6, <2>1, <3>1, AppendLast
  <2>2. CASE o # n
    <3>1. port[o] = "SLAVE"
      BY <1>8, <1>9, <2>2
    <3>2. ProfileOf[o] = f => RoleOf(l) # "SLAVE"
      BY <1>1, <1>3, <2>2, <3>1 DEF Typed, OneTracked, Follows
    <3>3. ProfileOf[o] = f => l \notin SlaveLines(o)
      BY <1>4, <2>2, <3>2 DEF SlaveLines
    <3>4. /\ LastIn(log[ProfileOf[o]], SlaveLines(o), Ups(o))
               => LastIn(log'[ProfileOf[o]], SlaveLines(o), Ups(o))
          /\ NoneIn(log[ProfileOf[o]], SlaveLines(o)) => NoneIn(log'[ProfileOf[o]], SlaveLines(o))
      BY <1>4, <1>5, <3>3, OtherLine
    <3> QED
      BY <1>7, <3>1, <3>4 DEF SlaveTold
  <2> QED
    BY <2>1, <2>2
<1>10. ASSUME NEW o \in Names, port'[o] = "FAULTY"
       PROVE  LET g == ProfileOf[o] IN
                \/ LastIn(log'[g], LinesOf(o), Downs(o))
                \/ NoneIn(log'[g], LinesOf(o)) /\ slaveIface'[g] # o /\ role'[o] = "FAULTY"
  <2>1. CASE o = n
    <3>1. l \in Downs(n)
      BY <1>3, <1>8, <1>10, <2>1 DEF Downs
    <3> QED
      BY <1>4, <1>6, <2>1, <3>1, AppendLast
  <2>2. CASE o # n
    <3>1. port[o] = "FAULTY" /\ l \notin LinesOf(o)
      BY <1>4, <1>8, <1>10, <2>2 DEF LinesOf
    <3>2. /\ LastIn(log[ProfileOf[o]], LinesOf(o), Downs(o))
               => LastIn(log'[ProfileOf[o]], LinesOf(o), Downs(o))
          /\ NoneIn(log[ProfileOf[o]], LinesOf(o)) => NoneIn(log'[ProfileOf[o]], LinesOf(o))
      BY <1>4, <1>5, <3>1, OtherLine
    <3> QED
      BY <1>7, <3>1, <3>2 DEF FaultTold
  <2> QED
    BY <2>1, <2>2
<1> QED
  BY <1>9, <1>10 DEF SlaveTold, FaultTold

(* The lines of a measurement are about no port.                           *)
LEMMA MeasuresTold ==
  ASSUME Typed, SlaveTold, FaultTold, NEW n \in Names, Measures(n)
  PROVE  SlaveTold' /\ FaultTold'
<1> DEFINE f == ProfileOf[n]
<1>1. PICK l \in Lines : l \notin PortLines /\ log' = [log EXCEPT ![f] = Append(@, l)]
  BY MeasureIsTold
<1>2. f \in Profiles /\ \A o \in Names : l \notin SlaveLines(o) /\ l \notin LinesOf(o)
  BY <1>1, PortsAssumption DEF SlaveLines, LinesOf
<1>3. \A o \in Names :
        LET g == ProfileOf[o] IN
          /\ LastIn(log[g], SlaveLines(o), Ups(o)) => LastIn(log'[g], SlaveLines(o), Ups(o))
          /\ NoneIn(log[g], SlaveLines(o)) => NoneIn(log'[g], SlaveLines(o))
          /\ LastIn(log[g], LinesOf(o), Downs(o)) => LastIn(log'[g], LinesOf(o), Downs(o))
          /\ NoneIn(log[g], LinesOf(o)) => NoneIn(log'[g], LinesOf(o))
  BY <1>1, <1>2, OtherLine
<1>4. port' = port /\ slaveIface' = slaveIface /\ role' = role
  BY DEF Measures, tracked
<1> QED
  BY <1>3, <1>4 DEF SlaveTold, FaultTold

LEMMA ToldNext == Typed /\ SlaveTold /\ FaultTold /\ [Next]_vars => SlaveTold' /\ FaultTold'
<1> SUFFICES ASSUME Typed, SlaveTold, FaultTold, [Next]_vars PROVE SlaveTold' /\ FaultTold'
  OBVIOUS
<1>1. ASSUME NEW f \in Profiles, Crash(f)
      PROVE  SlaveTold' /\ FaultTold'
  <2>1. log' = log /\ slaveIface' = slaveIface /\ role' = role
    BY <1>1 DEF Crash, tracked
  <2>2. \A n \in Names : port'[n] # "LISTENING" => port[n] = port'[n]
    BY <1>1 DEF Crash
  <2> QED
    BY <2>1, <2>2 DEF SlaveTold, FaultTold
<1>2. ASSUME UNCHANGED <<port, log, role, slaveIface>>
      PROVE  SlaveTold' /\ FaultTold'
  BY <1>2 DEF SlaveTold, FaultTold
<1>3. ASSUME UNCHANGED vars \/ ReadPhc2sys \/ (\E n \in Names : SelectInDomain(n))
               \/ (\E f \in Profiles : FailOver(f))
      PROVE  UNCHANGED <<port, log, role, slaveIface>>
  BY <1>3 DEF vars, ReadPhc2sys, SelectInDomain, FailOver, ptp4l, tracked
<1> QED
  BY <1>1, <1>2, <1>3, SlaveToldRead, FaultToldRead, PortChangesTold, MeasuresTold DEF Next

-----------------------------------------------------------------------------
(* The cards.                                                              *)

LEMMA CardUnlockedRead ==
  ASSUME Typed, CardUnlocked, NEW f \in Profiles, ReadPtp4l(f)
  PROVE  CardUnlocked'
<1> DEFINE l == Head(log[f])
<1> SUFFICES ASSUME NEW n \in Names, HasOwnCard(n), slaveIface'[ProfileOf[n]] = NoIface
             PROVE  clockState'[Alias[n]] # LOCKED
  BY DEF CardUnlocked, HasOwnCard
<1> DEFINE g == ProfileOf[n]
           m == masterOffsetIface[f]
<1>1. /\ g \in Profiles /\ Alias[n] \in Aliases /\ slaveIface[f] = m
      /\ slaveIface[g] = NoIface => clockState[Alias[n]] # LOCKED
      /\ m # NoIface => m \in Names /\ ProfileOf[m] = f /\ Alias[m] \in Aliases
  BY PortsAssumption DEF Aliases, Typed, TypeOK, OneTracked, CardUnlocked
<1>2. CASE NewSlave(f, l.name) /\ l.name \in Names
  <2>1. slaveIface'[f] # NoIface /\ \A o \in Profiles \ {f} : slaveIface'[o] = slaveIface[o]
    BY <1>2, PortsAssumption DEF NewSlave, Typed, TypeOK
  <2> QED
    BY <1>1, <1>2, <2>1 DEF NewSlave
<1>3. CASE SlaveFaulty(f) /\ m # NoIface
  <2>1. clockState'[Alias[n]] = IF Alias[n] = Alias[m] THEN FREERUN ELSE clockState[Alias[n]]
    BY <1>1, <1>3 DEF SlaveFaulty, Typed, TypeOK
  <2>2. CASE Alias[n] = Alias[m]
    BY <2>1, <2>2 DEF FREERUN, LOCKED
  <2>3. CASE Alias[n] # Alias[m]
    <3>1. g # f
      BY <1>1, <1>3, <2>3 DEF HasOwnCard
    <3>2. slaveIface'[g] = slaveIface[g]
      BY <1>1, <1>3, <3>1 DEF SlaveFaulty, Typed, TypeOK
    <3> QED
      BY <1>1, <2>1, <2>3, <3>2
  <2> QED
    BY <2>2, <2>3
<1>4. CASE ReadOffset(f, l) /\ m # NoIface
  <2>1. slaveIface' = slaveIface /\ g # f
    BY <1>1, <1>4 DEF ReadOffset, tracked
  <2>2. Alias[n] # Alias[m]
    BY <1>1, <1>4, <2>1 DEF HasOwnCard
  <2>3. clockState'[Alias[n]] = clockState[Alias[n]]
    BY <1>1, <1>4, <2>2 DEF ReadOffset, Typed, TypeOK
  <2> QED
    BY <1>1, <2>1, <2>3
<1>5. CASE UNCHANGED <<slaveIface, clockState>>
  BY <1>1, <1>5
<1>6. l \in Lines /\ (l.kind = "port" => l.name \in Names)
  BY ReadsLine, LineKinds DEF Typed
<1>7. ReadPort(f, l) =>
        \/ NewSlave(f, l.name) /\ l.name \in Names
        \/ SlaveFaulty(f) /\ m # NoIface
        \/ UNCHANGED <<slaveIface, clockState>>
  BY <1>1, <1>6, PortsAssumption DEF ReadPort, tracked
<1>8. ReadOffset(f, l) => m # NoIface \/ UNCHANGED <<slaveIface, clockState>>
  BY DEF ReadOffset, tracked
<1>9. ReadSummary(f, l) => UNCHANGED <<slaveIface, clockState>>
  BY DEF ReadSummary, tracked
<1> QED
  BY <1>2, <1>3, <1>4, <1>5, <1>7, <1>8, <1>9 DEF ReadPtp4l

LEMMA CardUnlockedNext == Typed /\ CardUnlocked /\ [Next]_vars => CardUnlocked'
<1> SUFFICES ASSUME Typed, CardUnlocked, [Next]_vars PROVE CardUnlocked'
  OBVIOUS
<1>1. ASSUME UNCHANGED <<slaveIface, clockState>>
      PROVE  CardUnlocked'
  BY <1>1 DEF CardUnlocked, HasOwnCard
<1>2. ASSUME UNCHANGED vars \/ ReadPhc2sys \/ (\E n \in Names : SelectInDomain(n))
               \/ (\E f \in Profiles : FailOver(f) \/ Crash(f))
               \/ (\E n \in Names : PortChanges(n) \/ Measures(n))
      PROVE  UNCHANGED <<slaveIface, clockState>>
  BY <1>2 DEF vars, ReadPhc2sys, AnnounceHAFailOver, SelectInDomain, FailOver, Crash, PortChanges,
              Measures, tracked
<1> QED
  BY <1>1, <1>2, CardUnlockedRead DEF Next

-----------------------------------------------------------------------------
(* The active profile.                                                     *)

LEMMA SecondProfile ==
  ASSUME NEW f \in Profiles, NEW g \in Profiles, f # g
  PROVE  Cardinality(Profiles) > 1
<1>1. IsFiniteSet({f, g}) /\ Cardinality({f, g}) = 2
  <2>1. IsFiniteSet({f}) /\ Cardinality({f}) = 1
    BY FS_Singleton
  <2>2. {f, g} = {f} \cup {g}
    OBVIOUS
  <2> QED
    BY <2>1, <2>2, FS_AddElement
<1>2. Cardinality({f, g}) <= Cardinality(Profiles) /\ Cardinality(Profiles) \in Nat
  BY PortsAssumption, FS_Subset, FS_CardinalityType
<1> QED
  BY <1>1, <1>2

LEMMA ActiveToldRead ==
  ASSUME Typed, ActiveTold, ReadPhc2sys
  PROVE  ActiveTold'
<1> DEFINE l == Head(phcLog)
           a == ProfileOf[outOfDomain]
<1>1. /\ phcLog \in Seq(Selections) /\ phcLog # <<>> /\ l \in Selections
      /\ phcLog' = Tail(phcLog)
  BY ReadsSelection DEF Typed, LinesTyped
<1>2. outOfDomain' = outOfDomain
  BY DEF ReadPhc2sys
<1> SUFFICES ASSUME outOfDomain # NoIface
             PROVE  \/ LastIn(phcLog', FailOversFrom(a), {Select(outOfDomain, FALSE)})
                    \/ /\ NoneIn(phcLog', FailOversFrom(a))
                       /\ \A f \in Profiles : (ha'[f] = 1) <=> (f = a)
  BY <1>2 DEF ActiveTold
<1>3. a \in Profiles /\ outOfDomain \in Names /\ l.name \in Names /\ l.inDomain \in BOOLEAN
  BY <1>1, PortsAssumption DEF Typed, TypeOK, Selections
<1>4. ha' = [f \in Profiles |-> IF f = ProfileOf[l.name] THEN ActiveState(l)
                                ELSE IF ActiveState(l) = 1 THEN 0 ELSE ha[f]]
  BY <1>3 DEF ReadPhc2sys, AnnounceHAFailOver, Inactive, haProfile
<1>5. CASE LastIn(phcLog, FailOversFrom(a), {Select(outOfDomain, FALSE)})
  <2>1. ASSUME l = Select(outOfDomain, FALSE)
        PROVE  \A f \in Profiles : (ha'[f] = 1) <=> (f = a)
    <3>1. ActiveState(l) = 1 /\ ProfileOf[l.name] = a
      BY <2>1 DEF Select, ActiveState
    <3> QED
      BY <1>4, <3>1
  <2>2. \/ LastIn(phcLog', FailOversFrom(a), {Select(outOfDomain, FALSE)})
        \/ l \in {Select(outOfDomain, FALSE)} /\ NoneIn(phcLog', FailOversFrom(a))
    BY <1>1, <1>5, LastTail
  <2> QED
    BY <2>1, <2>2
<1>6. CASE /\ NoneIn(phcLog, FailOversFrom(a))
           /\ \A f \in Profiles : (ha[f] = 1) <=> (f = a)
  <2>1. l \notin FailOversFrom(a) /\ NoneIn(phcLog', FailOversFrom(a))
    BY <1>1, <1>6, NoneTail
  <2>2. l.inDomain /\ ProfileOf[l.name] # a
    BY <1>1, <2>1 DEF FailOversFrom
  <2>3. ActiveState(l) = 0
    BY <1>3, <2>2, SecondProfile, PortsAssumption DEF ActiveState
  <2>4. \A f \in Profiles : (ha'[f] = 1) <=> (f = a)
    BY <1>4, <1>6, <2>2, <2>3
  <2> QED
    BY <2>1, <2>4
<1> QED
  BY <1>5, <1>6 DEF ActiveTold

LEMMA ActiveToldSelect ==
  ASSUME Typed, ActiveTold, NEW n \in Names, SelectInDomain(n)
  PROVE  ActiveTold'
<1> DEFINE a == ProfileOf[outOfDomain]
           active == outOfDomain # NoIface /\ a = ProfileOf[n]
<1>1. PICK x \in Selections, y \in Selections : x = Select(n, TRUE) /\ y = Select(n, FALSE)
  BY DEF Select, Selections
<1>2. phcLog \in Seq(Selections) /\ ha' = ha
  BY DEF SelectInDomain, Typed, LinesTyped
<1>3. CASE active
  <2>1. outOfDomain' = n /\ phcLog' = phcLog \o <<x, y>>
    BY <1>1, <1>3 DEF SelectInDomain
  <2>2. phcLog' = Append(Append(phcLog, x), y) /\ Append(phcLog, x) \in Seq(Selections)
    BY <1>2, <2>1, Appended
  <2>3. LastIn(phcLog', FailOversFrom(ProfileOf[n]), {y})
    BY <2>2, AppendLast
  <2> QED
    BY <1>1, <2>1, <2>3 DEF ActiveTold
<1>4. CASE ~active
  <2>1. outOfDomain' = outOfDomain /\ phcLog' = phcLog \o <<x>>
    BY <1>1, <1>4 DEF SelectInDomain
  <2>2. phcLog' = Append(phcLog, x)
    BY <1>2, <2>1, Appended
  <2>3. outOfDomain # NoIface => x \notin FailOversFrom(a)
    BY <1>1, <1>4 DEF FailOversFrom, Select
  <2>4. outOfDomain # NoIface =>
          /\ LastIn(phcLog, FailOversFrom(a), {Select(outOfDomain, FALSE)})
               => LastIn(phcLog', FailOversFrom(a), {Select(outOfDomain, FALSE)})
          /\ NoneIn(phcLog, FailOversFrom(a)) => NoneIn(phcLog', FailOversFrom(a))
    BY <1>2, <2>2, <2>3, AppendOther
  <2> QED
    BY <1>2, <2>1, <2>4 DEF ActiveTold
<1> QED
  BY <1>3, <1>4

LEMMA ActiveToldNext == Typed /\ ActiveTold /\ [Next]_vars => ActiveTold'
<1> SUFFICES ASSUME Typed, ActiveTold, [Next]_vars PROVE ActiveTold'
  OBVIOUS
<1>1. ASSUME NEW f \in Profiles, FailOver(f)
      PROVE  ActiveTold'
  <2>1. domain[f] \in Names /\ outOfDomain' = domain[f]
    BY <1>1 DEF FailOver, Typed, TypeOK
  <2>2. PICK y \in Selections : y = Select(domain[f], FALSE)
    BY <2>1 DEF Select, Selections
  <2>3. phcLog' = Append(phcLog, y) /\ phcLog \in Seq(Selections)
    BY <1>1, <2>2 DEF FailOver, Typed, LinesTyped
  <2>4. LastIn(phcLog', FailOversFrom(ProfileOf[domain[f]]), {y})
    BY <2>3, AppendLast
  <2> QED
    BY <2>1, <2>2, <2>4 DEF ActiveTold
<1>2. ASSUME UNCHANGED <<outOfDomain, phcLog, ha>>
      PROVE  ActiveTold'
  BY <1>2 DEF ActiveTold
<1>3. ASSUME UNCHANGED vars \/ (\E f \in Profiles : ReadPtp4l(f) \/ Crash(f))
               \/ (\E n \in Names : PortChanges(n) \/ Measures(n))
      PROVE  UNCHANGED <<outOfDomain, phcLog, ha>>
  BY <1>3 DEF vars, ReadPtp4l, Crash, PortChanges, Measures, phc2sys
<1> QED
  BY <1>1, <1>2, <1>3, ActiveToldRead, ActiveToldSelect DEF Next

-----------------------------------------------------------------------------
(* The theorems.                                                           *)

LEMMA IInvInit == Init => IInv
<1> SUFFICES ASSUME Init PROVE IInv
  OBVIOUS
<1>1. SlaveTold /\ FaultTold
  BY DEF Init, SlaveTold, FaultTold
<1>2. CardUnlocked
  BY DEF Init, CardUnlocked, Aliases, NOTSET, LOCKED
<1>3. ActiveTold
  BY DEF Init, ActiveTold
<1> QED
  BY <1>1, <1>2, <1>3, TypedInit DEF IInv, Typed

LEMMA IInvNext == IInv /\ [Next]_vars => IInv'
BY TypedNext, ToldNext, CardUnlockedNext, ActiveToldNext DEF IInv, Typed

(* Whatever ptp4l and phc2sys do, the state of extractMetrics and          *)
(* announceHAFailOver has its type.                                        *)
THEOREM TypeCorrect == Spec => []TypeOK
<1>1. IInv => TypeOK
  BY DEF IInv
<1> QED
  BY <1>1, IInvInit, IInvNext, PTL DEF Spec

(* When the output is read, the port that is SLAVE is the one              *)
(* extractMetrics attributes offsets to and whose fault it notices.        *)
THEOREM SlaveTracked == Spec => []SlaveIsTracked
<1>1. IInv => SlaveIsTracked
  <2> SUFFICES ASSUME IInv, NEW n \in Names, log[ProfileOf[n]] = <<>>, port[n] = "SLAVE"
               PROVE  LET f == ProfileOf[n] IN
                        masterOffsetIface[f] = n /\ slaveIface[f] = n /\ role[n] = "SLAVE"
    BY DEF SlaveIsTracked
  <2>1. slaveIface[ProfileOf[n]] = n /\ role[n] = "SLAVE"
    BY EmptyLog DEF IInv, SlaveTold
  <2> QED
    BY <2>1, PortsAssumption DEF IInv, OneTracked
<1> QED
  BY <1>1, IInvInit, IInvNext, PTL DEF Spec

(* When the output is read, extractMetrics knows of every port that has    *)
(* failed, and the clock of a profile without a slave is not LOCKED.       *)
THEOREM FaultNoticed == Spec => []FaultIsNoticed
<1>1. IInv => FaultIsNoticed
  <2> SUFFICES ASSUME IInv, NEW n \in Names
               PROVE  LET f == ProfileOf[n] IN
                        /\ log[f] = <<>> /\ port[n] = "FAULTY"
                             => slaveIface[f] # n /\ role[n] = "FAULTY"
                        /\ HasOwnCard(n) /\ slaveIface[f] = NoIface
                             => clockState[Alias[n]] # LOCKED
    BY DEF FaultIsNoticed
  <2>1. log[ProfileOf[n]] = <<>> /\ port[n] = "FAULTY"
          => slaveIface[ProfileOf[n]] # n /\ role[n] = "FAULTY"
    BY EmptyLog DEF IInv, FaultTold
  <2>2. HasOwnCard(n) /\ slaveIface[ProfileOf[n]] = NoIface => clockState[Alias[n]] # LOCKED
    BY DEF IInv, CardUnlocked
  <2> QED
    BY <2>1, <2>2
<1> QED
  BY <1>1, IInvInit, IInvNext, PTL DEF Spec

(* When the output is read, the profile phc2sys follows is the one         *)
(* announceHAFailOver shows as active, and no other is.                    *)
THEOREM ActiveProfileFollowed == Spec => []ActiveProfileIsFollowed
<1>1. IInv => ActiveProfileIsFollowed
  BY EmptyLog DEF IInv, ActiveTold, ActiveProfileIsFollowed
<1> QED
  BY <1>1, IInvInit, IInvNext, PTL DEF Spec
=============================================================================
