---------------------------- MODULE NetlinkProofs ----------------------------
(***************************************************************************)
(* What Netlink records is never replaced by something older, and when the *)
(* socket is empty it is the current status of the card, for any number of *)
(* devices, pins and changes and any size of the socket's buffer and of a  *)
(* batch.  Both rest on the order of the messages in the socket.           *)
(***************************************************************************)
EXTENDS Netlink, TLAPS

(* A message the code takes something from.                                *)
Told(m) == m.change # Absent

(* The messages of one source are in the socket in the order of its        *)
(* changes, none is newer than the source, and nothing recorded is newer   *)
(* than what is still to be read.                                          *)
Ordered ==
  /\ \A i \in 1 .. Len(queue) :
       Told(queue[i]) => queue[i].change <= hw[queue[i].from]
  /\ \A i, j \in 1 .. Len(queue) :
       i < j /\ Told(queue[i]) /\ Told(queue[j]) /\ queue[i].from = queue[j].from
         => queue[i].change <= queue[j].change
  /\ \A f \in Fields, i \in 1 .. Len(queue) :
       Told(queue[i]) /\ seen[f].from = queue[i].from
         => seen[f].change <= queue[i].change
  /\ \A f \in Fields : Told(seen[f]) => seen[f].change <= hw[seen[f].from]

(* The phases of a connection.                                             *)
Connection ==
  /\ ~joined => queue = <<>>
  /\ pc \in {"dial", "dump", "join"} => ~joined /\ ntf = "off"
  /\ ntf = "receive" /\ conn = "open" => joined /\ pc = "loop"

(* The status of a device is recorded or on its way.                       *)
Accounted ==
  \A d \in Devices \ missed : \A f \in FieldsOf(d) :
    /\ pc = "join" => seen[f] = Status(d)
    /\ ntf = "receive" /\ conn = "open" /\ ~overrun =>
         \/ seen[f] = Status(d)
         \/ \E i \in 1 .. Len(queue) : queue[i] = Status(d)

IInv == TypeOK /\ Connection /\ Ordered /\ Accounted

-----------------------------------------------------------------------------
(* nlUpdateState: a field of the status belongs to one device.             *)
LEMMA FieldsAreFields == \A s : FieldsOf(s) \subseteq Fields
BY DEF FieldsOf, Fields

LEMMA OneDevice ==
  ASSUME NEW d \in Devices, NEW s, NEW f \in FieldsOf(d), f \in FieldsOf(s)
  PROVE  s = d
<1>1. d.clockId = clockId /\ f # "phaseOffset"
  BY DEF FieldsOf
<1>2. s \in Devices /\ s.clockId = clockId
  BY <1>1 DEF FieldsOf
<1>3. s.type = d.type
  BY <1>1, <1>2 DEF FieldsOf
<1> QED
  BY <1>1, <1>2, <1>3, NetlinkAssumption

(* What nlUpdateState records of a message and of a dump.                  *)
LEMMA Recorded ==
  ASSUME NEW m, NEW f \in Fields
  PROVE  \/ Told(m) /\ f \in FieldsOf(m.from) /\ Record(m)[f] = m
         \/ ~(Told(m) /\ f \in FieldsOf(m.from)) /\ Record(m)[f] = seen[f]
BY DEF Record, Told

LEMMA DumpRecorded ==
  ASSUME NEW valid \in SUBSET Devices, NEW f \in Fields
  PROVE  \/ \E d \in valid : f \in FieldsOf(d) /\ RecordDump(valid)[f] = Status(d)
         \/ /\ \A d \in valid : f \notin FieldsOf(d)
            /\ RecordDump(valid)[f] = seen[f]
BY DEF RecordDump

(* Told messages have a source.                                            *)
LEMMA ToldHasSource ==
  ASSUME NEW m \in Messages, Told(m)
  PROVE  m \in [from : Sources, change : Nat \ {Absent}]
BY DEF Messages, Told, Nothing

LEMMA StatusIsMessage ==
  ASSUME TypeOK, NEW s \in Sources
  PROVE  Status(s) \in [from : Sources, change : Nat \ {Absent}] /\ Told(Status(s))
BY DEF TypeOK, Status, Told

(* Send, which the kernel does.                                            *)
LEMMA AppendIsQueue ==
  ASSUME NEW q \in Seq(Messages), NEW m \in Messages
  PROVE  /\ Append(q, m) \in Seq(Messages)
         /\ Len(Append(q, m)) = Len(q) + 1
         /\ \A i \in 1 .. Len(q) : Append(q, m)[i] = q[i]
         /\ Append(q, m)[Len(q) + 1] = m
OBVIOUS

LEMMA Sent ==
  ASSUME NEW m, Send(m)
  PROVE  \/ UNCHANGED <<queue, overrun>> /\ ~joined
         \/ queue' = Append(queue, m) /\ UNCHANGED overrun
         \/ overrun' = TRUE /\ UNCHANGED queue
BY DEF Send

LEMMA NothingTold == Nothing \in Messages /\ ~Told(Nothing) /\ Nothing.change = 0
BY DEF Messages, Told, Nothing, Absent

-----------------------------------------------------------------------------
(* Type correctness.                                                       *)
LEMMA TypeInit == Init => TypeOK
<1> SUFFICES ASSUME Init PROVE TypeOK
  OBVIOUS
<1>1. <<>> \in Seq(Messages)
  OBVIOUS
<1>2. [f \in Fields |-> Nothing] \in [Fields -> Messages]
  BY NothingTold
<1>3. [s \in Sources |-> 1] \in [Sources -> Nat \ {Absent}]
  BY DEF Absent
<1> QED
  BY <1>1, <1>2, <1>3 DEF Init, TypeOK

LEMMA TypeStep == TypeOK /\ [Next]_vars => TypeOK'
<1> SUFFICES ASSUME TypeOK, [Next]_vars PROVE TypeOK'
  OBVIOUS
<1> USE DEF TypeOK
<1>0. <<>> \in Seq(Messages)
  OBVIOUS
<1>1. ASSUME NEW s \in Sources, Change(s) PROVE TypeOK'
  <2> DEFINE m == [from |-> s, change |-> hw[s] + 1]
  <2>1. m \in Messages
    BY DEF Messages, Absent
  <2>2. Send(m)
    BY <1>1 DEF Change
  <2> HIDE DEF m
  <2>3. queue' \in Seq(Messages)
    BY <2>1, <2>2, Sent, AppendIsQueue
  <2>4. overrun' \in BOOLEAN
    BY <2>2, Sent
  <2>5. hw' \in [Sources -> Nat \ {Absent}]
    BY <1>1 DEF Change, Absent
  <2> QED BY <1>1, <2>3, <2>4, <2>5 DEF Change, monitor
<1>2. CASE OtherNtf
  <2>1. Send(Nothing)
    BY <1>2 DEF OtherNtf
  <2>2. queue' \in Seq(Messages)
    <3>1. Append(queue, Nothing) \in Seq(Messages)
      BY NothingTold, AppendIsQueue
    <3> QED BY <2>1, <3>1, Sent
  <2>3. overrun' \in BOOLEAN
    BY <2>1, Sent
  <2> QED BY <1>2, <2>2, <2>3 DEF OtherNtf, monitor
<1>3. CASE Dial
  BY <1>3 DEF Dial, hardware
<1>4. CASE DumpDeviceGet
  <2>1. ASSUME NEW valid \in SUBSET Devices, seen' = RecordDump(valid)
        PROVE  seen' \in [Fields -> Messages]
    <3>1. \A f \in Fields : RecordDump(valid)[f] \in Messages
      BY DumpRecorded, StatusIsMessage DEF Sources, Messages
    <3> QED BY <3>1, <2>1 DEF RecordDump
  <2>2. ASSUME NEW valid \in SUBSET Devices, missed' = Devices \ valid
        PROVE  missed' \subseteq Sources
    BY <2>2 DEF Sources
  <2> QED BY <1>0, <1>4, <2>1, <2>2 DEF DumpDeviceGet, StopDpll
<1>5. CASE JoinGroup
  BY <1>0, <1>5 DEF JoinGroup, StopDpll
<1>6. CASE Redial
  BY <1>0, <1>6 DEF Redial, StopDpll
<1>7. CASE Exit
  BY <1>0, <1>7 DEF Exit, StopDpll
<1>8. CASE CmdStop
  BY <1>8 DEF CmdStop, hardware
<1>9. ASSUME NEW n \in 1 .. MaxBatch, Receive(n) PROVE TypeOK'
  <2>1. n \in 1 .. Len(queue) /\ queue[n] \in Messages
    BY <1>9 DEF Receive
  <2>2. \A f \in Fields : Record(queue[n])[f] \in Messages
    BY <2>1, Recorded
  <2>3. seen' \in [Fields -> Messages]
    BY <1>9, <2>2 DEF Receive, Record
  <2>4. queue' \in Seq(Messages)
    BY <1>9, <2>1 DEF Receive
  <2>5. missed' \subseteq Sources
    BY <1>9 DEF Receive, Sources
  <2> QED BY <1>9, <2>3, <2>4, <2>5 DEF Receive, monitor
<1>10. CASE NtfReturns
  BY <1>10 DEF NtfReturns, hardware
<1>11. CASE UNCHANGED vars
  BY <1>11 DEF vars
<1> QED
  BY <1>1, <1>2, <1>3, <1>4, <1>5, <1>6, <1>7, <1>8, <1>9, <1>10, <1>11 DEF Next, Monitor

-----------------------------------------------------------------------------
(* The phases of a connection.                                             *)
LEMMA ConnectionStep == TypeOK /\ Connection /\ [Next]_vars => Connection'
<1> SUFFICES ASSUME TypeOK, Connection, [Next]_vars PROVE Connection'
  OBVIOUS
<1> USE DEF Connection, Nil
<1>1. ASSUME NEW s \in Sources, Change(s) PROVE Connection'
  BY <1>1 DEF Change, Send, monitor
<1>2. CASE OtherNtf
  BY <1>2 DEF OtherNtf, Send, monitor
<1>3. CASE Dial
  BY <1>3 DEF Dial, hardware
<1>4. CASE DumpDeviceGet
  BY <1>4 DEF DumpDeviceGet, StopDpll
<1>5. CASE JoinGroup
  BY <1>5 DEF JoinGroup, StopDpll
<1>6. CASE Redial
  BY <1>6 DEF Redial, StopDpll
<1>7. CASE Exit
  BY <1>7 DEF Exit, StopDpll
<1>8. CASE CmdStop
  BY <1>8 DEF CmdStop, hardware
<1>9. ASSUME NEW n \in 1 .. MaxBatch, Receive(n) PROVE Connection'
  <2>1. joined
    BY <1>9 DEF Receive
  <2> QED BY <1>9, <2>1 DEF Receive, monitor
<1>10. CASE NtfReturns
  BY <1>10 DEF NtfReturns, hardware
<1>11. CASE UNCHANGED vars
  BY <1>11 DEF vars
<1> QED
  BY <1>1, <1>2, <1>3, <1>4, <1>5, <1>6, <1>7, <1>8, <1>9, <1>10, <1>11 DEF Next, Monitor

-----------------------------------------------------------------------------
(* The order of the messages.                                              *)

(* An empty socket is in order, and so is one that is left alone.          *)
LEMMA OrderedEmpty ==
  ASSUME queue' = <<>>,
         \A f \in Fields : Told(seen'[f]) => seen'[f].change <= hw'[seen'[f].from]
  PROVE  Ordered'
BY DEF Ordered

LEMMA OrderedStep == IInv /\ [Next]_vars => Ordered'
<1> SUFFICES ASSUME IInv, [Next]_vars PROVE Ordered'
  OBVIOUS
<1>0. TypeOK /\ Connection /\ Ordered /\ TypeOK'
  BY TypeStep DEF IInv
<1>a. \A i \in 1 .. Len(queue) : queue[i] \in Messages
  BY <1>0 DEF TypeOK
<1>b. \A f \in Fields : seen[f] \in Messages
  BY <1>0 DEF TypeOK
<1>1. ASSUME NEW s \in Sources, Change(s) PROVE Ordered'
  <2> DEFINE m == [from |-> s, change |-> hw[s] + 1]
  <2>1. /\ Send(m)
        /\ UNCHANGED seen
        /\ hw' = [hw EXCEPT ![s] = @ + 1]
    BY <1>1 DEF Change
  <2>2. \A r \in Sources : hw[r] <= hw'[r] /\ hw[r] \in Nat /\ hw'[r] \in Nat
    BY <2>1, <1>0 DEF TypeOK
  <2>3. /\ m \in Messages /\ Told(m)
        /\ m.from = s /\ m.change = hw[s] + 1 /\ m.change = hw'[s]
    BY <2>1, <1>0 DEF TypeOK, Messages, Told, Absent
  <2> HIDE DEF m
  <2>4. \A f \in Fields : Told(seen[f]) => seen[f].change <= hw'[seen[f].from]
    BY <1>0, <1>b, <2>2, ToldHasSource DEF Ordered
  <2>5. \A i \in 1 .. Len(queue) : Told(queue[i]) => queue[i].change <= hw'[queue[i].from]
    BY <1>0, <1>a, <2>2, ToldHasSource DEF Ordered
  <2>6. CASE queue' = queue
    BY <1>0, <2>1, <2>4, <2>5, <2>6 DEF Ordered
  <2>7. CASE queue' = Append(queue, m)
    <3>1. /\ Len(queue') = Len(queue) + 1
          /\ \A i \in 1 .. Len(queue) : queue'[i] = queue[i]
          /\ queue'[Len(queue) + 1] = m
          /\ Len(queue) \in Nat
      BY <1>0, <2>3, <2>7, AppendIsQueue DEF TypeOK
    <3>2. \A i \in 1 .. Len(queue) : Told(queue[i]) /\ queue[i].from = s => queue[i].change <= m.change
      BY <2>3, <2>5
    <3>3. \A f \in Fields : seen[f].from = s => seen[f].change <= m.change
      <4> SUFFICES ASSUME NEW f \in Fields, seen[f].from = s PROVE seen[f].change <= m.change
        OBVIOUS
      <4>1. CASE Told(seen[f])
        BY <4>1, <2>3, <2>4
      <4>2. CASE ~Told(seen[f])
        BY <4>2, <2>3, <1>0 DEF Told, Absent, TypeOK
      <4> QED BY <4>1, <4>2
    <3>4. \A i \in 1 .. Len(queue') : i \in 1 .. Len(queue) \/ i = Len(queue) + 1
      BY <3>1
    <3>5. \A i \in 1 .. Len(queue') : Told(queue'[i]) => queue'[i].change <= hw'[queue'[i].from]
      BY <2>3, <2>5, <3>1, <3>4, <2>2
    <3>6. \A i, j \in 1 .. Len(queue') :
            i < j /\ Told(queue'[i]) /\ Told(queue'[j]) /\ queue'[i].from = queue'[j].from
              => queue'[i].change <= queue'[j].change
      BY <1>0, <2>3, <3>1, <3>2, <3>4 DEF Ordered
    <3>7. \A f \in Fields, i \in 1 .. Len(queue') :
            Told(queue'[i]) /\ seen[f].from = queue'[i].from
              => seen[f].change <= queue'[i].change
      BY <1>0, <2>3, <3>1, <3>3, <3>4 DEF Ordered
    <3> QED BY <2>1, <2>4, <3>5, <3>6, <3>7 DEF Ordered, Told
  <2> QED BY <2>1, <2>6, <2>7, Sent

<1>2. CASE OtherNtf
  <2>1. Send(Nothing) /\ UNCHANGED <<hw, seen>>
    BY <1>2 DEF OtherNtf
  <2>2. CASE queue' = queue
    BY <1>0, <2>1, <2>2 DEF Ordered
  <2>3. CASE queue' = Append(queue, Nothing)
    <3>1. /\ Len(queue') = Len(queue) + 1
          /\ \A i \in 1 .. Len(queue) : queue'[i] = queue[i]
          /\ queue'[Len(queue) + 1] = Nothing
          /\ Len(queue) \in Nat
      BY <1>0, <2>3, AppendIsQueue, NothingTold DEF TypeOK
    <3>2. \A i \in 1 .. Len(queue') : Told(queue'[i]) => i \in 1 .. Len(queue) /\ queue'[i] = queue[i]
      BY <3>1, NothingTold
    <3> HIDE DEF Told
    <3> QED BY <1>0, <2>1, <3>2 DEF Ordered
  <2> QED BY <2>1, <2>2, <2>3, Sent
<1>3. CASE Dial
  BY <1>0, <1>3 DEF Dial, hardware, Ordered
<1>4. CASE DumpDeviceGet
  <2>1. queue' = <<>> /\ hw' = hw
    BY <1>0, <1>4 DEF DumpDeviceGet, StopDpll, Connection
  <2>2. CASE UNCHANGED seen
    BY <1>0, <2>1, <2>2, OrderedEmpty DEF Ordered
  <2>3. ASSUME NEW valid \in SUBSET Devices, seen' = RecordDump(valid) PROVE Ordered'
    <3>1. ASSUME NEW f \in Fields, Told(seen'[f]) PROVE seen'[f].change <= hw'[seen'[f].from]
      <4>1. CASE seen'[f] = seen[f]
        BY <1>0, <2>1, <3>1, <4>1 DEF Ordered, Told
      <4>2. ASSUME NEW d \in valid, seen'[f] = Status(d) PROVE seen'[f].change <= hw'[seen'[f].from]
        BY <1>0, <2>1, <4>2 DEF Status, TypeOK, Sources
      <4> QED BY <2>3, <4>1, <4>2, DumpRecorded
    <3> QED BY <2>1, <3>1, OrderedEmpty
  <2> QED BY <1>4, <2>2, <2>3 DEF DumpDeviceGet
<1>5. CASE JoinGroup
  <2>1. queue' = <<>> /\ UNCHANGED <<hw, seen>>
    BY <1>0, <1>5 DEF JoinGroup, StopDpll, Connection
  <2> QED BY <1>0, <2>1, OrderedEmpty DEF Ordered
<1>6. CASE Redial
  <2>1. queue' = <<>> /\ UNCHANGED <<hw, seen>>
    BY <1>6 DEF Redial, StopDpll
  <2> QED BY <1>0, <2>1, OrderedEmpty DEF Ordered
<1>7. CASE Exit
  <2>1. queue' = <<>> /\ UNCHANGED <<hw, seen>>
    BY <1>7 DEF Exit, StopDpll
  <2> QED BY <1>0, <2>1, OrderedEmpty DEF Ordered
<1>8. CASE CmdStop
  BY <1>0, <1>8 DEF CmdStop, hardware, Ordered
<1>9. ASSUME NEW n \in 1 .. MaxBatch, Receive(n) PROVE Ordered'
  <2>1. /\ n \in 1 .. Len(queue)
        /\ UNCHANGED hw
        /\ queue' = SubSeq(queue, n + 1, Len(queue))
        /\ seen' = Record(queue[n])
        /\ Len(queue) \in Nat
    BY <1>9, <1>0 DEF Receive, TypeOK
  <2>2. /\ Len(queue') = Len(queue) - n
        /\ \A i \in 1 .. Len(queue') : i + n \in 1 .. Len(queue) /\ queue'[i] = queue[i + n]
    BY <1>0, <2>1 DEF TypeOK
  <2>3. \A f \in Fields : \/ seen'[f] = queue[n] /\ Told(queue[n])
                          \/ seen'[f] = seen[f]
    BY <2>1, Recorded
  <2>4. \A i \in 1 .. Len(queue') : Told(queue'[i]) => queue'[i].change <= hw'[queue'[i].from]
    BY <1>0, <2>1, <2>2 DEF Ordered
  <2>5. \A i, j \in 1 .. Len(queue') :
          i < j /\ Told(queue'[i]) /\ Told(queue'[j]) /\ queue'[i].from = queue'[j].from
            => queue'[i].change <= queue'[j].change
    BY <1>0, <2>1, <2>2 DEF Ordered
  <2>6. \A f \in Fields, i \in 1 .. Len(queue') :
          Told(queue'[i]) /\ seen'[f].from = queue'[i].from
            => seen'[f].change <= queue'[i].change
    <3> SUFFICES ASSUME NEW f \in Fields, NEW i \in 1 .. Len(queue'),
                        Told(queue'[i]), seen'[f].from = queue'[i].from
                 PROVE  seen'[f].change <= queue'[i].change
      OBVIOUS
    <3>1. n \in 1 .. Len(queue) /\ n < i + n /\ i + n \in 1 .. Len(queue) /\ queue'[i] = queue[i + n]
      BY <2>1, <2>2
    <3> QED BY <1>0, <2>3, <3>1 DEF Ordered
  <2>7. \A f \in Fields : Told(seen'[f]) => seen'[f].change <= hw'[seen'[f].from]
    BY <1>0, <2>1, <2>3 DEF Ordered
  <2> QED BY <2>4, <2>5, <2>6, <2>7 DEF Ordered, Told
<1>10. CASE NtfReturns
  BY <1>0, <1>10 DEF NtfReturns, hardware, Ordered
<1>11. CASE UNCHANGED vars
  BY <1>0, <1>11 DEF vars, Ordered
<1> QED
  BY <1>1, <1>2, <1>3, <1>4, <1>5, <1>6, <1>7, <1>8, <1>9, <1>10, <1>11 DEF Next, Monitor

-----------------------------------------------------------------------------
(* Where the status of a device is.                                        *)
LEMMA AccountedStep == IInv /\ [Next]_vars => Accounted'
<1> SUFFICES ASSUME IInv, [Next]_vars,
                    NEW d \in Devices \ missed', NEW f \in FieldsOf(d)
             PROVE  /\ pc' = "join" => seen'[f] = Status(d)'
                    /\ ntf' = "receive" /\ conn' = "open" /\ ~overrun' =>
                         \/ seen'[f] = Status(d)'
                         \/ \E i \in 1 .. Len(queue') : queue'[i] = Status(d)'
  BY DEF Accounted, FieldsOf, PhaseOffsetPin, Fields
<1> DEFINE Joining == pc' = "join" => seen'[f] = Status(d)'
           Reading == ntf' = "receive" /\ conn' = "open" /\ ~overrun' =>
                         \/ seen'[f] = Status(d)'
                         \/ \E i \in 1 .. Len(queue') : queue'[i] = Status(d)'
<1>0. TypeOK /\ Connection /\ Ordered /\ Accounted
  BY DEF IInv
<1>f. f \in Fields
  BY DEF FieldsOf
<1>q. Len(queue) \in Nat
  BY <1>0 DEF TypeOK
<1>1. ASSUME NEW s \in Sources, Change(s) PROVE Joining /\ Reading
  <2> DEFINE m == [from |-> s, change |-> hw[s] + 1]
  <2>1. /\ Send(m) /\ UNCHANGED <<seen, pc, ntf, conn>>
        /\ hw' = [hw EXCEPT ![s] = @ + 1]
    BY <1>1 DEF Change, monitor
  <2>2. m \in Messages /\ m = Status(s)'
    BY <2>1, <1>0 DEF TypeOK, Messages, Absent, Status
  <2>3. d # s => Status(d)' = Status(d)
    BY <2>1, <1>0 DEF TypeOK, Status, Sources
  <2> HIDE DEF m
  <2>4. Joining
    <3> SUFFICES ASSUME pc' = "join" PROVE seen'[f] = Status(d)'
      OBVIOUS
    <3>1. d # s /\ d \notin missed
      BY <1>1, <2>1 DEF Change
    <3> QED BY <1>0, <2>1, <2>3, <3>1 DEF Accounted
  <2>5. Reading
    <3> SUFFICES ASSUME ntf' = "receive", conn' = "open", ~overrun'
                 PROVE  \/ seen'[f] = Status(d)'
                        \/ \E i \in 1 .. Len(queue') : queue'[i] = Status(d)'
      OBVIOUS
    <3>1. joined /\ pc = "loop"
      BY <1>0, <2>1 DEF Connection
    <3>2. queue' = Append(queue, m) /\ ~overrun
      BY <2>1, <3>1, Sent
    <3>3. /\ Len(queue') = Len(queue) + 1
          /\ \A i \in 1 .. Len(queue) : queue'[i] = queue[i]
          /\ queue'[Len(queue) + 1] = m
      BY <1>0, <2>2, <3>2, AppendIsQueue DEF TypeOK
    <3>4. CASE d = s
      BY <1>q, <2>2, <3>3, <3>4
    <3>5. CASE d # s
      <4>1. d \notin missed
        BY <1>1, <3>1, <3>5 DEF Change
      <4>2. \/ seen[f] = Status(d)
            \/ \E i \in 1 .. Len(queue) : queue[i] = Status(d)
        BY <1>0, <2>1, <3>2, <4>1 DEF Accounted
      <4> QED BY <1>q, <2>1, <2>3, <3>3, <3>5, <4>2
    <3> QED BY <3>4, <3>5
  <2> QED BY <2>4, <2>5
<1>2. CASE OtherNtf
  <2>1. Send(Nothing) /\ UNCHANGED <<hw, seen, missed, pc, ntf, conn>>
    BY <1>2 DEF OtherNtf, monitor
  <2>2. Status(d)' = Status(d)
    BY <2>1 DEF Status
  <2>3. Joining
    BY <1>0, <2>1, <2>2 DEF Accounted
  <2>4. Reading
    <3> SUFFICES ASSUME ntf' = "receive", conn' = "open", ~overrun'
                 PROVE  \/ seen'[f] = Status(d)'
                        \/ \E i \in 1 .. Len(queue') : queue'[i] = Status(d)'
      OBVIOUS
    <3>1. joined
      BY <1>0, <2>1 DEF Connection
    <3>2. queue' = Append(queue, Nothing) /\ ~overrun
      BY <2>1, <3>1, Sent
    <3>3. /\ Len(queue') = Len(queue) + 1
          /\ \A i \in 1 .. Len(queue) : queue'[i] = queue[i]
      BY <1>0, <3>2, AppendIsQueue, NothingTold DEF TypeOK
    <3>4. \/ seen[f] = Status(d)
          \/ \E i \in 1 .. Len(queue) : queue[i] = Status(d)
      BY <1>0, <2>1, <3>2 DEF Accounted
    <3> QED BY <1>q, <2>1, <2>2, <3>3, <3>4
  <2> QED BY <2>3, <2>4
<1>3. CASE Dial
  BY <1>0, <1>3 DEF Dial, hardware, Connection, Nil
<1>4. CASE DumpDeviceGet
  <2>1. ntf' # "receive" /\ hw' = hw
    BY <1>0, <1>4 DEF DumpDeviceGet, Connection
  <2>2. ASSUME NEW valid \in SUBSET Devices,
               seen' = RecordDump(valid), missed' = Devices \ valid
        PROVE  seen'[f] = Status(d)'
    <3>1. d \in valid
      BY <2>2
    <3>2. PICK e \in valid : f \in FieldsOf(e) /\ seen'[f] = Status(e)
      BY <1>f, <2>2, <3>1, DumpRecorded
    <3>3. e = d
      BY <3>1, <3>2, OneDevice
    <3> QED BY <2>1, <3>2, <3>3 DEF Status
  <2> QED BY <1>4, <2>1, <2>2 DEF DumpDeviceGet
<1>5. CASE JoinGroup
  <2>1. UNCHANGED <<hw, missed, seen>> /\ pc = "join" /\ pc' = "loop"
    BY <1>5 DEF JoinGroup
  <2>2. seen'[f] = Status(d)'
    BY <1>0, <2>1 DEF Accounted, Status
  <2> QED BY <2>1, <2>2
<1>6. CASE Redial
  BY <1>6 DEF Redial, StopDpll, Nil
<1>7. CASE Exit
  BY <1>7 DEF Exit, StopDpll, Nil
<1>8. CASE CmdStop
  <2>1. UNCHANGED <<hw, missed, seen, pc, ntf, conn, overrun, queue>>
    BY <1>8 DEF CmdStop, hardware
  <2> QED BY <1>0, <2>1 DEF Accounted, Status
<1>9. ASSUME NEW n \in 1 .. MaxBatch, Receive(n) PROVE Joining /\ Reading
  <2>1. /\ n \in 1 .. Len(queue)
        /\ UNCHANGED <<hw, pc, conn, ntf, overrun>>
        /\ ntf = "receive" /\ conn = "open" /\ ~overrun
        /\ queue' = SubSeq(queue, n + 1, Len(queue))
        /\ seen' = Record(queue[n])
        /\ d \notin missed
        /\ \A i \in 1 .. n - 1 : queue[i] # Status(d)
    BY <1>9 DEF Receive, monitor
  <2>2. pc' = "loop"
    BY <1>0, <2>1 DEF Connection
  <2>3. /\ Len(queue') = Len(queue) - n
        /\ \A i \in 1 .. Len(queue') : queue'[i] = queue[i + n]
    BY <1>0, <1>q, <2>1 DEF TypeOK
  <2>4. Status(d)' = Status(d) /\ Status(d).from = d /\ Status(d).change = hw[d]
    BY <2>1 DEF Status
  <2>5. CASE seen[f] = Status(d)
    <3>1. CASE seen'[f] = seen[f]
      BY <2>2, <2>4, <2>5, <3>1
    <3>2. CASE Told(queue[n]) /\ f \in FieldsOf(queue[n].from) /\ seen'[f] = queue[n]
      <4>1. queue[n].from = d
        BY <3>2, OneDevice
      <4>2. queue[n] \in [from : Sources, change : Nat \ {Absent}] /\ hw[d] \in Nat
        BY <1>0, <2>1, <3>2, ToldHasSource DEF TypeOK, Sources
      <4>3. queue[n].change <= hw[d] /\ hw[d] <= queue[n].change
        BY <1>0, <1>f, <2>1, <2>4, <2>5, <3>2, <4>1 DEF Ordered
      <4>4. queue[n].change = hw[d]
        BY <4>2, <4>3
      <4>5. queue[n] = Status(d)
        BY <4>1, <4>2, <4>4 DEF Status
      <4> QED BY <2>2, <2>4, <3>2, <4>5
    <3> QED BY <1>f, <2>1, <3>1, <3>2, Recorded
  <2>6. ASSUME NEW i \in 1 .. Len(queue), queue[i] = Status(d) PROVE Joining /\ Reading
    <3>1. CASE i = n
      <4>1. Told(queue[n]) /\ f \in FieldsOf(queue[n].from)
        BY <1>0, <2>4, <2>6, <3>1, StatusIsMessage DEF Sources
      <4>2. seen'[f] = queue[n]
        BY <1>f, <2>1, <4>1, Recorded
      <4> QED BY <2>2, <2>4, <2>6, <3>1, <4>2
    <3>2. CASE i > n
      <4>1. i - n \in 1 .. Len(queue') /\ queue'[i - n] = queue[i]
        BY <1>q, <2>1, <2>3, <3>2
      <4> QED BY <2>2, <2>4, <2>6, <4>1
    <3>3. ~(i < n)
      BY <2>1, <2>6
    <3>4. i = n \/ i > n
      BY <1>q, <2>1, <3>3
    <3> QED BY <3>1, <3>2, <3>4
  <2> QED BY <1>0, <2>1, <2>5, <2>6 DEF Accounted
<1>10. CASE NtfReturns
  <2>1. UNCHANGED <<hw, missed, seen, pc>> /\ ntf' = "off"
    BY <1>10 DEF NtfReturns, hardware
  <2> QED BY <1>0, <2>1 DEF Accounted, Status
<1>11. CASE UNCHANGED vars
  <2>1. UNCHANGED <<hw, missed, seen, pc, ntf, conn, overrun, queue>>
    BY <1>11 DEF vars
  <2> QED BY <1>0, <2>1 DEF Accounted, Status
<1> QED
  BY <1>1, <1>2, <1>3, <1>4, <1>5, <1>6, <1>7, <1>8, <1>9, <1>10, <1>11 DEF Next, Monitor

-----------------------------------------------------------------------------
LEMMA IInvInit == Init => IInv
<1> SUFFICES ASSUME Init PROVE IInv
  OBVIOUS
<1>1. TypeOK
  BY TypeInit
<1>2. Connection
  BY DEF Init, Connection
<1>3. Ordered
  <2>1. \A f \in Fields : ~Told(seen[f])
    BY NothingTold DEF Init, Told
  <2> QED BY <2>1 DEF Init, Ordered
<1>4. Accounted
  BY DEF Init, Accounted
<1> QED
  BY <1>1, <1>2, <1>3, <1>4 DEF IInv

LEMMA IInvStep == IInv /\ [Next]_vars => IInv'
BY TypeStep, ConnectionStep, OrderedStep, AccountedStep DEF IInv

LEMMA Inductive == Spec => []IInv
BY IInvInit, IInvStep, PTL DEF Spec

(* When all notifications are read, the status recorded by the netlink     *)
(* monitor is the card's, unless its last change was missed.               *)
THEOREM ReaderIsInStep == Spec => []InStep
<1>1. IInv => InStep
  <2> SUFFICES ASSUME IInv, ntf = "receive", conn = "open", ~overrun, queue = <<>>,
                      NEW d \in Devices \ missed, NEW f \in FieldsOf(d)
               PROVE  seen[f] = Status(d)
    BY DEF InStep
  <2>1. Len(queue) = 0
    OBVIOUS
  <2> QED BY <2>1 DEF IInv, Accounted
<1> QED
  BY <1>1, Inductive, PTL

(* What the netlink monitor has recorded of a device or pin is never       *)
(* replaced by something older.                                            *)
THEOREM RecordsGrow == Spec => NeverOlder
<1> DEFINE Grows == \A f \in Fields :
             seen'[f].from = seen[f].from => seen'[f].change >= seen[f].change
<1>1. IInv /\ [Next]_vars => [Grows]_vars
  <2> SUFFICES ASSUME IInv, Next, NEW f \in Fields, seen'[f].from = seen[f].from
               PROVE  seen'[f].change >= seen[f].change
    OBVIOUS
  <2>1. TypeOK /\ Ordered /\ seen[f].change \in Nat
    BY NothingTold DEF IInv, TypeOK, Messages
  <2>2. CASE seen'[f] = seen[f]
    BY <2>1, <2>2
  <2>3. CASE DumpDeviceGet
    <3>1. ASSUME NEW d \in Devices, seen'[f] = Status(d) PROVE seen'[f].change >= seen[f].change
      <4>1. seen[f].from = d /\ seen'[f].change = hw[d] /\ hw[d] \in Nat
        BY <2>1, <3>1 DEF Status, TypeOK, Sources
      <4>2. CASE Told(seen[f])
        BY <2>1, <4>1, <4>2 DEF Ordered
      <4>3. CASE ~Told(seen[f])
        BY <2>1, <4>1, <4>3 DEF Told, Absent
      <4> QED BY <4>2, <4>3
    <3>2. seen'[f] = seen[f] \/ \E d \in Devices : seen'[f] = Status(d)
      BY <2>3, DumpRecorded DEF DumpDeviceGet
    <3> QED BY <2>2, <3>1, <3>2
  <2>4. ASSUME NEW n \in 1 .. MaxBatch, Receive(n) PROVE seen'[f].change >= seen[f].change
    <3>1. n \in 1 .. Len(queue) /\ seen' = Record(queue[n]) /\ queue[n] \in Messages
      BY <2>1, <2>4 DEF Receive, TypeOK
    <3>2. CASE seen'[f] = queue[n] /\ Told(queue[n])
      <4>1. queue[n].change \in Nat
        BY <3>1, NothingTold DEF Messages
      <4>2. seen[f].change <= queue[n].change
        BY <2>1, <3>1, <3>2 DEF Ordered
      <4> QED BY <2>1, <3>2, <4>1, <4>2
    <3> QED BY <2>2, <3>1, <3>2, Recorded
  <2>5. UNCHANGED seen \/ DumpDeviceGet \/ \E n \in 1 .. MaxBatch : Receive(n)
    BY DEF Next, Monitor, Change, OtherNtf, Dial, JoinGroup, Redial, Exit, CmdStop, NtfReturns
  <2> QED BY <2>2, <2>3, <2>4, <2>5
<1> QED
  BY <1>1, Inductive, PTL DEF Spec, NeverOlder
=============================================================================
