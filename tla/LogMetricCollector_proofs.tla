--------------------- MODULE LogMetricCollector_proofs ---------------------
(***************************************************************************)
(* Proofs that a followed file has one handler and, with the step that the *)
(* server sends, that each line is counted once: for any number of         *)
(* monitors and lines, and channels of any size.                           *)
(***************************************************************************)
EXTENDS LogMetricCollector, TLAPS

(* The monitors that exist. *)
Carried ==
  IF post.pc = "idle" THEN Elements(jobs)
  ELSE IF post.pc = "update" THEN Elements(post.todo) \cup Elements(post.kept)
  ELSE Elements(post.kept)

Forgotten ==
  /\ \A j \in Job : j \notin Carried => monitor[j] = NoMonitor
  /\ post.pc = "reopen" => Elements(post.todo) \subseteq Elements(post.kept)

(* What a calculation has taken is from the monitors it has come to. *)
TakenOnce ==
  \A j \in Job : calc.pc = "idle" \/ j \in calc.todo => calc.got[j] = 0

(* With a step of one tick nothing waits to be displayed. *)
Displayed == \A j \in Job : metric[j].exists => metric[j].display

IInv ==
  /\ TypeOK
  /\ OneHandler
  /\ Forgotten
  /\ TakenOnce
  /\ Step = 1 => Displayed /\ EachLineOnce

(* OneHandler and Inside, of a monitor. *)
HasOneHandler(m) ==
  m.ready + m.sending = (IF m.phase \in {"on", "stopping"} THEN 1 ELSE 0)
                          + (IF m.cancel THEN 1 ELSE 0)
LinesIn(m) == m.lines + m.sending + m.data

-----------------------------------------------------------------------------
(* Types *)

LEMMA MonitorFields ==
  ASSUME NEW m \in Monitor
  PROVE  /\ m.phase \in {"none", "on", "stopping", "off"}
         /\ m.reopen \in BOOLEAN /\ m.cancel \in BOOLEAN
         /\ m.lines \in Nat /\ m.lines <= ChanSize + 1
         /\ m.ready \in Nat /\ m.ready <= 2 /\ m.sending \in Nat /\ m.sending <= 2
         /\ m.data \in Nat /\ m.data <= ChanSize
         /\ LinesIn(m) \in Nat
<1>1. /\ m.phase \in {"none", "on", "stopping", "off"}
      /\ m.reopen \in BOOLEAN /\ m.cancel \in BOOLEAN
      /\ m.lines \in 0 .. (ChanSize + 1)
      /\ m.ready \in 0 .. 2 /\ m.sending \in 0 .. 2
      /\ m.data \in 0 .. ChanSize
  BY DEF Monitor
<1> QED
  BY <1>1, LogMetricAssumption, SMT DEF LinesIn

LEMMA NoMonitorFields ==
  /\ NoMonitor \in Monitor
  /\ HasOneHandler(NoMonitor)
  /\ LinesIn(NoMonitor) = 0
  /\ NoMonitor.phase = "none" /\ NoMonitor.lines = 0 /\ NoMonitor.ready = 0
  /\ NoMonitor.sending = 0 /\ NoMonitor.cancel = FALSE
<1>1. NoMonitor \in Monitor
  BY LogMetricAssumption, SMT DEF NoMonitor, Monitor
<1>2. /\ NoMonitor.phase = "none" /\ NoMonitor.lines = 0 /\ NoMonitor.ready = 0
      /\ NoMonitor.sending = 0 /\ NoMonitor.data = 0 /\ NoMonitor.cancel = FALSE
  BY DEF NoMonitor
<1> QED
  BY <1>1, <1>2 DEF HasOneHandler, LinesIn

LEMMA SameAsFields ==
  /\ OneHandler <=> \A j \in Job : HasOneHandler(monitor[j])
  /\ \A j \in Job : Inside(j) = LinesIn(monitor[j])
BY DEF OneHandler, HasOneHandler, Inside, LinesIn

LEMMA ElementsOf ==
  ASSUME NEW s \in Seq(Job)
  PROVE  /\ Elements(s) \subseteq Job
         /\ Elements(<<>>) = {}
         /\ \A j \in Job : Elements(Append(s, j)) = Elements(s) \cup {j}
         /\ s # <<>> => /\ Head(s) \in Job /\ Tail(s) \in Seq(Job)
                        /\ Elements(s) = {Head(s)} \cup Elements(Tail(s))
<1>1. Elements(s) \subseteq Job
  BY DEF Elements
<1>2. Elements(<<>>) = {}
  BY DEF Elements
<1>3. ASSUME NEW j \in Job PROVE Elements(Append(s, j)) = Elements(s) \cup {j}
  <2>1. Len(Append(s, j)) = Len(s) + 1 /\ Len(s) \in Nat
    OBVIOUS
  <2>2. \A i \in 1 .. (Len(s) + 1) : Append(s, j)[i] = IF i <= Len(s) THEN s[i] ELSE j
    OBVIOUS
  <2>3. \A x \in Elements(s) : x \in Elements(Append(s, j))
    <3>1. ASSUME NEW i \in 1 .. Len(s) PROVE s[i] \in Elements(Append(s, j))
      BY <2>1, <2>2 DEF Elements
    <3> QED
      BY <3>1 DEF Elements
  <2>4. j \in Elements(Append(s, j))
    <3>1. Len(s) + 1 \in 1 .. Len(Append(s, j)) /\ Append(s, j)[Len(s) + 1] = j
      BY <2>1, <2>2
    <3> QED
      BY <3>1 DEF Elements
  <2>5. \A x \in Elements(Append(s, j)) : x = j \/ x \in Elements(s)
    <3>1. ASSUME NEW i \in 1 .. Len(Append(s, j))
          PROVE  Append(s, j)[i] = j \/ Append(s, j)[i] \in Elements(s)
      BY <2>1, <2>2 DEF Elements
    <3> QED
      BY <3>1 DEF Elements
  <2> QED
    BY <2>3, <2>4, <2>5
<1>4. ASSUME s # <<>>
      PROVE  /\ Head(s) \in Job /\ Tail(s) \in Seq(Job)
             /\ Elements(s) = {Head(s)} \cup Elements(Tail(s))
  <2>1. /\ Len(s) \in Nat /\ Len(s) > 0 /\ Head(s) = s[1] /\ Head(s) \in Job
        /\ Tail(s) \in Seq(Job) /\ Len(Tail(s)) = Len(s) - 1
    BY <1>4
  <2>2. \A i \in 1 .. Len(Tail(s)) : Tail(s)[i] = s[i + 1]
    BY <1>4, <2>1
  <2>3. ASSUME NEW i \in 1 .. Len(s) PROVE s[i] = Head(s) \/ s[i] \in Elements(Tail(s))
    <3>1. CASE i = 1
      BY <3>1, <2>1
    <3>2. CASE i # 1
      <4>1. i - 1 \in 1 .. Len(Tail(s)) /\ Tail(s)[i - 1] = s[i]
        BY <3>2, <2>1, <2>2
      <4> QED
        BY <4>1 DEF Elements
    <3> QED
      BY <3>1, <3>2
  <2>4. Head(s) \in Elements(s)
    BY <2>1 DEF Elements
  <2>5. ASSUME NEW i \in 1 .. Len(Tail(s)) PROVE Tail(s)[i] \in Elements(s)
    <3>1. i + 1 \in 1 .. Len(s) /\ Tail(s)[i] = s[i + 1]
      BY <2>1, <2>2
    <3> QED
      BY <3>1 DEF Elements
  <2> QED
    BY <2>1, <2>3, <2>4, <2>5 DEF Elements
<1> QED
  BY <1>1, <1>2, <1>3, <1>4

-----------------------------------------------------------------------------
(* The goroutines of a monitor *)

(* A step of one monitor that exists, which loses none of its lines unless *)
(* it is noted, and ends or starts a handler with its token or its file.   *)
LEMMA MonitorMoves ==
  ASSUME IInv,
         NEW j \in Job, NEW n \in Monitor,
         monitor[j] # NoMonitor, monitor' = [monitor EXCEPT ![j] = n],
         HasOneHandler(n),
         NEW f \in Nat, found' = [found EXCEPT ![j] = f],
         dropped' \in SUBSET Job, dropped \subseteq dropped', dropped' \subseteq dropped \cup {j},
         LinesIn(n) + found[j] <= LinesIn(monitor[j]) + f,
         j \notin dropped' => LinesIn(n) + found[j] = LinesIn(monitor[j]) + f,
         UNCHANGED <<jobs, metric, calc, post, shown>>
  PROVE  IInv'
<1> USE DEF IInv
<1>1. /\ monitor'[j] = n /\ found'[j] = f
      /\ \A k \in Job : k # j => monitor'[k] = monitor[k] /\ found'[k] = found[k]
  BY DEF TypeOK
<1>2. TypeOK'
  BY DEF TypeOK
<1>3. OneHandler'
  <2>1. \A k \in Job : HasOneHandler(monitor'[k])
    BY <1>1, SameAsFields
  <2> QED
    BY <2>1 DEF OneHandler, HasOneHandler
<1>4. Forgotten'
  <2>1. Carried' = Carried
    BY DEF Carried
  <2>2. j \in Carried
    BY DEF Forgotten
  <2> QED
    BY <1>1, <2>1, <2>2 DEF Forgotten
<1>5. TakenOnce'
  BY DEF TakenOnce
<1>6. ASSUME Step = 1 PROVE (Displayed /\ EachLineOnce)'
  <2>1. Displayed' /\ Displayed /\ EachLineOnce
    BY <1>6 DEF Displayed
  <2>2. \A k \in Job : Pending(k)' = Pending(k)
    BY DEF Pending
  <2>3. \A k \in Job : Inside(k)' = LinesIn(monitor'[k])
    BY DEF Inside, LinesIn
  <2>4. ASSUME NEW k \in Job
        PROVE  /\ shown[k] + InFlight(k)' <= found'[k]
               /\ k \notin dropped' => shown[k] + InFlight(k)' = found'[k]
    <3>1. /\ shown[k] + (LinesIn(monitor[k]) + calc.got[k] + Pending(k)) <= found[k]
          /\ k \notin dropped => shown[k] + (LinesIn(monitor[k]) + calc.got[k] + Pending(k)) = found[k]
      BY <2>1, SameAsFields DEF EachLineOnce, InFlight
    <3>2. InFlight(k)' = LinesIn(monitor'[k]) + calc.got[k] + Pending(k)
      BY <2>2, <2>3 DEF InFlight
    <3>3. /\ shown[k] \in Nat /\ found[k] \in Nat /\ calc.got[k] \in 0 .. ChanSize
          /\ monitor[k] \in Monitor
      BY DEF TypeOK
    <3>4. Pending(k) = 0
      BY <2>1 DEF Pending, Displayed
    <3>5. LinesIn(monitor[k]) \in Nat /\ LinesIn(n) \in Nat
      BY <3>3, MonitorFields
    <3>6. calc.got[k] \in Nat
      BY <3>3, LogMetricAssumption
    <3>7. CASE k = j
      BY <3>1, <3>2, <3>3, <3>4, <3>5, <3>6, <3>7, <1>1, SMT
    <3>8. CASE k # j
      BY <3>1, <3>2, <3>8, <1>1
    <3> QED
      BY <3>7, <3>8
  <2> QED
    BY <2>1, <2>4 DEF EachLineOnce
<1> QED
  BY <1>2, <1>3, <1>4, <1>5, <1>6

(* The steps of start, and of the handlers. *)
LEMMA newLineIInv ==
  ASSUME IInv, NEW j \in Job, newLine(j)
  PROVE  IInv'
<1> DEFINE m == monitor[j]
<1>1. m \in Monitor /\ monitor' = [monitor EXCEPT ![j] = [m EXCEPT !.lines = @ + 1]]
  BY DEF IInv, TypeOK, newLine
<1>2. m.phase = "on" /\ m.lines <= ChanSize /\ m.lines \in Nat
  BY <1>1, MonitorFields DEF newLine
<1>3. m.lines + 1 \in 0 .. (ChanSize + 1)
  BY <1>2, LogMetricAssumption
<1>4. PICK n \in Monitor : n = [m EXCEPT !.lines = @ + 1]
  BY <1>1, <1>3 DEF Monitor
<1>5. /\ n.phase = m.phase /\ n.cancel = m.cancel /\ n.lines = m.lines + 1
      /\ n.ready = m.ready /\ n.sending = m.sending /\ n.data = m.data
  BY <1>1, <1>4 DEF Monitor
<1>6. HasOneHandler(n)
  BY <1>5, SameAsFields DEF HasOneHandler, IInv
<1>7. found[j] \in Nat /\ found' = [found EXCEPT ![j] = found[j] + 1]
  BY DEF IInv, TypeOK, newLine
<1>8. LinesIn(n) + found[j] = LinesIn(m) + (found[j] + 1)
  BY <1>1, <1>5, <1>7, MonitorFields, SMT DEF LinesIn
<1>9. LinesIn(n) + found[j] \in Nat /\ found[j] + 1 \in Nat
  BY <1>4, <1>7, MonitorFields, SMT
<1>10. m # NoMonitor
  BY <1>2, NoMonitorFields
<1>11. monitor' = [monitor EXCEPT ![j] = n]
  BY <1>1, <1>4
<1>12. dropped' = dropped /\ dropped \in SUBSET Job /\ UNCHANGED <<jobs, metric, calc, post, shown>>
  BY DEF newLine, IInv, TypeOK
<1>13. LinesIn(n) + found[j] <= LinesIn(m) + (found[j] + 1)
  BY <1>8, <1>9, SMT
<1> HIDE DEF m
<1> QED
  BY <1>6, <1>7, <1>8, <1>9, <1>10, <1>11, <1>12, <1>13, MonitorMoves DEF m

(* The same for the steps that find no line. *)
LEMMA GoesOn ==
  ASSUME IInv, NEW j \in Job, NEW n \in Monitor,
         monitor[j] # NoMonitor, monitor' = [monitor EXCEPT ![j] = n],
         HasOneHandler(n), LinesIn(n) = LinesIn(monitor[j]),
         UNCHANGED <<jobs, metric, calc, post, history>>
  PROVE  IInv'
<1>1. found[j] \in Nat /\ found' = [found EXCEPT ![j] = found[j]] /\ dropped \in SUBSET Job
  BY DEF IInv, TypeOK, history
<1>2. LinesIn(n) \in Nat /\ LinesIn(n) + found[j] <= LinesIn(monitor[j]) + found[j]
  BY <1>1, MonitorFields, SMT
<1> QED
  BY <1>1, <1>2, MonitorMoves DEF history

LEMMA startIInv ==
  ASSUME IInv, NEW j \in Job, stopTail(j) \/ cancelHandler(j) \/ start(j)
  PROVE  IInv'
<1> DEFINE m == monitor[j]
<1>1. m \in Monitor /\ HasOneHandler(m)
  BY SameAsFields DEF IInv, TypeOK
<1>2. CASE stopTail(j)
  <2>1. m.phase = "on" /\ monitor' = [monitor EXCEPT ![j] = [m EXCEPT !.phase = "stopping", !.reopen = FALSE]]
    BY <1>2 DEF stopTail, IInv, TypeOK
  <2>2. PICK n \in Monitor : n = [m EXCEPT !.phase = "stopping", !.reopen = FALSE]
    BY <1>1 DEF Monitor
  <2>3. /\ n.phase = "stopping" /\ n.cancel = m.cancel /\ n.lines = m.lines
        /\ n.ready = m.ready /\ n.sending = m.sending /\ n.data = m.data
    BY <1>1, <2>2 DEF Monitor
  <2>4. HasOneHandler(n) /\ LinesIn(n) = LinesIn(m)
    BY <1>1, <2>1, <2>3 DEF HasOneHandler, LinesIn
  <2>5. m # NoMonitor /\ monitor' = [monitor EXCEPT ![j] = n]
    BY <2>1, <2>2, NoMonitorFields
  <2> QED
    BY <1>2, <2>4, <2>5, GoesOn DEF stopTail
<1>3. CASE cancelHandler(j)
  <2>1. /\ m.phase = "stopping" /\ m.cancel = FALSE
        /\ monitor' = [monitor EXCEPT ![j] = [m EXCEPT !.phase = "off", !.cancel = TRUE]]
    BY <1>1, <1>3, MonitorFields DEF cancelHandler, IInv, TypeOK
  <2>2. PICK n \in Monitor : n = [m EXCEPT !.phase = "off", !.cancel = TRUE]
    BY <1>1 DEF Monitor
  <2>3. /\ n.phase = "off" /\ n.cancel = TRUE /\ n.lines = m.lines
        /\ n.ready = m.ready /\ n.sending = m.sending /\ n.data = m.data
    BY <1>1, <2>2 DEF Monitor
  <2>4. HasOneHandler(n) /\ LinesIn(n) = LinesIn(m)
    BY <1>1, <2>1, <2>3 DEF HasOneHandler, LinesIn
  <2>5. m # NoMonitor /\ monitor' = [monitor EXCEPT ![j] = n]
    BY <2>1, <2>2, NoMonitorFields
  <2> QED
    BY <1>3, <2>4, <2>5, GoesOn DEF cancelHandler
<1>4. CASE start(j)
  <2>1. /\ m.phase = "off"
        /\ monitor' = [monitor EXCEPT ![j] = [m EXCEPT !.phase = "on", !.lines = 0, !.ready = @ + 1]]
    BY <1>4 DEF start, IInv, TypeOK
  <2>2. m.ready + m.sending = (IF m.cancel THEN 1 ELSE 0)
    BY <1>1, <2>1, SMT DEF HasOneHandler
  <2>3. m.ready + 1 \in 0 .. 2 /\ 0 \in 0 .. (ChanSize + 1)
    BY <1>1, <2>2, MonitorFields, LogMetricAssumption, SMT
  <2>4. PICK n \in Monitor : n = [m EXCEPT !.phase = "on", !.lines = 0, !.ready = @ + 1]
    BY <1>1, <2>3 DEF Monitor
  <2>5. /\ n.phase = "on" /\ n.cancel = m.cancel /\ n.lines = 0
        /\ n.ready = m.ready + 1 /\ n.sending = m.sending /\ n.data = m.data
    BY <1>1, <2>4 DEF Monitor
  <2>6. HasOneHandler(n)
    BY <1>1, <2>2, <2>5, MonitorFields, SMT DEF HasOneHandler
  <2>7. m # NoMonitor /\ monitor' = [monitor EXCEPT ![j] = n]
    BY <2>1, <2>4, NoMonitorFields
  <2>8. /\ found[j] \in Nat /\ found' = [found EXCEPT ![j] = found[j]]
        /\ dropped' = (IF m.lines > 0 THEN dropped \cup {j} ELSE dropped)
        /\ dropped \in SUBSET Job
        /\ UNCHANGED <<jobs, metric, calc, post, shown>>
    BY <1>4 DEF start, IInv, TypeOK
  <2>9. /\ dropped' \in SUBSET Job /\ dropped \subseteq dropped' /\ dropped' \subseteq dropped \cup {j}
        /\ j \notin dropped' => ~(m.lines > 0)
    BY <2>8
  <2>10. LinesIn(n) + m.lines = LinesIn(m) /\ LinesIn(n) \in Nat /\ m.lines \in Nat
    BY <1>1, <2>5, MonitorFields, SMT DEF LinesIn
  <2>11. /\ LinesIn(n) + found[j] <= LinesIn(m) + found[j]
         /\ j \notin dropped' => LinesIn(n) + found[j] = LinesIn(m) + found[j]
    BY <2>8, <2>9, <2>10, SMT
  <2> QED
    BY <2>6, <2>7, <2>8, <2>9, <2>11, MonitorMoves
<1> QED
  BY <1>2, <1>3, <1>4

LEMMA handlerIInv ==
  ASSUME IInv, NEW j \in Job, takeLine(j) \/ sendData(j) \/ handlerEnds(j)
  PROVE  IInv'
<1> DEFINE m == monitor[j]
<1>1. m \in Monitor /\ HasOneHandler(m)
  BY SameAsFields DEF IInv, TypeOK
<1>2. m.ready + m.sending <= 2
  BY <1>1, MonitorFields, SMT DEF HasOneHandler
<1>3. CASE takeLine(j)
  <2>1. /\ m.ready > 0 /\ m.lines > 0
        /\ monitor' = [monitor EXCEPT ![j] = [m EXCEPT !.lines = @ - 1, !.ready = @ - 1, !.sending = @ + 1]]
    BY <1>3 DEF takeLine, IInv, TypeOK
  <2>2. m.ready - 1 \in 0 .. 2 /\ m.sending + 1 \in 0 .. 2 /\ m.lines - 1 \in 0 .. (ChanSize + 1)
    BY <1>1, <1>2, <2>1, MonitorFields, LogMetricAssumption, SMT
  <2>3. PICK n \in Monitor : n = [m EXCEPT !.lines = @ - 1, !.ready = @ - 1, !.sending = @ + 1]
    BY <1>1, <2>2 DEF Monitor
  <2>4. /\ n.phase = m.phase /\ n.cancel = m.cancel /\ n.lines = m.lines - 1
        /\ n.ready = m.ready - 1 /\ n.sending = m.sending + 1 /\ n.data = m.data
    BY <1>1, <2>3 DEF Monitor
  <2>5. n.ready + n.sending = m.ready + m.sending /\ LinesIn(n) = LinesIn(m)
    BY <1>1, <2>4, MonitorFields, SMT DEF LinesIn
  <2>6. HasOneHandler(n)
    BY <1>1, <2>4, <2>5 DEF HasOneHandler
  <2>7. m # NoMonitor /\ monitor' = [monitor EXCEPT ![j] = n]
    BY <2>1, <2>3, NoMonitorFields
  <2> QED
    BY <1>3, <2>5, <2>6, <2>7, GoesOn DEF takeLine
<1>4. CASE sendData(j)
  <2>1. /\ m.sending > 0 /\ m.data < ChanSize
        /\ monitor' = [monitor EXCEPT ![j] = [m EXCEPT !.data = @ + 1, !.ready = @ + 1, !.sending = @ - 1]]
    BY <1>4 DEF sendData, IInv, TypeOK
  <2>2. m.ready + 1 \in 0 .. 2 /\ m.sending - 1 \in 0 .. 2 /\ m.data + 1 \in 0 .. ChanSize
    BY <1>1, <1>2, <2>1, MonitorFields, LogMetricAssumption, SMT
  <2>3. PICK n \in Monitor : n = [m EXCEPT !.data = @ + 1, !.ready = @ + 1, !.sending = @ - 1]
    BY <1>1, <2>2 DEF Monitor
  <2>4. /\ n.phase = m.phase /\ n.cancel = m.cancel /\ n.lines = m.lines
        /\ n.ready = m.ready + 1 /\ n.sending = m.sending - 1 /\ n.data = m.data + 1
    BY <1>1, <2>3 DEF Monitor
  <2>5. n.ready + n.sending = m.ready + m.sending /\ LinesIn(n) = LinesIn(m)
    BY <1>1, <2>4, MonitorFields, SMT DEF LinesIn
  <2>6. HasOneHandler(n)
    BY <1>1, <2>4, <2>5 DEF HasOneHandler
  <2>7. m # NoMonitor /\ monitor' = [monitor EXCEPT ![j] = n]
    BY <2>1, <2>3, NoMonitorFields
  <2> QED
    BY <1>4, <2>5, <2>6, <2>7, GoesOn DEF sendData
<1>5. CASE handlerEnds(j)
  <2>1. /\ m.ready > 0 /\ m.cancel
        /\ monitor' = [monitor EXCEPT ![j] = [m EXCEPT !.cancel = FALSE, !.ready = @ - 1]]
    BY <1>5 DEF handlerEnds, IInv, TypeOK
  <2>2. m.ready - 1 \in 0 .. 2
    BY <1>1, <2>1, MonitorFields, SMT
  <2>3. PICK n \in Monitor : n = [m EXCEPT !.cancel = FALSE, !.ready = @ - 1]
    BY <1>1, <2>2 DEF Monitor
  <2>4. /\ n.phase = m.phase /\ n.cancel = FALSE /\ n.lines = m.lines
        /\ n.ready = m.ready - 1 /\ n.sending = m.sending /\ n.data = m.data
    BY <1>1, <2>3 DEF Monitor
  <2>5. HasOneHandler(n) /\ LinesIn(n) = LinesIn(m)
    BY <1>1, <2>1, <2>4, MonitorFields, SMT DEF HasOneHandler, LinesIn
  <2>6. m # NoMonitor /\ monitor' = [monitor EXCEPT ![j] = n]
    BY <2>1, <2>3, NoMonitorFields
  <2> QED
    BY <1>5, <2>5, <2>6, GoesOn DEF handlerEnds
<1> QED
  BY <1>3, <1>4, <1>5

-----------------------------------------------------------------------------
(* The posts *)

Post == [pc : {"idle", "update", "reopen", "add"}, config : SUBSET Job,
         todo : Seq(Job), kept : Seq(Job)]

LEMMA PostFields ==
  ASSUME TypeOK
  PROVE  /\ post \in Post
         /\ post.config \subseteq Job /\ post.todo \in Seq(Job) /\ post.kept \in Seq(Job)
         /\ NoPost \in Post /\ NoPost.pc = "idle" /\ NoPost.todo = <<>> /\ NoPost.kept = <<>>
<1>1. post \in Post
  BY DEF TypeOK, Post
<1>2. post.config \subseteq Job /\ post.todo \in Seq(Job) /\ post.kept \in Seq(Job)
  BY <1>1 DEF Post
<1>3. <<>> \in Seq(Job)
  OBVIOUS
<1>4. NoPost \in Post /\ NoPost.pc = "idle" /\ NoPost.todo = <<>> /\ NoPost.kept = <<>>
  BY <1>3 DEF NoPost, Post
<1> QED
  BY <1>1, <1>2, <1>4

(* A post gives up lines, with a note, or leaves them as they are. *)
LEMMA PostMoves ==
  ASSUME IInv,
         monitor' \in [Job -> Monitor], post' \in Post, jobs' \in Seq(Job),
         Forgotten',
         \A j \in Job : HasOneHandler(monitor'[j]),
         dropped' \in SUBSET Job, dropped \subseteq dropped',
         \A j \in Job : LinesIn(monitor'[j]) <= LinesIn(monitor[j]),
         \A j \in Job : j \notin dropped' => LinesIn(monitor'[j]) = LinesIn(monitor[j]),
         UNCHANGED <<metric, calc, found, shown>>
  PROVE  IInv'
<1> USE DEF IInv
<1>1. TypeOK'
  BY DEF TypeOK, Post
<1>2. OneHandler'
  BY DEF OneHandler, HasOneHandler
<1>3. TakenOnce'
  BY DEF TakenOnce
<1>4. ASSUME Step = 1 PROVE (Displayed /\ EachLineOnce)'
  <2>1. Displayed' /\ Displayed /\ EachLineOnce
    BY <1>4 DEF Displayed
  <2>2. \A k \in Job : Pending(k)' = Pending(k) /\ Pending(k) = 0
    BY <2>1 DEF Pending, Displayed
  <2>3. \A k \in Job : Inside(k)' = LinesIn(monitor'[k])
    BY DEF Inside, LinesIn
  <2>4. ASSUME NEW k \in Job
        PROVE  /\ shown[k] + InFlight(k)' <= found[k]
               /\ k \notin dropped' => shown[k] + InFlight(k)' = found[k]
    <3>1. /\ shown[k] + (LinesIn(monitor[k]) + calc.got[k] + 0) <= found[k]
          /\ k \notin dropped => shown[k] + (LinesIn(monitor[k]) + calc.got[k] + 0) = found[k]
      BY <2>1, <2>2, SameAsFields DEF EachLineOnce, InFlight
    <3>2. InFlight(k)' = LinesIn(monitor'[k]) + calc.got[k] + 0
      BY <2>2, <2>3 DEF InFlight
    <3>3. /\ shown[k] \in Nat /\ found[k] \in Nat /\ calc.got[k] \in 0 .. ChanSize
          /\ monitor[k] \in Monitor /\ monitor'[k] \in Monitor
      BY DEF TypeOK
    <3>4. LinesIn(monitor[k]) \in Nat /\ LinesIn(monitor'[k]) \in Nat /\ calc.got[k] \in Nat
      BY <3>3, MonitorFields, LogMetricAssumption
    <3> QED
      BY <3>1, <3>2, <3>3, <3>4, SMT
  <2> QED
    BY <2>1, <2>4 DEF EachLineOnce
<1> QED
  BY <1>1, <1>2, <1>3, <1>4

(* Only its own state changes. *)
LEMMA PostGoesOn ==
  ASSUME IInv, post' \in Post, jobs' \in Seq(Job), Forgotten',
         UNCHANGED <<monitor, metric, calc, history>>
  PROVE  IInv'
<1>1. /\ monitor \in [Job -> Monitor] /\ dropped \in SUBSET Job
      /\ \A j \in Job : HasOneHandler(monitor[j]) /\ LinesIn(monitor[j]) \in Nat
  BY SameAsFields, MonitorFields DEF IInv, TypeOK
<1>2. \A j \in Job : LinesIn(monitor[j]) <= LinesIn(monitor[j])
  BY <1>1, SMT
<1> QED
  BY <1>1, <1>2, PostMoves DEF history

LEMMA HttpHandleIInv ==
  ASSUME IInv, LogMetricMonitorHttpHandle
  PROVE  IInv'
<1>1. PICK config \in SUBSET Job :
        post' = [NoPost EXCEPT !.pc = "update", !.config = config, !.todo = jobs]
  BY DEF LogMetricMonitorHttpHandle
<1>2. post.pc = "idle" /\ UNCHANGED <<jobs, monitor, metric, calc, history>> /\ jobs \in Seq(Job)
  BY DEF LogMetricMonitorHttpHandle, IInv, TypeOK
<1>3. PICK p \in Post : p = [NoPost EXCEPT !.pc = "update", !.config = config, !.todo = jobs]
  BY <1>2, PostFields DEF IInv, Post
<1>4. p.pc = "update" /\ p.todo = jobs /\ p.kept = <<>>
  BY <1>3, PostFields DEF IInv, Post
<1>5. post' = p
  BY <1>1, <1>3
<1>6. Elements(<<>>) = {}
  BY <1>2, ElementsOf
<1>7. Carried' = Carried
  BY <1>2, <1>4, <1>5, <1>6 DEF Carried
<1>8. Forgotten'
  BY <1>2, <1>4, <1>5, <1>7 DEF Forgotten, IInv
<1> QED
  BY <1>2, <1>5, <1>8, PostGoesOn

LEMMA updateIInv ==
  ASSUME IInv, NEW j \in Job, update(j) \/ destroy(j)
  PROVE  IInv'
<1> DEFINE m == monitor[j]
<1>1. /\ post.pc = "update" /\ post.todo # <<>> /\ Head(post.todo) = j
      /\ m.sending = 0
      /\ UNCHANGED <<jobs, metric, calc, found, shown>>
  BY DEF update, destroy, Exclusive, PostWaits
<1>2. m \in Monitor /\ HasOneHandler(m) /\ jobs \in Seq(Job) /\ dropped \in SUBSET Job
  BY SameAsFields DEF IInv, TypeOK
<1>3. /\ Tail(post.todo) \in Seq(Job)
      /\ Elements(post.todo) = {j} \cup Elements(Tail(post.todo))
      /\ Elements(Append(post.kept, j)) = Elements(post.kept) \cup {j}
      /\ Append(post.kept, j) \in Seq(Job)
  BY <1>1, PostFields, ElementsOf DEF IInv
<1>4. CASE update(j)
  <2>1. PICK same \in BOOLEAN :
          /\ monitor' = IF same THEN monitor ELSE [monitor EXCEPT ![j].data = 0]
          /\ dropped' = IF same \/ m.data = 0 THEN dropped ELSE dropped \cup {j}
    BY <1>4 DEF update
  <2>2. PICK n \in Monitor : n = IF same THEN m ELSE [m EXCEPT !.data = 0]
    <3>1. 0 \in 0 .. ChanSize
      BY LogMetricAssumption, SMT
    <3>2. [m EXCEPT !.data = 0] \in Monitor
      BY <1>2, <3>1 DEF Monitor
    <3> QED
      BY <1>2, <3>2
  <2>3. /\ n.phase = m.phase /\ n.cancel = m.cancel /\ n.lines = m.lines
        /\ n.ready = m.ready /\ n.sending = m.sending /\ n.data = IF same THEN m.data ELSE 0
    BY <1>2, <2>2 DEF Monitor
  <2>4. monitor' = [monitor EXCEPT ![j] = n]
    BY <2>1, <2>2 DEF IInv, TypeOK
  <2>5. HasOneHandler(n)
    BY <1>2, <2>3 DEF HasOneHandler
  <2>6. LinesIn(n) <= LinesIn(m) /\ (j \notin dropped' => LinesIn(n) = LinesIn(m))
    BY <1>2, <2>1, <2>3, MonitorFields, SMT DEF LinesIn
  <2>7. PICK p \in Post : p = [post EXCEPT !.todo = Tail(@), !.kept = Append(@, j)]
    BY <1>3, PostFields DEF IInv, Post
  <2>8. p.pc = "update" /\ p.todo = Tail(post.todo) /\ p.kept = Append(post.kept, j)
    BY <1>1, <2>7, PostFields DEF IInv, Post
  <2>9. post' = p
    BY <1>4, <2>7 DEF update
  <2>10. Carried' = Carried
    <3>1. Carried' = Elements(p.todo) \cup Elements(p.kept)
      BY <2>8, <2>9 DEF Carried
    <3>2. Carried = Elements(post.todo) \cup Elements(post.kept)
      BY <1>1 DEF Carried
    <3> QED
      BY <1>3, <2>8, <3>1, <3>2
  <2>11. j \in Carried
    BY <1>1, <1>3 DEF Carried
  <2>12. /\ monitor' \in [Job -> Monitor] /\ monitor'[j] = n
         /\ \A k \in Job : k # j => monitor'[k] = monitor[k]
    BY <2>4 DEF IInv, TypeOK
  <2>13. Forgotten'
    BY <2>8, <2>9, <2>10, <2>11, <2>12 DEF Forgotten, IInv
  <2>14. \A k \in Job : /\ HasOneHandler(monitor'[k]) /\ LinesIn(monitor'[k]) <= LinesIn(monitor[k])
                        /\ k \notin dropped' => LinesIn(monitor'[k]) = LinesIn(monitor[k])
    <3>1. ASSUME NEW k \in Job, k # j
          PROVE  HasOneHandler(monitor[k]) /\ LinesIn(monitor[k]) \in Nat
      BY SameAsFields, MonitorFields DEF IInv, TypeOK
    <3>2. ASSUME NEW k \in Job, k # j PROVE LinesIn(monitor[k]) <= LinesIn(monitor[k])
      BY <3>1, <3>2, SMT
    <3> QED
      BY <2>5, <2>6, <2>12, <3>1, <3>2
  <2>15. dropped' \in SUBSET Job /\ dropped \subseteq dropped'
    BY <1>2, <2>1
  <2> QED
    BY <1>1, <1>2, <2>9, <2>12, <2>13, <2>14, <2>15, PostMoves
<1>5. CASE destroy(j)
  <2>1. /\ monitor' = [monitor EXCEPT ![j] = NoMonitor]
        /\ dropped' = IF LinesIn(m) > 0 THEN dropped \cup {j} ELSE dropped
        /\ post' = [post EXCEPT !.todo = Tail(@)]
    BY <1>5, SameAsFields DEF destroy
  <2>2. PICK p \in Post : p = [post EXCEPT !.todo = Tail(@)]
    BY <1>3, PostFields DEF IInv, Post
  <2>3. p.pc = "update" /\ p.todo = Tail(post.todo) /\ p.kept = post.kept
    BY <1>1, <2>2, PostFields DEF IInv, Post
  <2>4. post' = p
    BY <2>1, <2>2
  <2>5. Carried \subseteq Carried' \cup {j}
    BY <1>1, <1>3, <2>3, <2>4 DEF Carried
  <2>6. /\ monitor' \in [Job -> Monitor] /\ monitor'[j] = NoMonitor
        /\ \A k \in Job : k # j => monitor'[k] = monitor[k]
    BY <2>1, NoMonitorFields DEF IInv, TypeOK
  <2>7. Forgotten'
    BY <2>3, <2>4, <2>5, <2>6 DEF Forgotten, IInv
  <2>8. LinesIn(m) \in Nat /\ (j \notin dropped' => LinesIn(m) = 0)
    BY <1>2, <2>1, MonitorFields, SMT
  <2>9. \A k \in Job : /\ HasOneHandler(monitor'[k]) /\ LinesIn(monitor'[k]) <= LinesIn(monitor[k])
                       /\ k \notin dropped' => LinesIn(monitor'[k]) = LinesIn(monitor[k])
    <3>1. ASSUME NEW k \in Job, k # j
          PROVE  HasOneHandler(monitor[k]) /\ LinesIn(monitor[k]) \in Nat
      BY SameAsFields, MonitorFields DEF IInv, TypeOK
    <3>2. ASSUME NEW k \in Job, k # j PROVE LinesIn(monitor[k]) <= LinesIn(monitor[k])
      BY <3>1, <3>2, SMT
    <3>3. 0 <= LinesIn(m)
      BY <2>8, SMT
    <3> QED
      BY <2>6, <2>8, <3>1, <3>2, <3>3, NoMonitorFields
  <2>10. dropped' \in SUBSET Job /\ dropped \subseteq dropped'
    BY <1>2, <2>1
  <2> QED
    BY <1>1, <1>2, <2>4, <2>6, <2>7, <2>9, <2>10, PostMoves
<1> QED
  BY <1>4, <1>5

LEMMA afterIInv ==
  ASSUME IInv, afterUpdate \/ afterReopen \/ LogMetricSaveConfig
  PROVE  IInv'
<1>1. post \in Post /\ jobs \in Seq(Job) /\ post.kept \in Seq(Job)
  BY PostFields DEF IInv, TypeOK
<1>2. CASE afterUpdate
  <2>1. PICK p \in Post : p = IF Len(post.kept) < Len(jobs)
                              THEN [post EXCEPT !.pc = "reopen", !.todo = post.kept]
                              ELSE [post EXCEPT !.pc = "add"]
    BY <1>1 DEF Post
  <2>2. p.pc \in {"reopen", "add"} /\ p.kept = post.kept /\ (p.pc = "reopen" => p.todo = post.kept)
    BY <1>1, <2>1 DEF Post
  <2>3. /\ post' = p /\ post.pc = "update" /\ post.todo = <<>>
        /\ UNCHANGED <<jobs, monitor, metric, calc, history>>
    BY <1>2, <2>1 DEF afterUpdate
  <2>4. Elements(post.todo) = {}
    BY <1>1, <2>3, ElementsOf
  <2>5. Carried' = Carried
    BY <2>2, <2>3, <2>4 DEF Carried
  <2>6. Forgotten'
    BY <2>2, <2>3, <2>5 DEF Forgotten, IInv, Elements
  <2> QED
    BY <1>1, <2>3, <2>6, PostGoesOn
<1>3. CASE afterReopen
  <2>1. PICK p \in Post : p = [post EXCEPT !.pc = "add"]
    BY <1>1 DEF Post
  <2>2. p.pc = "add" /\ p.kept = post.kept
    BY <1>1, <2>1 DEF Post
  <2>3. post' = p /\ post.pc = "reopen" /\ UNCHANGED <<jobs, monitor, metric, calc, history>>
    BY <1>3, <2>1 DEF afterReopen
  <2>4. Carried' = Carried
    BY <2>2, <2>3 DEF Carried
  <2>5. Forgotten'
    BY <2>2, <2>3, <2>4 DEF Forgotten, IInv
  <2> QED
    BY <1>1, <2>3, <2>5, PostGoesOn
<1>4. CASE LogMetricSaveConfig
  <2>1. /\ post.pc = "add" /\ jobs' = post.kept /\ post' = NoPost
        /\ UNCHANGED <<monitor, metric, calc, history>>
    BY <1>4 DEF LogMetricSaveConfig
  <2>2. NoPost \in Post /\ NoPost.pc = "idle"
    BY PostFields DEF IInv
  <2>3. Carried' = Carried
    BY <2>1, <2>2 DEF Carried
  <2>4. Forgotten'
    BY <2>1, <2>2, <2>3 DEF Forgotten, IInv
  <2> QED
    BY <1>1, <2>1, <2>2, <2>4, PostGoesOn
<1> QED
  BY <1>2, <1>3, <1>4

LEMMA reopenIInv ==
  ASSUME IInv, NEW j \in Job, reopen(j) \/ new(j)
  PROVE  IInv'
<1> DEFINE m == monitor[j]
<1>1. /\ m \in Monitor /\ HasOneHandler(m) /\ jobs \in Seq(Job)
      /\ dropped \in SUBSET Job /\ post \in Post
  BY SameAsFields, PostFields DEF IInv, TypeOK
<1>2. \A k \in Job : /\ HasOneHandler(monitor[k])
                     /\ LinesIn(monitor[k]) \in Nat /\ LinesIn(monitor[k]) <= LinesIn(monitor[k])
  <2>1. \A k \in Job : HasOneHandler(monitor[k]) /\ LinesIn(monitor[k]) \in Nat
    BY SameAsFields, MonitorFields DEF IInv, TypeOK
  <2> QED
    BY <2>1, SMT
<1>3. CASE reopen(j)
  <2>1. /\ post.pc = "reopen" /\ post.todo # <<>> /\ Head(post.todo) = j
        /\ monitor' = [monitor EXCEPT ![j] = [m EXCEPT !.reopen = TRUE]]
        /\ post' = [post EXCEPT !.todo = Tail(@)]
        /\ UNCHANGED <<jobs, metric, calc, history>>
    BY <1>3 DEF reopen, IInv, TypeOK
  <2>2. PICK n \in Monitor : n = [m EXCEPT !.reopen = TRUE]
    BY <1>1 DEF Monitor
  <2>3. /\ n.phase = m.phase /\ n.cancel = m.cancel /\ n.lines = m.lines
        /\ n.ready = m.ready /\ n.sending = m.sending /\ n.data = m.data
    BY <1>1, <2>2 DEF Monitor
  <2>4. HasOneHandler(n) /\ LinesIn(n) = LinesIn(m)
    BY <1>1, <2>3 DEF HasOneHandler, LinesIn
  <2>5. /\ Tail(post.todo) \in Seq(Job)
        /\ Elements(post.todo) = {j} \cup Elements(Tail(post.todo))
    BY <2>1, PostFields, ElementsOf DEF IInv
  <2>6. PICK p \in Post : p = [post EXCEPT !.todo = Tail(@)]
    BY <1>1, <2>5 DEF Post
  <2>7. p.pc = "reopen" /\ p.todo = Tail(post.todo) /\ p.kept = post.kept
    BY <1>1, <2>1, <2>6 DEF Post
  <2>8. post' = p
    BY <2>1, <2>6
  <2>9. Carried' = Carried
    BY <2>1, <2>7, <2>8 DEF Carried
  <2>10. j \in Carried
    BY <2>1, <2>5 DEF Carried, Forgotten, IInv
  <2>11. /\ monitor' \in [Job -> Monitor] /\ monitor'[j] = n
         /\ \A k \in Job : k # j => monitor'[k] = monitor[k]
    BY <2>1, <2>2 DEF IInv, TypeOK
  <2>12. Elements(p.todo) \subseteq Elements(p.kept)
    BY <2>1, <2>5, <2>7 DEF Forgotten, IInv
  <2>13. (post.pc = "reopen" => Elements(post.todo) \subseteq Elements(post.kept))'
    BY <2>8, <2>12
  <2>14. Forgotten'
    BY <2>9, <2>10, <2>11, <2>13 DEF Forgotten, IInv
  <2>15. \A k \in Job : /\ HasOneHandler(monitor'[k]) /\ LinesIn(monitor'[k]) <= LinesIn(monitor[k])
                        /\ LinesIn(monitor'[k]) = LinesIn(monitor[k])
    BY <1>2, <2>4, <2>11
  <2> QED
    BY <1>1, <2>1, <2>8, <2>11, <2>14, <2>15, PostMoves DEF history
<1>4. CASE new(j)
  <2>1. /\ post.pc = "add" /\ j \notin Elements(post.kept)
        /\ monitor' = [monitor EXCEPT ![j] = [NoMonitor EXCEPT !.phase = "on", !.ready = 1]]
        /\ post' = [post EXCEPT !.kept = Append(@, j)]
        /\ UNCHANGED <<jobs, metric, calc, history>>
    BY <1>4 DEF new
  <2>2. PICK n \in Monitor : n = [NoMonitor EXCEPT !.phase = "on", !.ready = 1]
    <3>1. 1 \in 0 .. 2
      OBVIOUS
    <3> QED
      BY <3>1, NoMonitorFields DEF Monitor
  <2>3. /\ n.phase = "on" /\ n.cancel = FALSE /\ n.lines = 0
        /\ n.ready = 1 /\ n.sending = 0 /\ n.data = 0
    BY <2>2 DEF NoMonitor
  <2>4. HasOneHandler(n) /\ LinesIn(n) = 0
    BY <2>3 DEF HasOneHandler, LinesIn
  <2>5. m = NoMonitor
    BY <2>1 DEF Forgotten, Carried, IInv
  <2>6. /\ Append(post.kept, j) \in Seq(Job)
        /\ Elements(Append(post.kept, j)) = Elements(post.kept) \cup {j}
    BY PostFields, ElementsOf DEF IInv
  <2>7. PICK p \in Post : p = [post EXCEPT !.kept = Append(@, j)]
    BY <1>1, <2>6 DEF Post
  <2>8. p.pc = "add" /\ p.kept = Append(post.kept, j)
    BY <1>1, <2>1, <2>7 DEF Post
  <2>9. post' = p
    BY <2>1, <2>7
  <2>10. Carried' = Carried \cup {j}
    BY <2>1, <2>6, <2>8, <2>9 DEF Carried
  <2>11. /\ monitor' \in [Job -> Monitor] /\ monitor'[j] = n
         /\ \A k \in Job : k # j => monitor'[k] = monitor[k]
    BY <2>1, <2>2 DEF IInv, TypeOK
  <2>12. Forgotten'
    BY <2>8, <2>9, <2>10, <2>11 DEF Forgotten, IInv
  <2>13. \A k \in Job : /\ HasOneHandler(monitor'[k]) /\ LinesIn(monitor'[k]) <= LinesIn(monitor[k])
                        /\ LinesIn(monitor'[k]) = LinesIn(monitor[k])
    BY <1>2, <2>4, <2>5, <2>11, NoMonitorFields
  <2> QED
    BY <1>1, <2>1, <2>9, <2>11, <2>12, <2>13, PostMoves DEF history
<1> QED
  BY <1>3, <1>4

-----------------------------------------------------------------------------
(* The calculation *)

Calc == [pc : {"idle", "take"}, todo : SUBSET Job, got : [Job -> 0 .. ChanSize]]

LEMMA CalcFields ==
  ASSUME TypeOK
  PROVE  /\ calc \in Calc /\ calc.todo \subseteq Job /\ calc.got \in [Job -> 0 .. ChanSize]
         /\ NoCalc \in Calc /\ NoCalc.pc = "idle" /\ NoCalc.got = [j \in Job |-> 0]
         /\ \A j \in Job : calc.got[j] \in Nat
<1>1. calc \in Calc
  BY DEF TypeOK, Calc
<1>2. calc.todo \subseteq Job /\ calc.got \in [Job -> 0 .. ChanSize]
  BY <1>1 DEF Calc
<1>3. 0 \in 0 .. ChanSize /\ \A x \in 0 .. ChanSize : x \in Nat
  BY LogMetricAssumption, SMT
<1>4. NoCalc \in Calc /\ NoCalc.pc = "idle" /\ NoCalc.got = [j \in Job |-> 0]
  BY <1>3 DEF NoCalc, Calc
<1> QED
  BY <1>1, <1>2, <1>3, <1>4

LEMMA MetricFields ==
  ASSUME NEW x \in Metric
  PROVE  x.exists \in BOOLEAN /\ x.display \in BOOLEAN /\ x.count \in Nat /\ x.age \in 0 .. Step
BY DEF Metric

LEMMA calcLogMetricDataIInv ==
  ASSUME IInv, calcLogMetricData
  PROVE  IInv'
<1> USE DEF IInv
<1>1. /\ calc.pc = "idle" /\ UNCHANGED <<jobs, monitor, post, history>>
      /\ calc' = IF jobs = <<>> THEN NoCalc ELSE [NoCalc EXCEPT !.pc = "take", !.todo = Elements(jobs)]
      /\ metric' = [j \in Job |-> [metric[j] EXCEPT !.age = IF @ < Step THEN @ + 1 ELSE @]]
      /\ jobs \in Seq(Job)
  BY DEF calcLogMetricData, TypeOK
<1>2. PICK c \in Calc : c = IF jobs = <<>> THEN NoCalc
                            ELSE [NoCalc EXCEPT !.pc = "take", !.todo = Elements(jobs)]
  <2>1. Elements(jobs) \subseteq Job
    BY <1>1, ElementsOf
  <2> QED
    BY <2>1, CalcFields DEF Calc
<1>3. c.got = [j \in Job |-> 0] /\ calc' = c
  BY <1>1, <1>2, CalcFields DEF Calc
<1>4. \A j \in Job : calc.got[j] = 0
  BY <1>1 DEF TakenOnce
<1>5. ASSUME NEW j \in Job
      PROVE  /\ metric'[j] \in Metric /\ metric'[j].exists = metric[j].exists
             /\ metric'[j].display = metric[j].display /\ metric'[j].count = metric[j].count
  <2>1. metric[j] \in Metric /\ metric[j].age \in 0 .. Step
    BY MetricFields DEF TypeOK
  <2>2. (IF metric[j].age < Step THEN metric[j].age + 1 ELSE metric[j].age) \in 0 .. Step
    BY <2>1, LogMetricAssumption, SMT
  <2>3. PICK x \in Metric : x = [metric[j] EXCEPT !.age = IF @ < Step THEN @ + 1 ELSE @]
    BY <2>1, <2>2 DEF Metric
  <2>4. x.exists = metric[j].exists /\ x.display = metric[j].display /\ x.count = metric[j].count
    BY <2>1, <2>3 DEF Metric
  <2> QED
    BY <1>1, <2>3, <2>4
<1>6. TypeOK'
  <2>1. metric' \in [Job -> Metric]
    BY <1>1, <1>5
  <2> QED
    BY <1>1, <1>2, <1>3, <2>1 DEF TypeOK, Calc, history
<1>7. OneHandler' /\ Forgotten'
  BY <1>1 DEF OneHandler, Forgotten, Carried
<1>8. TakenOnce'
  BY <1>3 DEF TakenOnce
<1>9. ASSUME Step = 1 PROVE (Displayed /\ EachLineOnce)'
  <2>1. Displayed'
    BY <1>5, <1>9 DEF Displayed
  <2>2. \A j \in Job : Pending(j)' = Pending(j)
    BY <1>5 DEF Pending
  <2>3. \A j \in Job : Inside(j)' = Inside(j) /\ calc'.got[j] = calc.got[j]
    BY <1>1, <1>3, <1>4 DEF Inside
  <2>4. \A j \in Job : InFlight(j)' = InFlight(j)
    BY <2>2, <2>3 DEF InFlight
  <2> QED
    BY <1>1, <1>9, <2>1, <2>4 DEF EachLineOnce, history
<1> QED
  BY <1>6, <1>7, <1>8, <1>9

LEMMA takeIInv ==
  ASSUME IInv, NEW j \in Job, take(j)
  PROVE  IInv'
<1> USE DEF IInv
<1> DEFINE m == monitor[j]
<1>1. /\ calc.pc = "take" /\ j \in calc.todo
      /\ calc' = [calc EXCEPT !.todo = @ \ {j}, !.got[j] = m.data]
      /\ monitor' = [monitor EXCEPT ![j] = [m EXCEPT !.data = 0]]
      /\ UNCHANGED <<jobs, metric, post, history>>
  BY DEF take, TypeOK
<1>2. m \in Monitor /\ HasOneHandler(m) /\ m.data \in 0 .. ChanSize /\ 0 \in 0 .. ChanSize
  <2>1. m \in Monitor /\ HasOneHandler(m)
    BY SameAsFields DEF TypeOK
  <2> QED
    BY <2>1, MonitorFields, LogMetricAssumption, SMT
<1>3. calc.got[j] = 0
  BY <1>1 DEF TakenOnce
<1>4. PICK n \in Monitor : n = [m EXCEPT !.data = 0]
  BY <1>2 DEF Monitor
<1>5. /\ n.phase = m.phase /\ n.cancel = m.cancel /\ n.lines = m.lines
      /\ n.ready = m.ready /\ n.sending = m.sending /\ n.data = 0
  BY <1>2, <1>4 DEF Monitor
<1>6. HasOneHandler(n) /\ LinesIn(n) + m.data = LinesIn(m) + 0
  BY <1>2, <1>5, MonitorFields, SMT DEF HasOneHandler, LinesIn
<1>7. PICK c \in Calc : c = [calc EXCEPT !.todo = @ \ {j}, !.got[j] = m.data]
  <2>1. [calc.got EXCEPT ![j] = m.data] \in [Job -> 0 .. ChanSize] /\ calc.todo \ {j} \subseteq Job
    BY <1>2, CalcFields
  <2> QED
    BY <2>1, CalcFields DEF Calc
<1>8. c.pc = "take" /\ c.todo = calc.todo \ {j} /\ c.got = [calc.got EXCEPT ![j] = m.data]
  BY <1>1, <1>7, CalcFields DEF Calc
<1>9. c.got[j] = m.data /\ \A k \in Job : k # j => c.got[k] = calc.got[k]
  BY <1>8, CalcFields
<1>10. calc' = c
  BY <1>1, <1>7
<1>11. /\ monitor' \in [Job -> Monitor] /\ monitor'[j] = n
       /\ \A k \in Job : k # j => monitor'[k] = monitor[k]
  BY <1>1, <1>4 DEF TypeOK
<1>12. TypeOK'
  BY <1>1, <1>7, <1>10, <1>11 DEF TypeOK, Calc, history
<1>13. OneHandler'
  <2>1. \A k \in Job : HasOneHandler(monitor'[k])
    BY <1>6, <1>11, SameAsFields
  <2> QED
    BY <2>1 DEF OneHandler, HasOneHandler
<1>14. Forgotten'
  <2>1. Carried' = Carried
    BY <1>1 DEF Carried
  <2>2. m = NoMonitor => n = NoMonitor
    <3>1. [NoMonitor EXCEPT !.data = 0] = NoMonitor
      BY DEF NoMonitor
    <3> QED
      BY <1>4, <3>1
  <2>3. \A k \in Job : k \notin Carried' => monitor'[k] = NoMonitor
    BY <1>4, <1>11, <2>1, <2>2 DEF Forgotten
  <2>4. (post.pc = "reopen" => Elements(post.todo) \subseteq Elements(post.kept))'
    BY <1>1 DEF Forgotten
  <2> QED
    BY <2>3, <2>4 DEF Forgotten
<1>15. TakenOnce'
  BY <1>1, <1>8, <1>9, <1>10 DEF TakenOnce
<1>16. ASSUME Step = 1 PROVE (Displayed /\ EachLineOnce)'
  <2>1. Displayed'
    BY <1>1, <1>16 DEF Displayed
  <2>2. \A k \in Job : Pending(k)' = Pending(k) /\ Pending(k) \in Nat
    BY <1>1, MetricFields DEF Pending, TypeOK
  <2>3. \A k \in Job : k # j => Inside(k)' = Inside(k) /\ calc'.got[k] = calc.got[k]
    BY <1>9, <1>10, <1>11 DEF Inside
  <2>4. InFlight(j)' = InFlight(j)
    <3>1. InFlight(j)' = LinesIn(n) + m.data + Pending(j)
      BY <1>9, <1>10, <1>11, <2>2 DEF InFlight, Inside, LinesIn
    <3>2. InFlight(j) = LinesIn(m) + 0 + Pending(j)
      BY <1>3, SameAsFields DEF InFlight
    <3> QED
      BY <1>6, <3>1, <3>2
  <2>5. \A k \in Job : InFlight(k)' = InFlight(k)
    BY <2>2, <2>3, <2>4 DEF InFlight
  <2> QED
    BY <1>1, <1>16, <2>1, <2>5 DEF EachLineOnce, history
<1> QED
  BY <1>12, <1>13, <1>14, <1>15, <1>16

(* What a metric is after a calculation. *)
LEMMA PublishedFields ==
  ASSUME IInv, NEW j \in Job
  PROVE  /\ Published(j) \in Metric
         /\ Step = 1 =>
              /\ Published(j).exists => Published(j).display
              /\ Published(j).display => Published(j).count = calc.got[j]
              /\ ~Published(j).display => calc.got[j] = 0
<1> USE DEF IInv
<1> DEFINE x == metric[j]
           waiting == x.exists /\ ~x.display
           age == IF waiting THEN x.age ELSE 0
           display == Step < 2 \/ ~x.exists \/ age + 1 >= Step
           count == Value(j) + (IF waiting THEN x.count ELSE 0)
           y == [exists |-> TRUE, display |-> display, count |-> count,
                 age |-> IF display THEN 0 ELSE age]
<1>1. /\ x.exists \in BOOLEAN /\ x.display \in BOOLEAN /\ x.count \in Nat /\ x.age \in 0 .. Step
      /\ calc.got[j] \in Nat
  BY MetricFields, CalcFields DEF TypeOK
<1>2. Value(j) \in Nat
  BY <1>1 DEF Value
<1>3. count \in Nat
  BY <1>1, <1>2
<1>4. (IF display THEN 0 ELSE age) \in 0 .. Step
  <2>1. 0 \in 0 .. Step
    BY LogMetricAssumption, SMT
  <2> QED
    BY <1>1, <2>1
<1>5. display \in BOOLEAN
  OBVIOUS
<1>6. y.exists = TRUE /\ y.display = display /\ y.count = count
  OBVIOUS
<1>7. Published(j) = IF calc.got[j] = 0 /\ ~x.exists THEN NoMetric ELSE y
  BY DEF Published
<1>8. NoMetric \in Metric /\ NoMetric.exists = FALSE /\ NoMetric.display = FALSE
  BY LogMetricAssumption, SMT DEF NoMetric, Metric
<1>9. y \in Metric
  <2> HIDE DEF count, display, age
  <2> QED
    BY <1>3, <1>4, <1>5 DEF Metric
<1>10. ASSUME Step = 1
       PROVE  display /\ (count = calc.got[j] \/ (calc.got[j] = 0 /\ ~x.exists))
  <2>1. ~waiting
    BY <1>10 DEF Displayed
  <2>2. count = Value(j)
    BY <1>2, <2>1
  <2>3. x.exists => Value(j) = calc.got[j]
    BY <1>1, <1>10, SMT DEF Value, Displayed
  <2>4. ~x.exists => count = calc.got[j] \/ calc.got[j] = 0
    BY <1>1, <2>2, SMT DEF Value
  <2>5. Step < 2
    BY <1>10, SMT
  <2>6. display
    BY <2>5
  <2>7. x.exists => count = calc.got[j]
    BY <2>2, <2>3
  <2> HIDE DEF display, count
  <2> QED
    BY <1>1, <2>4, <2>6, <2>7
<1> QED
  BY <1>6, <1>7, <1>8, <1>9, <1>10

LEMMA publishIInv ==
  ASSUME IInv, publish
  PROVE  IInv'
<1> USE DEF IInv
<1>1. /\ metric' = [j \in Job |-> Published(j)]
      /\ shown' = [j \in Job |->
                     IF Published(j).display THEN shown[j] + Published(j).count ELSE shown[j]]
      /\ calc' = NoCalc /\ UNCHANGED <<jobs, monitor, post, found, dropped>>
  BY DEF publish
<1>2. metric' \in [Job -> Metric]
  BY <1>1, PublishedFields
<1>3. shown' \in [Job -> Nat]
  <2>1. ASSUME NEW j \in Job
        PROVE  (IF Published(j).display THEN shown[j] + Published(j).count ELSE shown[j]) \in Nat
    <3>1. shown[j] \in Nat /\ Published(j).count \in Nat
      BY PublishedFields, MetricFields DEF TypeOK
    <3> QED
      BY <3>1
  <2> QED
    BY <1>1, <2>1
<1>4. NoCalc \in Calc /\ NoCalc.got = [j \in Job |-> 0]
  BY CalcFields
<1>5. TypeOK'
  BY <1>1, <1>2, <1>3, <1>4 DEF TypeOK, Calc
<1>6. OneHandler' /\ Forgotten'
  BY <1>1 DEF OneHandler, Forgotten, Carried
<1>7. TakenOnce'
  BY <1>1, <1>4 DEF TakenOnce
<1>8. ASSUME Step = 1 PROVE (Displayed /\ EachLineOnce)'
  <2>1. Displayed'
    BY <1>1, <1>8, PublishedFields DEF Displayed
  <2>2. \A j \in Job : Pending(j) = 0 /\ Pending(j)' = 0
    BY <1>8, <2>1 DEF Pending, Displayed
  <2>3. \A j \in Job : Inside(j)' = Inside(j) /\ Inside(j) \in Nat
    BY <1>1, SameAsFields, MonitorFields DEF Inside, TypeOK
  <2>4. ASSUME NEW j \in Job
        PROVE  shown'[j] + InFlight(j)' = shown[j] + InFlight(j)
    <3>1. shown[j] \in Nat /\ calc.got[j] \in Nat
      BY CalcFields DEF TypeOK
    <3>2. shown'[j] = shown[j] + calc.got[j]
      <4>1. shown'[j] = IF Published(j).display THEN shown[j] + Published(j).count ELSE shown[j]
        BY <1>1
      <4>2. CASE Published(j).display
        BY <1>8, <4>1, <4>2, PublishedFields
      <4>3. CASE ~Published(j).display
        <5>1. calc.got[j] = 0
          BY <1>8, <4>3, PublishedFields
        <5> QED
          BY <3>1, <4>1, <4>3, <5>1
      <4> QED
        BY <4>2, <4>3
    <3>3. InFlight(j)' = Inside(j) + 0 + 0
      BY <1>1, <1>4, <2>2, <2>3 DEF InFlight
    <3>4. InFlight(j) = Inside(j) + calc.got[j] + 0
      BY <2>2 DEF InFlight
    <3> QED
      BY <2>3, <3>1, <3>2, <3>3, <3>4, SMT
  <2> QED
    BY <1>1, <1>8, <2>1, <2>4 DEF EachLineOnce
<1> QED
  BY <1>5, <1>6, <1>7, <1>8

-----------------------------------------------------------------------------
(* The theorems *)

LEMMA InitIInv ==
  ASSUME Init
  PROVE  IInv
<1>1. TypeOK
  <2>1. 0 \in 0 .. Step /\ 0 \in 0 .. ChanSize /\ <<>> \in Seq(Job)
    BY LogMetricAssumption, SMT
  <2>2. NoMetric \in Metric
    BY <2>1 DEF NoMetric, Metric
  <2> QED
    BY <2>1, <2>2, NoMonitorFields DEF Init, TypeOK, NoCalc, NoPost
<1>2. OneHandler
  BY NoMonitorFields DEF Init, OneHandler, HasOneHandler
<1>3. Forgotten
  BY DEF Init, Forgotten, NoPost
<1>4. TakenOnce
  BY DEF Init, TakenOnce, NoCalc
<1>5. Displayed
  BY DEF Init, Displayed, NoMetric
<1>6. EachLineOnce
  <2>1. ASSUME NEW j \in Job PROVE shown[j] + InFlight(j) = 0 /\ found[j] = 0
    <3>1. Inside(j) = 0
      BY NoMonitorFields DEF Init, Inside, LinesIn
    <3>2. Pending(j) = 0 /\ calc.got[j] = 0 /\ shown[j] = 0 /\ found[j] = 0
      BY DEF Init, Pending, NoMetric, NoCalc
    <3> QED
      BY <3>1, <3>2 DEF InFlight
  <2> QED
    BY <2>1 DEF EachLineOnce
<1> QED
  BY <1>1, <1>2, <1>3, <1>4, <1>5, <1>6 DEF IInv

LEMMA NextIInv ==
  ASSUME IInv, [Next]_vars
  PROVE  IInv'
<1>1. CASE UNCHANGED vars
  <2>1. /\ UNCHANGED <<jobs, monitor, metric, calc, post, found, shown, dropped>>
        /\ monitor \in [Job -> Monitor] /\ post \in Post /\ jobs \in Seq(Job)
    BY <1>1, PostFields DEF vars, history, IInv, TypeOK
  <2>2. Forgotten'
    BY <2>1 DEF IInv, Forgotten, Carried
  <2> QED
    BY <2>1, <2>2, PostGoesOn DEF history
<1>2. CASE Next
  <2>1. CASE \E j \in Job : newLine(j) \/ Reopens(j) \/ takeLine(j) \/ sendData(j) \/ handlerEnds(j)
    BY <2>1, newLineIInv, startIInv, handlerIInv DEF Reopens
  <2>2. CASE LogMetricMonitorHttpHandle
    BY <2>2, HttpHandleIInv
  <2>3. CASE Posts
    BY <2>3, updateIInv, reopenIInv, afterIInv DEF Posts
  <2>4. CASE calcLogMetricData
    BY <2>4, calcLogMetricDataIInv
  <2>5. CASE Calculates
    BY <2>5, takeIInv, publishIInv DEF Calculates
  <2> QED
    BY <1>2, <2>1, <2>2, <2>3, <2>4, <2>5 DEF Next
<1> QED
  BY <1>1, <1>2

THEOREM Invariance == Spec => []IInv
<1>1. Init => IInv
  BY InitIInv
<1>2. IInv /\ [Next]_vars => IInv'
  BY NextIInv
<1> QED
  BY <1>1, <1>2, PTL DEF Spec

(* Channels and lists keep their types: no more values are in a channel    *)
(* than it holds, and never more than two handlers follow a file.          *)
THEOREM TypeCorrect == Spec => []TypeOK
<1>1. IInv => TypeOK
  BY DEF IInv
<1> QED
  BY <1>1, Invariance, PTL

(* However often posts open a file anew, the handlers of a monitor are one *)
(* for its goroutine and one for the token that is to end it.              *)
THEOREM OneHandlerCorrect == Spec => []OneHandler
<1>1. IInv => OneHandler
  BY DEF IInv
<1> QED
  BY <1>1, Invariance, PTL

(* With the step of ten seconds, each line is counted once.                *)
THEOREM LineCorrect ==
  ASSUME Step = 1
  PROVE  Spec => []EachLineOnce
<1>1. IInv => EachLineOnce
  BY DEF IInv
<1> QED
  BY <1>1, Invariance, PTL
=============================================================================
