------------------------ MODULE KeywordAlarm_proofs ------------------------
(***************************************************************************)
(* Proofs that the safety properties of KeywordAlarm hold for any number   *)
(* of goroutines, hits and alarms.                                         *)
(***************************************************************************)
EXTENDS KeywordAlarm, TLAPS

(* Ids that were not given out yet are known to nobody. *)
UnusedAbove ==
  /\ \A a \in AlarmId : a >= nextId => alarm[a] = "unused" /\ told[a] = 0
  /\ \A w \in Worker : \A a \in job[w].seen : a < nextId

(* What a job has read counts from the start of the exporter, or from an   *)
(* earlier one.                                                            *)
DataCounts ==
  \A w \in Worker : job[w].pc \in {"build", "write"} =>
    /\ job[w].data > 0 /\ job[w].at <= hits
    /\ base >= job[w].at \/ job[w].data = job[w].at - base

ReportedIsHit == reported <= hits /\ (kw = NoRow => reported = 0)

(* The rest is about jobs that take turns. *)
Busy(w) == job[w].pc \in {"build", "write", "notify"}
OneJob == \A v, w \in Worker : Busy(v) /\ Busy(w) => v = w

FiringIsRow == \A a \in FiringAlarms : kw.alarm = a /\ kw.status = "firing"

(* The row has the value of the last hit reported, if the exporter counts  *)
(* as it did then.                                                         *)
RowCounts == base >= reported \/ (kw # NoRow /\ OldValue = reported - base)

(* A value that is not the row's is that of a later hit. *)
BuildsFromNews ==
  \A w \in Worker : job[w].pc = "build" =>
    \/ job[w].at > reported
    \/ job[w].at = reported /\ kw # NoRow /\ job[w].data = OldValue

WritesNews ==
  \A w \in Worker : job[w].pc = "write" =>
    /\ job[w].at > reported
    /\ job[w].id = NoAlarm => FiringAlarms = {}

ToldOnce ==
  /\ \A a \in AlarmId : told[a] <= 1
  /\ \A w \in Worker : job[w].pc = "notify" => \A a \in FiringAlarms : told[a] = 0

InTurn ==
  OneJob /\ FiringIsRow /\ RowCounts /\ BuildsFromNews /\ WritesNews /\ ToldOnce

IInv ==
  /\ TypeOK /\ UnusedAbove /\ DataCounts /\ ReportedIsHit
  /\ RowTellsItsAlarm
  /\ ~overlapped => InTurn

-----------------------------------------------------------------------------
(* Types *)

(* A local state has the fields that Job gives it. *)
LEMMA JobFields ==
  ASSUME TypeOK, NEW w \in Worker
  PROVE  /\ job[w].pc \in {"idle", "build", "write", "notify", "close"}
         /\ job[w].data \in Nat /\ job[w].data <= MaxHits
         /\ job[w].at \in Nat /\ job[w].at <= MaxHits
         /\ job[w].id \in Nat
         /\ job[w].id # NoAlarm => job[w].id \in AlarmId
         /\ job[w].seen \subseteq AlarmId
<1>1. job[w] \in Job
  BY DEF TypeOK
<1> QED
  BY <1>1, KeywordAlarmAssumption, SMT DEF Job, Hits, AlarmId, NoAlarm

(* So has the row. *)
LEMMA RowFields ==
  ASSUME TypeOK
  PROVE  /\ kw.status \in {"none", "firing", "closed"}
         /\ kw.start_value \in Nat /\ kw.end_value \in Nat /\ OldValue \in Nat
         /\ kw.alarm \in Nat
         /\ kw # NoRow => kw \in Row /\ kw.alarm \in AlarmId /\ kw.status \in {"firing", "closed"}
         /\ kw = NoRow => kw.alarm = NoAlarm /\ kw.status = "none"
<1>1. CASE kw = NoRow
  BY <1>1, SMT DEF NoRow, NoAlarm, OldValue
<1>2. CASE kw \in Row
  <2>1. /\ kw.alarm \in AlarmId /\ kw.status \in {"firing", "closed"}
        /\ kw.start_value \in Hits /\ kw.end_value \in Hits
    BY <1>2 DEF Row
  <2>2. kw # NoRow
    BY <2>1, SMT DEF NoRow
  <2> QED
    BY <1>2, <2>1, <2>2, KeywordAlarmAssumption, SMT DEF AlarmId, Hits, OldValue
<1> QED
  BY <1>1, <1>2 DEF TypeOK

(* A job that gives up, or a process that starts anew, harms nothing. *)
LEMMA LessWork ==
  ASSUME IInv, UNCHANGED <<world, tables, history>>,
         job' \in [Worker -> Job],
         \A w \in Worker : job'[w] = job[w] \/ job'[w] = Idle
  PROVE  IInv'
<1> USE DEF IInv
<1>1. TypeOK'
  BY DEF TypeOK, world, tables, history
<1>2. UnusedAbove'
  BY SMT DEF UnusedAbove, Idle, world, tables, history
<1>3. DataCounts' /\ ReportedIsHit' /\ RowTellsItsAlarm'
  BY SMT DEF DataCounts, ReportedIsHit, RowTellsItsAlarm, Idle, world, tables, history
<1>4. ASSUME ~overlapped' PROVE InTurn'
  <2>1. InTurn /\ kw' = kw /\ reported' = reported /\ base' = base /\ told' = told /\ alarm' = alarm
    BY <1>4 DEF world, tables, history
  <2>2. FiringAlarms' = FiringAlarms /\ OldValue' = OldValue
    BY <2>1 DEF FiringAlarms, OldValue
  <2>3. OneJob'
    BY <2>1, SMT DEF InTurn, OneJob, Busy, Idle
  <2>4. FiringIsRow' /\ RowCounts'
    BY <2>1, <2>2 DEF InTurn, FiringIsRow, RowCounts
  <2>5. BuildsFromNews' /\ WritesNews'
    BY <2>1, <2>2, SMT DEF InTurn, BuildsFromNews, WritesNews, Idle
  <2>6. ToldOnce'
    BY <2>1, <2>2, SMT DEF InTurn, ToldOnce, Idle
  <2> QED
    BY <2>3, <2>4, <2>5, <2>6 DEF InTurn
<1> QED
  BY <1>1, <1>2, <1>3, <1>4

-----------------------------------------------------------------------------
(* The invariant holds at first, and every action keeps it. *)

LEMMA InitIInv == Init => IInv
<1> SUFFICES ASSUME Init PROVE IInv
  OBVIOUS
<1>1. Idle \in Job
  BY KeywordAlarmAssumption, SMT DEF Idle, Job, Hits
<1>2. /\ \A w \in Worker : job[w] = Idle
      /\ \A a \in AlarmId : alarm[a] = "unused" /\ told[a] = 0
      /\ hits = 0 /\ base = 0 /\ kw = NoRow /\ reported = 0 /\ nextId = 1
  BY DEF Init
<1>3. TypeOK
  <2>1. hits \in Hits /\ base \in Hits /\ base <= hits /\ reported \in Hits
    BY <1>2, KeywordAlarmAssumption, SMT DEF Hits
  <2>2. nextId \in 1 .. (MaxAlarms + 1)
    BY <1>2, KeywordAlarmAssumption, SMT
  <2>3. job \in [Worker -> Job] /\ alarm \in [AlarmId -> {"unused", "firing", "closed"}]
        /\ told \in [AlarmId -> 0 .. 2]
    BY <1>1, SMT DEF Init
  <2>4. window \in BOOLEAN /\ overlapped \in BOOLEAN /\ owed \in BOOLEAN /\ platform \in BOOLEAN
    BY Zenon DEF Init
  <2> QED
    BY <1>2, <2>1, <2>2, <2>3, <2>4 DEF TypeOK
<1>4. FiringAlarms = {}
  BY <1>2 DEF FiringAlarms
<1>5. UnusedAbove /\ DataCounts /\ ReportedIsHit /\ RowTellsItsAlarm
  BY <1>2, SMT DEF UnusedAbove, DataCounts, ReportedIsHit, RowTellsItsAlarm, Idle
<1>6. OneJob /\ FiringIsRow /\ RowCounts /\ BuildsFromNews /\ WritesNews /\ ToldOnce
  BY <1>2, <1>4, SMT DEF OneJob, Busy, FiringIsRow, RowCounts, BuildsFromNews, WritesNews, ToldOnce, Idle
<1> QED
  BY <1>3, <1>5, <1>6 DEF IInv, InTurn

(* The job reads a count: if the last hit is one that was reported already, *)
(* the count is the row's value.                                           *)
LEMMA StartIInv ==
  ASSUME IInv, NEW w \in Worker, doLogKeywordMonitorJob(w)
  PROVE  IInv'
<1> USE DEF IInv
<1>1. /\ job[w].pc = "idle" /\ hits > base
      /\ job' = [job EXCEPT ![w] = [Idle EXCEPT !.pc = "build", !.data = hits - base, !.at = hits]]
      /\ overlapped' = (overlapped \/ \E v \in Worker : job[v].pc \in {"build", "write", "notify"})
      /\ UNCHANGED <<hits, base, window, alarm, nextId, kw, reported, owed, told, platform>>
  BY DEF doLogKeywordMonitorJob, world, tables
<1>2. /\ hits \in Nat /\ base \in Nat /\ reported \in Nat /\ hits \in Hits
      /\ hits - base \in Hits /\ hits - base > 0 /\ hits <= MaxHits /\ hits - base \in Nat
  BY <1>1, KeywordAlarmAssumption, SMT DEF TypeOK, Hits
<1>3. PICK d \in Hits : d = hits - base
  BY <1>2
<1>4. PICK h \in Hits : h = hits
  BY <1>2
<1>5. PICK J \in Job : J = [Idle EXCEPT !.pc = "build", !.data = d, !.at = h]
  BY DEF Idle, Job
<1>6. job' = [job EXCEPT ![w] = J]
  BY <1>1, <1>3, <1>4, <1>5
<1>7. J.pc = "build" /\ J.data = hits - base /\ J.at = hits /\ J.id = NoAlarm /\ J.seen = {}
  <2>1. J.pc = "build" /\ J.data = d /\ J.at = h /\ J.id = NoAlarm /\ J.seen = {}
    BY <1>5, SMT DEF Idle
  <2> QED
    BY <1>3, <1>4, <2>1
<1>8. job'[w] = J /\ \A v \in Worker : v # w => job'[v] = job[v]
  BY <1>6 DEF TypeOK
<1>9. TypeOK'
  <2>1. job' \in [Worker -> Job]
    BY <1>6 DEF TypeOK
  <2>2. overlapped' \in BOOLEAN
    BY <1>1, Zenon
  <2> QED
    BY <1>1, <2>1, <2>2 DEF TypeOK
<1>10. UnusedAbove'
  <2>1. \A b \in AlarmId : b >= nextId' => alarm'[b] = "unused" /\ told'[b] = 0
    BY <1>1 DEF UnusedAbove
  <2>2. ASSUME NEW v \in Worker, NEW b \in job'[v].seen PROVE b < nextId'
    <3>1. v # w /\ b \in job[v].seen /\ nextId' = nextId
      BY <1>1, <1>7, <1>8, <2>2
    <3> QED
      BY <3>1 DEF UnusedAbove
  <2> QED
    BY <2>1, <2>2 DEF UnusedAbove
<1>11. DataCounts' /\ ReportedIsHit' /\ RowTellsItsAlarm'
  BY <1>1, <1>2, <1>7, <1>8, SMT DEF DataCounts, ReportedIsHit, RowTellsItsAlarm
<1>12. ASSUME ~overlapped' PROVE InTurn'
  <2>1. InTurn /\ FiringAlarms' = FiringAlarms /\ OldValue' = OldValue
    BY <1>1, <1>12 DEF FiringAlarms, OldValue
  <2>2. \A v \in Worker : ~ Busy(v)
    BY <1>1, <1>12 DEF Busy
  <2>3. OneJob'
    BY <1>8, <2>2, SMT DEF OneJob, Busy
  <2>4. FiringIsRow' /\ RowCounts'
    BY <1>1, <2>1 DEF InTurn, FiringIsRow, RowCounts
  <2>5. hits > reported \/ (hits = reported /\ kw # NoRow /\ hits - base = OldValue)
    BY <1>1, <1>2, <2>1, RowFields, SMT DEF InTurn, RowCounts, ReportedIsHit
  <2>6. BuildsFromNews'
    BY <1>1, <1>7, <1>8, <2>1, <2>2, <2>5, SMT DEF BuildsFromNews, Busy
  <2>7. WritesNews' /\ ToldOnce'
    BY <1>1, <1>7, <1>8, <2>1, <2>2, SMT DEF InTurn, WritesNews, ToldOnce, Busy
  <2> QED
    BY <2>3, <2>4, <2>6, <2>7 DEF InTurn
<1> QED
  BY <1>9, <1>10, <1>11, <1>12

(* What the job decides to write is new, and a new alarm is due only when  *)
(* none is open.                                                           *)
LEMMA BuildIInv ==
  ASSUME IInv, NEW w \in Worker, buildKeywordAlarm(w)
  PROVE  IInv'
<1> USE DEF IInv
<1>1. /\ job[w].pc = "build"
      /\ UNCHANGED <<world, tables, history>>
  BY DEF buildKeywordAlarm
<1>2. CASE job' = [job EXCEPT ![w] = Idle]
  <2>1. Idle \in Job
    BY KeywordAlarmAssumption, SMT DEF Idle, Job, Hits
  <2> QED
    BY <1>1, <1>2, <2>1, LessWork DEF TypeOK
<1>3. ASSUME NEW id, Write(w, id),
             \/ kw # NoRow /\ job[w].data # OldValue /\ id = kw.alarm
             \/ id = NoAlarm /\ kw.status # "firing" /\ (kw = NoRow \/ job[w].data # OldValue)
      PROVE  IInv'
  <2>1. id \in AlarmId \cup {NoAlarm}
    BY <1>3, RowFields
  <2>2. PICK j \in Job : j = job[w]
    BY DEF TypeOK
  <2>3. PICK J \in Job : J = [j EXCEPT !.pc = "write", !.id = id]
    BY <2>1 DEF Job
  <2>4. /\ J.pc = "write" /\ J.id = id /\ J.data = job[w].data /\ J.at = job[w].at
        /\ J.seen = job[w].seen
    <3>1. J.pc = "write" /\ J.id = id /\ J.data = j.data /\ J.at = j.at /\ J.seen = j.seen
      BY <2>1, <2>3 DEF Job
    <3> QED
      BY <2>2, <3>1
  <2>5. job' = [job EXCEPT ![w] = J]
    BY <1>3, <2>2, <2>3 DEF Write, TypeOK
  <2>6. job'[w] = J /\ \A v \in Worker : v # w => job'[v] = job[v]
    BY <2>5 DEF TypeOK
  <2>7. /\ UNCHANGED <<hits, base, window, alarm, nextId, kw>>
        /\ UNCHANGED <<overlapped, reported, owed, told, platform>>
    BY <1>1 DEF world, tables, history
  <2>8. TypeOK'
    BY <2>5, <2>4, <2>7 DEF TypeOK
  <2>9. UnusedAbove'
    BY <2>4, <2>6, <2>7, SMT DEF UnusedAbove
  <2>10. DataCounts' /\ ReportedIsHit' /\ RowTellsItsAlarm'
    BY <1>1, <2>4, <2>6, <2>7, SMT DEF DataCounts, ReportedIsHit, RowTellsItsAlarm
  <2>11. ASSUME ~overlapped' PROVE InTurn'
    <3>1. InTurn /\ FiringAlarms' = FiringAlarms /\ OldValue' = OldValue
      BY <2>7, <2>11 DEF FiringAlarms, OldValue
    <3>2. OneJob'
      BY <1>1, <2>4, <2>6, <3>1, SMT DEF InTurn, OneJob, Busy
    <3>3. FiringIsRow' /\ RowCounts'
      BY <2>7, <3>1 DEF InTurn, FiringIsRow, RowCounts
    <3>4. BuildsFromNews'
      BY <2>4, <2>6, <2>7, <3>1, SMT DEF InTurn, BuildsFromNews
    <3>5. job[w].at > reported
      BY <1>1, <1>3, <3>1, SMT DEF InTurn, BuildsFromNews
    <3>6. id = NoAlarm => FiringAlarms = {}
      <4>1. CASE kw.status # "firing"
        BY <4>1, <3>1 DEF InTurn, FiringIsRow
      <4>2. CASE kw # NoRow /\ id = kw.alarm
        BY <4>2, RowFields, KeywordAlarmAssumption, SMT DEF AlarmId, NoAlarm
      <4> QED
        BY <1>3, <4>1, <4>2
    <3>7. WritesNews'
      BY <2>4, <2>6, <2>7, <3>1, <3>5, <3>6, SMT DEF InTurn, WritesNews
    <3>8. ToldOnce'
      BY <2>4, <2>6, <2>7, <3>1, SMT DEF InTurn, ToldOnce
    <3> QED
      BY <3>2, <3>3, <3>4, <3>7, <3>8 DEF InTurn
  <2> QED
    BY <2>8, <2>9, <2>10, <2>11
<1> QED
  <2>1. kw = NoRow => kw.status # "firing"
    BY SMT DEF NoRow
  <2> QED
    BY <1>2, <1>3, <2>1 DEF buildKeywordAlarm

(* The value of a later hit goes into the row. *)
LEMMA UpdateIInv ==
  ASSUME IInv, NEW w \in Worker, updateKeyword(w)
  PROVE  IInv'
<1> USE DEF IInv
<1>1. /\ job[w].pc = "write" /\ job[w].id # NoAlarm /\ kw.alarm = job[w].id
      /\ kw' = [kw EXCEPT !.end_value = job[w].data]
      /\ job' = [job EXCEPT ![w] = Idle]
      /\ UNCHANGED <<hits, base, window, alarm, nextId, overlapped, owed, told, platform>>
  BY DEF updateKeyword, world
<1>2. /\ reported' \in {reported, job[w].at}
      /\ job[w].at > reported => reported' = job[w].at
  BY Zenon DEF updateKeyword, Recorded
<1>3. /\ kw \in Row /\ job[w].data \in Hits /\ job[w].at \in Hits
      /\ job[w].data \in Nat /\ job[w].at \in Nat /\ job[w].data > 0 /\ job[w].at <= hits
      /\ base >= job[w].at \/ job[w].data = job[w].at - base
  <2>1. job[w] \in Job
    BY DEF TypeOK
  <2>2. job[w].data \in Hits /\ job[w].at \in Hits
    BY <2>1 DEF Job
  <2>3. kw # NoRow
    BY <1>1, RowFields
  <2> QED
    BY <1>1, <2>2, <2>3, JobFields, RowFields DEF DataCounts
<1>4. /\ kw' \in Row /\ kw'.alarm = kw.alarm /\ kw'.status = kw.status
      /\ kw'.end_value = job[w].data
  <2>1. PICK d \in Hits : d = job[w].data
    BY <1>3
  <2>2. PICK r \in Row : r = kw
    BY <1>3
  <2>3. kw' = [r EXCEPT !.end_value = d]
    BY <1>1, <2>1, <2>2
  <2>4. kw' \in Row /\ kw'.alarm = r.alarm /\ kw'.status = r.status /\ kw'.end_value = d
    BY <2>3 DEF Row
  <2> QED
    BY <2>1, <2>2, <2>4
<1>5. kw # NoRow /\ kw' # NoRow
  <2>1. \A r \in Row : r # NoRow
    <3>1. ASSUME NEW r \in Row PROVE r.status # NoRow.status
      BY SMT DEF Row, NoRow
    <3> QED
      BY <3>1
  <2> QED
    BY <1>3, <1>4, <2>1
<1>6. Idle \in Job /\ Idle.pc = "idle" /\ Idle.seen = {}
  BY KeywordAlarmAssumption, SMT DEF Idle, Job, Hits
<1>7. job'[w] = Idle /\ \A v \in Worker : v # w => job'[v] = job[v]
  BY <1>1 DEF TypeOK
<1>8. TypeOK'
  <2>1. job' \in [Worker -> Job]
    BY <1>1, <1>6 DEF TypeOK
  <2>2. reported' \in Hits
    BY <1>2, <1>3 DEF TypeOK
  <2> QED
    BY <1>1, <1>4, <2>1, <2>2 DEF TypeOK
<1>9. UnusedAbove'
  <2>1. \A b \in AlarmId : b >= nextId' => alarm'[b] = "unused" /\ told'[b] = 0
    BY <1>1 DEF UnusedAbove
  <2>2. ASSUME NEW v \in Worker, NEW b \in job'[v].seen PROVE b < nextId'
    <3>1. v # w /\ b \in job[v].seen /\ nextId' = nextId
      BY <1>1, <1>6, <1>7, <2>2
    <3> QED
      BY <3>1 DEF UnusedAbove
  <2> QED
    BY <2>1, <2>2 DEF UnusedAbove
<1>10. DataCounts'
  BY <1>1, <1>6, <1>7, SMT DEF DataCounts
<1>11. ReportedIsHit'
  BY <1>1, <1>2, <1>3, <1>5, SMT DEF ReportedIsHit
<1>12. RowTellsItsAlarm'
  BY <1>1, <1>4, <1>5 DEF RowTellsItsAlarm
<1>13. ASSUME ~overlapped' PROVE InTurn'
  <2>1. InTurn /\ FiringAlarms' = FiringAlarms
    BY <1>1, <1>13 DEF FiringAlarms
  <2>2. job[w].at > reported /\ reported' = job[w].at
    BY <1>1, <1>2, <2>1 DEF InTurn, WritesNews
  <2>3. OneJob'
    BY <1>6, <1>7, <2>1, SMT DEF InTurn, OneJob, Busy
  <2>4. FiringIsRow'
    BY <1>1, <1>4, <2>1 DEF InTurn, FiringIsRow
  <2>5. RowCounts'
    <3>1. OldValue' = job[w].data
      BY <1>3, <1>4 DEF OldValue
    <3> QED
      BY <1>1, <1>3, <1>5, <2>2, <3>1 DEF RowCounts
  <2>6. \A v \in Worker : ~ Busy(v)'
    BY <1>1, <1>6, <1>7, <2>1 DEF InTurn, OneJob, Busy
  <2>7. BuildsFromNews' /\ WritesNews'
    BY <2>6 DEF BuildsFromNews, WritesNews, Busy
  <2>8. ToldOnce'
    BY <1>1, <2>1, <2>6 DEF InTurn, ToldOnce, Busy
  <2> QED
    BY <2>3, <2>4, <2>5, <2>7, <2>8 DEF InTurn
<1> QED
  BY <1>8, <1>9, <1>10, <1>11, <1>12, <1>13

(* A new alarm is the only open one, and nobody has heard of it. *)
LEMMA AddIInv ==
  ASSUME IInv, NEW w \in Worker, addKeyword(w)
  PROVE  IInv'
<1> USE DEF IInv
<1>1. /\ job[w].pc = "write" /\ job[w].id = NoAlarm /\ nextId <= MaxAlarms
      /\ alarm' = [alarm EXCEPT ![nextId] = "firing"]
      /\ nextId' = nextId + 1
      /\ kw' = [alarm |-> nextId, status |-> "firing", start_value |-> job[w].data, end_value |-> 0]
      /\ owed' = FALSE
      /\ job' = [job EXCEPT ![w] = [Idle EXCEPT !.pc = "notify"]]
      /\ UNCHANGED <<hits, base, window, overlapped, told, platform>>
  BY DEF addKeyword, world
<1>2. /\ reported' \in {reported, job[w].at}
      /\ job[w].at > reported => reported' = job[w].at
  BY Zenon DEF addKeyword, Recorded
<1>3. /\ job[w].data \in Hits /\ job[w].at \in Hits
      /\ job[w].data \in Nat /\ job[w].at \in Nat /\ job[w].data > 0 /\ job[w].at <= hits
      /\ base >= job[w].at \/ job[w].data = job[w].at - base
  <2>1. job[w] \in Job
    BY DEF TypeOK
  <2>2. job[w].data \in Hits /\ job[w].at \in Hits
    BY <2>1 DEF Job
  <2> QED
    BY <1>1, <2>2, JobFields DEF DataCounts
<1>4. nextId \in AlarmId /\ nextId \in Nat /\ nextId' \in 1 .. (MaxAlarms + 1)
  BY <1>1, KeywordAlarmAssumption, SMT DEF TypeOK, AlarmId
<1>5. /\ kw' \in Row /\ kw'.alarm = nextId /\ kw'.status = "firing"
      /\ kw'.start_value = job[w].data /\ kw'.end_value = 0
  <2>1. PICK d \in Hits : d = job[w].data
    BY <1>3
  <2>2. PICK n \in AlarmId : n = nextId
    BY <1>4
  <2>3. 0 \in Hits
    BY KeywordAlarmAssumption DEF Hits
  <2>4. kw' = [alarm |-> n, status |-> "firing", start_value |-> d, end_value |-> 0]
    BY <1>1, <2>1, <2>2
  <2>5. kw' \in Row /\ kw'.alarm = n /\ kw'.status = "firing" /\ kw'.start_value = d /\ kw'.end_value = 0
    BY <2>3, <2>4, SMT DEF Row
  <2> QED
    BY <2>1, <2>2, <2>5
<1>6. kw' # NoRow
  <2>1. kw'.status # NoRow.status
    BY <1>5, SMT DEF NoRow
  <2> QED
    BY <2>1
<1>7. PICK J \in Job : J = [Idle EXCEPT !.pc = "notify"]
  <2>1. 0 \in Hits
    BY KeywordAlarmAssumption DEF Hits
  <2> QED
    BY <2>1 DEF Idle, Job
<1>8. J.pc = "notify" /\ J.seen = {}
  BY <1>7, SMT DEF Idle
<1>9. job' = [job EXCEPT ![w] = J]
  BY <1>1, <1>7
<1>10. job'[w] = J /\ \A v \in Worker : v # w => job'[v] = job[v]
  BY <1>9 DEF TypeOK
<1>11. alarm'[nextId] = "firing" /\ \A b \in AlarmId : b # nextId => alarm'[b] = alarm[b]
  BY <1>1, <1>4 DEF TypeOK
<1>12. TypeOK'
  <2>1. job' \in [Worker -> Job]
    BY <1>9 DEF TypeOK
  <2>2. reported' \in Hits
    BY <1>2, <1>3 DEF TypeOK
  <2>3. alarm' \in [AlarmId -> {"unused", "firing", "closed"}]
    BY <1>1, <1>4 DEF TypeOK
  <2>4. owed' \in BOOLEAN
    BY <1>1
  <2> QED
    BY <1>1, <1>4, <1>5, <2>1, <2>2, <2>3, <2>4 DEF TypeOK
<1>13. UnusedAbove'
  <2>1. ASSUME NEW b \in AlarmId, b >= nextId' PROVE alarm'[b] = "unused" /\ told'[b] = 0
    <3>1. b >= nextId /\ b # nextId
      BY <1>1, <1>4, <2>1, SMT DEF AlarmId
    <3> QED
      BY <1>1, <1>11, <3>1 DEF UnusedAbove
  <2>2. ASSUME NEW v \in Worker, NEW b \in job'[v].seen PROVE b < nextId'
    <3>1. v # w /\ b \in job[v].seen
      BY <1>8, <1>10, <2>2
    <3>2. b < nextId /\ b \in Nat
      BY <3>1, JobFields, SMT DEF UnusedAbove, AlarmId
    <3> QED
      BY <1>1, <1>4, <3>2
  <2> QED
    BY <2>1, <2>2 DEF UnusedAbove
<1>14. DataCounts'
  BY <1>1, <1>8, <1>10, SMT DEF DataCounts
<1>15. ReportedIsHit'
  BY <1>1, <1>2, <1>3, <1>6, SMT DEF ReportedIsHit
<1>16. RowTellsItsAlarm'
  BY <1>5, <1>11 DEF RowTellsItsAlarm
<1>17. ASSUME ~overlapped' PROVE InTurn'
  <2>1. InTurn
    BY <1>1, <1>17
  <2>2. job[w].at > reported /\ reported' = job[w].at /\ FiringAlarms = {}
    BY <1>1, <1>2, <2>1 DEF InTurn, WritesNews
  <2>3. FiringAlarms' = {nextId}
    BY <1>4, <1>11, <2>2 DEF FiringAlarms
  <2>4. told'[nextId] = 0
    BY <1>1, <1>4 DEF UnusedAbove
  <2>5. OneJob'
    BY <1>1, <1>8, <1>10, <2>1, SMT DEF InTurn, OneJob, Busy
  <2>6. FiringIsRow'
    BY <1>5, <2>3 DEF FiringIsRow
  <2>7. RowCounts'
    <3>1. OldValue' = job[w].data
      BY <1>3, <1>5 DEF OldValue
    <3> QED
      BY <1>1, <1>3, <1>6, <2>2, <3>1 DEF RowCounts
  <2>8. \A v \in Worker : job'[v].pc \notin {"build", "write"}
    BY <1>1, <1>8, <1>10, <2>1 DEF InTurn, OneJob, Busy
  <2>9. BuildsFromNews' /\ WritesNews'
    BY <2>8 DEF BuildsFromNews, WritesNews
  <2>10. ToldOnce'
    BY <1>1, <2>1, <2>3, <2>4 DEF InTurn, ToldOnce
  <2> QED
    BY <2>5, <2>6, <2>7, <2>9, <2>10 DEF InTurn
<1> QED
  BY <1>12, <1>13, <1>14, <1>15, <1>16, <1>17

(* A transaction that fails changes no table; one whose lost COMMIT counts *)
(* as done announces what is open, and then nothing is.                    *)
LEMMA RollbackIInv ==
  ASSUME IInv, NEW w \in Worker, rollbackKeyword(w)
  PROVE  IInv'
<1> USE DEF IInv
<1>1. job[w].pc = "write" /\ UNCHANGED <<world, tables, history>>
  BY DEF rollbackKeyword
<1>2. CASE job' = [job EXCEPT ![w] = Idle]
  <2>1. Idle \in Job
    BY KeywordAlarmAssumption, SMT DEF Idle, Job, Hits
  <2> QED
    BY <1>1, <1>2, <2>1, LessWork DEF TypeOK
<1>3. CASE job[w].id = NoAlarm /\ job' = [job EXCEPT ![w] = [Idle EXCEPT !.pc = "notify"]]
  <2>1. PICK J \in Job : J = [Idle EXCEPT !.pc = "notify"]
    <3>1. 0 \in Hits
      BY KeywordAlarmAssumption DEF Hits
    <3> QED
      BY <3>1 DEF Idle, Job
  <2>2. J.pc = "notify" /\ J.seen = {}
    BY <2>1, SMT DEF Idle
  <2>3. job' = [job EXCEPT ![w] = J]
    BY <1>3, <2>1
  <2>4. job'[w] = J /\ \A v \in Worker : v # w => job'[v] = job[v]
    BY <2>3 DEF TypeOK
  <2>5. UNCHANGED <<hits, base, window, alarm, nextId, kw, overlapped, reported, owed, told, platform>>
    BY <1>1 DEF world, tables, history
  <2>6. TypeOK'
    BY <2>3, <2>5 DEF TypeOK
  <2>7. UnusedAbove'
    <3>1. \A b \in AlarmId : b >= nextId' => alarm'[b] = "unused" /\ told'[b] = 0
      BY <2>5 DEF UnusedAbove
    <3>2. ASSUME NEW v \in Worker, NEW b \in job'[v].seen PROVE b < nextId'
      <4>1. v # w /\ b \in job[v].seen /\ nextId' = nextId
        BY <2>2, <2>4, <2>5, <3>2
      <4> QED
        BY <4>1 DEF UnusedAbove
    <3> QED
      BY <3>1, <3>2 DEF UnusedAbove
  <2>8. DataCounts' /\ ReportedIsHit' /\ RowTellsItsAlarm'
    BY <2>2, <2>4, <2>5, SMT DEF DataCounts, ReportedIsHit, RowTellsItsAlarm
  <2>9. ASSUME ~overlapped' PROVE InTurn'
    <3>1. InTurn /\ FiringAlarms' = FiringAlarms /\ OldValue' = OldValue
      BY <2>5, <2>9 DEF FiringAlarms, OldValue
    <3>2. FiringAlarms = {}
      BY <1>1, <1>3, <3>1 DEF InTurn, WritesNews
    <3>3. OneJob'
      BY <1>1, <2>2, <2>4, <3>1, SMT DEF InTurn, OneJob, Busy
    <3>4. FiringIsRow' /\ RowCounts'
      BY <2>5, <3>1 DEF InTurn, FiringIsRow, RowCounts
    <3>5. \A v \in Worker : job'[v].pc \notin {"build", "write"}
      BY <1>1, <2>2, <2>4, <3>1 DEF InTurn, OneJob, Busy
    <3>6. BuildsFromNews' /\ WritesNews'
      BY <3>5 DEF BuildsFromNews, WritesNews
    <3>7. ToldOnce'
      BY <2>5, <3>1, <3>2 DEF InTurn, ToldOnce
    <3> QED
      BY <3>3, <3>4, <3>6, <3>7 DEF InTurn
  <2> QED
    BY <2>6, <2>7, <2>8, <2>9
<1> QED
  BY <1>2, <1>3 DEF rollbackKeyword

(* The alarm that is announced is one that nobody has announced. *)
LEMMA NotifyIInv ==
  ASSUME IInv, NEW w \in Worker, notifyKeyword(w)
  PROVE  IInv'
<1> USE DEF IInv
<1>1. /\ job[w].pc = "notify" /\ job' = [job EXCEPT ![w] = Idle]
      /\ UNCHANGED <<hits, base, window, alarm, nextId, kw, overlapped, reported, owed, platform>>
  BY DEF notifyKeyword, world, tables
<1>2. Idle \in Job /\ Idle.pc = "idle" /\ Idle.seen = {}
  BY KeywordAlarmAssumption, SMT DEF Idle, Job, Hits
<1>3. job'[w] = Idle /\ \A v \in Worker : v # w => job'[v] = job[v]
  BY <1>1 DEF TypeOK
<1>4. CASE told' = told
  <2>1. \A v \in Worker : job'[v] = job[v] \/ job'[v] = Idle
    BY <1>3
  <2>2. job' \in [Worker -> Job]
    BY <1>1, <1>2 DEF TypeOK
  <2>3. UNCHANGED <<world, tables, history>>
    BY <1>1, <1>4 DEF world, tables, history
  <2> QED
    BY <2>1, <2>2, <2>3, LessWork
<1>5. ASSUME NEW a \in FiringAlarms,
             told' = [told EXCEPT ![a] = IF @ < 2 THEN @ + 1 ELSE @]
      PROVE  IInv'
  <2>1. a \in AlarmId /\ told[a] \in 0 .. 2 /\ alarm[a] = "firing"
    BY DEF FiringAlarms, TypeOK
  <2>2. /\ told'[a] = IF told[a] < 2 THEN told[a] + 1 ELSE told[a]
        /\ \A b \in AlarmId : b # a => told'[b] = told[b]
    BY <1>5, <2>1 DEF TypeOK
  <2>3. TypeOK'
    <3>1. (IF told[a] < 2 THEN told[a] + 1 ELSE told[a]) \in 0 .. 2
      BY <2>1, SMT
    <3>2. told' \in [AlarmId -> 0 .. 2]
      BY <1>5, <2>1, <3>1 DEF TypeOK
    <3>3. job' \in [Worker -> Job]
      BY <1>1, <1>2 DEF TypeOK
    <3> QED
      BY <1>1, <3>2, <3>3 DEF TypeOK
  <2>4. UnusedAbove'
    <3>1. ASSUME NEW b \in AlarmId, b >= nextId' PROVE alarm'[b] = "unused" /\ told'[b] = 0
      <4>1. alarm[b] = "unused" /\ told[b] = 0
        BY <1>1, <3>1 DEF UnusedAbove
      <4>2. b # a
        BY <2>1, <4>1
      <4> QED
        BY <1>1, <2>2, <4>1, <4>2
    <3>2. ASSUME NEW v \in Worker, NEW b \in job'[v].seen PROVE b < nextId'
      <4>1. v # w /\ b \in job[v].seen /\ nextId' = nextId
        BY <1>1, <1>2, <1>3, <3>2
      <4> QED
        BY <4>1 DEF UnusedAbove
    <3> QED
      BY <3>1, <3>2 DEF UnusedAbove
  <2>5. DataCounts' /\ ReportedIsHit' /\ RowTellsItsAlarm'
    BY <1>1, <1>2, <1>3, SMT DEF DataCounts, ReportedIsHit, RowTellsItsAlarm
  <2>6. ASSUME ~overlapped' PROVE InTurn'
    <3>1. InTurn /\ FiringAlarms' = FiringAlarms /\ OldValue' = OldValue
      BY <1>1, <2>6 DEF FiringAlarms, OldValue
    <3>2. \A v \in Worker : ~ Busy(v)'
      BY <1>1, <1>2, <1>3, <3>1 DEF InTurn, OneJob, Busy
    <3>3. OneJob' /\ BuildsFromNews' /\ WritesNews'
      BY <3>2 DEF OneJob, BuildsFromNews, WritesNews, Busy
    <3>4. FiringIsRow' /\ RowCounts'
      BY <1>1, <3>1 DEF InTurn, FiringIsRow, RowCounts
    <3>5. told[a] = 0
      BY <1>1, <3>1 DEF InTurn, ToldOnce
    <3>6. told'[a] = 1
      BY <2>2, <3>5
    <3>7. \A b \in AlarmId : told'[b] <= 1
      BY <2>2, <3>1, <3>6 DEF InTurn, ToldOnce
    <3>8. ToldOnce'
      BY <3>2, <3>7 DEF ToldOnce, Busy
    <3> QED
      BY <3>3, <3>4, <3>8 DEF InTurn
  <2> QED
    BY <2>3, <2>4, <2>5, <2>6
<1> QED
  BY <1>4, <1>5 DEF notifyKeyword

(* A handler that is about to close alarms has read them all. *)
LEMMA ReadsToClose ==
  ASSUME IInv, NEW w \in Worker, NEW A \in SUBSET FiringAlarms,
         job[w].pc = "idle",
         job' = [job EXCEPT ![w] = [Idle EXCEPT !.pc = "close", !.seen = A]],
         UNCHANGED <<world, tables, history>>
  PROVE  IInv'
<1> USE DEF IInv
<1>1. A \in SUBSET AlarmId
  BY DEF FiringAlarms
<1>2. PICK J \in Job : J = [Idle EXCEPT !.pc = "close", !.seen = A]
  <2>1. 0 \in Hits
    BY KeywordAlarmAssumption DEF Hits
  <2> QED
    BY <1>1, <2>1 DEF Idle, Job
<1>3. J.pc = "close" /\ J.seen = A
  BY <1>2, SMT DEF Idle
<1>4. job' = [job EXCEPT ![w] = J]
  BY <1>2
<1>5. job'[w] = J /\ \A v \in Worker : v # w => job'[v] = job[v]
  BY <1>4 DEF TypeOK
<1>6. UNCHANGED <<hits, base, window, alarm, nextId, kw, overlapped, reported, owed, told, platform>>
  BY DEF world, tables, history
<1>7. TypeOK'
  BY <1>4, <1>6 DEF TypeOK
<1>8. UnusedAbove'
  <2>1. \A b \in AlarmId : b >= nextId' => alarm'[b] = "unused" /\ told'[b] = 0
    BY <1>6 DEF UnusedAbove
  <2>2. ASSUME NEW v \in Worker, NEW b \in job'[v].seen PROVE b < nextId'
    <3>1. CASE v # w
      BY <1>5, <1>6, <2>2, <3>1 DEF UnusedAbove
    <3>2. CASE v = w
      <4>1. b \in AlarmId /\ alarm[b] # "unused"
        BY <1>3, <1>5, <2>2, <3>2 DEF FiringAlarms
      <4>2. ~(b >= nextId)
        BY <4>1 DEF UnusedAbove
      <4>3. b \in Nat /\ nextId \in Nat
        BY <4>1, KeywordAlarmAssumption, SMT DEF AlarmId, TypeOK
      <4> QED
        BY <1>6, <4>2, <4>3
    <3> QED
      BY <3>1, <3>2
  <2> QED
    BY <2>1, <2>2 DEF UnusedAbove
<1>9. DataCounts' /\ ReportedIsHit' /\ RowTellsItsAlarm'
  BY <1>3, <1>5, <1>6, SMT DEF DataCounts, ReportedIsHit, RowTellsItsAlarm
<1>10. ASSUME ~overlapped' PROVE InTurn'
  <2>1. InTurn /\ FiringAlarms' = FiringAlarms /\ OldValue' = OldValue
    BY <1>6, <1>10 DEF FiringAlarms, OldValue
  <2>2. OneJob'
    BY <1>3, <1>5, <2>1, SMT DEF InTurn, OneJob, Busy
  <2>3. FiringIsRow' /\ RowCounts'
    BY <1>6, <2>1 DEF InTurn, FiringIsRow, RowCounts
  <2>4. BuildsFromNews' /\ WritesNews'
    BY <1>3, <1>5, <1>6, <2>1, SMT DEF InTurn, BuildsFromNews, WritesNews
  <2>5. ToldOnce'
    BY <1>3, <1>5, <1>6, <2>1, SMT DEF InTurn, ToldOnce
  <2> QED
    BY <2>2, <2>3, <2>4, <2>5 DEF InTurn
<1> QED
  BY <1>7, <1>8, <1>9, <1>10

(* Whoever closes alarms, at most the row's status changes with them, and  *)
(* no alarm begins to fire.                                                *)
LEMMA ClosesIInv ==
  ASSUME IInv, NEW A \in SUBSET AlarmId, \A a \in A : a < nextId,
         Closed(A),
         kw' \in Row \cup {NoRow},
         kw # NoRow <=> kw' # NoRow,
         kw'.alarm = kw.alarm /\ OldValue' = OldValue,
         kw' = kw \/ (kw.alarm \in A /\ kw'.status = "closed"),
         platform' \in BOOLEAN,
         platform' \/ (platform' = platform /\ (kw.alarm \in A => kw'.status = "closed")),
         job' \in [Worker -> Job],
         \A w \in Worker : job'[w] = job[w] \/ job'[w] = Idle,
         UNCHANGED <<hits, base, window, nextId, overlapped, reported, owed, told>>
  PROVE  IInv'
<1> USE DEF IInv
<1>1. \A a \in AlarmId : alarm'[a] = IF a \in A THEN "closed" ELSE alarm[a]
  BY DEF Closed
<1>2. TypeOK'
  <2>1. alarm' \in [AlarmId -> {"unused", "firing", "closed"}]
    BY DEF Closed, TypeOK
  <2> QED
    BY <2>1 DEF TypeOK
<1>3. Idle.pc = "idle" /\ Idle.seen = {}
  BY SMT DEF Idle
<1>4. UnusedAbove'
  <2>1. ASSUME NEW b \in AlarmId, b >= nextId' PROVE alarm'[b] = "unused" /\ told'[b] = 0
    <3>1. alarm[b] = "unused" /\ told[b] = 0
      BY <2>1 DEF UnusedAbove
    <3>2. b \notin A
      BY <2>1, KeywordAlarmAssumption, SMT DEF AlarmId, TypeOK
    <3> QED
      BY <1>1, <3>1, <3>2
  <2>2. ASSUME NEW v \in Worker, NEW b \in job'[v].seen PROVE b < nextId'
    BY <1>3, <2>2 DEF UnusedAbove
  <2> QED
    BY <2>1, <2>2 DEF UnusedAbove
<1>5. DataCounts'
  BY <1>3 DEF DataCounts
<1>6. ReportedIsHit'
  BY DEF ReportedIsHit
<1>7. RowTellsItsAlarm'
  <2>1. kw # NoRow => kw.alarm \in AlarmId
    BY RowFields
  <2> QED
    BY <1>1, <2>1 DEF RowTellsItsAlarm
<1>8. ASSUME ~overlapped' PROVE InTurn'
  <2>1. InTurn /\ \A v \in Worker : job'[v].pc # "idle" => job'[v] = job[v]
    BY <1>3, <1>8
  <2>2. FiringAlarms' = FiringAlarms \ A
    BY <1>1 DEF FiringAlarms
  <2>3. OneJob'
    BY <1>3, <2>1 DEF InTurn, OneJob, Busy
  <2>4. FiringIsRow'
    BY <2>1, <2>2 DEF InTurn, FiringIsRow
  <2>5. RowCounts'
    BY <2>1 DEF InTurn, RowCounts
  <2>6. BuildsFromNews'
    BY <2>1 DEF InTurn, BuildsFromNews
  <2>7. WritesNews'
    BY <2>1, <2>2 DEF InTurn, WritesNews
  <2>8. ToldOnce'
    BY <2>1, <2>2 DEF InTurn, ToldOnce
  <2> QED
    BY <2>3, <2>4, <2>5, <2>6, <2>7, <2>8 DEF InTurn
<1> QED
  BY <1>2, <1>4, <1>5, <1>6, <1>7, <1>8

(* A handler closes what it has read, and the row if it names one of them. *)
LEMMA CloseIInv ==
  ASSUME IInv, NEW w \in Worker, closeTransaction(w)
  PROVE  IInv'
<1>1. TypeOK
  BY DEF IInv
<1>2. /\ Closed(job[w].seen) /\ job' = [job EXCEPT ![w] = Idle]
      /\ UNCHANGED <<hits, base, window, nextId, overlapped, reported, owed, told, platform>>
  BY DEF closeTransaction, world, history
<1>3. job[w].seen \in SUBSET AlarmId /\ \A a \in job[w].seen : a < nextId
  BY <1>1, JobFields DEF IInv, UnusedAbove
<1>4. Idle \in Job
  BY KeywordAlarmAssumption, SMT DEF Idle, Job, Hits
<1>5. job' \in [Worker -> Job] /\ \A v \in Worker : job'[v] = job[v] \/ job'[v] = Idle
  BY <1>1, <1>2, <1>4 DEF TypeOK
<1>6. platform' \in BOOLEAN
  BY <1>1, <1>2 DEF TypeOK
<1>7. CASE kw.alarm \in job[w].seen
  <2>1. kw # NoRow /\ kw \in Row
    <3>1. kw.alarm # NoAlarm
      BY <1>3, <1>7, KeywordAlarmAssumption, SMT DEF AlarmId, NoAlarm
    <3> QED
      BY <1>1, <3>1, RowFields
  <2>2. PICK r \in Row : r = kw
    BY <2>1
  <2>3. kw' = [r EXCEPT !.status = "closed"]
    BY <1>7, <2>2 DEF closeTransaction
  <2>4. /\ kw' \in Row /\ kw'.alarm = r.alarm /\ kw'.status = "closed"
        /\ kw'.start_value = r.start_value /\ kw'.end_value = r.end_value
    BY <2>3 DEF Row
  <2>5. kw' # NoRow
    <3>1. kw'.status # NoRow.status
      BY <2>4, SMT DEF NoRow
    <3> QED
      BY <3>1
  <2>6. OldValue' = OldValue
    BY <2>2, <2>4 DEF OldValue
  <2> QED
    BY <1>2, <1>3, <1>5, <1>6, <1>7, <2>1, <2>2, <2>4, <2>5, <2>6, ClosesIInv
<1>8. CASE kw.alarm \notin job[w].seen
  <2>1. kw' = kw
    BY <1>8 DEF closeTransaction
  <2>2. kw' \in Row \cup {NoRow} /\ OldValue' = OldValue
    BY <1>1, <2>1 DEF TypeOK, OldValue
  <2> QED
    BY <1>2, <1>3, <1>5, <1>6, <1>8, <2>1, <2>2, ClosesIInv
<1> QED
  BY <1>7, <1>8

(* The platform closes an alarm behind the row's back. *)
LEMMA PluginIInv ==
  ASSUME IInv, PluginCloseAlarmAction
  PROVE  IInv'
<1>1. TypeOK
  BY DEF IInv
<1>2. PICK a \in FiringAlarms : Closed({a})
  BY DEF PluginCloseAlarmAction
<1>3. /\ platform' = TRUE
      /\ UNCHANGED <<hits, base, window, nextId, kw, job, overlapped, reported, owed, told>>
  BY DEF PluginCloseAlarmAction, world
<1>4. {a} \in SUBSET AlarmId /\ a < nextId
  <2>1. a \in AlarmId /\ alarm[a] # "unused"
    BY <1>2 DEF FiringAlarms
  <2>2. ~(a >= nextId)
    BY <2>1 DEF IInv, UnusedAbove
  <2> QED
    BY <1>1, <2>1, <2>2, KeywordAlarmAssumption, SMT DEF AlarmId, TypeOK
<1>5. kw' \in Row \cup {NoRow} /\ OldValue' = OldValue /\ job' \in [Worker -> Job]
  BY <1>1, <1>3 DEF TypeOK, OldValue
<1>6. \A b \in {a} : b < nextId
  BY <1>4
<1> QED
  BY <1>2, <1>3, <1>4, <1>5, <1>6, ClosesIInv

(* The world: a hit, a restart of the exporter, a change of the window. *)
LEMMA WorldIInv ==
  ASSUME IInv, Hit \/ exporterRestart \/ windowChanges
  PROVE  IInv'
<1> USE DEF IInv
<1>1. /\ UNCHANGED <<alarm, nextId, kw, job, overlapped, reported, told, platform>>
      /\ hits' \in Hits /\ hits' >= hits /\ base' \in Hits /\ base' >= base /\ base' <= hits'
      /\ base' = base \/ base' = hits
      /\ hits \in Nat /\ base \in Nat /\ hits' \in Nat /\ base' \in Nat /\ reported \in Nat
  BY KeywordAlarmAssumption, SMT
     DEF Hit, exporterRestart, windowChanges, tables, history, TypeOK, Hits
<1>2. window' \in BOOLEAN /\ owed' \in BOOLEAN
  BY Zenon DEF Hit, exporterRestart, windowChanges, history, TypeOK
<1>3. TypeOK'
  BY <1>1, <1>2 DEF TypeOK
<1>4. UnusedAbove'
  BY <1>1 DEF UnusedAbove
<1>5. DataCounts'
  <2>1. ASSUME NEW w \in Worker, job[w].pc \in {"build", "write"}
        PROVE  /\ job[w].data > 0 /\ job[w].at <= hits'
               /\ base' >= job[w].at \/ job[w].data = job[w].at - base'
    <3>1. job[w].at \in Nat /\ job[w].data > 0 /\ job[w].at <= hits
          /\ (base >= job[w].at \/ job[w].data = job[w].at - base)
      BY <2>1, JobFields DEF DataCounts
    <3> QED
      BY <1>1, <3>1, SMT
  <2> QED
    BY <1>1, <2>1 DEF DataCounts
<1>6. ReportedIsHit' /\ RowTellsItsAlarm'
  BY <1>1, SMT DEF ReportedIsHit, RowTellsItsAlarm
<1>7. ASSUME ~overlapped' PROVE InTurn'
  <2>1. InTurn /\ FiringAlarms' = FiringAlarms /\ OldValue' = OldValue
    BY <1>1, <1>7 DEF FiringAlarms, OldValue
  <2>2. OneJob' /\ FiringIsRow' /\ BuildsFromNews' /\ WritesNews' /\ ToldOnce'
    BY <1>1, <2>1
       DEF InTurn, OneJob, Busy, FiringIsRow, BuildsFromNews, WritesNews, ToldOnce
  <2>3. RowCounts'
    BY <1>1, <2>1, SMT DEF InTurn, RowCounts, ReportedIsHit
  <2> QED
    BY <2>1, <2>2, <2>3 DEF InTurn
<1> QED
  BY <1>3, <1>4, <1>5, <1>6, <1>7

(* Every action keeps the invariant. *)
LEMMA NextIInv == IInv /\ [Next]_vars => IInv'
<1> SUFFICES ASSUME IInv, [Next]_vars PROVE IInv'
  OBVIOUS
<1>1. TypeOK
  BY DEF IInv
<1>2. Idle \in Job
  BY KeywordAlarmAssumption, SMT DEF Idle, Job, Hits
<1>3. ASSUME NEW w \in Worker, doLogKeywordMonitorJob(w) PROVE IInv'
  BY <1>3, StartIInv
<1>4. ASSUME NEW w \in Worker, Progress(w) PROVE IInv'
  <2>1. CASE buildKeywordAlarm(w)
    BY <2>1, BuildIInv
  <2>2. CASE updateKeyword(w)
    BY <2>2, UpdateIInv
  <2>3. CASE addKeyword(w)
    BY <2>3, AddIInv
  <2>4. CASE rollbackKeyword(w)
    BY <2>4, RollbackIInv
  <2>5. CASE notifyKeyword(w)
    BY <2>5, NotifyIInv
  <2>6. CASE closeTransaction(w)
    BY <2>6, CloseIInv
  <2>7. CASE rollbackClose(w)
    <3>1. job' \in [Worker -> Job] /\ \A v \in Worker : job'[v] = job[v] \/ job'[v] = Idle
      BY <1>1, <1>2, <2>7 DEF rollbackClose, TypeOK
    <3> QED
      BY <2>7, <3>1, LessWork DEF rollbackClose
  <2> QED
    BY <1>4, <2>1, <2>2, <2>3, <2>4, <2>5, <2>6, <2>7 DEF Progress
<1>5. ASSUME NEW w \in Worker, CloseAlarm(w) PROVE IInv'
  <2>1. PICK A \in SUBSET FiringAlarms :
          job' = [job EXCEPT ![w] = [Idle EXCEPT !.pc = "close", !.seen = A]]
    BY <1>5 DEF CloseAlarm
  <2>2. job[w].pc = "idle" /\ UNCHANGED <<world, tables, history>>
    BY <1>5 DEF CloseAlarm
  <2> QED
    BY <2>1, <2>2, ReadsToClose
<1>6. ASSUME NEW w \in Worker, UpdateLogKeyword(w) PROVE IInv'
  <2>1. PICK A \in SUBSET FiringAlarms : A = {kw.alarm} \cap FiringAlarms
    OBVIOUS
  <2>2. /\ job[w].pc = "idle" /\ UNCHANGED <<world, tables, history>>
        /\ job' = [job EXCEPT ![w] = [Idle EXCEPT !.pc = "close", !.seen = A]]
    BY <1>6, <2>1 DEF UpdateLogKeyword
  <2> QED
    BY <2>2, ReadsToClose
<1>7. ASSUME PluginCloseAlarmAction PROVE IInv'
  BY <1>7, PluginIInv
<1>8. ASSUME restart PROVE IInv'
  <2>1. job' \in [Worker -> Job] /\ \A v \in Worker : job'[v] = job[v] \/ job'[v] = Idle
    BY <1>2, <1>8 DEF restart
  <2> QED
    BY <1>8, <2>1, LessWork DEF restart
<1>9. ASSUME Hit \/ exporterRestart \/ windowChanges PROVE IInv'
  BY <1>9, WorldIInv
<1>10. ASSUME UNCHANGED vars PROVE IInv'
  BY <1>1, <1>10, LessWork DEF vars, TypeOK
<1> QED
  BY <1>3, <1>4, <1>5, <1>6, <1>7, <1>8, <1>9, <1>10 DEF Next

(* So it holds always. *)
LEMMA AlwaysIInv == Spec => []IInv
BY InitIInv, NextIInv, PTL DEF Spec

-----------------------------------------------------------------------------
(* Theorems *)

(* Tables, counters and local states keep their types. *)
THEOREM TypeCorrect == Spec => []TypeOK
<1>1. IInv => TypeOK
  BY DEF IInv
<1> QED
  BY <1>1, AlwaysIInv, PTL

(* The key's row of log_keyword_alarm and the alarm that it names have the *)
(* same status, however many jobs and closing handlers overlap, until the  *)
(* platform closes an alarm.                                               *)
THEOREM RowCorrect == Spec => []RowTellsItsAlarm
<1>1. IInv => RowTellsItsAlarm
  BY DEF IInv
<1> QED
  BY <1>1, AlwaysIInv, PTL

(* If no job begins before the last has ended, a key has at most one open  *)
(* alarm and each is announced at most once, for any number of closing     *)
(* handlers, lost commits and restarts of server and exporter.             *)
THEOREM OneAlarmCorrect == Spec => []OneAlarmToldOnce
<1>1. IInv => OneAlarmToldOnce
  BY DEF IInv, InTurn, FiringIsRow, ToldOnce, OneAlarmToldOnce
<1> QED
  BY <1>1, AlwaysIInv, PTL

(* If no job begins before the last has ended, each new alarm is for a hit *)
(* that no transaction has recorded.                                       *)
THEOREM NewHitCorrect == Spec => AlarmNeedsNewHit
<1>1. IInv => \A w \in Worker : addKeyword(w) /\ ~overlapped => job[w].at > reported
  BY DEF IInv, InTurn, WritesNews, addKeyword
<1> QED
  BY <1>1, AlwaysIInv, PTL DEF Spec, AlarmNeedsNewHit


-----------------------------------------------------------------------------
(* The contract of the alarm tables *)

(* The key's rows as the contract sees them: all are about one series. *)
Table ==
  [a \in AlarmId |-> [series |-> IF alarm[a] = "unused" THEN "none" ELSE "key",
                      status |-> alarm[a]]]

Contract == INSTANCE AlarmContract WITH Series <- {"key"}, alarm <- Table

UsedBelow == \A a \in AlarmId : a < nextId => alarm[a] # "unused"

(* What a step does to the alarms: one is added, some are closed, or none  *)
(* changes.                                                                *)
LEMMA AlarmSteps ==
  ASSUME IInv, [Next]_vars
  PROVE  \/ \E w \in Worker : addKeyword(w)
         \/ /\ nextId' = nextId
            /\ \E A \in SUBSET AlarmId : Closed(A) /\ \A a \in A : a < nextId
         \/ UNCHANGED <<alarm, nextId>>
<1>1. CASE UNCHANGED vars
  BY <1>1 DEF vars, tables
<1>2. ASSUME NEW w \in Worker, closeTransaction(w)
      PROVE  /\ nextId' = nextId
             /\ \E A \in SUBSET AlarmId : Closed(A) /\ \A a \in A : a < nextId
  BY <1>2, JobFields DEF closeTransaction, IInv, UnusedAbove
<1>3. CASE PluginCloseAlarmAction
  <2>1. PICK a \in FiringAlarms : Closed({a}) /\ nextId' = nextId
    BY <1>3 DEF PluginCloseAlarmAction
  <2>2. a \in AlarmId /\ a < nextId
    BY <2>1, KeywordAlarmAssumption DEF IInv, TypeOK, UnusedAbove, FiringAlarms, AlarmId
  <2> QED
    BY <2>1, <2>2
<1>4. ASSUME NEW w \in Worker,
             \/ doLogKeywordMonitorJob(w) \/ buildKeywordAlarm(w) \/ updateKeyword(w)
             \/ rollbackKeyword(w) \/ notifyKeyword(w) \/ rollbackClose(w)
             \/ CloseAlarm(w) \/ UpdateLogKeyword(w)
      PROVE  UNCHANGED <<alarm, nextId>>
  BY <1>4 DEF doLogKeywordMonitorJob, buildKeywordAlarm, updateKeyword, rollbackKeyword,
              notifyKeyword, rollbackClose, CloseAlarm, UpdateLogKeyword, tables
<1>5. CASE restart \/ Hit \/ exporterRestart \/ windowChanges
  BY <1>5 DEF restart, Hit, exporterRestart, windowChanges, tables
<1> QED
  BY <1>1, <1>2, <1>3, <1>4, <1>5 DEF Next, Progress

LEMMA UsedBelowNext ==
  ASSUME IInv, UsedBelow, [Next]_vars
  PROVE  UsedBelow'
<1>1. alarm \in [AlarmId -> {"unused", "firing", "closed"}] /\ nextId \in Nat
  BY KeywordAlarmAssumption DEF IInv, TypeOK
<1>2. ASSUME NEW w \in Worker, addKeyword(w)
      PROVE  UsedBelow'
  <2>1. nextId' = nextId + 1 /\ alarm' = [alarm EXCEPT ![nextId] = "firing"]
    BY <1>2 DEF addKeyword
  <2>2. \A a \in AlarmId : a < nextId + 1 => a < nextId \/ a = nextId
    BY <1>1 DEF AlarmId
  <2> QED
    BY <1>1, <2>1, <2>2 DEF UsedBelow
<1>3. ASSUME nextId' = nextId, NEW A \in SUBSET AlarmId, Closed(A)
      PROVE  UsedBelow'
  BY <1>3 DEF UsedBelow, Closed
<1>4. CASE UNCHANGED <<alarm, nextId>>
  BY <1>4 DEF UsedBelow
<1> QED
  BY <1>2, <1>3, <1>4, AlarmSteps

LEMMA NextRefines ==
  ASSUME IInv, UsedBelow, ~overlapped, [Next]_vars
  PROVE  [Contract!Next]_Table
<1>1. alarm \in [AlarmId -> {"unused", "firing", "closed"}]
  BY DEF IInv, TypeOK
<1>2. ASSUME NEW w \in Worker, addKeyword(w)
      PROVE  Contract!Raise(nextId, "key") /\ nextId \in AlarmId
  <2>1. nextId \in AlarmId /\ alarm[nextId] = "unused"
    BY <1>2, KeywordAlarmAssumption DEF IInv, TypeOK, UnusedAbove, addKeyword, AlarmId
  <2>2. FiringAlarms = {}
    BY <1>2 DEF IInv, InTurn, WritesNews, addKeyword
  <2>3. Table[nextId] = Contract!Unused
    BY <2>1 DEF Table, Contract!Unused
  <2>4. Contract!Open("key") = {}
    BY <2>2 DEF Contract!Open, Table, FiringAlarms
  <2>5. Table' = [Table EXCEPT ![nextId] = [series |-> "key", status |-> "firing"]]
    BY <1>1, <1>2, <2>1 DEF Table, addKeyword
  <2> QED
    BY <2>1, <2>3, <2>4, <2>5 DEF Contract!Raise
<1>3. ASSUME NEW A \in SUBSET AlarmId, Closed(A), \A a \in A : a < nextId
      PROVE  Table' = Table \/ Contract!Close(A)
  <2>1. \A a \in A : alarm[a] \in {"firing", "closed"}
    BY <1>1, <1>3 DEF UsedBelow
  <2>2. \A a \in A : Table[a].status \in {"firing", "ok", "closed"}
    BY <2>1 DEF Table
  <2>3. Table' = [a \in AlarmId |->
                   IF a \in A THEN [Table[a] EXCEPT !.status = "closed"] ELSE Table[a]]
    BY <1>3, <2>1 DEF Closed, Table
  <2>4. CASE A = {}
    BY <1>1, <1>3, <2>4 DEF Closed, Table
  <2> QED
    BY <2>2, <2>3, <2>4 DEF Contract!Close
<1>4. CASE UNCHANGED <<alarm, nextId>>
  BY <1>4 DEF Table
<1> QED
  BY <1>2, <1>3, <1>4, AlarmSteps DEF Contract!Next

(* While jobs take turns the keyword jobs keep the contract of the alarm   *)
(* tables, with the key for a series: an alarm is raised only when none of *)
(* the key is open, on an id that was never used, and what is closed stays *)
(* closed.  A keyword alarm never recovers and is never trimmed.           *)
THEOREM RefinementInTurn == Spec /\ []~overlapped => Contract!Spec
<1>1. Init => Contract!Init /\ UsedBelow
  <2>1. ASSUME Init
        PROVE  Contract!Init /\ UsedBelow
    BY <2>1, KeywordAlarmAssumption
       DEF Init, Contract!Init, Contract!Unused, Table, UsedBelow, AlarmId
  <2> QED
    BY <2>1
<1>2. IInv /\ UsedBelow /\ [Next]_vars => UsedBelow'
  BY UsedBelowNext
<1>3. IInv /\ UsedBelow /\ ~overlapped /\ [Next]_vars => [Contract!Next]_Table
  BY NextRefines
<1> QED
  BY <1>1, <1>2, <1>3, AlwaysIInv, PTL DEF Spec, Contract!Spec
=============================================================================
