--------------------------- MODULE AlarmCondition ---------------------------
(***************************************************************************)
(* Alarms of strategies with several conditions.  Every condition has a    *)
(* rule (and so a webhook group) of its own; a row of alarm_condition      *)
(* stands for one occurrence of a condition, and when every condition of   *)
(* the strategy has a firing row the handler that adds the last one also   *)
(* inserts the composite alarm and its alarm_condition_rel rows.           *)
(*                                                                         *)
(* The handlers of different conditions run at the same time.  Each reads  *)
(* the firing rows outside any transaction, after a sleep meant to keep    *)
(* the handlers of different conditions apart, and writes in a transaction *)
(* of its own.  The module is about one strategy and one endpoint: no      *)
(* query mixes rows of two.                                                *)
(***************************************************************************)
EXTENDS Naturals, FiniteSets

CONSTANTS
  Crc,        \* the conditions of the strategy (alarm_strategy_metric.crc_hash)
  Tags,       \* the label sets a condition's query may answer with
  Worker,     \* handlers that may be at work at the same time
  MaxRows,    \* bound on rows ever inserted in alarm_condition
  OverlapRows,\* the same, once two handlers have been at work at the same time
  MaxAlarms   \* bound on composite alarms ever inserted

ASSUME AlarmConditionAssumption ==
  /\ IsFiniteSet(Crc) /\ Crc # {}
  /\ MaxRows \in Nat /\ OverlapRows \in 0 .. MaxRows
  /\ MaxAlarms \in Nat

RowId == 1 .. MaxRows
AlarmId == 1 .. MaxAlarms
NoRow == 0

VARIABLES
  row,         \* table alarm_condition, in the order of insertion
  nextRow,
  comp,        \* the composite rows of table alarm, with their alarm_condition_rel
  nextAlarm,
  job,         \* job[w]: the local state of handler w
  abandoned,   \* history: alarms that were closed by the deletion of their endpoint
  overlapped   \* history: have two handlers ever been at work at the same time?

vars == <<row, nextRow, comp, nextAlarm, job, abandoned, overlapped>>

Cond == [crc : Crc, tags : Tags]
Alert == [of : Cond, kind : {"firing", "resolved"}]
Op == [of : Cond, row : RowId \cup {NoRow}]
NoOp == [row |-> NoRow]

Row == [of : Cond, status : {"firing", "ok", "closed"}]
Composite == [rel : SUBSET RowId, status : {"firing", "ok", "closed", "deleted"}]
Unused == [status |-> "unused"]

Job == [pc : {"idle", "list", "rel", "write", "close", "delete"},
        todo : SUBSET Alert, ops : SUBSET Op, cur : Op \cup {NoOp},
        seen : SUBSET RowId, alarms : SUBSET AlarmId]

Idle == [pc |-> "idle", todo |-> {}, ops |-> {}, cur |-> NoOp, seen |-> {}, alarms |-> {}]

TypeOK ==
  /\ row \in [RowId -> Row \cup {Unused}]
  /\ nextRow \in 1 .. (MaxRows + 1)
  /\ comp \in [AlarmId -> Composite \cup {Unused}]
  /\ nextAlarm \in 1 .. (MaxAlarms + 1)
  /\ job \in [Worker -> Job]
  /\ abandoned \in SUBSET AlarmId
  /\ overlapped \in BOOLEAN

Init ==
  /\ row = [r \in RowId |-> Unused]
  /\ nextRow = 1
  /\ comp = [a \in AlarmId |-> Unused]
  /\ nextAlarm = 1
  /\ job = [w \in Worker |-> Idle]
  /\ abandoned = {}
  /\ overlapped = FALSE

-----------------------------------------------------------------------------
(* Queries *)

FiringRows == {r \in RowId : row[r].status = "firing"}
FiringAlarms == {a \in AlarmId : comp[a].status = "firing"}
RowsOf(c) == {r \in RowId : row[r].status # "unused" /\ row[r].of = c}

(* SELECT ... ORDER BY start DESC LIMIT 1: the last occurrence of c. *)
GetExistAlarmCondition(c) ==
  IF RowsOf(c) = {} THEN {NoRow} ELSE {r \in RowsOf(c) : \A q \in RowsOf(c) : q <= r}

Begin(w, j) ==
  /\ job[w].pc = "idle"
  /\ job' = [job EXCEPT ![w] = j]
  /\ overlapped' = (overlapped \/ \E v \in Worker \ {w} : job[v].pc # "idle")
  /\ overlapped' => nextRow <= OverlapRows + 1

UNCHANGED_tables == UNCHANGED <<row, nextRow, comp, nextAlarm, abandoned>>

-----------------------------------------------------------------------------
(* AcceptAlert: one group is one condition, with all its label sets *)

AcceptAlert(w) ==
  /\ \E c \in Crc, T \in (SUBSET Tags) \ {{}} : \E kind \in [T -> {"firing", "resolved"}] :
       Begin(w, [Idle EXCEPT
                   !.pc = "list",
                   !.todo = {[of |-> [crc |-> c, tags |-> t], kind |-> kind[t]] : t \in T}])
  /\ UNCHANGED_tables

(* Against the last row of the same condition and labels: what repeats or  *)
(* resolves nothing is dropped; what is out of its window may be, too.     *)
buildNewAlarm(w) ==
  /\ job[w].pc = "list"
  /\ \E m \in job[w].todo : \E r \in GetExistAlarmCondition(m.of) :
       LET isFiring == r # NoRow /\ row[r].status = "firing"
       IN  \/ job' = [job EXCEPT ![w].todo = @ \ {m}]
           \/ /\ (m.kind = "resolved") <=> isFiring
              /\ job' = [job EXCEPT
                           ![w].todo = @ \ {m},
                           ![w].ops = @ \cup {[of |-> m.of, row |-> IF isFiring THEN r ELSE NoRow]}]
  /\ UNCHANGED_tables /\ UNCHANGED overlapped

-----------------------------------------------------------------------------
(* UpdateAlarmWithConditions, for one element of the list *)

InUpdateAlarms(w) == job[w].pc = "list" /\ job[w].todo = {}

Blocked_never(op) == FALSE

(* "same crc alarm is firing, ignore this": for a resolve as for an add. *)
Blocked(op) ==
  \E r \in FiringRows : row[r].of.crc = op.of.crc /\ row[r].of.tags # op.of.tags

(* After the sleep: the firing rows of the strategy and endpoint. *)
readFiringRows(w) ==
  /\ InUpdateAlarms(w)
  /\ \E op \in job[w].ops :
       job' = [job EXCEPT
                 ![w].ops = @ \ {op},
                 ![w].pc = IF Blocked(op) THEN "list" ELSE IF op.row = NoRow THEN "write" ELSE "rel",
                 ![w].cur = IF Blocked(op) THEN NoOp ELSE op,
                 ![w].seen = IF Blocked(op) \/ op.row # NoRow THEN {} ELSE FiringRows]
  /\ UNCHANGED_tables /\ UNCHANGED overlapped

(* A resolve looks up the open alarms that its row is part of. *)
readAlarmConditionRel(w) ==
  /\ job[w].pc = "rel"
  /\ job' = [job EXCEPT ![w].pc = "write",
                        ![w].alarms = {a \in FiringAlarms : job[w].cur.row \in comp[a].rel}]
  /\ UNCHANGED_tables /\ UNCHANGED overlapped

NextElement(w) ==
  job' = [job EXCEPT ![w].pc = "list", ![w].cur = NoOp, ![w].seen = {}, ![w].alarms = {}]

Recover_rawStatus(A) ==
  comp' = [a \in AlarmId |->
             IF a \in A /\ comp[a].status = "firing"
             THEN [comp[a] EXCEPT !.status = "resolved"] ELSE comp[a]]

Recover(A) ==
  comp' = [a \in AlarmId |->
             IF a \in A /\ comp[a].status = "firing" THEN [comp[a] EXCEPT !.status = "ok"] ELSE comp[a]]

resolveCondition_keepsAlarm(w) ==
  /\ job[w].pc = "write"
  /\ job[w].cur.row # NoRow
  /\ row' = [row EXCEPT ![job[w].cur.row].status = IF @ = "firing" THEN "ok" ELSE @]
  /\ NextElement(w)
  /\ UNCHANGED <<nextRow, comp, nextAlarm, abandoned, overlapped>>

(* UPDATE alarm_condition and UPDATE alarm, both WHERE status='firing'. *)
resolveCondition(w) ==
  /\ job[w].pc = "write"
  /\ job[w].cur.row # NoRow
  /\ row' = [row EXCEPT ![job[w].cur.row].status = IF @ = "firing" THEN "ok" ELSE @]
  /\ Recover(job[w].alarms)
  /\ NextElement(w)
  /\ UNCHANGED <<nextRow, nextAlarm, abandoned, overlapped>>

(* len(alarmCrcMap) >= len(configCrcList): the rows read before, and the   *)
(* one being added, are of all the conditions.                             *)
AllConditions_offByOne(seen, c) ==
  Cardinality({row[r].of.crc : r \in seen} \cup {c}) > Cardinality(Crc)

AllConditions_any(seen, c) == seen # {}

AllConditions(seen, c) ==
  Cardinality({row[r].of.crc : r \in seen} \cup {c}) >= Cardinality(Crc)

addCondition(w) ==
  LET j == job[w]
  IN  /\ j.pc = "write"
      /\ j.cur.row = NoRow
      /\ nextRow <= IF overlapped THEN OverlapRows ELSE MaxRows
      /\ row' = [row EXCEPT ![nextRow] = [of |-> j.cur.of, status |-> "firing"]]
      /\ nextRow' = nextRow + 1
      /\ IF AllConditions(j.seen, j.cur.of.crc)
         THEN /\ nextAlarm <= MaxAlarms
              /\ comp' = [comp EXCEPT ![nextAlarm] =
                            [rel |-> j.seen \cup {nextRow}, status |-> "firing"]]
              /\ nextAlarm' = nextAlarm + 1
         ELSE UNCHANGED <<comp, nextAlarm>>
      /\ NextElement(w)
      /\ UNCHANGED <<abandoned, overlapped>>

(* A query or the transaction fails (among others, unique_hash when the    *)
(* same occurrence is added in the same second): logged and forgotten.     *)
failElement(w) ==
  /\ job[w].pc \in {"rel", "write"}
  /\ NextElement(w)
  /\ UNCHANGED_tables /\ UNCHANGED overlapped

finishUpdate(w) ==
  /\ InUpdateAlarms(w)
  /\ job[w].ops = {}
  /\ job' = [job EXCEPT ![w] = Idle]
  /\ UNCHANGED_tables /\ UNCHANGED overlapped

-----------------------------------------------------------------------------
(* Closing and cleaning *)

CloseAlarm(w) ==
  /\ \E A \in (SUBSET FiringAlarms) \ {{}} : Begin(w, [Idle EXCEPT !.pc = "close", !.alarms = A])
  /\ UNCHANGED_tables

PluginCloseAlarmAction(w) ==
  /\ \E a \in AlarmId : /\ comp[a].status \in {"firing", "ok"}
                        /\ Begin(w, [Idle EXCEPT !.pc = "close", !.alarms = {a}])
  /\ UNCHANGED_tables

(* Only the open alarms of the endpoint, and nothing else of this module.  *)
DeleteEndpoint(w) ==
  /\ FiringAlarms # {}
  /\ Begin(w, [Idle EXCEPT !.pc = "delete", !.alarms = FiringAlarms])
  /\ UNCHANGED_tables

Closed(A) ==
  comp' = [a \in AlarmId |->
             IF a \in A /\ comp[a].status # "deleted" THEN [comp[a] EXCEPT !.status = "closed"] ELSE comp[a]]

closeTransaction_alarmOnly(w) ==
  /\ job[w].pc = "close"
  /\ Closed(job[w].alarms)
  /\ job' = [job EXCEPT ![w] = Idle]
  /\ UNCHANGED <<row, nextRow, nextAlarm, abandoned, overlapped>>

(* The alarms and, by alarm_condition_rel, all their conditions, whatever  *)
(* status they have by now.                                                *)
closeTransaction(w) ==
  /\ job[w].pc = "close"
  /\ Closed(job[w].alarms)
  /\ row' = [r \in RowId |-> IF \E a \in job[w].alarms : r \in comp[a].rel
                             THEN [row[r] EXCEPT !.status = "closed"] ELSE row[r]]
  /\ job' = [job EXCEPT ![w] = Idle]
  /\ UNCHANGED <<nextRow, nextAlarm, abandoned, overlapped>>

(* The alarms that were open when DeleteEndpoint looked, whatever status   *)
(* they have by now; their conditions keep theirs, and are found again     *)
(* when an endpoint of the same name is registered.                        *)
deleteTransaction(w) ==
  /\ job[w].pc = "delete"
  /\ Closed(job[w].alarms)
  /\ abandoned' = abandoned \cup job[w].alarms
  /\ job' = [job EXCEPT ![w] = Idle]
  /\ UNCHANGED <<row, nextRow, nextAlarm, overlapped>>

rollbackClose(w) ==
  /\ job[w].pc \in {"close", "delete"}
  /\ job' = [job EXCEPT ![w] = Idle]
  /\ UNCHANGED_tables /\ UNCHANGED overlapped

(* DELETE FROM alarm WHERE status='ok' AND start<=day. *)
cleanAlarmTableJob ==
  /\ \E last \in AlarmId :
       /\ comp[last].status = "ok"
       /\ comp' = [a \in AlarmId |-> IF a <= last /\ comp[a].status = "ok"
                                     THEN [comp[a] EXCEPT !.status = "deleted"] ELSE comp[a]]
  /\ UNCHANGED <<row, nextRow, nextAlarm, job, abandoned, overlapped>>

restart ==
  /\ job' = [w \in Worker |-> Idle]
  /\ UNCHANGED_tables /\ UNCHANGED overlapped

Next ==
  \/ \E w \in Worker :
       \/ AcceptAlert(w)
       \/ buildNewAlarm(w)
       \/ readFiringRows(w)
       \/ readAlarmConditionRel(w)
       \/ resolveCondition(w)
       \/ addCondition(w)
       \/ failElement(w)
       \/ finishUpdate(w)
       \/ CloseAlarm(w)
       \/ PluginCloseAlarmAction(w)
       \/ DeleteEndpoint(w)
       \/ closeTransaction(w)
       \/ deleteTransaction(w)
       \/ rollbackClose(w)
  \/ cleanAlarmTableJob
  \/ restart

Spec == Init /\ [][Next]_vars

-----------------------------------------------------------------------------
(* Properties *)

AllFiring == {row[r].of.crc : r \in FiringRows} = Crc

(* No handler has anything left to do. *)
Quiet ==
  \A w \in Worker : job[w].pc \in {"idle", "list"} /\ job[w].todo = {} /\ job[w].ops = {}

(* "If all the conditions are met": when no handler has work left and      *)
(* every condition has a firing row, the composite alarm is open, or its   *)
(* endpoint was deleted under it and none of its conditions has changed.   *)
AllConditionsRaise ==
  Quiet /\ AllFiring => FiringAlarms # {} \/ \E a \in abandoned : comp[a].rel = FiringRows

(* As long as handlers never overlap, whatever fails or restarts and also  *)
(* while one is at work: an alarm of exactly the firing rows is open.  The *)
(* conditions that a deleted endpoint leaves firing stand in the way only  *)
(* until one of them changes: then the alarm is raised again.              *)
AllConditionsRaiseInTurn ==
  ~overlapped /\ AllFiring => \E a \in FiringAlarms \cup abandoned : comp[a].rel = FiringRows

(* As long as handlers never overlap: no condition of an open composite    *)
(* alarm has recovered, and a second composite alarm is opened only when   *)
(* the first has lost a condition.  (The platform may close an older,      *)
(* recovered alarm that shares the condition's row, and the row with it.)  *)
OpenAlarmHasItsConditions ==
  ~overlapped =>
    \A a \in FiringAlarms :
      /\ \A r \in comp[a].rel : row[r].status # "ok"
      /\ \A b \in FiringAlarms : a < b => \E r \in comp[a].rel : row[r].status = "closed"

(* As long as handlers never overlap, a condition has at most one firing   *)
(* row: otherwise rows of different labels would block each other's        *)
(* recovery ("same crc alarm is firing, ignore this").                     *)
OneFiringRowPerCondition ==
  ~overlapped => \A r, q \in FiringRows : row[r].of.crc = row[q].of.crc => r = q

(* However handlers overlap: a composite alarm was raised for a row of     *)
(* every condition (UpdateAlarmWithConditions).                            *)
RaisedForAllConditions ==
  \A a \in AlarmId : comp[a].status # "unused" => {row[r].of.crc : r \in comp[a].rel} = Crc

(* However handlers overlap: it recovers only with one of its conditions,  *)
(* and when somebody closes it, all its conditions are closed for good;    *)
(* only the deletion of its endpoint leaves them as they are.              *)
EndedWithItsConditions ==
  \A a \in AlarmId :
    /\ comp[a].status = "ok" => \E r \in comp[a].rel : row[r].status # "firing"
    /\ comp[a].status = "closed" /\ a \notin abandoned => \A r \in comp[a].rel : row[r].status = "closed"
=============================================================================
