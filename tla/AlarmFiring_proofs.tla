------------------------- MODULE AlarmFiring_proofs -------------------------
(***************************************************************************)
(* For every number of workers, series and rows: the invariants of         *)
(* AlarmFiring and that it implements AlarmContract.                       *)
(***************************************************************************)
EXTENDS AlarmFiring, TLAPS

(* The writers trust three facts none of them checks: ids at and above the  *)
(* AUTO_INCREMENT are unused, an open alarm has its alarm_firing row, and   *)
(* nobody leaves such a row behind unless the platform closes alarms.       *)
UnusedAbove == \A a \in AlarmId : a >= nextId => alarm[a] = Contract!Unused

NoPlatformJob == PlatformClose \/ \A w \in Worker : job[w].role # "platform"

IInv ==
  /\ TypeOK
  /\ UnusedAbove
  /\ OpenAlarmHasItsRow
  /\ NoPlatformJob
  /\ RowHasItsOpenAlarm

-----------------------------------------------------------------------------
(* TypeOK *)

LEMMA IdleIsJob == Idle \in Job
  BY DEF Idle, Job, Role

LEMMA LatestOfType ==
  ASSUME NEW A \in SUBSET AlarmId
  PROVE  LatestOf(A) \subseteq AlarmId \cup {NoAlarm}
  BY DEF LatestOf

(* A goroutine that has just read the rows A is a job. *)
LEMMA ReaderIsJob ==
  ASSUME NEW r \in Role, NEW A \in SUBSET AlarmId
  PROVE  [Idle EXCEPT !.role = r, !.seen = A] \in Job
  BY DEF Idle, Job, Role

(* Taking an input off the list and adding elements to write. *)
LEMMA BuiltIsJob ==
  ASSUME NEW j \in Job, NEW m, NEW X \in SUBSET Op
  PROVE  [j EXCEPT !.todo = @ \ {m}, !.ops = @ \cup X] \in Job
  BY DEF Job

LEMMA InitType == Init => TypeOK
  BY AlarmFiringAssumption, IdleIsJob
  DEF Init, TypeOK, AlarmId, NoAlarm, Contract!AlarmRow, Contract!Unused

(* The closing UPDATE keeps the shape of the table. *)
LEMMA SetClosedType ==
  ASSUME TypeOK, NEW A \in SUBSET AlarmId, SetClosed(A)
  PROVE  alarm' \in [AlarmId -> Contract!AlarmRow]
  BY DEF TypeOK, SetClosed, Exists, Contract!AlarmRow, Contract!Unused

LEMMA StartType ==
  ASSUME TypeOK, NEW w \in Worker, Start(w)
  PROVE  TypeOK'
<1>1. CASE AcceptAlert(w)
  <2>0. PICK S \in (SUBSET RuleSeries) \ {{}} : \E kind \in [S -> {"firing", "resolved"}] :
          job' = [job EXCEPT ![w] =
                    [Idle EXCEPT !.role = "alerts",
                                 !.todo = {[series |-> s, kind |-> kind[s]] : s \in S}]]
    BY <1>1 DEF AcceptAlert
  <2>1. PICK kind \in [S -> {"firing", "resolved"}] :
          job' = [job EXCEPT ![w] =
                    [Idle EXCEPT !.role = "alerts",
                                 !.todo = {[series |-> s, kind |-> kind[s]] : s \in S}]]
    BY <2>0
  <2>2. {[series |-> s, kind |-> kind[s]] : s \in S} \in SUBSET Input
    BY DEF Input, Series
  <2>3. [Idle EXCEPT !.role = "alerts",
                     !.todo = {[series |-> s, kind |-> kind[s]] : s \in S}] \in Job
    BY <2>2, IdleIsJob DEF Idle, Job, Role
  <2> QED BY <1>1, <2>1, <2>3 DEF AcceptAlert, TypeOK
<1>2. CASE doMonitorEngineRuleJob(w)
  <2>1. {[series |-> s, kind |-> "eval"] : s \in EngineSeries} \in SUBSET Input
    BY DEF Input, Series
  <2>2. UNION {FiringOf(s) : s \in EngineSeries} \in SUBSET AlarmId
    BY DEF FiringOf
  <2> QED BY <1>2, <2>1, <2>2 DEF doMonitorEngineRuleJob, TypeOK, Idle, Job, Role
<1>3. CASE CloseAlarm(w)
  <2>1. PICK A \in SUBSET AlarmId :
          job' = [job EXCEPT ![w] = [Idle EXCEPT !.role = "close", !.seen = A]]
    BY <1>3 DEF CloseAlarm
  <2>2. [Idle EXCEPT !.role = "close", !.seen = A] \in Job
    BY ReaderIsJob DEF Role
  <2> QED BY <1>3, <2>1, <2>2 DEF CloseAlarm, TypeOK
<1>4. CASE PluginCloseAlarmAction(w)
  <2>1. PICK a \in AlarmId :
          job' = [job EXCEPT ![w] = [Idle EXCEPT !.role = "platform", !.seen = {a}]]
    BY <1>4 DEF PluginCloseAlarmAction
  <2>2. [Idle EXCEPT !.role = "platform", !.seen = {a}] \in Job
    BY ReaderIsJob DEF Role
  <2> QED BY <1>4, <2>1, <2>2 DEF PluginCloseAlarmAction, TypeOK
<1>5. CASE DeleteEndpoint(w)
  <2>1. \A S \in SUBSET Series : UNION {FiringOf(s) : s \in S} \in SUBSET AlarmId
    BY DEF FiringOf
  <2>2. PICK S \in SUBSET Series :
          job' = [job EXCEPT ![w] = [Idle EXCEPT !.role = "platform",
                                                 !.seen = UNION {FiringOf(s) : s \in S}]]
    BY <1>5 DEF DeleteEndpoint
  <2>3. [Idle EXCEPT !.role = "platform", !.seen = UNION {FiringOf(s) : s \in S}] \in Job
    BY <2>1, ReaderIsJob DEF Role
  <2> QED BY <1>5, <2>2, <2>3 DEF DeleteEndpoint, TypeOK
<1> QED BY <1>1, <1>2, <1>3, <1>4, <1>5 DEF Start

LEMMA BuildType ==
  ASSUME TypeOK, NEW w \in Worker, buildNewAlarm(w) \/ buildMonitorEngineAlarm(w)
  PROVE  TypeOK'
<1>1. CASE buildNewAlarm(w)
  <2>0. PICK m \in job[w].todo : \E exist \in LatestOf(FiringOf(m.series)) \cup {NoAlarm} :
          \/ job' = [job EXCEPT ![w].todo = @ \ {m}]
          \/ job' = [job EXCEPT ![w].todo = @ \ {m},
                                ![w].ops = @ \cup {[id |-> exist, series |-> m.series]}]
    BY <1>1 DEF buildNewAlarm
  <2>1. PICK exist \in LatestOf(FiringOf(m.series)) \cup {NoAlarm} :
          \/ job' = [job EXCEPT ![w].todo = @ \ {m}]
          \/ job' = [job EXCEPT ![w].todo = @ \ {m},
                                ![w].ops = @ \cup {[id |-> exist, series |-> m.series]}]
    BY <2>0
  <2>2. m \in Input
    BY DEF TypeOK, Job
  <2>3. exist \in AlarmId \cup {NoAlarm}
    BY LatestOfType DEF FiringOf
  <2>4. [id |-> exist, series |-> m.series] \in Op
    BY <2>2, <2>3 DEF Op, Input
  <2> QED BY <1>1, <2>1, <2>4 DEF buildNewAlarm, TypeOK, Job
<1>2. CASE buildMonitorEngineAlarm(w)
  <2>0. PICK m \in job[w].todo :
          \E exist \in LatestOf({a \in job[w].seen : alarm[a].series = m.series}) :
            job' = [job EXCEPT ![w].todo = @ \ {m},
                               ![w].ops = @ \cup EngineOps(m.series, exist)]
    BY <1>2 DEF buildMonitorEngineAlarm
  <2>1. PICK exist \in LatestOf({a \in job[w].seen : alarm[a].series = m.series}) :
          job' = [job EXCEPT ![w].todo = @ \ {m},
                             ![w].ops = @ \cup EngineOps(m.series, exist)]
    BY <2>0
  <2>2. m \in Input
    BY DEF TypeOK, Job
  <2>3. exist \in AlarmId \cup {NoAlarm}
    BY LatestOfType DEF TypeOK, Job
  <2>4. EngineOps(m.series, exist) \in SUBSET Op
    BY <2>2, <2>3 DEF EngineOps, Op, Input
  <2>5. [job[w] EXCEPT !.todo = @ \ {m}, !.ops = @ \cup EngineOps(m.series, exist)] \in Job
    BY <2>4, BuiltIsJob DEF TypeOK
  <2> QED BY <1>2, <2>1, <2>5 DEF buildMonitorEngineAlarm, TypeOK
<1> QED BY <1>1, <1>2

LEMMA WriteType ==
  ASSUME TypeOK, NEW w \in Worker, doInsertOrUpdateAlarm(w)
  PROVE  TypeOK'
<1>1. PICK op \in job[w].ops :
       \/ /\ op.id # NoAlarm
          /\ ResolveRow(op.id)
          /\ job' = [job EXCEPT ![w].ops = @ \ {op},
                                ![w].done = @ \cup {[id |-> op.id, status |-> "ok"]}]
          /\ UNCHANGED nextId
       \/ /\ op.id = NoAlarm
          /\ InsertRow(op.series)
          /\ job' = [job EXCEPT ![w].ops = @ \ {op},
                                ![w].done = @ \cup {[id |-> nextId, status |-> "firing"]}]
  BY DEF doInsertOrUpdateAlarm
<1>2. op \in Op /\ UNCHANGED cond
  BY DEF TypeOK, Job, doInsertOrUpdateAlarm
<1>3. CASE op.id # NoAlarm
  <2>1. op.id \in AlarmId
    BY <1>2, <1>3 DEF Op
  <2>2. [id |-> op.id, status |-> "ok"] \in Result
    BY <2>1 DEF Result
  <2>3. job' \in [Worker -> Job]
    BY <1>1, <1>3, <2>2 DEF TypeOK, Job
  <2>4. alarm' \in [AlarmId -> Contract!AlarmRow] /\ firing' \in [Series -> AlarmId \cup {NoAlarm}]
    BY <1>1, <1>3, <2>1 DEF ResolveRow, IsFiring, TypeOK, Contract!AlarmRow, Contract!Unused
  <2> QED BY <1>1, <1>2, <1>3, <2>3, <2>4 DEF TypeOK
<1>4. CASE op.id = NoAlarm
  <2>1. op.series \in Series
    BY <1>2 DEF Op
  <2>2. nextId \in AlarmId
    BY <1>1, <1>4, AlarmFiringAssumption DEF InsertRow, AlarmId, TypeOK
  <2>3. [id |-> nextId, status |-> "firing"] \in Result
    BY <2>2 DEF Result
  <2>4. job' \in [Worker -> Job]
    BY <1>1, <1>4, <2>3 DEF TypeOK, Job
  <2>5. alarm' \in [AlarmId -> Contract!AlarmRow] /\ firing' \in [Series -> AlarmId \cup {NoAlarm}]
    BY <1>1, <1>4, <2>1, <2>2 DEF InsertRow, TypeOK, Contract!AlarmRow
  <2>6. nextId' \in 1 .. (MaxAlarms + 1)
    BY <1>1, <1>4, AlarmFiringAssumption DEF InsertRow, TypeOK
  <2> QED BY <1>2, <2>4, <2>5, <2>6 DEF TypeOK
<1> QED BY <1>3, <1>4

LEMMA LostType ==
  ASSUME TypeOK, NEW w \in Worker, commitLost(w)
  PROVE  TypeOK'
<1>1. PICK op \in job[w].ops :
       \/ /\ op.id # NoAlarm
          /\ job' = [job EXCEPT ![w].ops = @ \ {op},
                                ![w].done = @ \cup {[id |-> op.id, status |-> "ok"]}]
          /\ UNCHANGED nextId
       \/ /\ op.id = NoAlarm
          /\ nextId <= MaxAlarms
          /\ nextId' = nextId + 1
          /\ job' = [job EXCEPT ![w].ops = @ \ {op},
                                ![w].done = @ \cup {[id |-> nextId, status |-> "firing"]}]
  BY DEF commitLost
<1>2. op \in Op /\ UNCHANGED <<cond, alarm, firing>>
  BY DEF TypeOK, Job, commitLost
<1>3. CASE op.id # NoAlarm
  <2>1. [id |-> op.id, status |-> "ok"] \in Result
    BY <1>2, <1>3 DEF Op, Result
  <2>2. job' \in [Worker -> Job]
    BY <1>1, <1>3, <2>1 DEF TypeOK, Job
  <2> QED BY <1>1, <1>2, <1>3, <2>2 DEF TypeOK
<1>4. CASE op.id = NoAlarm
  <2>1. nextId \in AlarmId /\ nextId' \in 1 .. (MaxAlarms + 1)
    BY <1>1, <1>4, AlarmFiringAssumption DEF AlarmId, TypeOK
  <2>2. [id |-> nextId, status |-> "firing"] \in Result
    BY <2>1 DEF Result
  <2>3. job' \in [Worker -> Job]
    BY <1>1, <1>4, <2>2 DEF TypeOK, Job
  <2> QED BY <1>2, <2>1, <2>3 DEF TypeOK
<1> QED BY <1>3, <1>4

LEMMA CloseType ==
  ASSUME TypeOK, NEW w \in Worker,
         \/ closeTransaction(w)
         \/ platformTransaction(w)
         \/ rollbackClose(w)
         \/ finishUpdate(w)
         \/ rollbackAlarm(w)
  PROVE  TypeOK'
<1>1. job[w].seen \in SUBSET AlarmId
  BY DEF TypeOK, Job
<1>2. CASE closeTransaction(w)
  <2>1. alarm' \in [AlarmId -> Contract!AlarmRow]
    BY <1>1, <1>2, SetClosedType DEF closeTransaction
  <2> QED BY <1>2, <2>1, IdleIsJob DEF closeTransaction, TypeOK
<1>3. CASE platformTransaction(w)
  <2>1. alarm' \in [AlarmId -> Contract!AlarmRow]
    BY <1>1, <1>3, SetClosedType DEF platformTransaction
  <2> QED BY <1>3, <2>1, IdleIsJob DEF platformTransaction, TypeOK
<1>4. CASE rollbackClose(w)
  BY <1>4, IdleIsJob DEF rollbackClose, TypeOK
<1>5. CASE finishUpdate(w)
  BY <1>5, IdleIsJob DEF finishUpdate, TypeOK
<1>6. CASE rollbackAlarm(w)
  BY <1>6 DEF rollbackAlarm, TypeOK, Job
<1> QED BY <1>2, <1>3, <1>4, <1>5, <1>6

LEMMA NextType == TypeOK /\ [Next]_vars => TypeOK'
<1> SUFFICES ASSUME TypeOK, [Next]_vars PROVE TypeOK'
  OBVIOUS
<1>1. ASSUME NEW w \in Worker, Start(w) \/ Progress(w) PROVE TypeOK'
  BY <1>1, StartType, BuildType, WriteType, LostType, CloseType DEF Progress
<1>2. CASE cleanAlarmTableJob
  BY <1>2 DEF cleanAlarmTableJob, TypeOK, Contract!AlarmRow, Contract!Unused
<1>3. CASE worldChanges
  BY <1>3 DEF worldChanges, TypeOK
<1>4. CASE restart
  BY <1>4, IdleIsJob DEF restart, TypeOK
<1>5. CASE UNCHANGED vars
  BY <1>5 DEF vars, TypeOK
<1> QED BY <1>1, <1>2, <1>3, <1>4, <1>5 DEF Next

(* The tables, the auto-increment and the goroutines' local states keep    *)
(* their types: no writer stores a status the readers do not know.         *)
THEOREM TypeCorrect == Spec => []TypeOK
<1> QED BY InitType, NextType, PTL DEF Spec

-----------------------------------------------------------------------------
(* IInv *)

LEMMA InitIInv == Init => IInv
<1> SUFFICES ASSUME Init PROVE IInv
  OBVIOUS
<1>1. TypeOK
  BY InitType
<1>2. UnusedAbove /\ OpenAlarmHasItsRow
  BY DEF Init, UnusedAbove, OpenAlarmHasItsRow, IsFiring, Contract!Unused
<1>3. NoPlatformJob /\ RowHasItsOpenAlarm
  BY DEF Init, NoPlatformJob, RowHasItsOpenAlarm, Idle
<1> QED BY <1>1, <1>2, <1>3 DEF IInv

(* The tables are untouched: only the local state of w can matter. *)
LEMMA LocalIInv ==
  ASSUME IInv, TypeOK', NoPlatformJob', UNCHANGED <<alarm, firing, nextId>>
  PROVE  IInv'
BY DEF IInv, UnusedAbove, OpenAlarmHasItsRow, RowHasItsOpenAlarm, IsFiring

(* Resolving alarm a deletes the rows that name a and no other. *)
LEMMA ResolveIInv ==
  ASSUME IInv, NEW a \in AlarmId, ResolveRow(a), UNCHANGED nextId
  PROVE  (UnusedAbove /\ OpenAlarmHasItsRow /\ RowHasItsOpenAlarm)'
<1>1. CASE ~IsFiring(a)
  BY <1>1 DEF ResolveRow, IInv, UnusedAbove, OpenAlarmHasItsRow, RowHasItsOpenAlarm, IsFiring
<1>2. CASE IsFiring(a)
  <2>1. /\ alarm' = [alarm EXCEPT ![a].status = "ok"]
        /\ firing' = [s \in Series |-> IF firing[s] = a THEN NoAlarm ELSE firing[s]]
    BY <1>2 DEF ResolveRow
  <2>2. UnusedAbove'
    BY <1>2, <2>1 DEF IInv, TypeOK, UnusedAbove, IsFiring, Contract!Unused
  <2>3. OpenAlarmHasItsRow'
    BY <2>1 DEF IInv, TypeOK, OpenAlarmHasItsRow, IsFiring, Contract!AlarmRow, Contract!Unused
  <2>4. RowHasItsOpenAlarm'
    BY <2>1 DEF IInv, TypeOK, RowHasItsOpenAlarm, IsFiring, NoAlarm
  <2> QED BY <2>2, <2>3, <2>4
<1> QED BY <1>1, <1>2

(* The unique key lets a row in only where no alarm of the series is open. *)
LEMMA InsertIInv ==
  ASSUME IInv, NEW s \in Series, InsertRow(s)
  PROVE  (UnusedAbove /\ OpenAlarmHasItsRow /\ RowHasItsOpenAlarm)'
<1>1. /\ firing[s] = NoAlarm
      /\ nextId \in AlarmId
      /\ alarm' = [alarm EXCEPT ![nextId] = [series |-> s, status |-> "firing"]]
      /\ firing' = [firing EXCEPT ![s] = nextId]
      /\ nextId' = nextId + 1
  BY AlarmFiringAssumption DEF InsertRow, IInv, TypeOK, AlarmId
<1>2. alarm[nextId] = Contract!Unused /\ nextId # NoAlarm
  BY <1>1 DEF IInv, UnusedAbove, AlarmId, NoAlarm
<1>3. UnusedAbove'
  BY <1>1 DEF IInv, TypeOK, UnusedAbove, AlarmId
<1>4. OpenAlarmHasItsRow'
  BY <1>1, <1>2
  DEF IInv, TypeOK, OpenAlarmHasItsRow, IsFiring, AlarmId, NoAlarm, Contract!AlarmRow, Contract!Unused
<1>5. RowHasItsOpenAlarm'
  BY <1>1, <1>2 DEF IInv, TypeOK, RowHasItsOpenAlarm, IsFiring, Contract!Unused
<1> QED BY <1>3, <1>4, <1>5

LEMMA WriteIInv ==
  ASSUME IInv, NEW w \in Worker, doInsertOrUpdateAlarm(w)
  PROVE  IInv'
<1>1. PICK op \in job[w].ops :
       \/ /\ op.id # NoAlarm
          /\ ResolveRow(op.id)
          /\ job' = [job EXCEPT ![w].ops = @ \ {op},
                                ![w].done = @ \cup {[id |-> op.id, status |-> "ok"]}]
          /\ UNCHANGED nextId
       \/ /\ op.id = NoAlarm
          /\ InsertRow(op.series)
          /\ job' = [job EXCEPT ![w].ops = @ \ {op},
                                ![w].done = @ \cup {[id |-> nextId, status |-> "firing"]}]
  BY DEF doInsertOrUpdateAlarm
<1>2. op \in Op
  BY DEF IInv, TypeOK, Job
<1>3. (UnusedAbove /\ OpenAlarmHasItsRow /\ RowHasItsOpenAlarm)'
  BY <1>1, <1>2, ResolveIInv, InsertIInv DEF Op
<1>4. TypeOK'
  BY WriteType DEF IInv
<1>5. \A v \in Worker : job'[v].role = job[v].role
  <2>1. job \in [Worker -> Job]
    BY DEF IInv, TypeOK
  <2>2. CASE job' = [job EXCEPT ![w].ops = @ \ {op},
                                ![w].done = @ \cup {[id |-> op.id, status |-> "ok"]}]
    BY <2>1, <2>2 DEF Job
  <2>3. CASE job' = [job EXCEPT ![w].ops = @ \ {op},
                                ![w].done = @ \cup {[id |-> nextId, status |-> "firing"]}]
    BY <2>1, <2>3 DEF Job
  <2> QED BY <1>1, <2>2, <2>3
<1>6. NoPlatformJob'
  BY <1>5 DEF IInv, NoPlatformJob
<1> QED BY <1>3, <1>4, <1>6 DEF IInv

(* A closing transaction with, or without, the DELETE on alarm_firing. *)
LEMMA CloseIInv ==
  ASSUME IInv, NEW w \in Worker, closeTransaction(w) \/ platformTransaction(w)
  PROVE  IInv'
<1>1. TypeOK'
  BY CloseType DEF IInv
<1>2. NoPlatformJob'
  BY DEF closeTransaction, platformTransaction, IInv, TypeOK, NoPlatformJob, Idle
<1>3. SetClosed(job[w].seen) /\ UNCHANGED nextId /\ job[w].seen \in SUBSET AlarmId
  BY DEF closeTransaction, platformTransaction, IInv, TypeOK, Job
<1>4. UnusedAbove'
  BY <1>3 DEF IInv, TypeOK, UnusedAbove, SetClosed, Exists, Contract!Unused
<1>5. CASE closeTransaction(w)
  <2>1. firing' = [s \in Series |-> IF firing[s] \in job[w].seen THEN NoAlarm ELSE firing[s]]
    BY <1>5 DEF closeTransaction
  <2>2. OpenAlarmHasItsRow'
    BY <1>3, <2>1
    DEF IInv, TypeOK, OpenAlarmHasItsRow, SetClosed, Exists, IsFiring, Contract!AlarmRow, Contract!Unused
  <2>3. RowHasItsOpenAlarm'
    BY <1>3, <2>1 DEF IInv, TypeOK, RowHasItsOpenAlarm, SetClosed, Exists, IsFiring, NoAlarm
  <2> QED BY <1>1, <1>2, <1>4, <2>2, <2>3 DEF IInv
<1>6. CASE platformTransaction(w)
  <2>1. UNCHANGED firing /\ PlatformClose
    BY <1>6 DEF platformTransaction, IInv, NoPlatformJob
  <2>2. OpenAlarmHasItsRow'
    BY <1>3, <2>1
    DEF IInv, TypeOK, OpenAlarmHasItsRow, SetClosed, Exists, IsFiring, Contract!AlarmRow, Contract!Unused
  <2>3. RowHasItsOpenAlarm'
    BY <2>1 DEF RowHasItsOpenAlarm
  <2> QED BY <1>1, <1>2, <1>4, <2>2, <2>3 DEF IInv
<1> QED BY <1>5, <1>6

(* The steps of a goroutine that write no table. *)
LEMMA ReadIInv ==
  ASSUME IInv, TypeOK', NEW w \in Worker,
         \/ Start(w)
         \/ buildNewAlarm(w)
         \/ buildMonitorEngineAlarm(w)
         \/ rollbackAlarm(w)
         \/ finishUpdate(w)
         \/ rollbackClose(w)
  PROVE  IInv'
<1>1. UNCHANGED <<alarm, firing, nextId>>
  BY DEF Start, AcceptAlert, doMonitorEngineRuleJob, CloseAlarm, PluginCloseAlarmAction,
         DeleteEndpoint, buildNewAlarm, buildMonitorEngineAlarm, rollbackAlarm, finishUpdate,
         rollbackClose
<1>2. ASSUME ~PlatformClose,
             Start(w) \/ finishUpdate(w) \/ rollbackClose(w)
      PROVE  \A v \in Worker : job'[v] = job[v] \/ job'[v].role # "platform"
  <2>1. CASE AcceptAlert(w)
    BY <2>1 DEF AcceptAlert, Idle, IInv, TypeOK
  <2>2. CASE doMonitorEngineRuleJob(w)
    BY <2>2 DEF doMonitorEngineRuleJob, Idle, IInv, TypeOK
  <2>3. CASE CloseAlarm(w)
    BY <2>3 DEF CloseAlarm, Idle, IInv, TypeOK
  <2>4. CASE finishUpdate(w) \/ rollbackClose(w)
    BY <2>4 DEF finishUpdate, rollbackClose, Idle, IInv, TypeOK
  <2> QED BY <1>2, <2>1, <2>2, <2>3, <2>4 DEF Start, PluginCloseAlarmAction, DeleteEndpoint
<1>3. ASSUME buildNewAlarm(w) \/ buildMonitorEngineAlarm(w) \/ rollbackAlarm(w)
      PROVE  \A v \in Worker : job'[v].role = job[v].role
  <2>1. job \in [Worker -> Job]
    BY DEF IInv, TypeOK
  <2>2. CASE buildNewAlarm(w)
    BY <2>1, <2>2 DEF buildNewAlarm, Job
  <2>3. CASE buildMonitorEngineAlarm(w)
    BY <2>1, <2>3 DEF buildMonitorEngineAlarm, Job
  <2>4. CASE rollbackAlarm(w)
    BY <2>1, <2>4 DEF rollbackAlarm, Job
  <2> QED BY <1>3, <2>2, <2>3, <2>4
<1>4. NoPlatformJob'
  BY <1>2, <1>3 DEF NoPlatformJob, IInv, TypeOK
<1> QED BY <1>1, <1>4, LocalIInv

(* A lost commit spends an id, no more. *)
LEMMA LostIInv ==
  ASSUME IInv, NEW w \in Worker, commitLost(w)
  PROVE  IInv'
<1>1. PICK op \in job[w].ops :
       \/ /\ job' = [job EXCEPT ![w].ops = @ \ {op},
                                ![w].done = @ \cup {[id |-> op.id, status |-> "ok"]}]
          /\ UNCHANGED nextId
       \/ /\ job' = [job EXCEPT ![w].ops = @ \ {op},
                                ![w].done = @ \cup {[id |-> nextId, status |-> "firing"]}]
          /\ nextId' = nextId + 1
  BY DEF commitLost
<1>2. UNCHANGED <<alarm, firing>>
  BY DEF commitLost
<1>3. UnusedAbove'
  BY <1>1, <1>2 DEF IInv, TypeOK, UnusedAbove, AlarmId
<1>4. OpenAlarmHasItsRow' /\ RowHasItsOpenAlarm'
  BY <1>2 DEF IInv, OpenAlarmHasItsRow, RowHasItsOpenAlarm, IsFiring
<1>5. \A v \in Worker : job'[v].role = job[v].role
  <2>1. job \in [Worker -> Job]
    BY DEF IInv, TypeOK
  <2>2. CASE job' = [job EXCEPT ![w].ops = @ \ {op},
                                ![w].done = @ \cup {[id |-> op.id, status |-> "ok"]}]
    BY <2>1, <2>2 DEF Job
  <2>3. CASE job' = [job EXCEPT ![w].ops = @ \ {op},
                                ![w].done = @ \cup {[id |-> nextId, status |-> "firing"]}]
    BY <2>1, <2>3 DEF Job
  <2> QED BY <1>1, <2>2, <2>3
<1>6. TypeOK' /\ NoPlatformJob'
  BY <1>5, LostType DEF IInv, NoPlatformJob
<1> QED BY <1>3, <1>4, <1>6 DEF IInv

LEMMA NextIInv == IInv /\ [Next]_vars => IInv'
<1> SUFFICES ASSUME IInv, [Next]_vars PROVE IInv'
  OBVIOUS
<1>1. TypeOK'
  BY NextType DEF IInv
<1>2. ASSUME NEW w \in Worker, Start(w) \/ Progress(w) PROVE IInv'
  BY <1>1, <1>2, ReadIInv, WriteIInv, LostIInv, CloseIInv DEF Progress
<1>3. CASE cleanAlarmTableJob
  <2>1. PICK last \in AlarmId :
          alarm' = [a \in AlarmId |->
                      IF a \in {b \in AlarmId : b <= last /\ alarm[b].status = "ok"}
                      THEN [alarm[a] EXCEPT !.status = "deleted"] ELSE alarm[a]]
    BY <1>3 DEF cleanAlarmTableJob
  <2>2. UNCHANGED <<firing, nextId, job>>
    BY <1>3 DEF cleanAlarmTableJob
  <2>3. UnusedAbove'
    BY <2>1, <2>2 DEF IInv, TypeOK, UnusedAbove, Contract!Unused
  <2>4. OpenAlarmHasItsRow'
    BY <2>1, <2>2 DEF IInv, TypeOK, OpenAlarmHasItsRow, IsFiring, Contract!AlarmRow, Contract!Unused
  <2>5. RowHasItsOpenAlarm' /\ NoPlatformJob'
    BY <2>1, <2>2 DEF IInv, TypeOK, RowHasItsOpenAlarm, NoPlatformJob, IsFiring, NoAlarm
  <2> QED BY <1>1, <2>3, <2>4, <2>5 DEF IInv
<1>4. CASE worldChanges
  BY <1>1, <1>4, LocalIInv DEF worldChanges, IInv, NoPlatformJob
<1>5. CASE restart
  BY <1>1, <1>5, LocalIInv DEF restart, IInv, NoPlatformJob, Idle
<1>6. CASE UNCHANGED vars
  BY <1>1, <1>6, LocalIInv DEF vars, IInv, NoPlatformJob
<1> QED BY <1>2, <1>3, <1>4, <1>5, <1>6 DEF Next

LEMMA SpecIInv == Spec => []IInv
<1> QED BY InitIInv, NextIInv, PTL DEF Spec

(* However many handlers and cron jobs overlap, an open alarm is always    *)
(* the one that the alarm_firing row of its series names: no stale resolve *)
(* or close takes a newer occurrence's row away.                           *)
THEOREM OpenAlarmCorrect == Spec => []OpenAlarmHasItsRow
<1>1. IInv => OpenAlarmHasItsRow
  BY DEF IInv
<1> QED BY <1>1, SpecIInv, PTL

(* Without the platform's calls no alarm_firing row is ever left behind.   *)
THEOREM RowCorrect == Spec => []RowHasItsOpenAlarm
<1>1. IInv => RowHasItsOpenAlarm
  BY DEF IInv
<1> QED BY <1>1, SpecIInv, PTL

-----------------------------------------------------------------------------
(* Refinement: every transaction is a step of AlarmContract or a stutter. *)

LEMMA InitRefines == Init => Contract!Init
BY DEF Init, Contract!Init

(* The unique key is taken as long as an alarm of the series is open, so   *)
(* an insert that commits raises on a free id of a series with none open.  *)
LEMMA WriteRefines ==
  ASSUME IInv, NEW w \in Worker, doInsertOrUpdateAlarm(w)
  PROVE  [Contract!Next]_alarm
<1>1. PICK op \in job[w].ops :
       \/ op.id # NoAlarm /\ ResolveRow(op.id)
       \/ op.id = NoAlarm /\ InsertRow(op.series)
  BY DEF doInsertOrUpdateAlarm
<1>2. op \in Op
  BY DEF IInv, TypeOK, Job
<1>3. CASE op.id # NoAlarm /\ ResolveRow(op.id)
  <2>1. op.id \in AlarmId
    BY <1>2, <1>3 DEF Op
  <2>2. Contract!Resolve(op.id) \/ UNCHANGED alarm
    BY <1>3 DEF ResolveRow, IsFiring, Contract!Resolve
  <2> QED BY <2>1, <2>2 DEF Contract!Next
<1>4. CASE op.id = NoAlarm /\ InsertRow(op.series)
  <2>1. op.series \in Series
    BY <1>2 DEF Op
  <2>2. nextId \in AlarmId
    BY <1>4, AlarmFiringAssumption DEF InsertRow, IInv, TypeOK, AlarmId
  <2>3. alarm[nextId] = Contract!Unused
    BY <2>2 DEF IInv, UnusedAbove, AlarmId
  <2>4. Contract!Open(op.series) = {}
    BY <1>4, <2>1
    DEF InsertRow, IInv, OpenAlarmHasItsRow, IsFiring, Contract!Open, AlarmId, NoAlarm
  <2>5. Contract!Raise(nextId, op.series)
    BY <1>4, <2>3, <2>4 DEF InsertRow, Contract!Raise
  <2> QED BY <2>1, <2>2, <2>5 DEF Contract!Next
<1> QED BY <1>1, <1>3, <1>4

(* UPDATE ... WHERE id=? on rows some of which the cleaner may have taken. *)
LEMMA CloseRefines ==
  ASSUME TypeOK, NEW A \in SUBSET AlarmId, SetClosed(A)
  PROVE  [Contract!Next]_alarm
<1> DEFINE B == {a \in A : Exists(a)}
<1>1. alarm' = [a \in AlarmId |->
                  IF a \in B THEN [alarm[a] EXCEPT !.status = "closed"] ELSE alarm[a]]
  BY DEF SetClosed
<1>2. CASE B = {}
  <2>1. alarm' = [a \in AlarmId |-> alarm[a]]
    BY <1>1, <1>2
  <2>2. alarm = [a \in AlarmId |-> alarm[a]]
    BY DEF TypeOK
  <2> QED BY <2>1, <2>2
<1>3. CASE B # {}
  <2>1. \A a \in B : alarm[a].status \in {"firing", "ok", "closed"}
    BY DEF Exists
  <2>2. Contract!Close(B)
    BY <1>1, <1>3, <2>1 DEF Contract!Close
  <2> QED BY <2>2 DEF Contract!Next
<1> QED BY <1>2, <1>3

LEMMA NextRefines == IInv /\ [Next]_vars => [Contract!Next]_alarm
<1> SUFFICES ASSUME IInv, [Next]_vars PROVE [Contract!Next]_alarm
  OBVIOUS
<1>1. ASSUME NEW w \in Worker, closeTransaction(w) \/ platformTransaction(w)
      PROVE  [Contract!Next]_alarm
  BY <1>1, CloseRefines DEF closeTransaction, platformTransaction, IInv, TypeOK, Job
<1>2. ASSUME NEW w \in Worker,
             \/ Start(w)
             \/ buildNewAlarm(w)
             \/ buildMonitorEngineAlarm(w)
             \/ rollbackAlarm(w)
             \/ commitLost(w)
             \/ finishUpdate(w)
             \/ rollbackClose(w)
      PROVE  UNCHANGED alarm
  BY <1>2 DEF Start, AcceptAlert, doMonitorEngineRuleJob, CloseAlarm, PluginCloseAlarmAction,
              DeleteEndpoint, buildNewAlarm, buildMonitorEngineAlarm, rollbackAlarm,
              commitLost, finishUpdate, rollbackClose
<1>3. ASSUME NEW w \in Worker, Start(w) \/ Progress(w) PROVE [Contract!Next]_alarm
  BY <1>1, <1>2, <1>3, WriteRefines DEF Progress
<1>4. CASE cleanAlarmTableJob
  <2>1. PICK last \in AlarmId :
          alarm' = [a \in AlarmId |->
                      IF a \in {b \in AlarmId : b <= last /\ alarm[b].status = "ok"}
                      THEN [alarm[a] EXCEPT !.status = "deleted"] ELSE alarm[a]]
    BY <1>4 DEF cleanAlarmTableJob
  <2>2. Contract!Trim({b \in AlarmId : b <= last /\ alarm[b].status = "ok"})
    BY <2>1 DEF Contract!Trim
  <2> QED BY <2>2 DEF Contract!Next
<1>5. CASE restart \/ worldChanges \/ UNCHANGED vars
  BY <1>5 DEF restart, worldChanges, vars
<1> QED BY <1>3, <1>4, <1>5 DEF Next

(* The tables written by overlapping handlers, engine ticks, closings and  *)
(* the cleaner keep the promise of AlarmContract.                          *)
THEOREM Refinement == Spec => ImplementsContract
<1> QED BY SpecIInv, InitRefines, NextRefines, PTL DEF Spec, ImplementsContract, Contract!Spec

(* A series never has two open alarms. *)
THEOREM OneOpenAlarm == Spec => []Contract!OneOpenAlarmPerSeries
<1>1. IInv => Contract!OneOpenAlarmPerSeries
  BY DEF IInv, OpenAlarmHasItsRow, IsFiring, Contract!OneOpenAlarmPerSeries
<1> QED BY <1>1, SpecIInv, PTL
=============================================================================
