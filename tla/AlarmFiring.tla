---------------------------- MODULE AlarmFiring ----------------------------
(***************************************************************************)
(* The alarm tables of monitor-server and everything that writes them for  *)
(* single-condition strategies.  Two tables share the work: `alarm` is the *)
(* history, one row per occurrence, and `alarm_firing` has one row per     *)
(* series that is firing, with a UNIQUE key on the hash of the series.     *)
(* The writers are HTTP handlers and cron goroutines of one or several     *)
(* server processes over one MySQL database.  Each of them READS the       *)
(* tables first, outside any transaction, decides, and writes later in a   *)
(* transaction of its own; nothing else keeps them apart.                  *)
(*                                                                         *)
(* A worker is one such goroutine.  One action is one query, one           *)
(* transaction, or the local work between two of them.                     *)
(***************************************************************************)
EXTENDS Naturals, FiniteSets

CONSTANTS
  RuleSeries,     \* series whose rule runs in Prometheus: alerts come by webhook
  EngineSeries,   \* series of strategies with monitor_engine=1
  Worker,         \* the goroutines that may be at work at the same time
  MaxAlarms,      \* bound on the rows ever inserted in `alarm`
  PlatformClose,  \* do the platform's calls (plugin close, deregister) occur?
  CommitFails     \* may a COMMIT of UpdateAlarms fail? its error is dropped

Series == RuleSeries \cup EngineSeries
AlarmId == 1 .. MaxAlarms
NoAlarm == 0

ASSUME AlarmFiringAssumption ==
  /\ RuleSeries \cap EngineSeries = {}
  /\ MaxAlarms \in Nat
  /\ PlatformClose \in BOOLEAN
  /\ CommitFails \in BOOLEAN
  /\ "none" \notin Series

VARIABLES
  cond,     \* cond[s]: what the engine's query for s would say now
  alarm,    \* table alarm: alarm[a] is the row with id a
  firing,   \* table alarm_firing: firing[s] is the alarm_id of s's row, or NoAlarm
  nextId,   \* the AUTO_INCREMENT of table alarm
  job       \* job[w]: the local state of goroutine w

vars == <<cond, alarm, firing, nextId, job>>

Contract == INSTANCE AlarmContract

-----------------------------------------------------------------------------
(* Types *)

Cond == {"match", "muted", "nonmatch", "nodata"}
Input == [series : Series, kind : {"firing", "resolved", "eval"}]
Op == [id : AlarmId \cup {NoAlarm}, series : Series]
Result == [id : AlarmId, status : {"firing", "ok"}]
Role == {"idle", "alerts", "engine", "close", "platform"}

Job == [role : Role,
        todo : SUBSET Input,     \* alerts or series still to be looked at
        seen : SUBSET AlarmId,   \* rows a query returned
        ops  : SUBSET Op,        \* alarmList, not yet written by UpdateAlarms
        done : SUBSET Result]    \* successAlarms

Idle == [role |-> "idle", todo |-> {}, seen |-> {}, ops |-> {}, done |-> {}]

TypeOK ==
  /\ cond \in [EngineSeries -> Cond]
  /\ alarm \in [AlarmId -> Contract!AlarmRow]
  /\ firing \in [Series -> AlarmId \cup {NoAlarm}]
  /\ nextId \in 1 .. (MaxAlarms + 1)
  /\ job \in [Worker -> Job]

-----------------------------------------------------------------------------
(* Queries *)

IsFiring(a) == alarm[a].status = "firing"

FiringOf(s) == {a \in AlarmId : IsFiring(a) /\ alarm[a].series = s}

(* What a query ordered by id returns of the rows A: the last one, or none. *)
LatestOf(A) == IF A = {} THEN {NoAlarm} ELSE {a \in A : \A b \in A : b <= a}

Exists(a) == alarm[a].status \in {"firing", "ok", "closed"}

Init ==
  /\ cond \in [EngineSeries -> Cond]
  /\ alarm = [a \in AlarmId |-> Contract!Unused]
  /\ firing = [s \in Series |-> NoAlarm]
  /\ nextId = 1
  /\ job = [w \in Worker |-> Idle]

-----------------------------------------------------------------------------
(* Deciding: AcceptAlert (a webhook call) and doMonitorEngineRuleJob (10 s) *)

(* A webhook call brings a group of alerts.  Alertmanager repeats, retries *)
(* after a timeout and resends, so any group may arrive at any time.       *)
AcceptAlert(w) ==
  /\ job[w].role = "idle"
  /\ \E S \in (SUBSET RuleSeries) \ {{}} : \E kind \in [S -> {"firing", "resolved"}] :
       job' = [job EXCEPT ![w] =
                 [Idle EXCEPT !.role = "alerts",
                              !.todo = {[series |-> s, kind |-> kind[s]] : s \in S}]]
  /\ UNCHANGED <<cond, alarm, firing, nextId>>

(* One alert against the newest open alarm of its series; a query that     *)
(* fails counts as one that found none.  A repeated firing and a resolve   *)
(* without alarm are dropped; so is an alert of a disabled endpoint, in a  *)
(* maintenance window or, to add, outside the window of its strategy.      *)
buildNewAlarm(w) ==
  /\ job[w].role = "alerts"
  /\ \E m \in job[w].todo : \E exist \in LatestOf(FiringOf(m.series)) \cup {NoAlarm} :
       \/ job' = [job EXCEPT ![w].todo = @ \ {m}]
       \/ /\ (m.kind = "firing") <=> (exist = NoAlarm)
          /\ job' = [job EXCEPT ![w].todo = @ \ {m},
                                ![w].ops = @ \cup {[id |-> exist, series |-> m.series]}]
  /\ UNCHANGED <<cond, alarm, firing, nextId>>

(* The tick: the list of open alarms is read once, before the series are   *)
(* queried one after the other.  Ticks do not wait for each other.         *)
doMonitorEngineRuleJob_anyStatus(w) ==
  /\ job[w].role = "idle"
  /\ EngineSeries # {}
  /\ job' = [job EXCEPT ![w] =
               [Idle EXCEPT !.role = "engine",
                            !.todo = {[series |-> s, kind |-> "eval"] : s \in EngineSeries},
                            !.seen = {a \in AlarmId : Exists(a) /\ alarm[a].series \in EngineSeries}]]
  /\ UNCHANGED <<cond, alarm, firing, nextId>>

doMonitorEngineRuleJob(w) ==
  /\ job[w].role = "idle"
  /\ EngineSeries # {}
  /\ job' = [job EXCEPT ![w] =
               [Idle EXCEPT !.role = "engine",
                            !.todo = {[series |-> s, kind |-> "eval"] : s \in EngineSeries},
                            !.seen = UNION {FiringOf(s) : s \in EngineSeries}]]
  /\ UNCHANGED <<cond, alarm, firing, nextId>>

(* What the engine does with the answer to one series' query: one value    *)
(* outside the threshold resolves, all inside raise (unless muted: out of  *)
(* the active window, endpoint disabled), no value does nothing.           *)
EngineOps_swapped(s, exist) ==
  IF \/ cond[s] = "nodata" /\ exist # NoAlarm
     \/ cond[s] = "match" /\ exist = NoAlarm
  THEN {[id |-> exist, series |-> s]}
  ELSE {}

EngineOps(s, exist) ==
  IF \/ cond[s] = "nonmatch" /\ exist # NoAlarm
     \/ cond[s] = "match" /\ exist = NoAlarm
  THEN {[id |-> exist, series |-> s]}
  ELSE {}

buildMonitorEngineAlarm(w) ==
  /\ job[w].role = "engine"
  /\ \E m \in job[w].todo :
       \E exist \in LatestOf({a \in job[w].seen : alarm[a].series = m.series}) :
         job' = [job EXCEPT ![w].todo = @ \ {m},
                            ![w].ops = @ \cup EngineOps(m.series, exist)]
  /\ UNCHANGED <<cond, alarm, firing, nextId>>

-----------------------------------------------------------------------------
(* Writing: UpdateAlarms, one transaction per element of the list *)

InUpdateAlarms(w) == job[w].role \in {"alerts", "engine"} /\ job[w].todo = {}

(* UPDATE ... WHERE id=? AND status='firing', and only if that changed a   *)
(* row: DELETE FROM alarm_firing WHERE alarm_id=?.                         *)
ResolveRow_unguarded(a) ==
  /\ alarm' = IF Exists(a) THEN [alarm EXCEPT ![a].status = "ok"] ELSE alarm
  /\ firing' = [s \in Series |-> IF firing[s] = a THEN NoAlarm ELSE firing[s]]

ResolveRow_bySeries(a) ==
  /\ alarm' = IF IsFiring(a) THEN [alarm EXCEPT ![a].status = "ok"] ELSE alarm
  /\ firing' = [firing EXCEPT ![alarm[a].series] = NoAlarm]

ResolveRow(a) ==
  IF IsFiring(a)
  THEN /\ alarm' = [alarm EXCEPT ![a].status = "ok"]
       /\ firing' = [s \in Series |-> IF firing[s] = a THEN NoAlarm ELSE firing[s]]
  ELSE UNCHANGED <<alarm, firing>>

(* INSERT INTO alarm_firing (refused when the unique hash exists), INSERT  *)
(* INTO alarm, UPDATE alarm_firing SET alarm_id.                           *)
InsertRow(s) ==
  /\ firing[s] = NoAlarm
  /\ nextId <= MaxAlarms
  /\ alarm' = [alarm EXCEPT ![nextId] = [series |-> s, status |-> "firing"]]
  /\ firing' = [firing EXCEPT ![s] = nextId]
  /\ nextId' = nextId + 1

(* The transaction commits.  A resolve that changed no row is reported as  *)
(* a success all the same.                                                 *)
doInsertOrUpdateAlarm(w) ==
  /\ InUpdateAlarms(w)
  /\ \E op \in job[w].ops :
       \/ /\ op.id # NoAlarm
          /\ ResolveRow(op.id)
          /\ job' = [job EXCEPT ![w].ops = @ \ {op},
                                ![w].done = @ \cup {[id |-> op.id, status |-> "ok"]}]
          /\ UNCHANGED nextId
       \/ /\ op.id = NoAlarm
          /\ InsertRow(op.series)
          /\ job' = [job EXCEPT ![w].ops = @ \ {op},
                                ![w].done = @ \cup {[id |-> nextId, status |-> "firing"]}]
  /\ UNCHANGED cond

rollbackAlarm_reported(w) ==
  /\ InUpdateAlarms(w)
  /\ \E op \in job[w].ops :
       /\ op.id # NoAlarm
       /\ job' = [job EXCEPT ![w].ops = @ \ {op},
                             ![w].done = @ \cup {[id |-> op.id, status |-> "ok"]}]
  /\ UNCHANGED <<cond, alarm, firing, nextId>>

(* The transaction rolls back: the unique key refused the row, or the      *)
(* database failed.  The element is logged and forgotten.                  *)
rollbackAlarm(w) ==
  /\ InUpdateAlarms(w)
  /\ \E op \in job[w].ops : job' = [job EXCEPT ![w].ops = @ \ {op}]
  /\ UNCHANGED <<cond, alarm, firing, nextId>>

(* COMMIT fails and nobody looks at its error: the tables are as before,   *)
(* an id of the AUTO_INCREMENT is spent, the element counts as a success.  *)
commitLost(w) ==
  /\ CommitFails
  /\ InUpdateAlarms(w)
  /\ \E op \in job[w].ops :
       \/ /\ op.id # NoAlarm
          /\ job' = [job EXCEPT ![w].ops = @ \ {op},
                                ![w].done = @ \cup {[id |-> op.id, status |-> "ok"]}]
          /\ UNCHANGED nextId
       \/ /\ op.id = NoAlarm
          /\ firing[op.series] = NoAlarm
          /\ nextId <= MaxAlarms
          /\ nextId' = nextId + 1
          /\ job' = [job EXCEPT ![w].ops = @ \ {op},
                                ![w].done = @ \cup {[id |-> nextId, status |-> "firing"]}]
  /\ UNCHANGED <<cond, alarm, firing>>

(* The list is done: notifications are handed to goroutines of their own   *)
(* (AlarmNotify.tla) and the handler ends.                                 *)
finishUpdate(w) ==
  /\ InUpdateAlarms(w)
  /\ job[w].ops = {}
  /\ job' = [job EXCEPT ![w] = Idle]
  /\ UNCHANGED <<cond, alarm, firing, nextId>>

-----------------------------------------------------------------------------
(* Closing *)

(* POST problem/close: the open alarms that match the user's filter. *)
CloseAlarm(w) ==
  /\ job[w].role = "idle"
  /\ \E A \in (SUBSET {a \in AlarmId : IsFiring(a)}) \ {{}} :
       job' = [job EXCEPT ![w] = [Idle EXCEPT !.role = "close", !.seen = A]]
  /\ UNCHANGED <<cond, alarm, firing, nextId>>

(* UPDATE alarm SET status='closed' WHERE id=?: whatever the status is now. *)
SetClosed_typo(A) ==
  alarm' = [a \in AlarmId |->
              IF a \in A /\ Exists(a) THEN [alarm[a] EXCEPT !.status = "close"] ELSE alarm[a]]

SetClosed(A) ==
  alarm' = [a \in AlarmId |->
              IF a \in A /\ Exists(a) THEN [alarm[a] EXCEPT !.status = "closed"] ELSE alarm[a]]

closeTransaction_keepsRow(w) ==
  /\ job[w].role = "close"
  /\ SetClosed(job[w].seen)
  /\ job' = [job EXCEPT ![w] = Idle]
  /\ UNCHANGED <<cond, firing, nextId>>

closeTransaction(w) ==
  /\ job[w].role = "close"
  /\ SetClosed(job[w].seen)
  /\ firing' = [s \in Series |-> IF firing[s] \in job[w].seen THEN NoAlarm ELSE firing[s]]
  /\ job' = [job EXCEPT ![w] = Idle]
  /\ UNCHANGED <<cond, nextId>>

(* The platform closes one alarm by id, unless it reads "closed". *)
PluginCloseAlarmAction(w) ==
  /\ PlatformClose
  /\ job[w].role = "idle"
  /\ \E a \in AlarmId :
       /\ Exists(a)
       /\ alarm[a].status # "closed"
       /\ job' = [job EXCEPT ![w] = [Idle EXCEPT !.role = "platform", !.seen = {a}]]
  /\ UNCHANGED <<cond, alarm, firing, nextId>>

(* Deregistering an endpoint closes the open alarms of its series. *)
DeleteEndpoint(w) ==
  /\ PlatformClose
  /\ job[w].role = "idle"
  /\ \E S \in (SUBSET Series) \ {{}} :
       LET A == UNION {FiringOf(s) : s \in S}
       IN  /\ A # {}
           /\ job' = [job EXCEPT ![w] = [Idle EXCEPT !.role = "platform", !.seen = A]]
  /\ UNCHANGED <<cond, alarm, firing, nextId>>

(* Neither of the two touches alarm_firing. *)
platformTransaction(w) ==
  /\ job[w].role = "platform"
  /\ SetClosed(job[w].seen)
  /\ job' = [job EXCEPT ![w] = Idle]
  /\ UNCHANGED <<cond, firing, nextId>>

(* A closing transaction fails: the caller gets the error. *)
rollbackClose(w) ==
  /\ job[w].role \in {"close", "platform"}
  /\ job' = [job EXCEPT ![w] = Idle]
  /\ UNCHANGED <<cond, alarm, firing, nextId>>

(* Once a day: DELETE FROM alarm WHERE status='ok' AND start<=day. *)
cleanAlarmTableJob ==
  /\ \E last \in AlarmId :
       LET old == {a \in AlarmId : a <= last /\ alarm[a].status = "ok"}
       IN  /\ old # {}
           /\ alarm' = [a \in AlarmId |->
                          IF a \in old THEN [alarm[a] EXCEPT !.status = "deleted"] ELSE alarm[a]]
  /\ UNCHANGED <<cond, firing, nextId, job>>

(* The server stops and starts again: MySQL rolls back what was open, and  *)
(* whatever the goroutines had read or decided is gone.                    *)
restart ==
  /\ job' = [w \in Worker |-> Idle]
  /\ UNCHANGED <<cond, alarm, firing, nextId>>

(* The monitored world: the samples, the windows and the switches change. *)
worldChanges ==
  /\ \E s \in EngineSeries, c \in Cond : cond' = [cond EXCEPT ![s] = c]
  /\ UNCHANGED <<alarm, firing, nextId, job>>

-----------------------------------------------------------------------------
Progress(w) ==
  \/ buildNewAlarm(w)
  \/ buildMonitorEngineAlarm(w)
  \/ doInsertOrUpdateAlarm(w)
  \/ rollbackAlarm(w)
  \/ commitLost(w)
  \/ finishUpdate(w)
  \/ closeTransaction(w)
  \/ platformTransaction(w)
  \/ rollbackClose(w)

Start(w) ==
  \/ AcceptAlert(w)
  \/ doMonitorEngineRuleJob(w)
  \/ CloseAlarm(w)
  \/ PluginCloseAlarmAction(w)
  \/ DeleteEndpoint(w)

Next ==
  \/ \E w \in Worker : Start(w) \/ Progress(w)
  \/ cleanAlarmTableJob
  \/ restart
  \/ worldChanges

Spec == Init /\ [][Next]_vars

(* Goroutines are scheduled and MySQL does not fail for ever: a worker's    *)
(* pending step is taken, and a list element whose transaction can commit  *)
(* again and again does.  The ticker of the engine never stops; that it    *)
(* has to find a free worker is only the model's bound, hence SF.  Nobody  *)
(* is obliged to send alerts, to close or to clean.                        *)
Fairness ==
  /\ \A w \in Worker : WF_vars(Progress(w)) /\ SF_vars(doInsertOrUpdateAlarm(w))
  /\ SF_vars(\E w \in Worker : doMonitorEngineRuleJob(w))

FairSpec == Spec /\ Fairness

-----------------------------------------------------------------------------
(* Properties *)

(* Every open alarm is the one the alarm_firing row of its series names    *)
(* (UpdateAlarms, CloseAlarm): a writer that acts on an old read never     *)
(* takes away the row of a newer occurrence, and so the unique key keeps   *)
(* a series from having two open alarms.                                   *)
OpenAlarmHasItsRow ==
  \A a \in AlarmId : IsFiring(a) => firing[alarm[a].series] = a

(* Where only users close alarms, an alarm_firing row always stands for an *)
(* open alarm: a row left behind would make the unique key refuse every    *)
(* later occurrence of the series.                                         *)
RowHasItsOpenAlarm ==
  PlatformClose
  \/ \A s \in Series : firing[s] # NoAlarm =>
       IsFiring(firing[s]) /\ alarm[firing[s]].series = s

(* The history tables behave as AlarmContract says: at most one open alarm *)
(* per series, recovered and closed alarms never open again, a user's      *)
(* close is not overwritten by a late resolve.                             *)
ImplementsContract == Contract!Spec

(* No new id is missing: the bound on inserted rows has not been met. *)
HasRoom == nextId <= MaxAlarms

(* The server does not restart for ever. *)
StaysUp == <>[][~restart]_vars

(* As long as the engine's query says "match", an open alarm is there      *)
(* again and again, whoever closes it ("no open alarm: add one").          *)
MatchIsRaised ==
  \A s \in EngineSeries :
    <>[](cond[s] = "match") /\ []HasRoom /\ StaysUp => []<>(FiringOf(s) # {})

(* When the query goes on saying "nonmatch", the alarm is resolved and     *)
(* stays so, although stale jobs may still insert for a while.             *)
NonmatchIsResolved ==
  \A s \in EngineSeries :
    <>[](cond[s] = "nonmatch") /\ StaysUp => <>[](FiringOf(s) = {})
=============================================================================
