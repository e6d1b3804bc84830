# A formal model of open-monitor

TLA+ modules, TLC runs and TLAPS proofs about open-monitor: the server that turns
Prometheus samples into alarms (`monitor-server`), and the agents it configures
(`monitor-agent`). All paths below are relative to the repository (`src/`).
`PROJECT.json` ties every definition to the lines it models.

## 1. The system

```
 exporters -> Prometheus --rules--> Alertmanager --webhook--> AcceptAlert --.
     ^             ^                                                        |
     | POST        '-- PromQL -- monitor engine (10 s cron) ----------------+--> alarm, alarm_firing
     |             '-- counters - keyword jobs (10 s cron) --.              |    alarm_condition(_rel)
 monitor-server (handlers, cron goroutines)                  '--> log_/db_keyword_alarm, alarm
     |                                                                      |
     '-- rule and target files -> Prometheus        NotifyStrategyAlarm <---'--> mail, platform events
```

One or several server processes share a MySQL database. Handlers and cron jobs are
goroutines; what keeps them apart is the database: the transactions (built from lists of
actions), and the UNIQUE key of `alarm_firing`. Nearly every writer first reads, decides in
memory, and writes in a later transaction.

| component | state | operations | hard behaviour | what makes it correct |
|---|---|---|---|---|
| alarm tables (`services/db/alarm.go`, `alarm_firing.go`) | `alarm` (history), `alarm_firing` (one row per firing series) | UpdateAlarms, CloseAlarm, PluginCloseAlarmAction, DeleteEndpoint, cleanAlarmTableJob | decisions on stale reads; lost COMMIT; restart | one open alarm per series; recovered and closed alarms stay so; a left-over row blocks a series |
| webhook (`api/v1/alarm/alarm.go`) | none | AcceptAlert, buildNewAlarm | repeated, concurrent, reordered calls | as above |
| monitor engine (`alarm_engine.go`) | none | doMonitorEngineRuleJob every 10 s | overlapping ticks, list of open alarms read once | what goes on matching is raised, what goes on not matching is resolved |
| notifications (`alarm_strategy.go` 887-1207) | goroutines only | delay, look at the alarm, mail or event with retries | lost in a restart, unordered, late | messages are true; quick recoveries are silent |
| multi-condition alarms (`alarm.go` 1847-1990) | `alarm_condition`, `alarm_condition_rel` | UpdateAlarmWithConditions, closings | reads before the transaction | raised when all conditions fire, recovered with one |
| keyword alarms (`log_keyword.go`, `db_keyword.go`) | `log_keyword_alarm`, `db_keyword_alarm` | two cron jobs, closings, edits | overlapping jobs, counter resets, active window | one open alarm per key, one per new hit |
| rule files (`services/db/prometheus.go`, `services/prom/file_rule.go`) | a bounded queue, a file per group, the time of the last check | SyncPrometheusRuleFile, consumer with reload, check every minute and every day | content read before it is queued, time set after the check, a failing write or reload, several servers | the file follows the database; what is missed is made up for |
| target files (`services/db/cluster.go`, `file_sd.go`) | a queue, a file per step | SyncSdEndpointNew, consumer | an empty list is not written | not modelled |
| endpoint registration (`api/v1/agent`) | `endpoint_new` | register, deregister | calls to several agents, no transaction across | targets, exporters and rows agree |
| agent manager (`monitor-agent/agent_manager`) | a map of exporters, a file, processes | deploy, delete, check with restarts, stop, load | check against delete, late processes, killed manager | no exporter runs that the manager does not know; dead ones run again |
| keyword collector (node exporter) | one collector and tail per file, the saved post | POST, tail, count, restart | posts that are lost, reordered or overlap; a bad expression | what is saved is followed and counted, and is what the database says |
| log metric collector (node exporter) | monitors, their handlers and channels, published values | POST, tail, handler, calculation every 10 s | three locks and a full channel; a file opened anew; the step | every line is counted once |
| archive tool, ping exporter, db exporter, daemon wrapper, gateway, comparison exporter | lists, counters, caches | timers and POSTs | timeouts, overlapping runs, empty lists | see the hazards |
| CRUD (dashboards, metrics, templates, users, organisation, SNMP, Kubernetes, ...) | tables | one transaction each | little | not modelled |

The list of hazards, each at its line, is in `PROJECT.json`.

## 2. Modules

| module | what it is |
|---|---|
| `AlarmContract` | the promise of the history tables: raise, resolve, close, trim; at most one open alarm per series |
| `AlarmFiring` | every writer of `alarm` and `alarm_firing` for single-condition strategies, as workers that read first and write later |
| `AlarmFiring_proofs` | theorems about `AlarmFiring` |
| `AlarmNotify` | `AlarmFiring` (its actions through an INSTANCE) with time, the notification goroutines and what recipients were told |
| `AlarmCondition` | composite alarms over several conditions |
| `KeywordAlarm` | one keyword's alarms: counter, row, jobs, closings |
| `ConfigMirror` | the promise of everything that is generated from the database: the copy never runs ahead of it and, unless writings overtake each other, only moves forward |
| `RuleConfigSync` | the rule file of one group on one server: handlers, checks, queue, consumer, Prometheus; implements `ConfigMirror` |
| `LogKeywordCollector` | the keyword collectors of one host, from the database to the counter; its saved file implements `ConfigMirror` |
| `LogMetricCollector` | monitors of one log file, their goroutines, channels and locks, and the calculation |
| `AgentManager` | one exporter: calls, check, start and stop of the manager, processes |
| `AlarmNotify_proofs` | theorems about `AlarmNotify`, which reuse those about `AlarmFiring` through an INSTANCE of `AlarmFiring_proofs` |
| `AlarmCondition_proofs`, `KeywordAlarm_proofs`, `RuleConfigSync_proofs`, `LogKeywordCollector_proofs`, `LogMetricCollector_proofs`, `AgentManager_proofs` | theorems about the module of that name |
| `MC*` | model values and symmetry for TLC |

How they compose: `AlarmNotify` takes the actions of `AlarmFiring` through an INSTANCE, and
`AlarmFiring` implements `AlarmContract`; so does `KeywordAlarm`, with one key for a series, while
its jobs take turns. `RuleConfigSync` and `LogKeywordCollector` both
implement `ConfigMirror`, with the rule file and the saved post as the copy. What
`RuleConfigSync` loads into Prometheus and what the collectors count is what raises the alerts
and the hits that `AlarmFiring` and `KeywordAlarm` take as inputs, in any order; the alarm
modules use nothing else of it, so they are not composed further.

### AlarmFiring
A *worker* is a goroutine: a webhook call, an engine tick, a user's close, or a close by the
platform. Its record holds what the code holds in local variables: `todo` the alerts or rules
still to look at, `seen` the ids a query returned, `ops` the `alarmList` of `UpdateAlarms`,
`done` its `successAlarms`. One action is one query, one transaction, or the local work between
them:

| action | code |
|---|---|
| `AcceptAlert`, `buildNewAlarm` | the handler; each alert against the newest open alarm, read outside the transaction; a failed query counts as none |
| `doMonitorEngineRuleJob`, `buildMonitorEngineAlarm` | a tick; the open engine alarms are read once; the query's answer (`cond`) is that of the moment |
| `ResolveRow`, `InsertRow` (`doInsertOrUpdateAlarm`) | the transaction of one element; the UNIQUE key is the guard `firing[s] = NoAlarm` |
| `rollbackAlarm`, `commitLost` | a failing transaction is skipped; a failing COMMIT is taken for success |
| `CloseAlarm`, `closeTransaction` | ids read, then one transaction; `alarm_firing` rows go with it |
| `PluginCloseAlarmAction`, `DeleteEndpoint`, `platformTransaction` | as above, but the `alarm_firing` rows stay |
| `cleanAlarmTableJob`, `restart` | trim; every goroutine is gone, the tables stay |
| `worldChanges` | Prometheus, windows, switches: external |

Alertmanager is not modelled beyond this: any group of alerts may arrive at any time, which
includes its repetitions, retries and reorderings.

### AlarmNotify
A *slot* is a running `NotifyStrategyAlarm`. Firing: sleep for the delay, look at the alarm,
drop the message if it recovered. Ok: drop it if the clock is still within the delay from the
start. The look may fail: its error is dropped, the message goes out, and the history variable
`blind` has its alarm. Then mail, or an event with three tries. Other history variables hold what
was told and when, the messages given up or lost (`dropped`), and the words that are wrong because
a COMMIT was lost (`unsaved`).

### AlarmCondition
A condition is a `crc` (its hash), a label set a `tag`. The reads before the transaction
(firing rows of the strategy, open composite alarms) and the transaction are separate actions.
`DeleteEndpoint` closes the open alarms and leaves their condition rows firing; `abandoned` has these
alarms. An endpoint registered again under the same name finds the rows, so all conditions
can fire with no alarm open: the properties name that case and no other.
`overlapped` records whether two handlers were ever at work together: some properties hold in
any case, others only while handlers take turns. It is not true that at most one composite alarm
is open, even then: the platform can close an old, recovered alarm, and with it the rows of its
conditions, one of which a newer open alarm may share; when that condition fires again its row is
a new one, and so is the alarm. `OpenAlarmHasItsConditions` says that this is the only way.

### KeywordAlarm
One key. `hits` counts for ever, `base` is where the exporter's counter began after its last
restart, so the value read is `hits - base`. The log and the database job differ only in where
the counter comes from; the module stands for both. `reported`, `owed` and `told` are history.

### RuleConfigSync
A version stands for a content; the group's two parts (endpoints, strategies) are read at
different moments and have update times of their own. A *worker* is a handler or a check of
this server: `readEndpoints`, `readStrategies`, `SyncLocalRuleConfig` (the send into the bounded
queue, which blocks), for a check also `mark`. The consumer's `consume` is the writing of the
file and the reload, and `consumeFails` their failures. A reading may fail (`readingFails`, and the
check of a start): a handler then answers with the error after its transaction, and a check goes on to
its `mark`, after which no check of a minute sees the change. Groups do not share a file and servers
meet only in the database, so one group and one server are enough, with *Elsewhere* for the
transactions of all other servers. The update time of a row (`Stamp`) is any time up to now: it
is taken before the transaction. History: `own` (what the last change through this server
asks for), `missed` (a change the check could not see), `upset` (a reading or writing failed, a
writing was overtaken, or found no group). Of a group that follows a service group the code drops
the error of the query for its children (`alarm_strategy.go:541`) and writes rules for fewer
endpoints; that is not modelled.

### LogKeywordCollector
`changeKeyword` is a handler's transaction; `getLogKeywordExporterConfig` its read;
`updateEndpointLogKeyword` the post, which may never arrive (`notSent`: a host before failed, the
request failed). In the exporter a post goes through `update` or `destroy` of each collector,
`afterUpdate` (return because of a bad expression), `remove`, `findNew`, `start`, and
`logKeywordSaveConfig`. The list of collectors is under no lock, so two posts interleave at each
of these. A collector's goroutine ends when it takes the token of `destroy` (`stopTail`). `remove`
says what is left of the list by the increasing map of the new positions to the old ones, which is
what the loop with its append computes, and can be reasoned about. The writing of the file
(`WriteFile`) may fail before or after the file is touched, which is only logged, and a crash may cut
it off; `handled` is what the collectors were last given, by a post or by the load of the file,
`unsaved` says that the file is not that, and `unsent` (a post did not come to its own end) also
covers a start from a file that could not be written.

### LogMetricCollector
Per monitor: the phase of `start`, the tokens in its channels, lines on their way, handlers that
wait and handlers that send, values in the channel. The monitor's read lock is `sending > 0`, its
write lock is wanted by `update` and `destroy` (`Exclusive`); `logMetricHttpLock` is `post.pc #
"idle"` against `calc.pc # "idle"`. `Published` is the arithmetic of buildLogMetricDisplayMetrics
with its display flag and age.

### AgentManager
One exporter (guid). `process` is the map's entry, `obj` the ProcessObj of each deployment with
its directory, `running` the processes. `start` is `startScript` (run start.sh), then `started`,
`startTimeout` or `startFails`; an exporter may also come after the five seconds (`launch`).
The check reads the pids (`getSystemProcessPid`), then looks at the entry (`look`,
`refreshPid`). `excused` is history: calls, the check or the start of the manager overlapped, a
process came late, or the manager was killed. The writing of the file may fail, before or after it is
touched, and nobody notices (`SaveDeployProcess`); `unsaved` says that the one that was to name the
deployment in the map did.
Simplifications: the first tick of the check comes after the manager's start is over; the
listing and deleting of `CleanDeployDir` is one step, so are the three calls of `startSignal`, and
the removal of a directory with that of its entry.

## 3. What the runs show

| run | bounds | shows |
|---|---|---|
| `safety` | 1 rule series, 1 engine series, 2 workers, 3 alarms; platform closes, lost commits | `OpenAlarmHasItsRow`; the history implements `AlarmContract` |
| `live` | 1 engine series, 2 workers, 3 alarms; only users close | `RowHasItsOpenAlarm`, `MatchIsRaised`, `NonmatchIsResolved` |
| `plugin` | as `live`, with closes by the platform | **violated**: `MatchIsRaised` |
| `messages` | 1 series, 1 alarm, delay 1, 2 slots | `MessagesAreTrue`, `QuickRecoveryNotAnnounced`, `EveryAlarmAccountedFor` |
| `conditions` | 2 conditions, 2 label sets, 2 workers, closings and deletions of the endpoint, 3 alarms, 4 condition rows (2 once handlers have overlapped) | in any case: `RaisedForAllConditions`, `EndedWithItsConditions`; while handlers take turns: `AllConditionsRaiseInTurn`, `OpenAlarmHasItsConditions`, `OneFiringRowPerCondition` |
| `conditions_lost` | 2 rows, 1 alarm | **violated**: `AllConditionsRaise` |
| `keyword` | 2 workers, 2 hits, 3 alarms | `RowTellsItsAlarm`; while jobs take turns `OneAlarmToldOnce`, `AlarmNeedsNewHit`; as long as the platform closes none, `HitRaisesAlarm` |
| `rules` | 2 workers, queue of 1, 2 changes, 2 times | `OwnChangeInFile`, `MissedOnlyWhenUnseen`; `MirrorsDatabase`; the daily refresh brings the rules back (`RulesCatchUp`) |
| `collector` | 2 files, a keyword and a bad one, 2 posts at a time, 3 changes | `CollectorsFollowConfig`, `DatabaseIsCounted`, `CountsDoNotFall`, `DestroyIsHeard`; `SavedMirrorsDatabase` |
| `logmetric` | 2 monitors, step of 10 s, channels of 1, 2 lines | `EachLineOnce`, `OneHandler`, `PostsAndLinesEnd` |
| `log_double` | 1 monitor, step of 30 s | **violated**: `EachLineOnce` |
| `agent` | 1 call at a time besides the check and the start, 1 try, 2 deployments, 2 processes | `NoStrayExporter`, `DeployedIsSaved`, `DeadIsRestarted` |

The three violations are disagreements between the code and its own comments:

1. *A series that is dead after a close by the platform.* `PluginCloseAlarmAction` and
   `DeleteEndpoint` close the row of `alarm` and leave that of `alarm_firing`; `CloseAlarm`
   deletes it. The unique hash then makes every later insert of the series roll back. (The
   same close leaves the row of a keyword firing; `HitRaisesAlarm` is therefore asked only
   of behaviours in which the platform closes nothing.)
2. *A composite alarm that is never raised.* Two handlers that add the last two conditions each
   decide on what they read before their transactions. Repetitions are dropped as repeated.
3. *A log metric counted twice.* With a step of more than ten seconds, a tick without lines adds
   the object of the last tick to itself.

What the passing runs name besides, in the conditions of their properties:

- `missed`: a strategy that is deleted, a group that is deleted, and a change committed during
  a check cannot be seen by the minute's check of another server. The daily refresh makes up for
  all of them but the deleted group, whose rules stay on the other servers.
- `upset`: of two handlers that overlap, the one that read first may write last; a check whose
  reading fails logs it and moves the time of the last look, so that only the daily refresh
  (`RulesCatchUp`) makes up for it.
- `blind`: when the look at an alarm after the delay fails, the alarm is announced although it
  has recovered.
- `abandoned`: the conditions of an alarm whose endpoint was deleted stay firing.
- `unsaved` (collector, agent manager): a post is answered with OK, a call with success, when the
  file could not be written; the configuration, or the exporter, is gone after the next start.
- `badPosted`: a post with a bad expression returns after it has stopped collectors and before
  it dropped them; the next posts update collectors that follow nothing, and after a second stop
  the channel's one place is taken, so that a third would wait for ever with the lock.
- `overlapped`: two posts at a time may start a collector twice or drop one.
- `Stuck`: a post that waits for a monitor whose handler waits for room in a channel, which
  only the calculation makes, which waits for the post.
- a start that takes more than five seconds: status "stop", which the check never restarts.

Seen while modelling, and settled by the lines themselves: an empty list of targets is not
written (`services/db/cluster.go:61`); the name of a strategy is looked up before it is inserted,
in no transaction (`alarm_strategy.go:206`); the ok message of an alarm that recovered within the
delay is sent if its goroutine looks at the clock late (`alarm_strategy.go:908`); the result of
`req.WithContext` is dropped, so posts have no timeout (`node_exporter.go:237`); the answer of a
post is always OK (`monitor_log_keyword_linux.go:274`).

**Why the bounds are enough.** Two workers give every pair of overlapping writers; each of the
races above and each mutant needs no more than two goroutines at a time (a third handler that
ran in between can be one that has ended, and a worker is reused). Three alarms give an old,
a recovered or closed, and a new occurrence of one series. A series never meets another one
except in the id sequence and in the lists of a handler, which two series show. Where alarms run out (`nextId`
above `MaxAlarms`) inserts are no longer possible; liveness is therefore asked only of
behaviours with `[]HasRoom`. `MaxHits` 2 gives a hit before and one after
an alarm ends or the counter is reset. `MaxTime` is the delay: the only thing time is compared with.
Two versions of a part are an old and a new content; a queue and channels of one place make
them full as often as possible. In `conditions` a second open alarm
needs four rows and three alarms, so turns go that far; what is asked of handlers that overlap is about
one alarm and its rows, for which two rows do (`OverlapRows`; with three, the run passes as well but
takes most of five minutes), and the theorems have no bound. Two times are "at or before the last look" and "after it", which is all the
check compares. With three changes of a host's keywords a file comes, goes and comes back;
three collectors are two files and one that is left over. Two lines are one that is on its way
and one that waits behind it. In `AgentManager` one call at a time is a bound, not the code: the
overlap of calls adds states `NoStrayExporter` excuses, while `DeployedIsSaved` and
`DeadIsRestarted` still see a call, the check and the start interleave; two processes are the one
that is known and a second.

**Fairness.** Goroutines are scheduled (`WF` of a worker's progress); a transaction that can
commit again and again does (`SF`: MySQL does not fail for ever); the ticker of the engine and
of the keyword job never stops (`SF`, because finding a free worker is a bound of the
model and not of the code). The consumer of the rule files
does not stop and the daily refresh comes again and again; the goroutines of the collector are
scheduled and the ten second calculation comes again (`SF`, it needs a free lock). For the rule
files and for the agent manager less is enough than a scheduler gives: `WF` of the disjunction of
the goroutines' steps (of the agent manager: with the tick of the check and the end of a script),
so any one of them may be passed over for ever while another goes on. No fairness for alerts, lines, posts, users, the platform, the cleaner, restarts. The liveness
properties assume that the server does not restart for ever.

## 4. What is proved

`AlarmFiring_proofs`, for every set of series and workers, every bound, with or without closes
by the platform and lost commits, from `AlarmFiringAssumption` alone:

| theorem | says |
|---|---|
| `TypeCorrect` | `Spec => []TypeOK` |
| `OpenAlarmCorrect` | `Spec => []OpenAlarmHasItsRow` |
| `RowCorrect` | `Spec => []RowHasItsOpenAlarm` |
| `Refinement` | `Spec => Contract!Spec` |
| `OneOpenAlarm` | `Spec => []Contract!OneOpenAlarmPerSeries` |

The inductive invariant `IInv` is the conjunction of `TypeOK`, the two table properties and two
facts that they need: `UnusedAbove` (rows from `nextId` on were never given out, so that an
insert cannot reuse an alarm that somebody still remembers) and `NoPlatformJob` (where the
platform closes nothing, no goroutine is about to). What a goroutine read long ago need not be
constrained any further, and that is the point of the proof: a stale resolve deletes the
`alarm_firing` rows that name its alarm *by id* (`ResolveIInv`), so it cannot touch the row of a
newer occurrence; and an insert needs the series' row to be absent (`InsertIInv`), so that with
`OpenAlarmHasItsRow` no other alarm of the series is open, which is the guard of the contract's
`Raise`. Each action that writes is a lemma; those that only read are one (`ReadIInv`).
`Refinement` maps each transaction to a step of the contract and everything else to a stutter.

`RuleConfigSync_proofs`, for every set of workers, every capacity of the queue and every bound,
from `RuleConfigAssumption` alone:

| theorem | says |
|---|---|
| `TypeCorrect` | `Spec => []TypeOK` |
| `OwnChangeCorrect` | `Spec => []OwnChangeInFile` |
| `MissedCorrect` | `Spec => []MissedOnlyWhenUnseen` |
| `Refinement` | `Spec => Mirror!Spec` |

Its inductive invariant has three layers. `Behind`: nothing in file, queue or jobs is newer than the
database. `RivalsKnow`, `QueueForward`, `JobForward`: two goroutines that carry a content at the
same time both know it, and a content that was not overtaken is at least as new as the file and
everything before it in the queue; this gives the refinement (a writing that was not overtaken is
the contract's `Follow`). `OwnIsCarried` and `SeenOrCarried`: a content is in the file, or in a
goroutine or a queue entry that will bring it there or raise `upset`; for the database's content
the alternative is a row that the next check finds, while no check is running. A reading that fails drops what the
goroutine carried and raises `upset` (`ReadingFailsIInv`). One lemma
(`CarriedSame` with its users) serves both, because it is about any content. All handlers are first
reduced to one form (`Changed`: the database grows, and either the own server has a goroutine that
is about to read it, or it carries the empty rules, or the change was elsewhere).

`AlarmCondition_proofs`, for every finite set of conditions, every set of label sets and handlers
and every bound, from `AlarmConditionAssumption` alone:

| theorem | says |
|---|---|
| `TypeCorrect` | `Spec => []TypeOK` |
| `RaisedCorrect` | `Spec => []RaisedForAllConditions` |
| `EndedCorrect` | `Spec => []EndedWithItsConditions` |
| `AllConditionsRaiseCorrect` | `Spec => []AllConditionsRaiseInTurn` |
| `OpenAlarmCorrect` | `Spec => []OpenAlarmHasItsConditions` |
| `OneRowCorrect` | `Spec => []OneFiringRowPerCondition` |

The first half, `IInv`, holds however handlers overlap: ids to come are free (`HandedOut`), and what a
handler has read is in the tables, the row that recovers being one of the alarms' (`Knows`). The
second, `InTurn`, holds until two handlers overlap: only one has local state (`OneJob`), what it read is
what the tables say (`TurnKnows`), of the rows of an occurrence only the last may be open
(`LastFires`), and if all conditions are open, an open alarm has exactly their rows (`Raised`). The
last is stronger than `AllConditionsRaiseInTurn` and is what a recovery needs (an alarm in `abandoned` may stand in for the open one): it finds the alarm
through the row. A finite set of conditions is needed where the rows that were read are all conditions
but one.

`KeywordAlarm_proofs`, for every set of jobs, every number of hits and alarms, from
`KeywordAlarmAssumption` alone:

| theorem | says |
|---|---|
| `TypeCorrect` | `Spec => []TypeOK` |
| `RowCorrect` | `Spec => []RowTellsItsAlarm` |
| `OneAlarmCorrect` | `Spec => []OneAlarmToldOnce` |
| `NewHitCorrect` | `Spec => AlarmNeedsNewHit` |
| `RefinementInTurn` | `Spec /\ []~overlapped => Contract!Spec` |

What a job has read counts from the start of the exporter or from an earlier one (`DataCounts`); the
row holds the value of the last hit reported, unless the exporter was restarted after it (`RowCounts`). While jobs
take turns it follows that a value other than the row's belongs to a later hit (`BuildsFromNews`,
`WritesNews`), and that an open alarm is the row's (`FiringIsRow`). `RefinementInTurn` follows: a job that
is about to insert knows that no alarm of the key is open (`WritesNews`), which is the guard of the
contract's `Raise`, and a closing handler has read only alarms that were handed out, so its
transaction is the contract's `Close`, or a stutter if it read none. The hypothesis is needed: with
two jobs at work TLC finds two open alarms. This theorem has no run, its parts (`OneAlarmToldOnce`,
`TypeOK`) have.

`LogMetricCollector_proofs`, for every set of monitors, every size of the channels and every number of
lines, from `LogMetricAssumption`:

| theorem | says |
|---|---|
| `TypeCorrect` | `Spec => []TypeOK` |
| `OneHandlerCorrect` | `Spec => []OneHandler` |
| `LineCorrect` | `Step = 1` implies `Spec => []EachLineOnce` |

`OneHandler` is inductive and bounds the handlers, which the types need. For the lines: a monitor
outside the list has nothing inside (`Forgotten`), so that a new one may take its place; a calculation
takes a monitor's values once (`TakenOnce`); and with the step the server sends every value is
displayed at once (`Displayed`). Without that assumption the theorem is false: `log_double`.

`AgentManager_proofs`, for every set of calls and every bound, from `AgentManagerAssumption`:

| theorem | says |
|---|---|
| `TypeCorrect` | `Spec => []TypeOK` |
| `SavedCorrect` | `Spec => []DeployedIsSaved` |
| `StrayCorrect` | `Spec => []NoStrayExporter` |

The invariant: a deployment in the map is one that the file takes, or a call is about to run its start
script (`WasDeployed`); if the file does not name it, its writing has failed or a call has yet to write
the file (`WillSave`);
and while the manager loads its file nothing else is at work (`Loading`). The run has one call at a
time, the theorem any number.

`StrayCorrect` has an invariant of its own, `Orderly`: as long as nothing excuses a stray process, at
most one goroutine is at work (`Alone`), and where it stands says which processes there are
(`Fine`): outside a start every live process is the map's (`Known`), before the start script there
is none, and while the script runs there is none or the one it launched (`Launched`). Every action
either keeps the goroutine alone and fine where it goes (`GoesOnAlone`) or raises `excused`.

`AlarmNotify_proofs`, for every set of series, goroutines and slots, every delay and every bound, from
`AlarmNotifyAssumption`:

| theorem | says |
|---|---|
| `TablesOfAlarmFiring` | `Spec => F!Spec` |
| `TypeCorrect` | `Spec => []TypeOK` |
| `MessagesCorrect` | `Spec => []MessagesAreTrue` |
| `QuickRecoveryCorrect` | `Spec => []QuickRecoveryNotAnnounced` |
| `AccountCorrect` | `Spec => []EveryAlarmAccountedFor` |

The first is the composition: with the messages left out a behaviour is one of `AlarmFiring`, so the
history implements `AlarmContract` here as well, and the invariant of `AlarmFiring_proofs` is
the first conjunct of this one, kept by the lemmas of that module. The rest of `IInv` is about words:
`TrueWords` is `MessagesAreTrue` with the messages that are still on their way, where an ok word is
true because the row it names cannot be reopened; `KnownIds` (nobody speaks of an id that was not
handed out) keeps an insert from making an old word about a new row; `LateEnough` (a message
that has slept cannot be about an alarm that may still recover within the delay) with `Clocks` gives
`QuickRecoveryNotAnnounced`, with `blind` for the looks that failed; `EveryAlarmAccountedFor` is inductive once `DoneByUpdaters` says that
only those who announce have successes to announce.

`LogKeywordCollector_proofs`, for every set of files, keywords and posts and every bound, from
`LogKeywordAssumption`:

| theorem | says |
|---|---|
| `TypeCorrect` | `Spec => []TypeOK` |
| `CountedCorrect` | `Spec => []DatabaseIsCounted` |
| `MirrorCorrect` | `Spec => SavedMirrorsDatabase` |
| `CountsCorrect` | `Spec => CountsDoNotFall` |
| `HeardCorrect` | `Spec => []DestroyIsHeard` |
| `FollowCorrect` | `Spec => []CollectorsFollowConfig` |

Four invariants, one on top of the other. `TypeInv`: the list names no collector twice, so it has
room for all of them, and what a post has still to look at are collectors that were started.
`DatabaseInv`, whatever overlaps: a post under way is no newer than the database and, unless it was
overtaken, no older than the file (`Timely`); of two posts under way each was overtaken (`Rivals`);
without bad expressions no post fails (`NoneFails`); unless its last writing failed the file is what
was handled last; and the last change has been handled or is carried by a post (`Carried`). This
gives the refinement of `ConfigMirror`. `OrderInv`, while posts do not meet in the exporter: one is
there (`AloneThere`), a file has one collector (`OnePerPath`), and what the post has ahead of it
fits the list (`Ahead`); this alone gives the action property `CountsCorrect`: the only collector a
count could fall against is the same one, and `update` keeps its count if the keyword stays.
`FollowInv`, if besides no expression is bad: how far the post has come says which collectors follow
what (`Stage`: before their turn they follow their file, after it they count the keyword of the post
or are on its list of removals), and with no post there they are those of `handled`, what was
handled or loaded last; the number of collectors is that of the configured files by the bijection of
`AsManyAsConfigured`. `CountedCorrect` joins the second and the last: what was handled last is the
database's, the collectors are those of what was handled, and the file is unless its last writing
failed.

The hypotheses of these theorems (`~overlapped`, `~badPosted`) are not the prover's: the properties
name them because the code breaks the promise without them (section 3).

Only model-checked: the six liveness properties (`MatchIsRaised`, `NonmatchIsResolved`,
`HitRaisesAlarm`, `RulesCatchUp`, `PostsAndLinesEnd`, `DeadIsRestarted`), whose proofs need
fairness and ENABLED, which the provers do not handle. Every safety, action and refinement property of
the passing runs is a theorem.

## 5. Not modelled, and why

- *Data no property tells apart*: parsing and matching of labels, contents and texts of mails,
  expressions and their tags, lists for display, averages.
- *External*: PromQL evaluation, Alertmanager, Prometheus, MySQL, the exporters of others, with
  every outcome allowed. The recipients of the platform's events are not in the repository.
- *CRUD and queries*: dashboards, charts, metrics, templates, users, roles, organisation, SNMP,
  Kubernetes, import and export. They are most of the server's lines. Each is a list of SQL
  statements in one transaction, with no state between requests and nothing that runs beside
  it; a model would restate the SQL row by row, and its properties would hold by the shape of
  the transaction. What they do to the parts above (a strategy, a group or a keyword changes)
  is in the models.
- *Vendored and forked collectors* of the node exporter (CPU, file systems, mount statistics, ...):
  they read /proc and keep nothing.
- *Rule files*: remote clusters (they keep a stale file when the group moves), target files.
- *Keyword collector*: opening and rotation of files; `CreateLogKeywordMonitor` pushes nothing, so
  a new monitor is counted only after the next push.
- *Log metric collector*: the load at the start, which takes no lock (:670); calculations that
  overlap; the key of a metric, which lacks the service group (:765, :871), so that two groups
  with equal tags share an object; values that stay published after the last monitor is removed
  (:680); the reset after a day, which its comment calls an hour (:687); reads of Display and Value
  without a lock.
- *Agent manager*: ports (the list is not restored at a start), the configuration's hash, which is
  not saved, so that after a start every exporter looks changed, InitDeploy as one operation (it
  is deletions and deployments), the fatal error of Go on concurrent use of a map, and the
  directory index that is found by a substring ("_1" in "_10").
- *Smaller agents* (archive tool, ping exporter, db exporter, daemon wrapper, gateway, comparison
  exporter): one loop each. Their hazards that are real are listed with the line and the reason
  why no property covers them.

## 6. What could come next

1. `LogMetricCollector` with calculations that overlap, and the load at the start.
2. The target files, as a second instance of the queue of `RuleConfigSync`.
3. Theorems: what is left of `NoStrayExporter` when calls overlap, and of the collectors after posts
   that overlapped, once another has come alone.
