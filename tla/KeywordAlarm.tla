---------------------------- MODULE KeywordAlarm ----------------------------
(***************************************************************************)
(* Alarms about keywords in log files (and in database answers).  The node *)
(* exporter counts the hits of a keyword; every 10 seconds the server      *)
(* reads the count from Prometheus, compares it with the value that the    *)
(* keyword's row of log_keyword_alarm (db_keyword_alarm) recorded last,    *)
(* and when it differs either adds the new value to the open alarm or      *)
(* opens a new one.  A keyword alarm never recovers: somebody closes it.   *)
(*                                                                         *)
(* A tick starts a goroutine whether the one before has ended or not.  The *)
(* module is about one key (endpoint, file, keyword): rows of two keys     *)
(* never meet, and every list element has a transaction of its own.        *)
(***************************************************************************)
EXTENDS Naturals, FiniteSets

CONSTANTS
  Worker,         \* the goroutines that may be at work at the same time
  MaxHits,        \* bound on the hits
  MaxAlarms       \* bound on the rows inserted in `alarm`

ASSUME KeywordAlarmAssumption ==
  /\ MaxHits \in Nat
  /\ MaxAlarms \in Nat

AlarmId == 1 .. MaxAlarms
Hits == 0 .. MaxHits
NoAlarm == 0

VARIABLES
  hits,        \* how often the keyword was found, ever
  base,        \* hits at the last start of the exporter: it counts from there
  window,      \* are we in the active window of the keyword's configuration?
  alarm,       \* column alarm.status of the key's rows
  nextId,      \* the AUTO_INCREMENT of table alarm
  kw,          \* the key's row of log_keyword_alarm
  job,         \* job[w]: the local state of goroutine w
  overlapped,  \* history: have two jobs ever been at work at the same time?
  reported,    \* history: the last hit that some transaction recorded
  owed,        \* history: a hit came while no alarm was open, and none was opened since
  told,        \* history: how often an alarm was announced
  platform     \* history: the platform has closed an alarm

world == <<hits, base, window>>
tables == <<alarm, nextId, kw>>
history == <<overlapped, reported, owed, told, platform>>
vars == <<world, tables, job, history>>

NoRow == [alarm |-> NoAlarm, status |-> "none", start_value |-> 0, end_value |-> 0]
Row == [alarm : AlarmId, status : {"firing", "closed"}, start_value : Hits, end_value : Hits]

Job == [pc : {"idle", "build", "write", "notify", "close"},
        data : Hits,                    \* dataMap[key]
        at : Hits,                      \* history: the last hit that data counts
        id : AlarmId \cup {NoAlarm},    \* alarmObj.Id: the alarm to update, or none
        seen : SUBSET AlarmId]          \* what a closing handler read

Idle == [pc |-> "idle", data |-> 0, at |-> 0, id |-> NoAlarm, seen |-> {}]

TypeOK ==
  /\ hits \in Hits /\ base \in Hits /\ base <= hits
  /\ window \in BOOLEAN
  /\ alarm \in [AlarmId -> {"unused", "firing", "closed"}]
  /\ nextId \in 1 .. (MaxAlarms + 1)
  /\ kw \in Row \cup {NoRow}
  /\ job \in [Worker -> Job]
  /\ overlapped \in BOOLEAN /\ owed \in BOOLEAN /\ platform \in BOOLEAN
  /\ reported \in Hits
  /\ told \in [AlarmId -> 0 .. 2]

Init ==
  /\ hits = 0 /\ base = 0 /\ window \in BOOLEAN
  /\ alarm = [a \in AlarmId |-> "unused"]
  /\ nextId = 1
  /\ kw = NoRow
  /\ job = [w \in Worker |-> Idle]
  /\ overlapped = FALSE /\ reported = 0 /\ owed = FALSE /\ platform = FALSE
  /\ told = [a \in AlarmId |-> 0]

FiringAlarms == {a \in AlarmId : alarm[a] = "firing"}

-----------------------------------------------------------------------------
(* The world *)

Hit ==
  /\ hits < MaxHits
  /\ hits' = hits + 1
  /\ owed' = (owed \/ FiringAlarms = {})
  /\ UNCHANGED <<base, window, tables, job, overlapped, reported, told, platform>>

exporterRestart ==
  /\ base' = hits
  /\ UNCHANGED <<hits, window, tables, job, history>>

windowChanges ==
  /\ window' = ~window
  /\ UNCHANGED <<hits, base, tables, job, history>>

-----------------------------------------------------------------------------
(* doLogKeywordMonitorJob, doDbKeywordMonitorJob *)

(* The count is asked from Prometheus first; 0 is "nothing to do". *)
doLogKeywordMonitorJob(w) ==
  /\ job[w].pc = "idle"
  /\ hits > base
  /\ job' = [job EXCEPT ![w] = [Idle EXCEPT !.pc = "build", !.data = hits - base, !.at = hits]]
  /\ overlapped' = (overlapped \/ \E v \in Worker : job[v].pc \in {"build", "write", "notify"})
  /\ UNCHANGED <<world, tables, reported, owed, told, platform>>

OldValue_start == kw.start_value

OldValue == IF kw.end_value > 0 THEN kw.end_value ELSE kw.start_value

Write(w, id) == job' = [job EXCEPT ![w].pc = "write", ![w].id = id]

buildKeywordAlarm_anyStatus(w) ==
  /\ job[w].pc = "build"
  /\ \/ /\ kw # NoRow /\ job[w].data # OldValue
        /\ IF ~window THEN Write(w, kw.alarm) ELSE Write(w, NoAlarm)
     \/ /\ kw = NoRow /\ window
        /\ Write(w, NoAlarm)
     \/ /\ IF kw = NoRow THEN ~window ELSE job[w].data = OldValue
        /\ job' = [job EXCEPT ![w] = Idle]
  /\ UNCHANGED <<world, tables, history>>

(* Then all keyword rows are read.  The value is new if it differs from    *)
(* the recorded one: it is added to the open alarm; if that was closed, a  *)
(* new alarm is due, but outside the window the old one takes the value.   *)
buildKeywordAlarm(w) ==
  /\ job[w].pc = "build"
  /\ \/ /\ kw # NoRow /\ job[w].data # OldValue
        /\ IF kw.status = "firing" \/ ~window THEN Write(w, kw.alarm) ELSE Write(w, NoAlarm)
     \/ /\ kw = NoRow /\ window
        /\ Write(w, NoAlarm)
     \/ /\ IF kw = NoRow THEN ~window ELSE job[w].data = OldValue
        /\ job' = [job EXCEPT ![w] = Idle]
  /\ UNCHANGED <<world, tables, history>>

Recorded(w) == reported' = IF job[w].at > reported THEN job[w].at ELSE reported

(* UPDATE alarm, UPDATE log_keyword_alarm, both by alarm id; it must hit   *)
(* the keyword's row, else all is rolled back.                             *)
updateKeyword(w) ==
  /\ job[w].pc = "write" /\ job[w].id # NoAlarm
  /\ kw.alarm = job[w].id
  /\ kw' = [kw EXCEPT !.end_value = job[w].data]
  /\ Recorded(w)
  /\ job' = [job EXCEPT ![w] = Idle]
  /\ UNCHANGED <<world, alarm, nextId, overlapped, owed, told, platform>>

(* INSERT INTO alarm; the key's row is replaced. *)
addKeyword(w) ==
  /\ job[w].pc = "write" /\ job[w].id = NoAlarm
  /\ nextId <= MaxAlarms
  /\ alarm' = [alarm EXCEPT ![nextId] = "firing"]
  /\ nextId' = nextId + 1
  /\ kw' = [alarm |-> nextId, status |-> "firing", start_value |-> job[w].data, end_value |-> 0]
  /\ Recorded(w)
  /\ owed' = FALSE
  /\ job' = [job EXCEPT ![w] = [Idle EXCEPT !.pc = "notify"]]
  /\ UNCHANGED <<world, overlapped, told, platform>>

doLogKeywordDBAction(w) == updateKeyword(w) \/ addKeyword(w)

(* An error rolls back; that of a COMMIT is dropped, and the job goes on   *)
(* as if it had added an alarm.                                            *)
rollbackKeyword(w) ==
  /\ job[w].pc = "write"
  /\ \E lost \in {job[w].id = NoAlarm, FALSE} :
       job' = [job EXCEPT ![w] = IF lost THEN [Idle EXCEPT !.pc = "notify"] ELSE Idle]
  /\ UNCHANGED <<world, tables, history>>

(* After an insert the newest open alarm of the key is announced, unless   *)
(* the configuration has no notification.                                  *)
notifyKeyword(w) ==
  /\ job[w].pc = "notify"
  /\ \/ \E a \in FiringAlarms :
          /\ \A b \in FiringAlarms : b <= a
          /\ told' = [told EXCEPT ![a] = IF @ < 2 THEN @ + 1 ELSE @]
     \/ UNCHANGED told
  /\ job' = [job EXCEPT ![w] = Idle]
  /\ UNCHANGED <<world, tables, overlapped, reported, owed, platform>>

-----------------------------------------------------------------------------
(* Closing *)

CloseAlarm(w) ==
  /\ job[w].pc = "idle"
  /\ \E A \in (SUBSET FiringAlarms) \ {{}} :
       job' = [job EXCEPT ![w] = [Idle EXCEPT !.pc = "close", !.seen = A]]
  /\ UNCHANGED <<world, tables, history>>

(* A changed name, keyword or priority closes the alarm that the keyword's *)
(* row calls open.                                                         *)
UpdateLogKeyword(w) ==
  /\ job[w].pc = "idle"
  /\ kw.status = "firing"
  /\ job' = [job EXCEPT ![w] = [Idle EXCEPT !.pc = "close", !.seen = {kw.alarm} \cap FiringAlarms]]
  /\ UNCHANGED <<world, tables, history>>

Closed_typo(A) == alarm' = [a \in AlarmId |-> IF a \in A THEN "close" ELSE alarm[a]]

Closed(A) == alarm' = [a \in AlarmId |-> IF a \in A THEN "closed" ELSE alarm[a]]

closeTransaction_byTags(w) ==
  /\ job[w].pc = "close"
  /\ Closed(job[w].seen)
  /\ kw' = IF kw # NoRow /\ job[w].seen # {} THEN [kw EXCEPT !.status = "closed"] ELSE kw
  /\ job' = [job EXCEPT ![w] = Idle]
  /\ UNCHANGED <<world, nextId, history>>

closeTransaction_alarmOnly(w) ==
  /\ job[w].pc = "close"
  /\ Closed(job[w].seen)
  /\ job' = [job EXCEPT ![w] = Idle]
  /\ UNCHANGED <<world, nextId, kw, history>>

closeTransaction(w) ==
  /\ job[w].pc = "close"
  /\ Closed(job[w].seen)
  /\ kw' = IF kw.alarm \in job[w].seen THEN [kw EXCEPT !.status = "closed"] ELSE kw
  /\ job' = [job EXCEPT ![w] = Idle]
  /\ UNCHANGED <<world, nextId, history>>

rollbackClose(w) ==
  /\ job[w].pc = "close"
  /\ job' = [job EXCEPT ![w] = Idle]
  /\ UNCHANGED <<world, tables, history>>

(* The platform's close writes table alarm only; a second one changes      *)
(* nothing, so its read and its write are one step.                        *)
PluginCloseAlarmAction ==
  /\ \E a \in FiringAlarms : Closed({a})
  /\ platform' = TRUE
  /\ UNCHANGED <<world, nextId, kw, job, overlapped, reported, owed, told>>

restart ==
  /\ job' = [w \in Worker |-> Idle]
  /\ UNCHANGED <<world, tables, history>>

-----------------------------------------------------------------------------
Progress(w) ==
  \/ buildKeywordAlarm(w)
  \/ updateKeyword(w)
  \/ addKeyword(w)
  \/ rollbackKeyword(w)
  \/ notifyKeyword(w)
  \/ closeTransaction(w)
  \/ rollbackClose(w)

Next ==
  \/ \E w \in Worker :
       \/ doLogKeywordMonitorJob(w)
       \/ Progress(w)
       \/ CloseAlarm(w)
       \/ UpdateLogKeyword(w)
  \/ PluginCloseAlarmAction
  \/ restart
  \/ Hit
  \/ exporterRestart
  \/ windowChanges

Spec == Init /\ [][Next]_vars

(* The ticker never stops (SF because it has to find a free worker, which  *)
(* is only the model's bound), goroutines are scheduled, and a transaction *)
(* that can commit again and again does.                                   *)
Fairness ==
  /\ \A w \in Worker : WF_vars(Progress(w)) /\ SF_vars(doLogKeywordDBAction(w))
  /\ SF_vars(\E w \in Worker : doLogKeywordMonitorJob(w))

FairSpec == Spec /\ Fairness

-----------------------------------------------------------------------------
(* Properties *)

(* The two tables agree on the alarm that the key's row names, however     *)
(* jobs and closing handlers overlap, until the platform closes an alarm.  *)
RowTellsItsAlarm ==
  platform \/ (kw # NoRow => alarm[kw.alarm] = kw.status)

(* As long as a job ends before the next begins, a key has at most one     *)
(* open alarm, whoever closes alarms meanwhile, and none is announced      *)
(* twice.                                                                  *)
OneAlarmToldOnce ==
  ~overlapped => /\ \A a, b \in FiringAlarms : a = b
                 /\ \A a \in AlarmId : told[a] <= 1

(* Then an alarm is opened only for a hit later than all recorded ones: the *)
(* close of an alarm, a restart of the exporter or a change of the window  *)
(* alone never open one.                                                   *)
AlarmNeedsNewHit ==
  [][\A w \in Worker : addKeyword(w) /\ ~overlapped => job[w].at > reported]_vars

HasRoom == nextId <= MaxAlarms

(* "If the keyword occurs, an alarm is produced": in the active window, a  *)
(* hit that finds no open alarm leads to a new one, if the exporter, whose *)
(* count starts anew, did not restart since the first hit, the server does *)
(* not restart for ever and the platform closes no alarm: the keyword's    *)
(* row would call it open still, and take the next hits.                   *)
HitRaisesAlarm ==
  /\ [](window /\ base = 0 /\ ~platform /\ HasRoom)
  /\ <>[][~restart]_vars
  => []<>(~owed)
=============================================================================
