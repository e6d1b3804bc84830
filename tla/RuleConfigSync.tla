--------------------------- MODULE RuleConfigSync ---------------------------
(***************************************************************************)
(* The rule file of one endpoint group on one server.  Every server runs   *)
(* beside its own Prometheus and keeps the group's rules in a local file   *)
(* g_<group>.yml.  The file is generated from two parts of the shared      *)
(* database: the endpoints of the group and its alarm strategies.  A       *)
(* handler that changes them writes the file of its own server afterwards; *)
(* the other servers look every minute for rows whose update_time is later *)
(* than their last look, and once a day they write all files anew.         *)
(* Writings go through a queue with one consumer, which reloads Prometheus.*)
(*                                                                         *)
(* Versions stand for contents: a change gives its part the next version.  *)
(* The rules of a deleted group are empty, which is a version, too.        *)
(* Groups do not meet in a file, so the module is about one; servers meet  *)
(* only in the database, so of the other servers it has the transactions.  *)
(***************************************************************************)
EXTENDS Naturals, Sequences

CONSTANTS
  Worker,       \* the server's goroutines that may be at work on the group
  Elsewhere,    \* the handlers of all other servers
  QueueSize,    \* the capacity of consumeRuleConfigChan (50 in the code)
  MaxChanges,   \* bound on the changes of the database
  MaxTime       \* bound on the clock

ASSUME RuleConfigAssumption ==
  /\ Elsewhere \notin Worker
  /\ QueueSize \in Nat \ {0}
  /\ MaxChanges \in Nat /\ MaxTime \in Nat \ {0}

VARIABLES
  now,        \* the clock, in seconds
  db,         \* the group, its two parts and their columns update_time
  syncTime,   \* ruleConfigSyncTime
  queue,      \* consumeRuleConfigChan
  file,       \* the content of the rule file
  loaded,     \* the rules that Prometheus works with
  job,        \* the handlers and checks under way
  changes,    \* how many there were
  own,        \* history: the content after the last change through this server
  missed,     \* history: the minute's check could not see some change
  upset       \* history: a reading failed or found no group, or a writing
              \* failed or was overtaken

bounds == <<now, changes>>
config == <<syncTime, queue, file, loaded>>
history == <<own, missed, upset>>
vars == <<bounds, db, config, job, history>>

Part == {"endpoints", "strategies"}
Time == 0 .. MaxTime
Version == 0 .. MaxChanges
Content == [Part -> Version]
Empty == [p \in Part |-> 0]

Job == [pc : {"idle", "endpoints", "strategies", "enqueue", "mark"},
        check : BOOLEAN,           \* checkRuleConfigTime, or a handler?
        content : Content,         \* what has been read, or is to be written
        overtaken : BOOLEAN]       \* history: another one was under way as well

Idle == [pc |-> "idle", check |-> FALSE, content |-> Empty, overtaken |-> FALSE]

TypeOK ==
  /\ now \in Time /\ changes \in 0 .. MaxChanges
  /\ db \in [exists : BOOLEAN, content : Content, strategyTime : Time, groupTime : Time]
  /\ syncTime \in Time
  /\ queue \in Seq([content : Content, overtaken : BOOLEAN]) /\ Len(queue) <= QueueSize
  /\ file \in Content /\ loaded \in Content
  /\ job \in [Worker -> Job]
  /\ own \in Content
  /\ missed \in BOOLEAN /\ upset \in BOOLEAN

(* The server has written the file of a group that was not changed since. *)
Init ==
  /\ now = 0 /\ changes = 0
  /\ db = [exists |-> TRUE, content |-> Empty, strategyTime |-> 0, groupTime |-> 0]
  /\ syncTime = 0 /\ queue = <<>> /\ file = Empty /\ loaded = Empty
  /\ job = [w \in Worker |-> Idle]
  /\ own = Empty /\ missed = FALSE /\ upset = FALSE

AtMost(u, v) == \A p \in Part : u[p] <= v[p]

Tick ==
  /\ now < MaxTime
  /\ now' = now + 1
  /\ UNCHANGED <<changes, db, config, job, history>>

-----------------------------------------------------------------------------
(* Handlers, here or elsewhere: a transaction, and then the rule file of   *)
(* the own server.                                                         *)

(* A row that the server has not looked at yet, by its time. *)
StaleRow == db.exists /\ (db.strategyTime > syncTime \/ db.groupTime > syncTime)

Checking == \E w \in Worker : job[w].check

Bump(P) == [p \in Part |-> IF p \in P THEN db.content[p] + 1 ELSE db.content[p]]

(* The time a row is given was taken before the transaction began. *)
Stamp == 0 .. now

CanChange(w, exists) ==
  /\ w \in Worker => job[w].pc = "idle"
  /\ db.exists = exists
  /\ changes < MaxChanges
  /\ changes' = changes + 1
  /\ UNCHANGED <<now, config, upset>>

(* The server's own handler goes on and writes the file.  For a change     *)
(* from elsewhere the minute's check has to find the row, which is in vain *)
(* if the row is gone, if its time is not later than the last look, or if  *)
(* a look is under way.                                                    *)
SyncAfter(w, visible) ==
  IF w \in Worker
  THEN /\ job' = [job EXCEPT ![w] = [Idle EXCEPT !.pc = "endpoints"]]
       /\ own' = db'.content
       /\ UNCHANGED missed
  ELSE /\ missed' = (missed \/ ~visible \/ Checking)
       /\ UNCHANGED <<job, own>>

(* It may be the group's latest strategy that is changed, or another. *)
UpdateAlarmStrategy(w) ==
  /\ CanChange(w, TRUE)
  /\ \E stamp \in Stamp : \E t \in {stamp, db.strategyTime} :
       /\ t >= stamp
       /\ db' = [db EXCEPT !.content = Bump({"strategies"}), !.strategyTime = t]
       /\ SyncAfter(w, stamp > syncTime)

DeleteAlarmStrategy(w) ==
  /\ CanChange(w, TRUE)
  /\ \E t \in {0, db.strategyTime} :
       db' = [db EXCEPT !.content = Bump({"strategies"}), !.strategyTime = t]
  /\ SyncAfter(w, FALSE)

(* Also what DeleteEndpoint and the service groups do to a group. *)
UpdateGroupEndpoint(w) ==
  /\ CanChange(w, TRUE)
  /\ \E stamp \in Stamp :
       /\ db' = [db EXCEPT !.content = Bump({"endpoints"}), !.groupTime = stamp]
       /\ SyncAfter(w, stamp > syncTime)

(* A new monitor type selects other endpoints; no server writes its file   *)
(* now.                                                                    *)
UpdateEndpointGroup ==
  /\ CanChange(Elsewhere, TRUE)
  /\ \E stamp \in Stamp :
       /\ db' = [db EXCEPT !.content = Bump({"endpoints"}), !.groupTime = stamp]
       /\ SyncAfter(Elsewhere, stamp > syncTime)

CreateEndpointGroup ==
  /\ CanChange(Elsewhere, FALSE)
  /\ \E stamp \in Stamp : db' = [db EXCEPT !.exists = TRUE, !.groupTime = stamp]
  /\ UNCHANGED <<job, own, missed>>

(* From now on w has a content to write: with whom does it compete? *)
Compete(w, j) ==
  LET rivals == {v \in Worker \ {w} : job[v].pc \in {"strategies", "enqueue"}}
  IN job' = [v \in Worker |->
               IF v = w THEN [j EXCEPT !.overtaken = (rivals # {})]
               ELSE IF v \in rivals THEN [job[v] EXCEPT !.overtaken = TRUE]
               ELSE job[v]]

NoGroup == [exists |-> FALSE, content |-> Bump(Part), strategyTime |-> 0, groupTime |-> 0]

(* RemovePrometheusRuleFile writes empty rules without reading anything. *)
DeleteEndpointGroup(w) ==
  /\ CanChange(w, TRUE)
  /\ db' = NoGroup
  /\ IF w \in Worker
     THEN /\ Compete(w, [Idle EXCEPT !.pc = "enqueue", !.content = NoGroup.content])
          /\ own' = NoGroup.content
          /\ UNCHANGED missed
     ELSE SyncAfter(w, FALSE)

-----------------------------------------------------------------------------
(* checkRuleConfigTime *)

checkRuleConfigTime_newOnly(w, refreshAll) ==
  /\ job[w].pc = "idle"
  /\ job' = [job EXCEPT ![w] = [Idle EXCEPT !.check = TRUE, !.pc =
               IF StaleRow THEN "endpoints" ELSE "mark"]]
  /\ UNCHANGED <<bounds, db, config, history>>

checkRuleConfigTime_strategies(w, refreshAll) ==
  /\ job[w].pc = "idle"
  /\ job' = [job EXCEPT ![w] = [Idle EXCEPT !.check = TRUE, !.pc =
               IF db.exists /\ (refreshAll \/ db.strategyTime > syncTime) THEN "endpoints" ELSE "mark"]]
  /\ UNCHANGED <<bounds, db, config, history>>

checkRuleConfigTime(w, refreshAll) ==
  /\ job[w].pc = "idle"
  /\ job' = [job EXCEPT ![w] = [Idle EXCEPT !.check = TRUE, !.pc =
               IF (refreshAll /\ db.exists) \/ StaleRow THEN "endpoints" ELSE "mark"]]
  /\ UNCHANGED <<bounds, db, config, history>>

Done(j) == IF j.check THEN [Idle EXCEPT !.pc = "mark", !.check = TRUE] ELSE Idle

mark(w) ==
  /\ job[w].pc = "mark"
  /\ syncTime' = now
  /\ job' = [job EXCEPT ![w] = Idle]
  /\ UNCHANGED <<bounds, db, queue, file, loaded, history>>

-----------------------------------------------------------------------------
(* SyncPrometheusRuleFile: the group and its endpoints are read, then its  *)
(* strategies, then the rules are put into the queue, when it has room.    *)

readEndpoints(w) ==
  /\ job[w].pc = "endpoints"
  /\ \/ /\ db.exists
        /\ Compete(w, [job[w] EXCEPT !.pc = "strategies",
                                     !.content["endpoints"] = db.content["endpoints"]])
        /\ UNCHANGED upset
     \/ /\ ~db.exists
        /\ job' = [job EXCEPT ![w] = Done(@)]
        /\ upset' = TRUE
  /\ UNCHANGED <<bounds, db, config, own, missed>>

readStrategies_none(w) ==
  /\ job[w].pc = "strategies"
  /\ job' = [job EXCEPT ![w].pc = "enqueue",
                        ![w].content["strategies"] = Empty["strategies"]]
  /\ UNCHANGED <<bounds, db, config, history>>

readStrategies(w) ==
  /\ job[w].pc = "strategies"
  /\ job' = [job EXCEPT ![w].pc = "enqueue",
                        ![w].content["strategies"] = db.content["strategies"]]
  /\ UNCHANGED <<bounds, db, config, history>>

(* A query fails: nothing is written.  The handler answers with the error, *)
(* its transaction stays; a check logs it and goes on to its mark.         *)
readingFails(w) ==
  /\ job[w].pc \in {"endpoints", "strategies"}
  /\ job' = [job EXCEPT ![w] = Done(@)]
  /\ upset' = TRUE
  /\ UNCHANGED <<bounds, db, config, own, missed>>

SyncLocalRuleConfig_noWait(w) ==
  /\ job[w].pc = "enqueue"
  /\ queue' = IF Len(queue) = QueueSize THEN queue
              ELSE Append(queue, [content |-> job[w].content, overtaken |-> job[w].overtaken])
  /\ job' = [job EXCEPT ![w] = Done(@)]
  /\ UNCHANGED <<bounds, db, syncTime, file, loaded, history>>

SyncLocalRuleConfig_offByOne(w) ==
  /\ job[w].pc = "enqueue"
  /\ Len(queue) <= QueueSize
  /\ queue' = Append(queue, [content |-> job[w].content, overtaken |-> job[w].overtaken])
  /\ job' = [job EXCEPT ![w] = Done(@)]
  /\ UNCHANGED <<bounds, db, syncTime, file, loaded, history>>

SyncLocalRuleConfig(w) ==
  /\ job[w].pc = "enqueue"
  /\ Len(queue) < QueueSize
  /\ queue' = Append(queue, [content |-> job[w].content, overtaken |-> job[w].overtaken])
  /\ job' = [job EXCEPT ![w] = Done(@)]
  /\ UNCHANGED <<bounds, db, syncTime, file, loaded, history>>

-----------------------------------------------------------------------------
(* consumeRuleConfig: the file is written and Prometheus reloads. *)

consume(content, reloaded) ==
  /\ queue # <<>>
  /\ queue' = Tail(queue)
  /\ file' = content
  /\ loaded' = IF reloaded THEN content ELSE loaded
  /\ upset' = (upset \/ Head(queue).overtaken \/ content # Head(queue).content)
  /\ UNCHANGED <<bounds, db, syncTime, job, own, missed>>

consumeRuleConfig == consume(Head(queue).content, TRUE)

(* An error of the reload is only logged, one of the writing, too: it      *)
(* leaves the old file, or one that was truncated.                         *)
consumeFails ==
  \/ consume(Head(queue).content, FALSE)
  \/ consume(file, FALSE)
  \/ consume(Empty, FALSE)

(* A reload for another file, or restartPrometheus. *)
loadRules ==
  /\ loaded' = file
  /\ UNCHANGED <<bounds, db, syncTime, queue, file, job, history>>

(* InitPrometheusConfig after a crash: a check of all groups that exist,   *)
(* or none, when it cannot read them.                                      *)
InitPrometheusConfig ==
  /\ syncTime' = now
  /\ queue' = <<>>
  /\ \/ /\ \E w \in Worker :
             job' = [v \in Worker |->
                       IF v # w THEN Idle
                       ELSE [Idle EXCEPT !.check = TRUE,
                                         !.pc = IF db.exists THEN "endpoints" ELSE "mark"]]
        /\ upset' = (upset \/ ~db.exists)
     \/ /\ job' = [v \in Worker |-> Idle]
        /\ upset' = TRUE
  /\ UNCHANGED <<now, changes, db, file, loaded, own, missed>>

-----------------------------------------------------------------------------
Step(w) == readEndpoints(w) \/ readStrategies(w) \/ mark(w)

Next ==
  \/ Tick
  \/ \E w \in Worker \cup {Elsewhere} :
       \/ UpdateAlarmStrategy(w)
       \/ DeleteAlarmStrategy(w)
       \/ UpdateGroupEndpoint(w)
       \/ DeleteEndpointGroup(w)
  \/ UpdateEndpointGroup
  \/ CreateEndpointGroup
  \/ \E w \in Worker :
       \/ Step(w)
       \/ readingFails(w)
       \/ SyncLocalRuleConfig(w)
       \/ \E refreshAll \in BOOLEAN : checkRuleConfigTime(w, refreshAll)
  \/ consumeRuleConfig
  \/ consumeFails
  \/ loadRules
  \/ InitPrometheusConfig

Spec == Init /\ [][Next]_vars

(* Goroutines are scheduled: as long as one of them can go on, one does.   *)
(* The daily refresh comes again and again (SF because it has to find a    *)
(* free worker, which is only the model's bound); the consumer does not    *)
(* stop.                                                                   *)
Fairness ==
  /\ WF_vars(\E w \in Worker : Step(w) \/ readingFails(w) \/ SyncLocalRuleConfig(w))
  /\ SF_vars(\E w \in Worker : checkRuleConfigTime(w, TRUE))
  /\ WF_vars(consumeRuleConfig \/ consumeFails)

FairSpec == Spec /\ Fairness

-----------------------------------------------------------------------------
(* Properties *)

AtRest == queue = <<>> /\ \A w \in Worker : job[w].pc = "idle"

(* A server at rest, none of whose readings or writings failed and whose   *)
(* writings did not overtake each other, has every change that was made    *)
(* through it in its file: whatever other servers commit between the       *)
(* queries, and even if it was restarted before the file was written.      *)
OwnChangeInFile == AtRest /\ ~upset => AtMost(own, file)

(* As long as nothing fails, the minute's check makes up for all other     *)
(* changes but those it cannot see: when the file is not what the database *)
(* says, there is a row that the next check finds, or some change was the  *)
(* deletion of its row, was stamped not later than the last look, or came  *)
(* during a look.  (When its readings fail the check sets syncTime all the *)
(* same, and the change is missed as well.)                                *)
MissedOnlyWhenUnseen ==
  AtRest /\ ~upset /\ ~missed => file = db.content \/ StaleRow

Mirror ==
  INSTANCE ConfigMirror
  WITH source <- db.content, copy <- file,
       overtaken <- queue # <<>> /\ Head(queue).overtaken

(* The file never runs ahead of the database, and while the writings of    *)
(* the server do not overlap it never goes back to older rules.            *)
MirrorsDatabase == Mirror!Spec

(* When the changes end, readings and writings no longer fail and the      *)
(* server stays up, the daily refresh brings Prometheus to the rules of    *)
(* the database, whatever was missed, overtaken, not read or not written,  *)
(* if the group still exists.                                              *)
RulesCatchUp ==
  <>[][~(consumeFails \/ InitPrometheusConfig \/ \E w \in Worker : readingFails(w))]_vars
    => <>[](db.exists => loaded = db.content)
=============================================================================
