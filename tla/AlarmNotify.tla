---------------------------- MODULE AlarmNotify ----------------------------
(***************************************************************************)
(* The messages about alarms.  When UpdateAlarms is done with a list, the  *)
(* handler (or the engine's tick) starts one goroutine NotifyStrategyAlarm *)
(* per element that it counts as a success.  A strategy may have a delay:  *)
(* the "firing" message then waits and is dropped when the alarm recovered *)
(* in the meantime, the "ok" message is dropped when the alarm is younger  *)
(* than the delay.  Nothing orders the goroutines of one alarm, and they   *)
(* live in memory only.                                                    *)
(*                                                                         *)
(* The tables and their writers are those of AlarmFiring.                  *)
(***************************************************************************)
EXTENDS Naturals, FiniteSets

CONSTANTS
  RuleSeries, EngineSeries, Worker, MaxAlarms, PlatformClose, CommitFails,
  NotifyDelay,    \* notify_delay_second of the strategies
  MaxTime,        \* bound on the clock
  Slot            \* the notification goroutines that may exist at the same time

VARIABLES
  cond, alarm, firing, nextId, job,   \* as in AlarmFiring
  now,       \* the clock, in units of which NotifyDelay counts some
  began,     \* began[w]: time.Now() at the start of w's request or tick
  start,     \* column alarm.start
  note,      \* note[g]: the local state of notification goroutine g
  okAt,      \* history: when the row became "ok", or Never
  told,      \* history: told[a] is the set of messages delivered about a
  dropped,   \* history: alarms whose "firing" message was given up
  unsaved,   \* history: successes whose COMMIT was lost
  blind      \* history: alarms let through because the look at their row failed

firingVars == <<cond, alarm, firing, nextId, job>>
vars == <<cond, alarm, firing, nextId, job, now, began, start, note, okAt, told, dropped, unsaved, blind>>

ASSUME AlarmNotifyAssumption ==
  /\ RuleSeries \cap EngineSeries = {} /\ "none" \notin RuleSeries \cup EngineSeries
  /\ PlatformClose \in BOOLEAN /\ CommitFails \in BOOLEAN
  /\ MaxAlarms \in Nat /\ MaxTime \in Nat /\ NotifyDelay \in Nat

F == INSTANCE AlarmFiring

AlarmId == F!AlarmId
Never == MaxTime + 1
Status == {"firing", "ok"}
MaxTries == 3

Note == [pc : {"free", "delay", "mail", "event"},
         id : AlarmId \cup {0}, status : Status,
         wake : 0 .. (MaxTime + NotifyDelay), tries : 0 .. (MaxTries - 1)]

Free == [pc |-> "free", id |-> 0, status |-> "ok", wake |-> 0, tries |-> 0]

TypeOK ==
  /\ F!TypeOK
  /\ now \in 0 .. MaxTime
  /\ began \in [Worker -> 0 .. MaxTime]
  /\ start \in [AlarmId -> 0 .. MaxTime]
  /\ note \in [Slot -> Note]
  /\ okAt \in [AlarmId -> 0 .. Never]
  /\ told \in [AlarmId -> SUBSET Status]
  /\ dropped \in SUBSET AlarmId
  /\ unsaved \in SUBSET F!Result
  /\ blind \in SUBSET AlarmId

Init ==
  /\ F!Init
  /\ now = 0
  /\ began = [w \in Worker |-> 0]
  /\ start = [a \in AlarmId |-> 0]
  /\ note = [g \in Slot |-> Free]
  /\ okAt = [a \in AlarmId |-> Never]
  /\ told = [a \in AlarmId |-> {}]
  /\ dropped = {}
  /\ unsaved = {}
  /\ blind = {}

-----------------------------------------------------------------------------
(* The writers of AlarmFiring, with their clock readings *)

Tick ==
  /\ now < MaxTime
  /\ now' = now + 1
  /\ UNCHANGED <<firingVars, began, start, note, okAt, told, dropped, unsaved, blind>>

(* A request or a tick begins: nowTime := time.Now(). *)
startWork(w) ==
  /\ F!Start(w)
  /\ began' = [began EXCEPT ![w] = now]
  /\ UNCHANGED <<now, start, note, okAt, told, dropped, unsaved, blind>>

(* The transaction commits.  The webhook stamps a new row with the time    *)
(* its request began, the engine with the time it evaluated the series.    *)
doInsertOrUpdateAlarm(w) ==
  /\ F!doInsertOrUpdateAlarm(w)
  /\ \E t \in began[w] .. now :
       /\ job[w].role = "alerts" => t = began[w]
       /\ start' = IF nextId' = nextId THEN start ELSE [start EXCEPT ![nextId] = t]
  /\ okAt' = [a \in AlarmId |->
                IF alarm'[a].status = "ok" /\ alarm[a].status = "firing" THEN now ELSE okAt[a]]
  /\ UNCHANGED <<now, began, note, told, dropped, unsaved, blind>>

commitLost(w) ==
  /\ F!commitLost(w)
  /\ unsaved' = unsaved \cup (job'[w].done \ job[w].done)
  /\ UNCHANGED <<now, began, start, note, okAt, told, dropped, blind>>

otherWork(w) ==
  /\ \/ F!buildNewAlarm(w)
     \/ F!buildMonitorEngineAlarm(w)
     \/ F!rollbackAlarm(w)
     \/ F!closeTransaction(w)
     \/ F!platformTransaction(w)
     \/ F!rollbackClose(w)
  /\ UNCHANGED <<now, began, start, note, okAt, told, dropped, unsaved, blind>>

-----------------------------------------------------------------------------
(* Starting the goroutines *)

(* The recoveries that the engine builds carry no NotifyEnable, so nobody  *)
(* is told about them.                                                     *)
Announce(w) ==
  {r \in job[w].done : ~(job[w].role = "engine" /\ r.status = "ok")}

NewNote(r) ==
  [pc |-> IF NotifyDelay > 0 THEN "delay" ELSE "mail",
   id |-> r.id, status |-> r.status,
   wake |-> IF r.status = "firing" THEN now + NotifyDelay ELSE now, tries |-> 0]

finishUpdate_resolvesOnly(w) ==
  /\ F!finishUpdate(w)
  /\ \E slot \in [{r \in Announce(w) : r.status = "ok"} -> {g \in Slot : note[g].pc = "free"}] :
       /\ \A r, q \in DOMAIN slot : slot[r] = slot[q] => r = q
       /\ note' = [g \in Slot |->
                     IF \E r \in DOMAIN slot : slot[r] = g
                     THEN NewNote(CHOOSE r \in DOMAIN slot : slot[r] = g) ELSE note[g]]
  /\ began' = [began EXCEPT ![w] = 0]
  /\ UNCHANGED <<now, start, okAt, told, dropped, unsaved, blind>>

(* go NotifyStrategyAlarm(v), for every success. *)
finishUpdate(w) ==
  /\ F!finishUpdate(w)
  /\ \E slot \in [Announce(w) -> {g \in Slot : note[g].pc = "free"}] :
       /\ \A r, q \in DOMAIN slot : slot[r] = slot[q] => r = q
       /\ note' = [g \in Slot |->
                     IF \E r \in DOMAIN slot : slot[r] = g
                     THEN NewNote(CHOOSE r \in DOMAIN slot : slot[r] = g) ELSE note[g]]
  /\ began' = [began EXCEPT ![w] = 0]
  /\ UNCHANGED <<now, start, okAt, told, dropped, unsaved, blind>>

-----------------------------------------------------------------------------
(* NotifyStrategyAlarm and notifyAction *)

GiveUp(g) ==
  /\ note' = [note EXCEPT ![g] = Free]
  /\ dropped' = IF note[g].status = "firing" THEN dropped \cup {note[g].id} ELSE dropped

Deliver(g) == told' = [told EXCEPT ![note[g].id] = @ \cup {note[g].status}]

(* Is the message not to be sent?  The row is read after the delay; a row  *)
(* that is closed or gone does not stop the message, and neither does a    *)
(* query that fails: its error is dropped and no row looks like a row gone. *)
Silenced_noCheck(g, answered) ==
  /\ answered
  /\ F!Exists(note[g].id)
  /\ note[g].status = "ok"
  /\ now - start[note[g].id] < NotifyDelay

Silenced(g, answered) ==
  /\ answered
  /\ F!Exists(note[g].id)
  /\ IF note[g].status = "firing"
     THEN alarm[note[g].id].status = "ok"
     ELSE now - start[note[g].id] < NotifyDelay

NotifyStrategyAlarm(g) ==
  /\ note[g].pc = "delay"
  /\ now >= note[g].wake
  /\ \E answered \in BOOLEAN :
       /\ IF Silenced(g, answered)
          THEN GiveUp(g)
          ELSE /\ note' = [note EXCEPT ![g].pc = "mail"]
               /\ UNCHANGED dropped
       /\ blind' = IF ~answered /\ note[g].status = "firing"
                   THEN blind \cup {note[g].id} ELSE blind
  /\ UNCHANGED <<firingVars, now, began, start, okAt, told, unsaved>>

(* SELECT * FROM notify fails: the goroutine ends. *)
queryNotifyFails(g) ==
  /\ note[g].pc = "mail"
  /\ GiveUp(g)
  /\ UNCHANGED <<firingVars, now, began, start, okAt, told, unsaved, blind>>

(* The mail, if enabled, goes out or fails; then the event to the platform *)
(* if the notify row is in mode auto.                                      *)
notifyMailAction(g) ==
  /\ note[g].pc = "mail"
  /\ \E auto, sent \in BOOLEAN :
       /\ IF sent THEN Deliver(g) ELSE UNCHANGED told
       /\ IF auto
          THEN note' = [note EXCEPT ![g].pc = "event"] /\ UNCHANGED dropped
          ELSE IF sent THEN note' = [note EXCEPT ![g] = Free] /\ UNCHANGED dropped
               ELSE GiveUp(g)
  /\ UNCHANGED <<firingVars, now, began, start, okAt, unsaved, blind>>

notifyEventAction_offByOne(g) ==
  /\ note[g].pc = "event"
  /\ \E arrives, answered \in BOOLEAN :
       /\ IF arrives THEN Deliver(g) ELSE UNCHANGED told
       /\ IF ~answered /\ note[g].tries < MaxTries
          THEN note' = [note EXCEPT ![g].tries = @ + 1] /\ UNCHANGED dropped
          ELSE IF arrives THEN note' = [note EXCEPT ![g] = Free] /\ UNCHANGED dropped
               ELSE GiveUp(g)
  /\ UNCHANGED <<firingVars, now, began, start, okAt, unsaved, blind>>

(* One of at most three POSTs: it may arrive or not, and the answer may    *)
(* come, be lost (then it is tried again) or say that trying is useless.   *)
notifyEventAction(g) ==
  /\ note[g].pc = "event"
  /\ \E arrives, answered \in BOOLEAN :
       /\ IF arrives THEN Deliver(g) ELSE UNCHANGED told
       /\ IF ~answered /\ note[g].tries + 1 < MaxTries
          THEN note' = [note EXCEPT ![g].tries = @ + 1] /\ UNCHANGED dropped
          ELSE IF arrives THEN note' = [note EXCEPT ![g] = Free] /\ UNCHANGED dropped
               ELSE GiveUp(g)
  /\ UNCHANGED <<firingVars, now, began, start, okAt, unsaved, blind>>

(* A restart ends the goroutines with the messages they carry.  The alarm  *)
(* is still open, so Alertmanager's repetitions are dropped as repeated.   *)
restart ==
  /\ F!restart
  /\ note' = [g \in Slot |-> Free]
  /\ began' = [w \in Worker |-> 0]
  /\ dropped' = dropped \cup {a \in AlarmId :
                   \/ \E g \in Slot : note[g].id = a /\ note[g].status = "firing"
                   \/ \E w \in Worker : [id |-> a, status |-> "firing"] \in job[w].done}
  /\ UNCHANGED <<now, start, okAt, told, unsaved, blind>>

background ==
  /\ F!cleanAlarmTableJob \/ F!worldChanges
  /\ UNCHANGED <<now, began, start, note, okAt, told, dropped, unsaved, blind>>

Next ==
  \/ \E w \in Worker : startWork(w) \/ doInsertOrUpdateAlarm(w) \/ commitLost(w)
                     \/ otherWork(w) \/ finishUpdate(w)
  \/ \E g \in Slot :
       \/ NotifyStrategyAlarm(g)
       \/ queryNotifyFails(g)
       \/ notifyMailAction(g)
       \/ notifyEventAction(g)
  \/ restart
  \/ background
  \/ Tick

Spec == Init /\ [][Next]_vars

-----------------------------------------------------------------------------
(* Properties *)

(* What people are told is what the tables say: a message "ok" about an    *)
(* alarm that is open, or "firing" about a row that never was, is never    *)
(* delivered, unless a COMMIT was lost.                                    *)
MessagesAreTrue ==
  \A a \in AlarmId :
    /\ "ok" \in told[a] /\ F!IsFiring(a) => [id |-> a, status |-> "ok"] \in unsaved
    /\ "firing" \in told[a] /\ alarm[a].status = "unused" =>
         [id |-> a, status |-> "firing"] \in unsaved

(* With a delay, an alarm that recovered within it is not announced, if    *)
(* nobody closed it afterwards and the look at its row, which              *)
(* NotifyStrategyAlarm takes after its sleep and whose error it drops, did *)
(* not fail.                                                               *)
QuickRecoveryNotAnnounced ==
  \A a \in AlarmId :
    /\ okAt[a] # Never
    /\ okAt[a] - start[a] < NotifyDelay
    /\ alarm[a].status = "ok"
    /\ "firing" \in told[a]
    => a \in blind

(* Every alarm raised was announced, will be by a goroutine or a handler   *)
(* at work, or its message was given up: suppressed after the delay, not   *)
(* deliverable, lost in a restart.  No interleaving forgets one.           *)
EveryAlarmAccountedFor ==
  \A a \in AlarmId : alarm[a].status # "unused" =>
    \/ "firing" \in told[a]
    \/ a \in dropped
    \/ \E w \in Worker : [id |-> a, status |-> "firing"] \in job[w].done
    \/ \E g \in Slot : note[g].id = a /\ note[g].status = "firing"
=============================================================================
