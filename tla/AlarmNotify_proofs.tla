------------------------- MODULE AlarmNotify_proofs -------------------------
(***************************************************************************)
(* For every number of goroutines, series, rows and delays: the invariants *)
(* of AlarmNotify, and that its tables and writers are those of            *)
(* AlarmFiring, whose theorems therefore hold of it as well.               *)
(***************************************************************************)
EXTENDS AlarmNotify, TLAPS

(* AlarmFiring with its theorems. *)
P == INSTANCE AlarmFiring_proofs

(* Somebody is about to say s of alarm a, or it has been said. *)
Said(a, s) ==
  \/ s \in told[a]
  \/ \E w \in Worker : [id |-> a, status |-> s] \in job[w].done
  \/ \E g \in Slot : note[g].pc # "free" /\ note[g].id = a /\ note[g].status = s

(* The "firing" message about a has been let through by the look at the    *)
(* row, or there is no delay and it is not looked at.                      *)
Passed(a) ==
  \/ "firing" \in told[a]
  \/ \E g \in Slot : note[g].pc \in {"mail", "event"} /\ note[g].id = a /\ note[g].status = "firing"

FreeIsFree ==
  \A g \in Slot : IF note[g].pc = "free" THEN note[g] = Free ELSE note[g].id \in AlarmId

(* Only ids that have been handed out are talked about, so that an insert  *)
(* makes an alarm nobody has spoken of.                                    *)
KnownIds ==
  /\ \A w \in Worker : /\ \A a \in job[w].seen : a < nextId
                       /\ \A op \in job[w].ops : op.id < nextId
  /\ \A a \in AlarmId, s \in Status : Said(a, s) => a < nextId

(* Closings have no successes to hand over when they end. *)
DoneByUpdaters ==
  \A w \in Worker : job[w].done # {} => job[w].role \in {"alerts", "engine"}

(* MessagesAreTrue, of the messages on their way as well. *)
TrueWords ==
  \A a \in AlarmId :
    /\ Said(a, "ok") /\ F!IsFiring(a) => [id |-> a, status |-> "ok"] \in unsaved
    /\ Said(a, "firing") /\ alarm[a].status = "unused" => [id |-> a, status |-> "firing"] \in unsaved

Clocks ==
  \A a \in AlarmId :
    /\ start[a] <= now
    /\ alarm[a].status = "ok" => start[a] <= okAt[a] /\ okAt[a] <= now

(* A "firing" message waits until the delay after its alarm's start is     *)
(* over; what it finds then does not recover within the delay any more,    *)
(* unless it finds nothing because the query fails.                        *)
LateEnough ==
  /\ \A g \in Slot : note[g].pc = "delay" /\ note[g].status = "firing" =>
       note[g].wake >= start[note[g].id] + NotifyDelay
  /\ \A a \in AlarmId : Passed(a) =>
       /\ now >= start[a] + NotifyDelay
       /\ alarm[a].status = "ok" => okAt[a] >= start[a] + NotifyDelay \/ a \in blind

IInv ==
  /\ P!IInv
  /\ TypeOK
  /\ FreeIsFree
  /\ DoneByUpdaters
  /\ KnownIds
  /\ TrueWords
  /\ Clocks
  /\ LateEnough
  /\ EveryAlarmAccountedFor

-----------------------------------------------------------------------------
(* F and P are the same module: what is said of P holds of F *)

LEMMA FiringAssumption ==
  /\ RuleSeries \cap EngineSeries = {}
  /\ MaxAlarms \in Nat
  /\ PlatformClose \in BOOLEAN
  /\ CommitFails \in BOOLEAN
  /\ "none" \notin P!Series
BY AlarmNotifyAssumption DEF P!Series

LEMMA SameType == F!TypeOK <=> P!TypeOK
BY DEF F!TypeOK, P!TypeOK, F!AlarmId, P!AlarmId, F!Cond, P!Cond, F!Series, P!Series, F!Job,
      P!Job, F!NoAlarm, P!NoAlarm, F!Contract!AlarmRow, P!Contract!AlarmRow,
      F!Contract!Unused, P!Contract!Unused, F!Role, P!Role, F!Op, P!Op, F!Input, P!Input,
      F!Result, P!Result

LEMMA SameInit == F!Init => P!Init
BY DEF F!Init, P!Init, F!AlarmId, P!AlarmId, F!Cond, P!Cond, F!Series, P!Series, F!NoAlarm,
      P!NoAlarm, F!Contract!Unused, P!Contract!Unused, F!Idle, P!Idle

LEMMA SameStart == \A w \in Worker : F!Start(w) => P!Start(w)
BY DEF F!Start, P!Start, F!AcceptAlert, P!AcceptAlert, F!doMonitorEngineRuleJob,
      P!doMonitorEngineRuleJob, F!CloseAlarm, P!CloseAlarm, F!PluginCloseAlarmAction,
      P!PluginCloseAlarmAction, F!DeleteEndpoint, P!DeleteEndpoint, F!Idle, P!Idle,
      F!AlarmId, P!AlarmId, F!IsFiring, P!IsFiring, F!FiringOf, P!FiringOf, F!Exists,
      P!Exists, F!Series, P!Series

LEMMA SameBuild ==
  \A w \in Worker : /\ F!buildNewAlarm(w) => P!buildNewAlarm(w)
                    /\ F!buildMonitorEngineAlarm(w) => P!buildMonitorEngineAlarm(w)
BY DEF F!buildNewAlarm, P!buildNewAlarm, F!buildMonitorEngineAlarm,
      P!buildMonitorEngineAlarm, F!LatestOf, P!LatestOf, F!EngineOps, P!EngineOps,
      F!AlarmId, P!AlarmId, F!IsFiring, P!IsFiring, F!FiringOf, P!FiringOf, F!NoAlarm,
      P!NoAlarm

LEMMA SameWrite ==
  \A w \in Worker : /\ F!doInsertOrUpdateAlarm(w) => P!doInsertOrUpdateAlarm(w)
                    /\ F!rollbackAlarm(w) => P!rollbackAlarm(w)
                    /\ F!commitLost(w) => P!commitLost(w)
                    /\ F!finishUpdate(w) => P!finishUpdate(w)
BY DEF F!doInsertOrUpdateAlarm, P!doInsertOrUpdateAlarm, F!rollbackAlarm, P!rollbackAlarm,
      F!commitLost, P!commitLost, F!finishUpdate, P!finishUpdate, F!InUpdateAlarms,
      P!InUpdateAlarms, F!ResolveRow, P!ResolveRow, F!InsertRow, P!InsertRow, F!IsFiring,
      P!IsFiring, F!NoAlarm, P!NoAlarm, F!Series, P!Series, F!Idle, P!Idle

LEMMA SameClose ==
  \A w \in Worker : /\ F!closeTransaction(w) => P!closeTransaction(w)
                    /\ F!platformTransaction(w) => P!platformTransaction(w)
                    /\ F!rollbackClose(w) => P!rollbackClose(w)
BY DEF F!closeTransaction, P!closeTransaction, F!platformTransaction,
      P!platformTransaction, F!rollbackClose, P!rollbackClose, F!SetClosed, P!SetClosed,
      F!Exists, P!Exists, F!AlarmId, P!AlarmId, F!NoAlarm, P!NoAlarm, F!Series, P!Series,
      F!Idle, P!Idle

LEMMA SameRest ==
  /\ F!cleanAlarmTableJob => P!cleanAlarmTableJob
  /\ F!restart => P!restart
  /\ F!worldChanges => P!worldChanges
BY DEF F!cleanAlarmTableJob, P!cleanAlarmTableJob, F!restart, P!restart, F!worldChanges,
      P!worldChanges, F!AlarmId, P!AlarmId, F!Idle, P!Idle, F!Cond, P!Cond

LEMMA SameNext == [F!Next]_F!vars => [P!Next]_P!vars
BY SameStart, SameBuild, SameWrite, SameClose, SameRest
DEF F!Next, P!Next, F!Progress, P!Progress, F!vars, P!vars

(* Every step is a step of AlarmFiring or leaves its tables and workers alone. *)
LEMMA StepOfFiring == [Next]_vars => [F!Next]_F!vars
<1> SUFFICES ASSUME [Next]_vars PROVE [F!Next]_F!vars
  OBVIOUS
<1>1. ASSUME NEW w \in Worker,
             \/ startWork(w)
             \/ doInsertOrUpdateAlarm(w)
             \/ commitLost(w)
             \/ otherWork(w)
             \/ finishUpdate(w)
      PROVE  F!Next
  BY <1>1 DEF startWork, doInsertOrUpdateAlarm, commitLost, otherWork, finishUpdate,
              F!Next, F!Progress
<1>2. ASSUME NEW g \in Slot,
             \/ NotifyStrategyAlarm(g)
             \/ queryNotifyFails(g)
             \/ notifyMailAction(g)
             \/ notifyEventAction(g)
      PROVE  UNCHANGED F!vars
  BY <1>2 DEF NotifyStrategyAlarm, queryNotifyFails, notifyMailAction, notifyEventAction,
              firingVars, F!vars
<1>3. CASE restart
  BY <1>3 DEF restart, F!Next
<1>4. CASE background
  BY <1>4 DEF background, F!Next
<1>5. CASE Tick
  BY <1>5 DEF Tick, firingVars, F!vars
<1>6. CASE UNCHANGED vars
  BY <1>6 DEF vars, F!vars
<1> QED BY <1>1, <1>2, <1>3, <1>4, <1>5, <1>6 DEF Next

(* The messages add nothing to the life of the tables: AlarmNotify is      *)
(* AlarmFiring, observed.                                                  *)
THEOREM TablesOfAlarmFiring == Spec => F!Spec
<1>1. Init => F!Init
  BY DEF Init
<1> QED BY <1>1, StepOfFiring, PTL DEF Spec, F!Spec

LEMMA FiringIInv == P!IInv /\ [Next]_vars => P!IInv'
BY FiringAssumption, StepOfFiring, SameNext, P!NextIInv

-----------------------------------------------------------------------------
(* Types *)

LEMMA FiringTypeNext == P!IInv' => F!TypeOK'
<1>1. P!IInv => F!TypeOK
  BY SameType DEF P!IInv
<1> QED BY <1>1, PTL

LEMMA NextIdType == F!TypeOK => nextId \in Nat /\ nextId <= MaxAlarms + 1 /\ nextId > 0
BY AlarmNotifyAssumption DEF F!TypeOK

LEMMA NewNoteType ==
  ASSUME TypeOK, NEW w \in Worker, NEW r \in job[w].done
  PROVE  /\ NewNote(r) \in Note
         /\ r \in F!Result
         /\ NewNote(r).id = r.id /\ NewNote(r).status = r.status
         /\ NewNote(r).pc = (IF NotifyDelay > 0 THEN "delay" ELSE "mail")
         /\ r.status = "firing" => NewNote(r).wake = now + NotifyDelay
<1>1. r \in F!Result
  BY DEF TypeOK, F!TypeOK, F!Job
<1>2. r.id \in AlarmId /\ r.status \in Status
  BY <1>1 DEF F!Result, AlarmId, Status
<1>3. (IF r.status = "firing" THEN now + NotifyDelay ELSE now) \in 0 .. (MaxTime + NotifyDelay)
  BY AlarmNotifyAssumption, SMT DEF TypeOK
<1>4. (IF NotifyDelay > 0 THEN "delay" ELSE "mail") \in {"free", "delay", "mail", "event"}
  OBVIOUS
<1>5. 0 \in 0 .. (MaxTries - 1)
  BY DEF MaxTries
<1> QED BY <1>1, <1>2, <1>3, <1>4, <1>5 DEF NewNote, Note

(* The goroutines that finishUpdate starts: one for every success that is  *)
(* announced, in slots that were free.                                     *)
LEMMA HandedOver ==
  ASSUME TypeOK, NEW w \in Worker, finishUpdate(w)
  PROVE  /\ note' \in [Slot -> Note]
         /\ \A g \in Slot : \/ note'[g] = note[g]
                            \/ note[g].pc = "free" /\ \E r \in Announce(w) : note'[g] = NewNote(r)
         /\ \A r \in Announce(w) : \E g \in Slot : note'[g] = NewNote(r)
<1>1. PICK slot \in [Announce(w) -> {g \in Slot : note[g].pc = "free"}] :
        /\ \A r, q \in DOMAIN slot : slot[r] = slot[q] => r = q
        /\ note' = [g \in Slot |->
                      IF \E r \in DOMAIN slot : slot[r] = g
                      THEN NewNote(CHOOSE r \in DOMAIN slot : slot[r] = g) ELSE note[g]]
  BY DEF finishUpdate
<1>2. DOMAIN slot = Announce(w)
  OBVIOUS
<1>3. ASSUME NEW g \in Slot, \E r \in Announce(w) : slot[r] = g
      PROVE  \E r \in Announce(w) : slot[r] = g /\ note'[g] = NewNote(r)
  BY <1>1, <1>2, <1>3
<1>4. \A r \in Announce(w) : NewNote(r) \in Note
  BY NewNoteType DEF Announce
<1>5. \A g \in Slot : \/ note'[g] = note[g]
                      \/ note[g].pc = "free" /\ \E r \in Announce(w) : note'[g] = NewNote(r)
  BY <1>1, <1>2, <1>3
<1>6. note \in [Slot -> Note]
  BY DEF TypeOK
<1>7. \A g \in Slot : note'[g] \in Note
  BY <1>4, <1>5, <1>6
<1>8. note' \in [Slot -> Note]
  BY <1>1, <1>7
<1>9. \A r \in Announce(w) : \E g \in Slot : note'[g] = NewNote(r)
  <2> TAKE r \in Announce(w)
  <2>1. slot[r] \in Slot
    BY <1>1
  <2>2. PICK q \in Announce(w) : slot[q] = slot[r] /\ note'[slot[r]] = NewNote(q)
    BY <1>3, <2>1
  <2>3. q = r
    BY <1>1, <1>2, <2>2
  <2> QED BY <2>1, <2>2, <2>3
<1> QED BY <1>5, <1>8, <1>9

(* A step of one notification goroutine. *)
LEMMA NoteStepType ==
  ASSUME TypeOK, NEW g \in Slot,
         \/ NotifyStrategyAlarm(g)
         \/ queryNotifyFails(g)
         \/ notifyMailAction(g)
         \/ notifyEventAction(g)
  PROVE  /\ note' \in [Slot -> Note]
         /\ \A h \in Slot \ {g} : note'[h] = note[h]
         /\ note[g].pc # "free"
         /\ \/ note'[g] = Free
            \/ /\ note'[g].id = note[g].id /\ note'[g].status = note[g].status
               /\ note'[g].pc \in {"mail", "event"}
<1>1. note \in [Slot -> Note] /\ Free \in Note /\ note[g] \in Note
  BY AlarmNotifyAssumption DEF TypeOK, Note, Free, Status, MaxTries
<1>2. \/ note' = [note EXCEPT ![g] = Free]
      \/ note' = [note EXCEPT ![g].pc = "mail"]
      \/ note' = [note EXCEPT ![g].pc = "event"]
      \/ note' = [note EXCEPT ![g].tries = @ + 1] /\ note[g].pc = "event" /\ note[g].tries + 1 < MaxTries
  BY DEF NotifyStrategyAlarm, queryNotifyFails, notifyMailAction, notifyEventAction, GiveUp
<1>3. note[g].pc # "free"
  BY DEF NotifyStrategyAlarm, queryNotifyFails, notifyMailAction, notifyEventAction
<1>4. CASE note' = [note EXCEPT ![g] = Free]
  BY <1>1, <1>3, <1>4
<1>5. CASE note' = [note EXCEPT ![g].pc = "mail"]
  BY <1>1, <1>3, <1>5 DEF Note
<1>6. CASE note' = [note EXCEPT ![g].pc = "event"]
  BY <1>1, <1>3, <1>6 DEF Note
<1>7. CASE note' = [note EXCEPT ![g].tries = @ + 1] /\ note[g].pc = "event" /\ note[g].tries + 1 < MaxTries
  BY <1>1, <1>3, <1>7 DEF Note, MaxTries
<1> QED BY <1>2, <1>4, <1>5, <1>6, <1>7

LEMMA DeliverType ==
  ASSUME TypeOK, NEW g \in Slot, note[g].id \in AlarmId, told' = told \/ Deliver(g),
         dropped' = dropped \/ dropped' = dropped \cup {note[g].id}
  PROVE  told' \in [AlarmId -> SUBSET Status] /\ dropped' \in SUBSET AlarmId
<1>1. note[g].status \in Status
  BY DEF TypeOK, Note
<1> QED BY <1>1 DEF TypeOK, Deliver

LEMMA TypeNext == TypeOK /\ FreeIsFree /\ F!TypeOK' /\ [Next]_vars => TypeOK'
<1> SUFFICES ASSUME TypeOK, FreeIsFree, F!TypeOK', [Next]_vars PROVE TypeOK'
  OBVIOUS
<1>1. ASSUME NEW w \in Worker, startWork(w) \/ otherWork(w) PROVE TypeOK'
  BY <1>1 DEF startWork, otherWork, TypeOK
<1>2. ASSUME NEW w \in Worker, doInsertOrUpdateAlarm(w) PROVE TypeOK'
  <2>1. PICK t \in began[w] .. now :
          start' = IF nextId' = nextId THEN start ELSE [start EXCEPT ![nextId] = t]
    BY <1>2 DEF doInsertOrUpdateAlarm
  <2>2. t \in 0 .. MaxTime
    BY AlarmNotifyAssumption, SMT DEF TypeOK
  <2>3. start' \in [AlarmId -> 0 .. MaxTime]
    BY <2>1, <2>2 DEF TypeOK
  <2>4. okAt' = [a \in AlarmId |->
                  IF alarm'[a].status = "ok" /\ alarm[a].status = "firing" THEN now ELSE okAt[a]]
    BY <1>2 DEF doInsertOrUpdateAlarm
  <2>5. now \in 0 .. Never
    BY AlarmNotifyAssumption, SMT DEF TypeOK, Never
  <2>6. okAt' \in [AlarmId -> 0 .. Never]
    BY <2>4, <2>5 DEF TypeOK
  <2>7. UNCHANGED <<now, began, note, told, dropped, unsaved, blind>>
    BY <1>2 DEF doInsertOrUpdateAlarm
  <2> QED BY <2>3, <2>6, <2>7 DEF TypeOK
<1>3. ASSUME NEW w \in Worker, commitLost(w) PROVE TypeOK'
  <2>1. job'[w].done \in SUBSET F!Result
    BY DEF F!TypeOK, F!Job
  <2> QED BY <1>3, <2>1 DEF commitLost, TypeOK
<1>4. ASSUME NEW w \in Worker, finishUpdate(w) PROVE TypeOK'
  <2>1. note' \in [Slot -> Note]
    BY <1>4, HandedOver
  <2>2. began' \in [Worker -> 0 .. MaxTime]
    BY <1>4, AlarmNotifyAssumption DEF finishUpdate, TypeOK
  <2> QED BY <1>4, <2>1, <2>2 DEF finishUpdate, TypeOK
<1>5. ASSUME NEW g \in Slot,
             \/ NotifyStrategyAlarm(g)
             \/ queryNotifyFails(g)
             \/ notifyMailAction(g)
             \/ notifyEventAction(g)
      PROVE  TypeOK'
  <2>1. note' \in [Slot -> Note] /\ note[g].id \in AlarmId
    BY <1>5, NoteStepType DEF FreeIsFree
  <2>2. UNCHANGED <<now, began, start, okAt, unsaved>> /\ (blind' = blind \/ blind' = blind \cup {note[g].id})
    BY <1>5 DEF NotifyStrategyAlarm, queryNotifyFails, notifyMailAction, notifyEventAction
  <2>3. told' = told \/ Deliver(g)
    BY <1>5 DEF NotifyStrategyAlarm, queryNotifyFails, notifyMailAction, notifyEventAction
  <2>4. dropped' = dropped \/ dropped' = dropped \cup {note[g].id}
    BY <1>5 DEF NotifyStrategyAlarm, queryNotifyFails, notifyMailAction, notifyEventAction, GiveUp
  <2>5. told' \in [AlarmId -> SUBSET Status] /\ dropped' \in SUBSET AlarmId
    BY <2>1, <2>3, <2>4, DeliverType
  <2>6. blind' \in SUBSET AlarmId
    BY <2>1, <2>2 DEF TypeOK
  <2> QED BY <2>1, <2>2, <2>5, <2>6 DEF TypeOK
<1>6. CASE restart
  <2>1. Free \in Note
    BY AlarmNotifyAssumption DEF Note, Free, Status, MaxTries
  <2>2. note' \in [Slot -> Note] /\ began' \in [Worker -> 0 .. MaxTime]
    BY <1>6, <2>1, AlarmNotifyAssumption DEF restart
  <2> QED BY <1>6, <2>2 DEF restart, TypeOK
<1>7. CASE background
  BY <1>7 DEF background, TypeOK
<1>8. CASE Tick
  <2>1. now' \in 0 .. MaxTime
    BY <1>8, AlarmNotifyAssumption, SMT DEF Tick, TypeOK
  <2> QED BY <1>8, <2>1 DEF Tick, TypeOK
<1>9. CASE UNCHANGED vars
  BY <1>9 DEF vars, TypeOK
<1> QED BY <1>1, <1>2, <1>3, <1>4, <1>5, <1>6, <1>7, <1>8, <1>9 DEF Next

-----------------------------------------------------------------------------
(* IInv *)

LEMMA InitIInv == Init => IInv
<1> SUFFICES ASSUME Init PROVE IInv
  OBVIOUS
<1>1. F!Init /\ P!Init
  BY SameInit DEF Init
<1>2. P!IInv
  BY <1>1, FiringAssumption, P!InitIInv
<1>3. F!TypeOK
  BY <1>2, SameType DEF P!IInv
<1>4. Free \in Note
  BY AlarmNotifyAssumption DEF Note, Free, Status, MaxTries
<1>5. TypeOK
  BY <1>3, <1>4, AlarmNotifyAssumption DEF Init, TypeOK, Never
<1>6. \A w \in Worker : job[w].done = {} /\ job[w].ops = {} /\ job[w].seen = {}
  BY <1>1 DEF F!Init, F!Idle
<1>7. FreeIsFree /\ DoneByUpdaters
  BY <1>6 DEF Init, FreeIsFree, DoneByUpdaters, Free
<1>8. \A a \in AlarmId, s \in Status : ~Said(a, s) /\ ~Passed(a)
  BY <1>6 DEF Init, Said, Passed, Free
<1>9. KnownIds /\ TrueWords
  BY <1>6, <1>8 DEF KnownIds, TrueWords, Status
<1>10. \A a \in AlarmId : alarm[a].status = "unused"
  BY <1>1 DEF F!Init, F!Contract!Unused, AlarmId
<1>11. Clocks /\ LateEnough /\ EveryAlarmAccountedFor
  BY <1>8, <1>10 DEF Init, Clocks, LateEnough, EveryAlarmAccountedFor, Free, Status
<1> QED BY <1>2, <1>5, <1>7, <1>9, <1>11 DEF IInv

(* A row that is no more than closed, or deleted by the cleaner. *)
EndsOnly ==
  \A a \in AlarmId :
    \/ alarm'[a].status = alarm[a].status
    \/ (alarm[a].status # "unused") /\ alarm'[a].status \in {"closed", "deleted"}

(* The worker v neither succeeds in anything nor forgets a success. *)
KeepsDone(v) ==
  /\ job'[v].done = job[v].done
  /\ job[v].done # {} => job'[v].role \in {"alerts", "engine"}
  /\ \A a \in job'[v].seen : a < nextId
  /\ \A op \in job'[v].ops : op.id < nextId

LEMMA QuietIInv ==
  ASSUME IInv, P!IInv', TypeOK', EndsOnly, \A v \in Worker : KeepsDone(v),
         UNCHANGED <<nextId, now, start, note, okAt, told, dropped, unsaved, blind>>
  PROVE  IInv'
<1>1. FreeIsFree' /\ DoneByUpdaters'
  BY DEF IInv, FreeIsFree, DoneByUpdaters, KeepsDone
<1>2. \A a, s : Said(a, s)' <=> Said(a, s)
  BY DEF Said, KeepsDone
<1>3. \A a : Passed(a)' <=> Passed(a)
  BY DEF Passed
<1>4. KnownIds'
  BY <1>2 DEF IInv, KnownIds, KeepsDone
<1>5. TrueWords'
  BY <1>2 DEF IInv, TrueWords, EndsOnly, F!IsFiring
<1>6. Clocks'
  BY DEF IInv, Clocks, EndsOnly
<1>7. LateEnough'
  BY <1>3 DEF IInv, LateEnough, EndsOnly
<1>8. EveryAlarmAccountedFor'
  BY DEF IInv, EveryAlarmAccountedFor, EndsOnly, KeepsDone
<1> QED BY <1>1, <1>4, <1>5, <1>6, <1>7, <1>8 DEF IInv

(* Ids of rows in use have been handed out. *)
LEMMA UsedIsKnown ==
  ASSUME IInv, NEW a \in AlarmId, alarm[a].status # "unused"
  PROVE  a < nextId
<1>1. a >= nextId => alarm[a].status = "unused"
  BY DEF IInv, P!IInv, P!UnusedAbove, P!Contract!Unused, P!AlarmId, AlarmId, F!AlarmId
<1> QED BY <1>1, NextIdType DEF IInv, TypeOK, AlarmId, F!AlarmId

LEMMA LocalEndsOnly == ASSUME UNCHANGED alarm PROVE EndsOnly
BY DEF EndsOnly

LEMMA StayKeepsDone ==
  ASSUME IInv, NEW v \in Worker, job'[v] = job[v]
  PROVE  KeepsDone(v)
BY DEF IInv, KnownIds, DoneByUpdaters, KeepsDone

LEMMA StartKeepsDone ==
  ASSUME IInv, NEW w \in Worker, F!Start(w)
  PROVE  /\ \A v \in Worker : KeepsDone(v)
         /\ UNCHANGED <<alarm, nextId>>
<1>1. job \in [Worker -> F!Job] /\ UNCHANGED <<alarm, nextId>>
  BY DEF IInv, TypeOK, F!TypeOK, F!Start, F!AcceptAlert, F!doMonitorEngineRuleJob, F!CloseAlarm,
         F!PluginCloseAlarmAction, F!DeleteEndpoint
<1>2. job[w].role = "idle"
  BY DEF F!Start, F!AcceptAlert, F!doMonitorEngineRuleJob, F!CloseAlarm,
         F!PluginCloseAlarmAction, F!DeleteEndpoint
<1>3. job[w].done = {}
  BY <1>2 DEF IInv, DoneByUpdaters
<1>4. \E j : /\ job' = [job EXCEPT ![w] = j]
             /\ j.done = {} /\ j.ops = {}
             /\ \A a \in j.seen : a \in AlarmId /\ alarm[a].status # "unused"
  <2>1. CASE F!AcceptAlert(w)
    <3>1. PICK S \in (SUBSET RuleSeries) \ {{}} : \E kind \in [S -> {"firing", "resolved"}] :
            job' = [job EXCEPT ![w] =
                      [F!Idle EXCEPT !.role = "alerts",
                                     !.todo = {[series |-> s, kind |-> kind[s]] : s \in S}]]
      BY <2>1 DEF F!AcceptAlert
    <3>2. PICK T : job' = [job EXCEPT ![w] = [F!Idle EXCEPT !.role = "alerts", !.todo = T]]
      BY <3>1
    <3>3. PICK j : /\ j = [F!Idle EXCEPT !.role = "alerts", !.todo = T]
                   /\ job' = [job EXCEPT ![w] = j]
      BY <3>2
    <3>4. j.done = {} /\ j.ops = {} /\ j.seen = {}
      BY <3>3 DEF F!Idle
    <3> QED BY <3>3, <3>4
  <2>2. CASE F!doMonitorEngineRuleJob(w)
    <3>1. PICK T, j : /\ j = [F!Idle EXCEPT !.role = "engine", !.todo = T,
                                !.seen = UNION {F!FiringOf(s) : s \in EngineSeries}]
                      /\ job' = [job EXCEPT ![w] = j]
      BY <2>2 DEF F!doMonitorEngineRuleJob
    <3>2. \A a \in UNION {F!FiringOf(s) : s \in EngineSeries} :
            a \in AlarmId /\ alarm[a].status # "unused"
      BY DEF F!FiringOf, F!IsFiring, AlarmId
    <3>3. /\ j.done = {} /\ j.ops = {}
          /\ j.seen = UNION {F!FiringOf(s) : s \in EngineSeries}
      BY <3>1 DEF F!Idle
    <3> QED BY <3>1, <3>2, <3>3
  <2>3. CASE F!CloseAlarm(w) \/ F!PluginCloseAlarmAction(w) \/ F!DeleteEndpoint(w)
    <3>1. PICK r, A : /\ job' = [job EXCEPT ![w] = [F!Idle EXCEPT !.role = r, !.seen = A]]
                      /\ \A a \in A : a \in AlarmId /\ alarm[a].status # "unused"
      <4>1. CASE F!CloseAlarm(w)
        BY <4>1 DEF F!CloseAlarm, F!IsFiring, AlarmId
      <4>2. CASE F!PluginCloseAlarmAction(w)
        <5>1. PICK a \in F!AlarmId :
                /\ F!Exists(a)
                /\ job' = [job EXCEPT ![w] = [F!Idle EXCEPT !.role = "platform", !.seen = {a}]]
          BY <4>2 DEF F!PluginCloseAlarmAction
        <5>2. PICK A : A = {a} /\ job' = [job EXCEPT ![w] = [F!Idle EXCEPT !.role = "platform", !.seen = A]]
          BY <5>1
        <5>3. \A b \in A : b \in AlarmId /\ alarm[b].status # "unused"
          BY <5>1, <5>2 DEF F!Exists, AlarmId
        <5> QED BY <5>2, <5>3
      <4>3. CASE F!DeleteEndpoint(w)
        <5>1. PICK S \in SUBSET F!Series :
                job' = [job EXCEPT ![w] = [F!Idle EXCEPT !.role = "platform",
                                                         !.seen = UNION {F!FiringOf(s) : s \in S}]]
          BY <4>3 DEF F!DeleteEndpoint
        <5>2. \A a \in UNION {F!FiringOf(s) : s \in S} : a \in AlarmId /\ alarm[a].status # "unused"
          BY DEF F!FiringOf, F!IsFiring, AlarmId
        <5> QED BY <5>1, <5>2
      <4> QED BY <2>3, <4>1, <4>2, <4>3
    <3>2. PICK j : j = [F!Idle EXCEPT !.role = r, !.seen = A] /\ job' = [job EXCEPT ![w] = j]
      BY <3>1
    <3>3. j.done = {} /\ j.ops = {} /\ j.seen = A
      BY <3>2 DEF F!Idle
    <3> QED BY <3>1, <3>2, <3>3
  <2> QED BY <2>1, <2>2, <2>3 DEF F!Start
<1>5. KeepsDone(w)
  BY <1>1, <1>3, <1>4, UsedIsKnown DEF KeepsDone
<1>6. \A v \in Worker \ {w} : job'[v] = job[v]
  BY <1>1, <1>4
<1> QED BY <1>1, <1>5, <1>6, StayKeepsDone

LEMMA OtherKeepsDone ==
  ASSUME IInv, NEW w \in Worker, otherWork(w)
  PROVE  \A v \in Worker : KeepsDone(v)
<1>1. job \in [Worker -> F!Job]
  BY DEF IInv, TypeOK, F!TypeOK
<1>2. KnownIds /\ DoneByUpdaters /\ nextId \in Nat /\ 0 < nextId
  BY NextIdType DEF IInv, TypeOK
<1>3. CASE F!buildNewAlarm(w)
  <2>1. PICK m \in job[w].todo : \E exist \in F!LatestOf(F!FiringOf(m.series)) \cup {F!NoAlarm} :
          \/ job' = [job EXCEPT ![w].todo = @ \ {m}]
          \/ job' = [job EXCEPT ![w].todo = @ \ {m},
                                ![w].ops = @ \cup {[id |-> exist, series |-> m.series]}]
    BY <1>3 DEF F!buildNewAlarm
  <2>2. PICK exist \in F!LatestOf(F!FiringOf(m.series)) \cup {F!NoAlarm} :
          \/ job' = [job EXCEPT ![w].todo = @ \ {m}]
          \/ job' = [job EXCEPT ![w].todo = @ \ {m},
                                ![w].ops = @ \cup {[id |-> exist, series |-> m.series]}]
    BY <2>1
  <2>3. exist = 0 \/ (exist \in AlarmId /\ alarm[exist].status # "unused")
    BY DEF F!LatestOf, F!FiringOf, F!IsFiring, F!NoAlarm, AlarmId
  <2>4. exist < nextId
    BY <1>2, <2>3, UsedIsKnown
  <2>5. /\ \A v \in Worker \ {w} : job'[v] = job[v]
        /\ job'[w].done = job[w].done /\ job'[w].role = job[w].role /\ job'[w].seen = job[w].seen
        /\ job'[w].ops \subseteq job[w].ops \cup {[id |-> exist, series |-> m.series]}
    BY <1>1, <2>2 DEF F!Job
  <2>6. \A op \in job'[w].ops : op.id < nextId
    BY <1>2, <2>4, <2>5 DEF KnownIds
  <2> QED BY <1>2, <2>5, <2>6, StayKeepsDone DEF KnownIds, DoneByUpdaters, KeepsDone
<1>4. CASE F!buildMonitorEngineAlarm(w)
  <2>1. PICK m \in job[w].todo :
          \E exist \in F!LatestOf({a \in job[w].seen : alarm[a].series = m.series}) :
            job' = [job EXCEPT ![w].todo = @ \ {m},
                               ![w].ops = @ \cup F!EngineOps(m.series, exist)]
    BY <1>4 DEF F!buildMonitorEngineAlarm
  <2>2. PICK exist \in F!LatestOf({a \in job[w].seen : alarm[a].series = m.series}) :
          job' = [job EXCEPT ![w].todo = @ \ {m},
                             ![w].ops = @ \cup F!EngineOps(m.series, exist)]
    BY <2>1
  <2>3. exist = 0 \/ exist \in job[w].seen
    BY DEF F!LatestOf, F!NoAlarm
  <2>4. exist < nextId
    BY <1>2, <2>3 DEF KnownIds
  <2>5. /\ \A v \in Worker \ {w} : job'[v] = job[v]
        /\ job'[w].done = job[w].done /\ job'[w].role = job[w].role /\ job'[w].seen = job[w].seen
        /\ job'[w].ops = job[w].ops \cup F!EngineOps(m.series, exist)
    BY <1>1, <2>2 DEF F!Job
  <2>6. \A op \in F!EngineOps(m.series, exist) : op.id = exist
    BY DEF F!EngineOps
  <2>7. \A op \in job'[w].ops : op.id < nextId
    BY <1>2, <2>4, <2>5, <2>6 DEF KnownIds
  <2> QED BY <1>2, <2>5, <2>7, StayKeepsDone DEF KnownIds, DoneByUpdaters, KeepsDone
<1>5. CASE F!rollbackAlarm(w)
  <2>1. /\ \A v \in Worker \ {w} : job'[v] = job[v]
        /\ job'[w].done = job[w].done /\ job'[w].role = job[w].role /\ job'[w].seen = job[w].seen
        /\ job'[w].ops \subseteq job[w].ops
    BY <1>1, <1>5 DEF F!rollbackAlarm, F!Job
  <2> QED BY <1>2, <2>1, StayKeepsDone DEF KnownIds, DoneByUpdaters, KeepsDone
<1>6. CASE F!closeTransaction(w) \/ F!platformTransaction(w) \/ F!rollbackClose(w)
  <2>1. job[w].role \in {"close", "platform"} /\ job' = [job EXCEPT ![w] = F!Idle]
    BY <1>6 DEF F!closeTransaction, F!platformTransaction, F!rollbackClose
  <2>2. job[w].done = {}
    BY <1>2, <2>1 DEF DoneByUpdaters
  <2>3. KeepsDone(w)
    BY <1>1, <2>1, <2>2 DEF KeepsDone, F!Idle
  <2> QED BY <1>1, <2>1, <2>3, StayKeepsDone
<1> QED BY <1>3, <1>4, <1>5, <1>6 DEF otherWork

LEMMA OtherEndsOnly ==
  ASSUME IInv, NEW w \in Worker, otherWork(w)
  PROVE  EndsOnly /\ UNCHANGED nextId
<1>1. CASE F!buildNewAlarm(w) \/ F!buildMonitorEngineAlarm(w) \/ F!rollbackAlarm(w) \/ F!rollbackClose(w)
  BY <1>1, LocalEndsOnly
  DEF F!buildNewAlarm, F!buildMonitorEngineAlarm, F!rollbackAlarm, F!rollbackClose
<1>2. CASE F!closeTransaction(w) \/ F!platformTransaction(w)
  <2>1. F!SetClosed(job[w].seen) /\ UNCHANGED nextId
    BY <1>2 DEF F!closeTransaction, F!platformTransaction
  <2> QED BY <2>1
      DEF F!SetClosed, F!Exists, EndsOnly, IInv, TypeOK, F!TypeOK, AlarmId,
          F!Contract!AlarmRow, F!Contract!Unused
<1> QED BY <1>1, <1>2 DEF otherWork

LEMMA BackgroundQuiet ==
  ASSUME IInv, background
  PROVE  EndsOnly /\ UNCHANGED <<nextId, job>>
<1>1. CASE F!cleanAlarmTableJob
  <2>1. PICK last \in F!AlarmId :
          alarm' = [a \in F!AlarmId |->
                      IF a \in {b \in F!AlarmId : b <= last /\ alarm[b].status = "ok"}
                      THEN [alarm[a] EXCEPT !.status = "deleted"] ELSE alarm[a]]
    BY <1>1 DEF F!cleanAlarmTableJob
  <2>2. EndsOnly
    BY <2>1
    DEF EndsOnly, IInv, TypeOK, F!TypeOK, AlarmId, F!Contract!AlarmRow, F!Contract!Unused
  <2> QED BY <1>1, <2>2 DEF F!cleanAlarmTableJob
<1>2. CASE F!worldChanges
  BY <1>2, LocalEndsOnly DEF F!worldChanges
<1> QED BY <1>1, <1>2 DEF background

LEMMA QuietStepIInv ==
  ASSUME IInv, P!IInv', TypeOK',
         (\E w \in Worker : startWork(w) \/ otherWork(w)) \/ background
  PROVE  IInv'
<1>1. UNCHANGED <<now, start, note, okAt, told, dropped, unsaved, blind>>
  BY DEF startWork, otherWork, background
<1>2. ASSUME NEW w \in Worker, startWork(w) PROVE IInv'
  BY <1>1, <1>2, StartKeepsDone, LocalEndsOnly, QuietIInv DEF startWork
<1>3. ASSUME NEW w \in Worker, otherWork(w) PROVE IInv'
  BY <1>1, <1>3, OtherKeepsDone, OtherEndsOnly, QuietIInv
<1>4. ASSUME background PROVE IInv'
  BY <1>1, <1>4, BackgroundQuiet, StayKeepsDone, QuietIInv
<1> QED BY <1>2, <1>3, <1>4

LEMMA LaterIsLarger == \A a, m, n \in Nat : a < m /\ m <= n => a < n
  OBVIOUS

(* One more success of w: who says what. *)
LEMMA OneMoreDone ==
  ASSUME IInv, NEW w \in Worker, NEW op \in job[w].ops, NEW r \in F!Result,
         job' = [job EXCEPT ![w].ops = @ \ {op}, ![w].done = @ \cup {r}],
         UNCHANGED <<note, told, dropped>>, F!InUpdateAlarms(w),
         nextId <= nextId', nextId' \in Nat, r.id < nextId'
  PROVE  /\ \A a, s : Said(a, s)' => Said(a, s) \/ r = [id |-> a, status |-> s]
         /\ \A a, s : Said(a, s) => Said(a, s)'
         /\ \A a : Passed(a)' <=> Passed(a)
         /\ FreeIsFree' /\ DoneByUpdaters' /\ KnownIds'
         /\ r \in job'[w].done
         /\ \A v \in Worker : job[v].done \subseteq job'[v].done
<1>1. job \in [Worker -> F!Job]
  BY DEF IInv, TypeOK, F!TypeOK
<1>2. /\ \A v \in Worker \ {w} : job'[v] = job[v]
      /\ job'[w].done = job[w].done \cup {r} /\ job'[w].role = job[w].role
      /\ job'[w].seen = job[w].seen /\ job'[w].ops \subseteq job[w].ops
  BY <1>1 DEF F!Job
<1>3. \A a, s : Said(a, s)' => Said(a, s) \/ r = [id |-> a, status |-> s]
  <2> SUFFICES ASSUME NEW a, NEW s, Said(a, s)', r # [id |-> a, status |-> s]
               PROVE  Said(a, s)
    OBVIOUS
  <2>1. \A v \in Worker : [id |-> a, status |-> s] \in job'[v].done => [id |-> a, status |-> s] \in job[v].done
    BY <1>2
  <2> QED BY <2>1 DEF Said
<1>4. \A v \in Worker : job[v].done \subseteq job'[v].done
  BY <1>2
<1>5. \A a, s : Said(a, s) => Said(a, s)'
  BY <1>4 DEF Said
<1>6. \A a : Passed(a)' <=> Passed(a)
  BY DEF Passed
<1>7. FreeIsFree' /\ DoneByUpdaters'
  BY <1>2 DEF IInv, FreeIsFree, DoneByUpdaters, F!InUpdateAlarms
<1>8. \A op2 \in F!Op : op2.id \in Nat
  BY AlarmNotifyAssumption DEF F!Op, F!AlarmId, F!NoAlarm
<1>9. nextId \in Nat /\ r.id \in Nat /\ \A a \in AlarmId : a \in Nat
  BY AlarmNotifyAssumption, NextIdType DEF IInv, TypeOK, AlarmId, F!AlarmId, F!Result
<1>10. \A v \in Worker : /\ \A a \in job'[v].seen : a \in Nat /\ a < nextId
                         /\ \A op2 \in job'[v].ops : op2.id \in Nat /\ op2.id < nextId
  <2> TAKE v \in Worker
  <2>1. job'[v].seen = job[v].seen /\ job'[v].ops \subseteq job[v].ops
    BY <1>2
  <2>2. job[v].seen \subseteq AlarmId /\ job[v].ops \subseteq F!Op
    BY <1>1 DEF F!Job, AlarmId
  <2> QED BY <1>8, <1>9, <2>1, <2>2 DEF IInv, KnownIds
<1>11. \A a \in AlarmId, s \in Status : Said(a, s)' => a < nextId'
  <2> TAKE a \in AlarmId, s \in Status
  <2>1. CASE Said(a, s)
    BY <1>9, <2>1, LaterIsLarger, Zenon DEF IInv, KnownIds
  <2>2. CASE r = [id |-> a, status |-> s]
    BY <2>2
  <2> QED BY <1>3, <2>1, <2>2
<1>12. KnownIds'
  <2>1. ASSUME NEW v \in Worker
        PROVE  /\ \A a \in job'[v].seen : a < nextId'
               /\ \A op2 \in job'[v].ops : op2.id < nextId'
    BY <1>9, <1>10, LaterIsLarger, Zenon
  <2> QED BY <1>11, <2>1, Zenon DEF KnownIds, AlarmId, F!AlarmId
<1> QED BY <1>2, <1>3, <1>4, <1>5, <1>6, <1>7, <1>12

LEMMA LostIInv ==
  ASSUME IInv, P!IInv', TypeOK', NEW w \in Worker, commitLost(w)
  PROVE  IInv'
<1>1. PICK op \in job[w].ops :
       \/ /\ op.id # F!NoAlarm
          /\ job' = [job EXCEPT ![w].ops = @ \ {op},
                                ![w].done = @ \cup {[id |-> op.id, status |-> "ok"]}]
          /\ UNCHANGED nextId
       \/ /\ op.id = F!NoAlarm
          /\ nextId <= MaxAlarms
          /\ nextId' = nextId + 1
          /\ job' = [job EXCEPT ![w].ops = @ \ {op},
                                ![w].done = @ \cup {[id |-> nextId, status |-> "firing"]}]
  BY DEF commitLost, F!commitLost
<1>2. /\ UNCHANGED <<alarm, now, began, start, note, okAt, told, dropped, blind>>
      /\ unsaved' = unsaved \cup (job'[w].done \ job[w].done)
      /\ F!InUpdateAlarms(w)
  BY DEF commitLost, F!commitLost
<1>3. op \in F!Op /\ op.id < nextId /\ nextId \in Nat /\ nextId > 0
  BY NextIdType DEF IInv, TypeOK, F!TypeOK, F!Job, KnownIds
<1>4. PICK r \in F!Result :
        /\ job' = [job EXCEPT ![w].ops = @ \ {op}, ![w].done = @ \cup {r}]
        /\ nextId <= nextId' /\ nextId' \in Nat /\ r.id < nextId'
  <2>1. CASE op.id # F!NoAlarm
    <3>1. PICK r : r = [id |-> op.id, status |-> "ok"]
      OBVIOUS
    <3>2. r \in F!Result /\ r.id = op.id
      BY <1>3, <2>1, <3>1 DEF F!Op, F!Result
    <3>3. job' = [job EXCEPT ![w].ops = @ \ {op}, ![w].done = @ \cup {r}] /\ nextId' = nextId
      BY <1>1, <2>1, <3>1
    <3>4. nextId <= nextId' /\ nextId' \in Nat /\ r.id < nextId'
      BY <1>3, <3>2, <3>3
    <3> QED BY <3>2, <3>3, <3>4, Zenon
  <2>2. CASE op.id = F!NoAlarm
    <3>1. PICK r : r = [id |-> nextId, status |-> "firing"]
      OBVIOUS
    <3>2. nextId <= MaxAlarms /\ nextId' = nextId + 1
      BY <1>1, <2>2
    <3>3. r \in F!Result /\ r.id = nextId
      BY <1>3, <3>1, <3>2, AlarmNotifyAssumption DEF F!Result, F!AlarmId
    <3>4. job' = [job EXCEPT ![w].ops = @ \ {op}, ![w].done = @ \cup {r}]
      BY <1>1, <2>2, <3>1
    <3>5. nextId <= nextId' /\ nextId' \in Nat /\ r.id < nextId'
      BY <1>3, <3>2, <3>3
    <3> QED BY <3>3, <3>4, <3>5, Zenon
  <2> QED BY <2>1, <2>2
<1>5. /\ \A a, s : Said(a, s)' => Said(a, s) \/ r = [id |-> a, status |-> s]
      /\ \A a : Passed(a)' <=> Passed(a)
      /\ FreeIsFree' /\ DoneByUpdaters' /\ KnownIds'
      /\ r \in job'[w].done
      /\ \A v \in Worker : job[v].done \subseteq job'[v].done
  BY <1>2, <1>4, OneMoreDone
<1>6. \A a, s : r = [id |-> a, status |-> s] /\ ~Said(a, s) => r \in unsaved'
  BY <1>2, <1>5 DEF Said
<1>7. TrueWords'
  <2>1. \A a, s : Said(a, s)' => Said(a, s) \/ [id |-> a, status |-> s] \in unsaved'
    BY <1>5, <1>6
  <2> QED BY <1>2, <2>1 DEF IInv, TrueWords, F!IsFiring
<1>8. Clocks' /\ LateEnough'
  BY <1>2, <1>5 DEF IInv, Clocks, LateEnough
<1>9. EveryAlarmAccountedFor'
  BY <1>2, <1>5 DEF IInv, EveryAlarmAccountedFor
<1> QED BY <1>5, <1>7, <1>8, <1>9 DEF IInv

(* Who is spoken of by a goroutine is spoken of. *)
LEMMA NoteSays ==
  ASSUME IInv, NEW g \in Slot, note[g].pc # "free"
  PROVE  /\ note[g].id \in AlarmId /\ note[g].status \in Status
         /\ Said(note[g].id, note[g].status)
         /\ note[g].id < nextId
<1>1. note[g].id \in AlarmId /\ note[g].status \in Status
  BY DEF IInv, FreeIsFree, TypeOK, Note
<1>2. Said(note[g].id, note[g].status)
  BY DEF Said
<1> QED BY <1>1, <1>2 DEF IInv, KnownIds

Accounted(a) ==
  \/ "firing" \in told[a]
  \/ a \in dropped
  \/ \E w \in Worker : [id |-> a, status |-> "firing"] \in job[w].done
  \/ \E g \in Slot : note[g].id = a /\ note[g].status = "firing"

(* A job that has more to announce forgets no alarm. *)
LEMMA StaysAccounted ==
  ASSUME NEW a, Accounted(a), UNCHANGED <<told, dropped, note>>,
         \A v \in Worker : job[v].done \subseteq job'[v].done
  PROVE  Accounted(a)'
<1>1. ASSUME NEW w \in Worker, [id |-> a, status |-> "firing"] \in job[w].done
      PROVE  Accounted(a)'
  <2>1. [id |-> a, status |-> "firing"] \in job'[w].done
    BY <1>1
  <2> QED BY <2>1 DEF Accounted
<1>2. CASE "firing" \in told[a] \/ a \in dropped \/ \E g \in Slot : note[g].id = a /\ note[g].status = "firing"
  BY <1>2 DEF Accounted
<1> QED BY <1>1, <1>2 DEF Accounted

LEMMA PassedIsSaid == \A a : Passed(a) => Said(a, "firing")
BY DEF Passed, Said

(* A resolve: the alarm is "ok" from now on, if it was open. *)
LEMMA ResolveIInv ==
  ASSUME IInv, P!IInv', TypeOK', NEW w \in Worker, doInsertOrUpdateAlarm(w),
         NEW op \in job[w].ops, op.id # F!NoAlarm, F!ResolveRow(op.id),
         job' = [job EXCEPT ![w].ops = @ \ {op},
                            ![w].done = @ \cup {[id |-> op.id, status |-> "ok"]}],
         UNCHANGED nextId
  PROVE  IInv'
<1> DEFINE r == [id |-> op.id, status |-> "ok"]
<1>1. /\ UNCHANGED <<now, began, start, note, told, dropped, unsaved, blind>>
      /\ okAt' = [a \in AlarmId |->
                    IF alarm'[a].status = "ok" /\ alarm[a].status = "firing" THEN now ELSE okAt[a]]
      /\ F!InUpdateAlarms(w)
  BY DEF doInsertOrUpdateAlarm, F!doInsertOrUpdateAlarm
<1>2. op \in F!Op /\ op.id < nextId /\ nextId \in Nat
  BY NextIdType DEF IInv, TypeOK, F!TypeOK, F!Job, KnownIds
<1>3. r \in F!Result /\ op.id \in AlarmId
  BY <1>2 DEF F!Op, F!Result, AlarmId
<1>4. /\ job' = [job EXCEPT ![w].ops = @ \ {op}, ![w].done = @ \cup {r}]
      /\ r.id < nextId' /\ nextId <= nextId' /\ nextId' \in Nat
  BY <1>2
<1> HIDE DEF r
<1>5. /\ \A a, s : Said(a, s)' => Said(a, s) \/ r = [id |-> a, status |-> s]
      /\ \A a : Passed(a)' <=> Passed(a)
      /\ FreeIsFree' /\ DoneByUpdaters' /\ KnownIds'
      /\ \A v \in Worker : job[v].done \subseteq job'[v].done
  BY <1>1, <1>2, <1>3, <1>4, OneMoreDone
<1>6. \A a, s : Said(a, s)' => Said(a, s) \/ (a = op.id /\ s = "ok")
  BY <1>5 DEF r
<1>7. /\ alarm'[op.id].status # "firing"
      /\ \A a \in AlarmId : \/ alarm'[a].status = alarm[a].status
                            \/ alarm[a].status = "firing" /\ alarm'[a].status = "ok"
  <2>1. CASE F!IsFiring(op.id)
    <3>1. alarm' = [alarm EXCEPT ![op.id].status = "ok"] /\ alarm[op.id].status = "firing"
      BY <2>1 DEF F!ResolveRow, F!IsFiring
    <3>2. alarm[op.id] \in [series : F!Series, status : {"firing", "ok", "closed", "deleted"}]
      BY <1>3, <3>1 DEF IInv, TypeOK, F!TypeOK, AlarmId, F!Contract!AlarmRow, F!Contract!Unused
    <3>3. /\ alarm'[op.id].status = "ok"
          /\ \A a \in AlarmId \ {op.id} : alarm'[a] = alarm[a]
      BY <1>3, <3>1, <3>2 DEF IInv, TypeOK, F!TypeOK, AlarmId
    <3> QED BY <3>1, <3>3
  <2>2. CASE ~F!IsFiring(op.id)
    BY <2>2 DEF F!ResolveRow, F!IsFiring
  <2> QED BY <2>1, <2>2
<1>8. TrueWords'
  BY <1>1, <1>6, <1>7 DEF IInv, TrueWords, F!IsFiring
<1>9. /\ now \in Nat
      /\ \A a \in AlarmId : okAt'[a] = IF alarm'[a].status = "ok" /\ alarm[a].status = "firing" THEN now ELSE okAt[a]
  BY <1>1 DEF IInv, TypeOK
<1>10. Clocks'
  BY <1>1, <1>7, <1>9 DEF IInv, Clocks
<1>11. LateEnough'
  BY <1>1, <1>5, <1>7, <1>9 DEF IInv, LateEnough
<1>12. EveryAlarmAccountedFor'
  <2>1. \A a \in AlarmId : alarm'[a].status # "unused" => alarm[a].status # "unused"
    BY <1>7
  <2>2. ASSUME NEW a \in AlarmId, alarm'[a].status # "unused"
        PROVE  Accounted(a)'
    <3>1. Accounted(a)
      BY <2>1, <2>2 DEF IInv, EveryAlarmAccountedFor, Accounted
    <3> QED BY <1>1, <1>5, <3>1, StaysAccounted
  <2> QED BY <2>2 DEF EveryAlarmAccountedFor, Accounted
<1> QED BY <1>5, <1>8, <1>10, <1>11, <1>12 DEF IInv

(* An insert: nobody has spoken of the new id. *)
LEMMA InsertIInv ==
  ASSUME IInv, P!IInv', TypeOK', NEW w \in Worker, doInsertOrUpdateAlarm(w),
         NEW op \in job[w].ops, F!InsertRow(op.series),
         job' = [job EXCEPT ![w].ops = @ \ {op},
                            ![w].done = @ \cup {[id |-> nextId, status |-> "firing"]}]
  PROVE  IInv'
<1> DEFINE r == [id |-> nextId, status |-> "firing"]
<1>1. PICK t \in began[w] .. now :
        start' = IF nextId' = nextId THEN start ELSE [start EXCEPT ![nextId] = t]
  BY DEF doInsertOrUpdateAlarm
<1>2. /\ UNCHANGED <<now, began, note, told, dropped, unsaved, blind>>
      /\ okAt' = [a \in AlarmId |->
                    IF alarm'[a].status = "ok" /\ alarm[a].status = "firing" THEN now ELSE okAt[a]]
      /\ F!InUpdateAlarms(w)
  BY DEF doInsertOrUpdateAlarm, F!doInsertOrUpdateAlarm
<1>3. /\ nextId \in Nat /\ nextId \in AlarmId /\ nextId' = nextId + 1
      /\ alarm' = [alarm EXCEPT ![nextId] = [series |-> op.series, status |-> "firing"]]
  BY NextIdType DEF F!InsertRow, IInv, TypeOK, AlarmId, F!AlarmId
<1>4. r \in F!Result /\ r.id < nextId' /\ nextId <= nextId' /\ nextId' \in Nat
  BY <1>3 DEF F!Result, AlarmId
<1>5. job' = [job EXCEPT ![w].ops = @ \ {op}, ![w].done = @ \cup {r}]
  OBVIOUS
<1> HIDE DEF r
<1>6. /\ \A a, s : Said(a, s)' => Said(a, s) \/ r = [id |-> a, status |-> s]
      /\ \A a : Passed(a)' <=> Passed(a)
      /\ FreeIsFree' /\ DoneByUpdaters' /\ KnownIds'
      /\ r \in job'[w].done
      /\ \A v \in Worker : job[v].done \subseteq job'[v].done
  BY <1>2, <1>4, <1>5, OneMoreDone
<1>7. \A s \in Status : ~Said(nextId, s)
  BY <1>3 DEF IInv, KnownIds
<1>8. ~Passed(nextId)
  BY <1>7, PassedIsSaid DEF Status
<1>9. \A a, s : Said(a, s)' => Said(a, s) \/ (a = nextId /\ s = "firing")
  BY <1>6 DEF r
<1>10. /\ alarm'[nextId].status = "firing"
       /\ \A a \in AlarmId \ {nextId} : alarm'[a].status = alarm[a].status
  BY <1>3 DEF IInv, TypeOK, F!TypeOK, AlarmId
<1>11. TrueWords'
  <2>1. ASSUME NEW a \in AlarmId \ {nextId}, NEW s \in Status, Said(a, s)'
        PROVE  Said(a, s) /\ alarm'[a].status = alarm[a].status
    BY <1>9, <1>10, <2>1
  <2>2. PICK n \in AlarmId : n = nextId
    BY <1>3
  <2>3. ~Said(n, "ok")' /\ alarm'[n].status = "firing"
    BY <1>7, <1>9, <1>10, <2>2 DEF Status
  <2>4. ASSUME NEW a \in AlarmId
        PROVE  /\ Said(a, "ok")' /\ alarm'[a].status = "firing" => [id |-> a, status |-> "ok"] \in unsaved'
               /\ Said(a, "firing")' /\ alarm'[a].status = "unused" =>
                    [id |-> a, status |-> "firing"] \in unsaved'
    <3>1. CASE a = n
      BY <2>3, <3>1
    <3>2. CASE a # n
      BY <1>2, <2>1, <2>2, <3>2 DEF IInv, TrueWords, F!IsFiring, Status
    <3> QED BY <3>1, <3>2
  <2> QED BY <2>4 DEF TrueWords, F!IsFiring
<1>12. /\ now \in Nat /\ start'[nextId] = t /\ t <= now
       /\ \A a \in AlarmId \ {nextId} : start'[a] = start[a] /\ okAt'[a] = okAt[a]
  BY <1>1, <1>2, <1>3, <1>10 DEF IInv, TypeOK
<1>13. Clocks'
  BY <1>2, <1>10, <1>12 DEF IInv, Clocks
<1>14. \A g \in Slot : note[g].pc = "delay" => note[g].id \in AlarmId \ {nextId}
  BY <1>3, NoteSays
<1>15. LateEnough'
  BY <1>2, <1>6, <1>8, <1>10, <1>12, <1>14 DEF IInv, LateEnough
<1>16. EveryAlarmAccountedFor'
  <2>1. ASSUME NEW a \in AlarmId \ {nextId}, alarm'[a].status # "unused"
        PROVE  Accounted(a)'
    <3>1. Accounted(a)
      BY <1>10, <2>1 DEF IInv, EveryAlarmAccountedFor, Accounted
    <3> QED BY <1>2, <1>6, <3>1, StaysAccounted
  <2>2. [id |-> nextId, status |-> "firing"] \in job'[w].done
    BY <1>6 DEF r
  <2>3. PICK n : n = nextId
    OBVIOUS
  <2>4. Accounted(n)'
    BY <2>2, <2>3 DEF Accounted
  <2> QED BY <2>1, <2>3, <2>4 DEF EveryAlarmAccountedFor, Accounted, AlarmId
<1> QED BY <1>6, <1>11, <1>13, <1>15, <1>16 DEF IInv

LEMMA WriteIInv ==
  ASSUME IInv, P!IInv', TypeOK', NEW w \in Worker, doInsertOrUpdateAlarm(w)
  PROVE  IInv'
<1>1. PICK op \in job[w].ops :
       \/ /\ op.id # F!NoAlarm
          /\ F!ResolveRow(op.id)
          /\ job' = [job EXCEPT ![w].ops = @ \ {op},
                                ![w].done = @ \cup {[id |-> op.id, status |-> "ok"]}]
          /\ UNCHANGED nextId
       \/ /\ op.id = F!NoAlarm
          /\ F!InsertRow(op.series)
          /\ job' = [job EXCEPT ![w].ops = @ \ {op},
                                ![w].done = @ \cup {[id |-> nextId, status |-> "firing"]}]
  BY DEF doInsertOrUpdateAlarm, F!doInsertOrUpdateAlarm
<1> QED BY <1>1, ResolveIInv, InsertIInv

(* The handler ends: what it had done is in the hands of goroutines now. *)
LEMMA FinishIInv ==
  ASSUME IInv, P!IInv', TypeOK', NEW w \in Worker, finishUpdate(w)
  PROVE  IInv'
<1>1. /\ UNCHANGED <<alarm, nextId, now, start, okAt, told, dropped, unsaved, blind>>
      /\ job' = [job EXCEPT ![w] = F!Idle]
  BY DEF finishUpdate, F!finishUpdate
<1>2. /\ \A g \in Slot : \/ note'[g] = note[g]
                         \/ note[g].pc = "free" /\ \E r \in Announce(w) : note'[g] = NewNote(r)
      /\ \A r \in Announce(w) : \E g \in Slot : note'[g] = NewNote(r)
  BY HandedOver DEF IInv
<1>3. job \in [Worker -> F!Job] /\ TypeOK
  BY DEF IInv, TypeOK, F!TypeOK
<1>4. /\ \A v \in Worker \ {w} : job'[v] = job[v]
      /\ job'[w].done = {} /\ job'[w].ops = {} /\ job'[w].seen = {}
  BY <1>1, <1>3 DEF F!Idle
<1>5. ASSUME NEW r \in Announce(w)
      PROVE  /\ r \in job[w].done /\ r.id \in AlarmId
             /\ r = [id |-> r.id, status |-> r.status]
             /\ NewNote(r).id = r.id /\ NewNote(r).status = r.status
             /\ NewNote(r).pc = (IF NotifyDelay > 0 THEN "delay" ELSE "mail")
             /\ r.status = "firing" => NewNote(r).wake = now + NotifyDelay
  <2>1. r \in job[w].done
    BY DEF Announce
  <2>2. r \in F!Result
    BY <1>3, <2>1, NewNoteType
  <2> QED BY <1>3, <2>1, <2>2, NewNoteType DEF F!Result, AlarmId
<1>6. FreeIsFree'
  <2> SUFFICES ASSUME NEW g \in Slot
               PROVE  IF note'[g].pc = "free" THEN note'[g] = Free ELSE note'[g].id \in AlarmId
    BY DEF FreeIsFree
  <2>1. CASE note'[g] = note[g]
    BY <2>1 DEF IInv, FreeIsFree
  <2>2. CASE \E r \in Announce(w) : note'[g] = NewNote(r)
    BY <1>5, <2>2
  <2> QED BY <1>2, <2>1, <2>2
<1>7. ASSUME NEW a, NEW s, Said(a, s)' PROVE Said(a, s)
  <2>1. CASE s \in told'[a]
    BY <1>1, <2>1 DEF Said
  <2>2. CASE \E v \in Worker : [id |-> a, status |-> s] \in job'[v].done
    BY <1>4, <2>2 DEF Said
  <2>3. CASE \E g \in Slot : note'[g].pc # "free" /\ note'[g].id = a /\ note'[g].status = s
    <3>1. PICK g \in Slot : note'[g].pc # "free" /\ note'[g].id = a /\ note'[g].status = s
      BY <2>3
    <3>2. CASE note'[g] = note[g]
      BY <3>1, <3>2 DEF Said
    <3>3. CASE \E r \in Announce(w) : note'[g] = NewNote(r)
      BY <1>5, <3>1, <3>3 DEF Said
    <3> QED BY <1>2, <3>2, <3>3
  <2> QED BY <1>7, <2>1, <2>2, <2>3 DEF Said
<1>8. DoneByUpdaters' /\ KnownIds'
  BY <1>1, <1>4, <1>7 DEF IInv, DoneByUpdaters, KnownIds
<1>9. TrueWords' /\ Clocks'
  BY <1>1, <1>7 DEF IInv, TrueWords, Clocks, F!IsFiring
<1>10. ASSUME NEW a \in AlarmId, Passed(a)', ~Passed(a)
       PROVE  NotifyDelay = 0
  <2>1. PICK g \in Slot : /\ note'[g].pc \in {"mail", "event"} /\ note'[g] # note[g]
    BY <1>1, <1>10 DEF Passed
  <2>2. \E r \in Announce(w) : note'[g] = NewNote(r)
    BY <1>2, <2>1
  <2>3. ~(NotifyDelay > 0)
    BY <1>5, <2>1, <2>2
  <2> QED BY <2>3, AlarmNotifyAssumption
<1>11. \A a \in AlarmId : now \in Nat /\ start[a] \in Nat /\ okAt[a] \in Nat /\ start[a] <= now
  BY <1>3 DEF TypeOK, IInv, Clocks
<1>12. LateEnough'
  <2>1. ASSUME NEW g \in Slot, note'[g].pc = "delay", note'[g].status = "firing"
        PROVE  note'[g].wake >= start'[note'[g].id] + NotifyDelay
    <3>1. CASE note'[g] = note[g]
      BY <1>1, <2>1, <3>1 DEF IInv, LateEnough
    <3>2. CASE \E r \in Announce(w) : note'[g] = NewNote(r)
      <4>1. PICK r \in Announce(w) : note'[g] = NewNote(r)
        BY <3>2
      <4>2. note'[g].wake = now + NotifyDelay /\ note'[g].id \in AlarmId
        BY <1>5, <2>1, <4>1
      <4> QED BY <1>1, <1>11, <4>2, AlarmNotifyAssumption
    <3> QED BY <1>2, <3>1, <3>2
  <2>2. ASSUME NEW a \in AlarmId, Passed(a)'
        PROVE  /\ now' >= start'[a] + NotifyDelay
               /\ alarm'[a].status = "ok" => okAt'[a] >= start'[a] + NotifyDelay \/ a \in blind'
    <3>1. CASE Passed(a)
      BY <1>1, <3>1 DEF IInv, LateEnough
    <3>2. CASE ~Passed(a)
      <4>1. NotifyDelay = 0
        BY <1>10, <2>2, <3>2
      <4>2. alarm[a].status = "ok" => start[a] <= okAt[a]
        BY DEF IInv, Clocks
      <4> QED BY <1>1, <1>11, <4>1, <4>2
    <3> QED BY <3>1, <3>2
  <2> QED BY <2>1, <2>2 DEF LateEnough
<1>13. EveryAlarmAccountedFor'
  <2> SUFFICES ASSUME NEW a \in AlarmId, alarm[a].status # "unused"
               PROVE  \/ "firing" \in told[a]
                      \/ a \in dropped
                      \/ \E v \in Worker : [id |-> a, status |-> "firing"] \in job'[v].done
                      \/ \E g \in Slot : note'[g].id = a /\ note'[g].status = "firing"
    BY <1>1 DEF EveryAlarmAccountedFor
  <2>1. CASE \E v \in Worker \ {w} : [id |-> a, status |-> "firing"] \in job[v].done
    BY <1>4, <2>1
  <2>2. CASE [id |-> a, status |-> "firing"] \in job[w].done
    <3>1. PICK r : r = [id |-> a, status |-> "firing"]
      OBVIOUS
    <3>2. r \in Announce(w) /\ r.id = a /\ r.status = "firing"
      BY <2>2, <3>1 DEF Announce
    <3> QED BY <1>2, <1>5, <3>2
  <2>3. CASE \E g \in Slot : note[g].id = a /\ note[g].status = "firing"
    <3>1. PICK g \in Slot : note[g].id = a /\ note[g].status = "firing"
      BY <2>3
    <3>2. note[g].pc # "free"
      BY <3>1 DEF IInv, FreeIsFree, Free
    <3> QED BY <1>2, <3>1, <3>2
  <2> QED BY <2>1, <2>2, <2>3 DEF IInv, EveryAlarmAccountedFor
<1> QED BY <1>6, <1>8, <1>9, <1>12, <1>13 DEF IInv

(* A step of one goroutine: it says what it was about to say, no more, and *)
(* lets a "firing" message through only when the delay is over and the     *)
(* alarm has not recovered.                                                *)
LEMMA NoteIInv ==
  ASSUME IInv, P!IInv', TypeOK', NEW g \in Slot,
         \/ NotifyStrategyAlarm(g)
         \/ queryNotifyFails(g)
         \/ notifyMailAction(g)
         \/ notifyEventAction(g)
  PROVE  IInv'
<1>1. UNCHANGED <<job, alarm, nextId, now, start, okAt, unsaved>> /\ blind \subseteq blind'
  BY DEF NotifyStrategyAlarm, queryNotifyFails, notifyMailAction, notifyEventAction, firingVars
<1>2. /\ \A h \in Slot \ {g} : note'[h] = note[h]
      /\ note[g].pc # "free"
      /\ \/ note'[g] = Free
         \/ /\ note'[g].id = note[g].id /\ note'[g].status = note[g].status
            /\ note'[g].pc \in {"mail", "event"}
  BY NoteStepType DEF IInv
<1>3. Free.pc = "free" /\ Free.status = "ok"
  BY DEF Free
<1>4. \/ told' = told
      \/ Deliver(g) /\ note[g].pc \in {"mail", "event"}
  BY DEF NotifyStrategyAlarm, queryNotifyFails, notifyMailAction, notifyEventAction
<1>5. /\ note[g].id \in AlarmId /\ note[g].status \in Status
      /\ Said(note[g].id, note[g].status)
  BY <1>2, NoteSays
<1>6. \A a \in AlarmId : \A s \in told'[a] :
        \/ s \in told[a]
        \/ a = note[g].id /\ s = note[g].status /\ note[g].pc \in {"mail", "event"}
  <2>1. told \in [AlarmId -> SUBSET Status]
    BY DEF IInv, TypeOK
  <2>2. CASE told' = told
    BY <2>2
  <2>3. CASE Deliver(g) /\ note[g].pc \in {"mail", "event"}
    BY <1>5, <2>1, <2>3 DEF Deliver
  <2> QED BY <1>4, <2>2, <2>3
<1>7. FreeIsFree'
  <2> SUFFICES ASSUME NEW h \in Slot
               PROVE  IF note'[h].pc = "free" THEN note'[h] = Free ELSE note'[h].id \in AlarmId
    BY DEF FreeIsFree
  <2>1. CASE h = g
    BY <1>2, <1>3, <1>5, <2>1
  <2>2. CASE h # g
    BY <1>2, <2>2 DEF IInv, FreeIsFree
  <2> QED BY <2>1, <2>2
<1>8. ASSUME NEW a \in AlarmId, NEW s, Said(a, s)' PROVE Said(a, s)
  <2>1. CASE s \in told'[a]
    BY <1>5, <1>6, <2>1 DEF Said
  <2>2. CASE \E v \in Worker : [id |-> a, status |-> s] \in job'[v].done
    BY <1>1, <2>2 DEF Said
  <2>3. CASE \E h \in Slot : note'[h].pc # "free" /\ note'[h].id = a /\ note'[h].status = s
    BY <1>2, <1>3, <2>3 DEF Said
  <2> QED BY <1>8, <2>1, <2>2, <2>3 DEF Said
<1>9. DoneByUpdaters' /\ KnownIds'
  BY <1>1, <1>8 DEF IInv, DoneByUpdaters, KnownIds
<1>10. TrueWords' /\ Clocks'
  BY <1>1, <1>8 DEF IInv, TrueWords, Clocks, F!IsFiring, Status
<1>11. ASSUME NEW a \in AlarmId, Passed(a)', ~Passed(a)
       PROVE  now >= start[a] + NotifyDelay /\ (alarm[a].status # "ok" \/ a \in blind')
  <2>1. /\ a = note[g].id /\ note[g].status = "firing" /\ note[g].pc \notin {"mail", "event"}
        /\ note'[g].pc \in {"mail", "event"}
    BY <1>2, <1>3, <1>6, <1>11 DEF Passed
  <2>2. NotifyStrategyAlarm(g) /\ note[g].pc = "delay"
    BY <2>1 DEF NotifyStrategyAlarm, queryNotifyFails, notifyMailAction, notifyEventAction
  <2>3. now >= note[g].wake
    BY <2>2 DEF NotifyStrategyAlarm
  <2>4. note[g].wake >= start[a] + NotifyDelay
    BY <2>1, <2>2 DEF IInv, LateEnough
  <2>5. now \in Nat /\ note[g].wake \in Nat /\ start[a] \in Nat
    BY AlarmNotifyAssumption DEF IInv, TypeOK, Note
  <2>6. now >= start[a] + NotifyDelay
    BY <2>3, <2>4, <2>5, AlarmNotifyAssumption
  <2>7. PICK answered \in BOOLEAN :
          /\ IF Silenced(g, answered)
             THEN GiveUp(g)
             ELSE note' = [note EXCEPT ![g].pc = "mail"] /\ UNCHANGED dropped
          /\ blind' = IF ~answered /\ note[g].status = "firing"
                      THEN blind \cup {note[g].id} ELSE blind
    BY <2>2 DEF NotifyStrategyAlarm
  <2>8. ~Silenced(g, answered)
    <3>1. CASE Silenced(g, answered)
      <4>1. note' = [note EXCEPT ![g] = Free]
        BY <2>7, <3>1 DEF GiveUp
      <4>2. note'[g] = Free
        BY <4>1 DEF IInv, TypeOK
      <4> QED BY <1>3, <2>1, <4>2
    <3> QED BY <3>1
  <2>9. alarm[a].status # "ok" \/ a \in blind'
    <3>1. CASE answered
      BY <2>1, <2>8, <3>1 DEF Silenced, F!Exists
    <3>2. CASE ~answered
      BY <2>1, <2>7, <3>2
    <3> QED BY <3>1, <3>2
  <2> QED BY <2>6, <2>9
<1>12. LateEnough'
  <2>1. ASSUME NEW h \in Slot, note'[h].pc = "delay", note'[h].status = "firing"
        PROVE  note'[h].wake >= start'[note'[h].id] + NotifyDelay
    <3>1. h # g
      BY <1>2, <1>3, <2>1
    <3> QED BY <1>1, <1>2, <2>1, <3>1 DEF IInv, LateEnough
  <2>2. ASSUME NEW a \in AlarmId, Passed(a)'
        PROVE  /\ now' >= start'[a] + NotifyDelay
               /\ alarm'[a].status = "ok" => okAt'[a] >= start'[a] + NotifyDelay \/ a \in blind'
    <3>1. CASE Passed(a)
      BY <1>1, <3>1 DEF IInv, LateEnough
    <3>2. CASE ~Passed(a)
      BY <1>1, <1>11, <2>2, <3>2
    <3> QED BY <3>1, <3>2
  <2> QED BY <2>1, <2>2 DEF LateEnough
<1>13. \/ note'[g].id = note[g].id /\ note'[g].status = note[g].status
       \/ "firing" = note[g].status => note[g].id \in dropped' \/ "firing" \in told'[note[g].id]
  <2>1. note \in [Slot -> Note] /\ told \in [AlarmId -> SUBSET Status]
    BY DEF IInv, TypeOK
  <2>2. CASE GiveUp(g)
    BY <2>2 DEF GiveUp
  <2>3. CASE Deliver(g)
    BY <1>5, <2>1, <2>3 DEF Deliver
  <2>4. CASE \/ note' = [note EXCEPT ![g].pc = "mail"]
             \/ note' = [note EXCEPT ![g].pc = "event"]
             \/ note' = [note EXCEPT ![g].tries = @ + 1]
    BY <2>1, <2>4 DEF Note
  <2> QED BY <2>2, <2>3, <2>4
      DEF NotifyStrategyAlarm, queryNotifyFails, notifyMailAction, notifyEventAction
<1>14. EveryAlarmAccountedFor'
  <2> SUFFICES ASSUME NEW a \in AlarmId, alarm[a].status # "unused"
               PROVE  \/ "firing" \in told'[a]
                      \/ a \in dropped'
                      \/ \E v \in Worker : [id |-> a, status |-> "firing"] \in job[v].done
                      \/ \E h \in Slot : note'[h].id = a /\ note'[h].status = "firing"
    BY <1>1 DEF EveryAlarmAccountedFor
  <2>1. told[a] \subseteq told'[a] /\ dropped \subseteq dropped'
    BY <1>4 DEF NotifyStrategyAlarm, queryNotifyFails, notifyMailAction, notifyEventAction, GiveUp,
                Deliver, IInv, TypeOK
  <2>2. CASE \E h \in Slot : note[h].id = a /\ note[h].status = "firing"
    BY <1>2, <1>13, <2>2
  <2> QED BY <2>1, <2>2 DEF IInv, EveryAlarmAccountedFor
<1> QED BY <1>7, <1>9, <1>10, <1>12, <1>14 DEF IInv

(* A restart: what was to be said is given up. *)
LEMMA RestartIInv ==
  ASSUME IInv, P!IInv', TypeOK', restart
  PROVE  IInv'
<1>1. /\ UNCHANGED <<alarm, nextId, now, start, okAt, told, unsaved, blind>>
      /\ job' = [w \in Worker |-> F!Idle] /\ note' = [g \in Slot |-> Free]
      /\ dropped' = dropped \cup {a \in AlarmId :
                      \/ \E g \in Slot : note[g].id = a /\ note[g].status = "firing"
                      \/ \E w \in Worker : [id |-> a, status |-> "firing"] \in job[w].done}
  BY DEF restart, F!restart
<1>2. /\ \A w \in Worker : job'[w].done = {} /\ job'[w].ops = {} /\ job'[w].seen = {}
      /\ \A g \in Slot : note'[g] = Free
      /\ Free.pc = "free"
  BY <1>1 DEF F!Idle, Free
<1>3. FreeIsFree' /\ DoneByUpdaters'
  BY <1>2 DEF FreeIsFree, DoneByUpdaters
<1>4. \A a, s : Said(a, s)' => Said(a, s)
  BY <1>1, <1>2 DEF Said
<1>5. \A a : Passed(a)' => Passed(a)
  BY <1>1, <1>2 DEF Passed
<1>6. KnownIds'
  BY <1>1, <1>2, <1>4 DEF IInv, KnownIds
<1>7. TrueWords' /\ Clocks'
  BY <1>1, <1>4 DEF IInv, TrueWords, Clocks, F!IsFiring
<1>8. LateEnough'
  BY <1>1, <1>2, <1>5 DEF IInv, LateEnough
<1>9. EveryAlarmAccountedFor'
  BY <1>1 DEF IInv, EveryAlarmAccountedFor
<1> QED BY <1>3, <1>6, <1>7, <1>8, <1>9 DEF IInv

LEMMA TickIInv ==
  ASSUME IInv, P!IInv', TypeOK', Tick
  PROVE  IInv'
<1>1. /\ UNCHANGED <<job, alarm, nextId, start, note, okAt, told, dropped, unsaved, blind>>
      /\ now' = now + 1
  BY DEF Tick, firingVars
<1>2. /\ \A a, s : Said(a, s)' <=> Said(a, s)
      /\ \A a : Passed(a)' <=> Passed(a)
  BY <1>1 DEF Said, Passed
<1>3. /\ now \in Nat
      /\ \A a \in AlarmId : start[a] \in Nat /\ okAt[a] \in Nat
  BY DEF IInv, TypeOK
<1>4. FreeIsFree' /\ DoneByUpdaters' /\ KnownIds' /\ TrueWords' /\ EveryAlarmAccountedFor'
  BY <1>1, <1>2
  DEF IInv, FreeIsFree, DoneByUpdaters, KnownIds, TrueWords, EveryAlarmAccountedFor, F!IsFiring
<1>5. Clocks'
  BY <1>1, <1>3 DEF IInv, Clocks
<1>6. LateEnough'
  <2>1. \A g \in Slot : note'[g].pc = "delay" /\ note'[g].status = "firing" =>
          note'[g].wake >= start'[note'[g].id] + NotifyDelay
    BY <1>1 DEF IInv, LateEnough
  <2>2. ASSUME NEW a \in AlarmId, Passed(a)'
        PROVE  /\ now' >= start'[a] + NotifyDelay
               /\ alarm'[a].status = "ok" => okAt'[a] >= start'[a] + NotifyDelay \/ a \in blind'
    <3>1. /\ now >= start[a] + NotifyDelay
          /\ alarm[a].status = "ok" => okAt[a] >= start[a] + NotifyDelay \/ a \in blind
      BY <1>2, <2>2 DEF IInv, LateEnough
    <3> QED BY <1>1, <1>3, <3>1, AlarmNotifyAssumption
  <2> QED BY <2>1, <2>2 DEF LateEnough
<1> QED BY <1>4, <1>5, <1>6 DEF IInv

LEMMA NextIInv == IInv /\ [Next]_vars => IInv'
<1> SUFFICES ASSUME IInv, [Next]_vars PROVE IInv'
  OBVIOUS
<1>1. P!IInv'
  BY FiringIInv DEF IInv
<1>2. TypeOK'
  BY <1>1, FiringTypeNext, TypeNext DEF IInv
<1>3. ASSUME NEW w \in Worker,
             \/ startWork(w)
             \/ doInsertOrUpdateAlarm(w)
             \/ commitLost(w)
             \/ otherWork(w)
             \/ finishUpdate(w)
      PROVE  IInv'
  BY <1>1, <1>2, <1>3, QuietStepIInv, WriteIInv, LostIInv, FinishIInv
<1>4. ASSUME NEW g \in Slot,
             \/ NotifyStrategyAlarm(g)
             \/ queryNotifyFails(g)
             \/ notifyMailAction(g)
             \/ notifyEventAction(g)
      PROVE  IInv'
  BY <1>1, <1>2, <1>4, NoteIInv
<1>5. CASE restart
  BY <1>1, <1>2, <1>5, RestartIInv
<1>6. CASE background
  BY <1>1, <1>2, <1>6, QuietStepIInv
<1>7. CASE Tick
  BY <1>1, <1>2, <1>7, TickIInv
<1>8. CASE UNCHANGED vars
  <2>1. UNCHANGED <<job, alarm, nextId, now, start, note, okAt, told, dropped, unsaved, blind>>
    BY <1>8 DEF vars
  <2> QED BY <1>1, <1>2, <2>1, LocalEndsOnly, StayKeepsDone, QuietIInv
<1> QED BY <1>3, <1>4, <1>5, <1>6, <1>7, <1>8 DEF Next

LEMMA SpecIInv == Spec => []IInv
<1> QED BY InitIInv, NextIInv, PTL DEF Spec

-----------------------------------------------------------------------------
(* The theorems *)

(* The tables, the clocks, the goroutines and the histories keep their     *)
(* types: no message is tried more often than MaxTries, none has an id     *)
(* that the table cannot hold.                                             *)
THEOREM TypeCorrect == Spec => []TypeOK
<1>1. IInv => TypeOK
  BY DEF IInv
<1> QED BY <1>1, SpecIInv, PTL

(* However the goroutines of an alarm and the writers of its row overlap,  *)
(* nobody is told of a recovery while the alarm is open, or of an alarm    *)
(* that never was, unless a COMMIT was lost.                               *)
THEOREM MessagesCorrect == Spec => []MessagesAreTrue
<1>1. IInv => MessagesAreTrue
  BY DEF IInv, TrueWords, MessagesAreTrue, Said
<1> QED BY <1>1, SpecIInv, PTL

(* For every delay: an alarm that recovers within it is announced only if  *)
(* the look at its row failed.                                             *)
THEOREM QuickRecoveryCorrect == Spec => []QuickRecoveryNotAnnounced
<1>1. IInv => QuickRecoveryNotAnnounced
  <2> SUFFICES ASSUME IInv, NEW a \in AlarmId, okAt[a] - start[a] < NotifyDelay,
                      alarm[a].status = "ok", "firing" \in told[a], a \notin blind
               PROVE  FALSE
    BY DEF QuickRecoveryNotAnnounced
  <2>1. okAt[a] >= start[a] + NotifyDelay
    BY DEF IInv, LateEnough, Passed
  <2>2. okAt[a] \in Nat /\ start[a] \in Nat
    BY DEF IInv, TypeOK
  <2> QED BY <2>1, <2>2, AlarmNotifyAssumption
<1> QED BY <1>1, SpecIInv, PTL

(* No interleaving of handlers, delays, retries and restarts forgets an    *)
(* alarm: it is announced, about to be, or its message was given up.       *)
THEOREM AccountCorrect == Spec => []EveryAlarmAccountedFor
<1>1. IInv => EveryAlarmAccountedFor
  BY DEF IInv
<1> QED BY <1>1, SpecIInv, PTL
=============================================================================
