----------------------- MODULE AlarmCondition_proofs -----------------------
(***************************************************************************)
(* Proofs of what AlarmCondition promises, however handlers overlap and    *)
(* when they take turns, for any number of conditions, label sets,         *)
(* handlers, rows and alarms.                                              *)
(***************************************************************************)
EXTENDS AlarmCondition, FiniteSetTheorems, TLAPS

UsedRows == {r \in RowId : row[r].status # "unused"}
UsedAlarms == {a \in AlarmId : comp[a].status # "unused"}

(* What a handler has read or was told to write is in the tables, and an   *)
(* alarm that it will let recover has the condition that recovers.         *)
Knows(j) ==
  /\ j.seen \subseteq UsedRows
  /\ j.alarms \subseteq UsedAlarms
  /\ \A op \in j.ops : op.row # NoRow => op.row \in UsedRows
  /\ j.pc \in {"rel", "write"} => j.cur \in Op /\ (j.cur.row # NoRow => j.cur.row \in UsedRows)
  /\ j.pc = "rel" => j.cur.row # NoRow
  /\ j.pc = "write" /\ j.cur.row # NoRow => \A a \in j.alarms : j.cur.row \in comp[a].rel

(* The ids to come are free, and an alarm's conditions are in the table.   *)
HandedOut ==
  /\ \A r \in UsedRows : r < nextRow
  /\ \A a \in UsedAlarms : a < nextAlarm /\ comp[a].rel \subseteq UsedRows

IInv ==
  /\ TypeOK
  /\ HandedOut
  /\ \A w \in Worker : Knows(job[w])
  /\ abandoned \subseteq UsedAlarms
  /\ RaisedForAllConditions
  /\ EndedWithItsConditions

(* The tables only grow, and what an alarm stands for is never changed.    *)
Keeps ==
  /\ UsedRows \subseteq UsedRows'
  /\ UsedAlarms \subseteq UsedAlarms'
  /\ \A a \in UsedAlarms : comp'[a].rel = comp[a].rel

(* The rest is about handlers that take turns.                             *)

(* What the handler at work has read is what the tables say; its list has  *)
(* each occurrence once, and an occurrence to add is not open.             *)
TurnKnows(j) ==
  /\ \A m, n \in j.todo : m.of = n.of => m = n
  /\ \A m \in j.todo, op \in j.ops : m.of # op.of
  /\ \A op, o \in j.ops : op.of = o.of => op = o
  /\ \A op \in j.ops : op.row = NoRow => \A r \in FiringRows : row[r].of # op.of
  /\ j.pc \in {"rel", "write"} => \A op \in j.ops : op.of # j.cur.of
  /\ j.pc = "write" /\ j.cur.row = NoRow =>
       /\ j.seen = FiringRows
       /\ \A r \in FiringRows : row[r].of.crc # j.cur.of.crc
  /\ j.pc = "write" /\ j.cur.row # NoRow =>
       \A a \in FiringAlarms : j.cur.row \in comp[a].rel => a \in j.alarms

OneJob ==
  /\ \A v, w \in Worker : job[v].pc # "idle" /\ job[w].pc # "idle" => v = w
  /\ \A w \in Worker : job[w].pc = "idle" => job[w] = Idle

OneRow == \A r, q \in FiringRows : row[r].of.crc = row[q].of.crc => r = q

(* Of the rows of an occurrence only the last one may be open. *)
LastFires == \A r, q \in UsedRows : row[r].of = row[q].of /\ r < q => row[r].status # "firing"

OpenAlarms ==
  \A a \in FiringAlarms :
    /\ \A r \in comp[a].rel : row[r].status # "ok"
    /\ \A b \in FiringAlarms : a < b => \E r \in comp[a].rel : row[r].status = "closed"

(* If all the conditions are open, so is an alarm of exactly their rows,   *)
(* or it was until its endpoint was deleted.                               *)
Raised == AllFiring => \E a \in FiringAlarms \cup abandoned : comp[a].rel = FiringRows

InTurn ==
  OneJob /\ (\A w \in Worker : TurnKnows(job[w])) /\ OneRow /\ LastFires /\ OpenAlarms /\ Raised

TInv == IInv /\ (~overlapped => InTurn)

-----------------------------------------------------------------------------
(* Types *)

(* A row in use is an occurrence of a condition. *)
LEMMA UsedIsRow ==
  ASSUME TypeOK
  PROVE  /\ \A r \in UsedRows : row[r] \in Row
         /\ \A r \in RowId : row[r] \in Row => r \in UsedRows
         /\ \A r \in UsedRows : row[r].of.crc \in Crc /\ row[r].of \in Cond
<1>1. \A x \in Row : x.status \in {"firing", "ok", "closed"} /\ x.of \in Cond
  BY DEF Row
<1>2. Unused.status = "unused"
  BY DEF Unused
<1>3. \A c \in Cond : c.crc \in Crc
  BY DEF Cond
<1>4. ASSUME NEW r \in UsedRows PROVE row[r] \in Row
  BY <1>2 DEF UsedRows, TypeOK
<1> QED
  BY <1>1, <1>3, <1>4 DEF UsedRows

(* An alarm in use has a set of rows and a status. *)
LEMMA UsedIsComposite ==
  ASSUME TypeOK
  PROVE  /\ \A a \in UsedAlarms : comp[a] \in Composite
         /\ \A a \in AlarmId : comp[a] \in Composite => a \in UsedAlarms
         /\ \A a \in UsedAlarms : comp[a].rel \subseteq RowId
<1>1. \A x \in Composite : x.status \in {"firing", "ok", "closed", "deleted"} /\ x.rel \in SUBSET RowId
  BY DEF Composite
<1>2. Unused.status = "unused"
  BY DEF Unused
<1>3. ASSUME NEW a \in UsedAlarms PROVE comp[a] \in Composite
  BY <1>2 DEF UsedAlarms, TypeOK
<1> QED
  BY <1>1, <1>3 DEF UsedAlarms

LEMMA JobFields ==
  ASSUME NEW j \in Job
  PROVE  /\ j.todo \subseteq Alert /\ j.ops \subseteq Op /\ j.cur \in Op \cup {NoOp}
         /\ j.seen \subseteq RowId /\ j.alarms \subseteq AlarmId
BY DEF Job

LEMMA IdleFields ==
  /\ Idle \in Job /\ Idle.pc = "idle" /\ Idle.todo = {} /\ Idle.ops = {} /\ Idle.cur = NoOp
  /\ Idle.seen = {} /\ Idle.alarms = {}
BY DEF Idle, Job

(* A handler at rest knows nothing that could be wrong. *)
LEMMA IdleKnows == Knows(Idle)
BY IdleFields DEF Knows

LEMMA IdleTurn == TurnKnows(Idle)'
BY IdleFields DEF TurnKnows

-----------------------------------------------------------------------------
(* What a handler knows stays right. *)

LEMMA KnowsKeeps ==
  ASSUME NEW j, Knows(j), Keeps
  PROVE  Knows(j)'
<1>1. /\ j.seen \subseteq UsedRows' /\ j.alarms \subseteq UsedAlarms'
      /\ \A op \in j.ops : op.row # NoRow => op.row \in UsedRows'
  BY DEF Knows, Keeps
<1>2. j.pc \in {"rel", "write"} => j.cur \in Op /\ (j.cur.row # NoRow => j.cur.row \in UsedRows')
  BY DEF Knows, Keeps
<1>3. /\ j.pc = "rel" => j.cur.row # NoRow
      /\ j.pc = "write" /\ j.cur.row # NoRow => \A a \in j.alarms : j.cur.row \in comp'[a].rel
  BY DEF Knows, Keeps
<1> QED
  BY <1>1, <1>2, <1>3 DEF Knows

(* When one handler takes a step that leaves it with knowledge that is     *)
(* right, all handlers' knowledge is.                                      *)
LEMMA JobStep ==
  ASSUME IInv, Keeps, NEW w \in Worker, NEW j \in Job, Knows(j),
         job' = [job EXCEPT ![w] = j]
  PROVE  job' \in [Worker -> Job] /\ \A v \in Worker : Knows(job[v])'
<1>1. job \in [Worker -> Job]
  BY DEF IInv, TypeOK
<1>2. job' \in [Worker -> Job]
  BY <1>1
<1>3. ASSUME NEW v \in Worker PROVE Knows(job[v])'
  <2>1. PICK k : k = job'[v]
    OBVIOUS
  <2>2. k = job[v] \/ k = j
    BY <1>1, <2>1
  <2>3. Knows(k)
    BY <2>2 DEF IInv
  <2>4. Knows(k)'
    BY <2>3, KnowsKeeps
  <2> QED
    BY <2>1, <2>4
<1> QED
  BY <1>2, <1>3

(* If the others rest, it is the only one at work after the step, too.     *)
LEMMA TurnJobs ==
  ASSUME IInv, OneJob, NEW w \in Worker, NEW j \in Job,
         job' = [job EXCEPT ![w] = j],
         \A v \in Worker \ {w} : job[v].pc = "idle",
         j.pc = "idle" => j = Idle,
         TurnKnows(j)'
  PROVE  OneJob' /\ \A v \in Worker : TurnKnows(job[v])'
<1>1. job'[w] = j /\ \A v \in Worker \ {w} : job'[v] = Idle
  BY DEF IInv, TypeOK, OneJob
<1>2. OneJob'
  BY <1>1, IdleFields DEF OneJob
<1>3. ASSUME NEW v \in Worker PROVE TurnKnows(job[v])'
  <2>1. PICK i : i = job'[v]
    OBVIOUS
  <2>2. i = j \/ i = Idle
    BY <1>1, <2>1
  <2>3. TurnKnows(i)'
    BY <2>2, IdleTurn
  <2> QED
    BY <2>1, <2>3
<1> QED
  BY <1>2, <1>3

(* A step that writes no table. *)
LEMMA NoTable ==
  ASSUME IInv, UNCHANGED_tables, NEW w \in Worker, NEW j \in Job, Knows(j),
         job' = [job EXCEPT ![w] = j], overlapped' \in BOOLEAN
  PROVE  /\ IInv'
         /\ /\ InTurn /\ TurnKnows(j)
            /\ \A v \in Worker \ {w} : job[v].pc = "idle"
            /\ j.pc = "idle" => j = Idle
            => InTurn'
<1>1. UsedRows' = UsedRows /\ UsedAlarms' = UsedAlarms /\ comp' = comp /\ row' = row
      /\ nextRow' = nextRow /\ nextAlarm' = nextAlarm /\ abandoned' = abandoned
  BY DEF UNCHANGED_tables, UsedRows, UsedAlarms
<1>2. Keeps
  BY <1>1 DEF Keeps
<1>3. job' \in [Worker -> Job] /\ \A v \in Worker : Knows(job[v])'
  BY <1>2, JobStep
<1>4. TypeOK'
  BY <1>1, <1>3 DEF IInv, TypeOK
<1>5. HandedOut' /\ RaisedForAllConditions' /\ EndedWithItsConditions'
  BY <1>1 DEF IInv, HandedOut, RaisedForAllConditions, EndedWithItsConditions
<1>6. ASSUME InTurn, TurnKnows(j), \A v \in Worker \ {w} : job[v].pc = "idle",
             j.pc = "idle" => j = Idle
      PROVE  InTurn'
  <2>1. FiringRows' = FiringRows /\ FiringAlarms' = FiringAlarms
    BY <1>1 DEF FiringRows, FiringAlarms
  <2>2. TurnKnows(j)'
    BY <1>1, <1>6, <2>1 DEF TurnKnows
  <2>3. OneJob' /\ \A v \in Worker : TurnKnows(job[v])'
    BY <1>6, <2>2, TurnJobs DEF InTurn
  <2>4. OneRow' /\ LastFires' /\ OpenAlarms'
    BY <1>1, <1>6, <2>1 DEF InTurn, OneRow, LastFires, OpenAlarms
  <2>5. Raised'
    BY <1>1, <1>6, <2>1 DEF InTurn, Raised, AllFiring
  <2> QED
    BY <2>3, <2>4, <2>5 DEF InTurn
<1> QED
  BY <1>1, <1>3, <1>4, <1>5, <1>6 DEF IInv

(* A step that changes the status of some rows and alarms. *)
LEMMA OnlyStatus ==
  ASSUME IInv,
         row' \in [RowId -> Row \cup {Unused}], comp' \in [AlarmId -> Composite \cup {Unused}],
         UNCHANGED <<nextRow, nextAlarm, overlapped>>,
         UsedRows' = UsedRows, UsedAlarms' = UsedAlarms,
         \A r \in UsedRows : row'[r].of = row[r].of,
         \A a \in UsedAlarms : comp'[a].rel = comp[a].rel,
         job' \in [Worker -> Job], abandoned' \subseteq UsedAlarms
  PROVE  /\ Keeps /\ TypeOK' /\ HandedOut' /\ RaisedForAllConditions'
         /\ abandoned' \subseteq UsedAlarms'
<1>1. Keeps
  BY DEF Keeps
<1>2. TypeOK'
  BY DEF IInv, TypeOK, UsedAlarms
<1>3. HandedOut'
  BY DEF IInv, HandedOut
<1>4. RaisedForAllConditions'
  <2>1. ASSUME NEW a \in AlarmId, comp'[a].status # "unused"
        PROVE  {row'[r].of.crc : r \in comp'[a].rel} = Crc
    <3>1. a \in UsedAlarms
      BY <2>1 DEF UsedAlarms
    <3>2. comp'[a].rel = comp[a].rel /\ comp[a].rel \subseteq UsedRows
      BY <3>1 DEF IInv, HandedOut
    <3>3. {row[r].of.crc : r \in comp[a].rel} = Crc
      BY <3>1 DEF IInv, RaisedForAllConditions, UsedAlarms
    <3>4. \A r \in comp[a].rel : row'[r].of.crc = row[r].of.crc
      BY <3>2
    <3>5. {row'[r].of.crc : r \in comp[a].rel} = {row[r].of.crc : r \in comp[a].rel}
      BY <3>4
    <3> QED
      BY <3>2, <3>3, <3>5
  <2> QED
    BY <2>1 DEF RaisedForAllConditions
<1> QED
  BY <1>1, <1>2, <1>3, <1>4

-----------------------------------------------------------------------------
(* Every action keeps the invariant. *)

LEMMA InitTInv == Init => TInv
<1> SUFFICES ASSUME Init PROVE TInv
  OBVIOUS
<1>1. Unused.status = "unused"
  BY DEF Unused
<1>2. TypeOK
  <2>1. job \in [Worker -> Job] /\ row \in [RowId -> Row \cup {Unused}]
        /\ comp \in [AlarmId -> Composite \cup {Unused}]
    BY IdleFields DEF Init
  <2>2. nextRow \in 1 .. (MaxRows + 1) /\ nextAlarm \in 1 .. (MaxAlarms + 1)
    BY AlarmConditionAssumption DEF Init
  <2>3. overlapped \in BOOLEAN /\ abandoned \in SUBSET AlarmId
    BY Zenon DEF Init
  <2> QED
    BY <2>1, <2>2, <2>3 DEF TypeOK
<1>3. UsedRows = {} /\ UsedAlarms = {}
  BY <1>1 DEF Init, UsedRows, UsedAlarms
<1>4. \A w \in Worker : Knows(job[w])
  BY IdleKnows DEF Init
<1>5. RaisedForAllConditions /\ EndedWithItsConditions
  BY <1>1 DEF Init, RaisedForAllConditions, EndedWithItsConditions
<1>6. IInv
  BY <1>2, <1>3, <1>4, <1>5 DEF IInv, HandedOut, Init
<1>7. InTurn
  <2>1. FiringRows = {} /\ FiringAlarms = {}
    BY <1>1 DEF Init, FiringRows, FiringAlarms
  <2>2. OneJob /\ \A w \in Worker : TurnKnows(job[w])
    BY IdleFields DEF Init, OneJob, TurnKnows
  <2>3. OneRow /\ LastFires /\ OpenAlarms
    BY <1>3, <2>1 DEF OneRow, LastFires, OpenAlarms
  <2>4. Raised
    BY <2>1, AlarmConditionAssumption DEF Raised, AllFiring
  <2> QED
    BY <2>2, <2>3, <2>4 DEF InTurn
<1> QED
  BY <1>6, <1>7 DEF TInv

LEMMA OthersRest ==
  ASSUME InTurn, NEW w \in Worker, job[w].pc # "idle"
  PROVE  \A v \in Worker \ {w} : job[v].pc = "idle"
BY DEF InTurn, OneJob

(* A handler begins with rows and alarms that it has just read. *)
LEMMA BeginTInv ==
  ASSUME TInv, UNCHANGED_tables, NEW w \in Worker, NEW j \in Job, Knows(j),
         TurnKnows(j), j.pc # "idle", Begin(w, j)
  PROVE  TInv'
<1>1. overlapped' \in BOOLEAN /\ job' = [job EXCEPT ![w] = j]
  BY Zenon DEF Begin
<1>2. ASSUME ~overlapped' PROVE InTurn /\ \A v \in Worker \ {w} : job[v].pc = "idle"
  BY <1>2, Zenon DEF Begin, TInv
<1> QED
  BY <1>1, <1>2, NoTable DEF TInv

LEMMA AcceptTInv ==
  ASSUME TInv, NEW w \in Worker, AcceptAlert(w)
  PROVE  TInv'
<1>1. PICK c \in Crc, T \in SUBSET Tags : \E kind \in [T -> {"firing", "resolved"}] :
        Begin(w, [Idle EXCEPT
                    !.pc = "list",
                    !.todo = {[of |-> [crc |-> c, tags |-> t], kind |-> kind[t]] : t \in T}])
  BY Zenon DEF AcceptAlert
<1>2. PICK kind \in [T -> {"firing", "resolved"}] :
        Begin(w, [Idle EXCEPT
                    !.pc = "list",
                    !.todo = {[of |-> [crc |-> c, tags |-> t], kind |-> kind[t]] : t \in T}])
  BY <1>1
<1> DEFINE todo == {[of |-> [crc |-> c, tags |-> t], kind |-> kind[t]] : t \in T}
<1>3. todo \subseteq Alert
  <2>1. \A t \in T : [of |-> [crc |-> c, tags |-> t], kind |-> kind[t]] \in Alert
    BY DEF Alert, Cond
  <2> QED
    BY <2>1
<1>4. PICK D \in SUBSET Alert : D = todo
  BY <1>3
<1> HIDE DEF todo
<1>5. \A m, n \in D : m.of = n.of => m = n
  <2>1. ASSUME NEW t \in T, NEW u \in T,
               [crc |-> c, tags |-> t] = [crc |-> c, tags |-> u]
        PROVE  t = u
    <3>1. [crc |-> c, tags |-> t].tags = [crc |-> c, tags |-> u].tags
      BY <2>1
    <3> QED
      BY <3>1
  <2> QED
    BY <1>4, <2>1 DEF todo
<1>6. PICK j \in Job : j = [Idle EXCEPT !.pc = "list", !.todo = D]
  BY DEF Idle, Job
<1>7. j.pc = "list" /\ j.seen = {} /\ j.alarms = {} /\ j.ops = {} /\ j.todo = D
  BY <1>6, SMT DEF Idle
<1>8. Knows(j)
  BY <1>7 DEF Knows
<1>9. TurnKnows(j)
  BY <1>5, <1>7 DEF TurnKnows
<1>10. Begin(w, j) /\ UNCHANGED_tables
  BY <1>2, <1>4, <1>6 DEF AcceptAlert, todo
<1> QED
  BY <1>7, <1>8, <1>9, <1>10, BeginTInv

LEMMA BuildTInv ==
  ASSUME TInv, NEW w \in Worker, buildNewAlarm(w)
  PROVE  TInv'
<1> USE DEF TInv
<1>1. PICK k \in Job : k = job[w]
  BY DEF IInv, TypeOK
<1>2. Knows(k) /\ UNCHANGED_tables /\ overlapped' \in BOOLEAN
  BY <1>1 DEF IInv, TypeOK, buildNewAlarm
<1>3. PICK m \in k.todo : \E r \in GetExistAlarmCondition(m.of) :
        \/ job' = [job EXCEPT ![w].todo = @ \ {m}]
        \/ job' = [job EXCEPT
                     ![w].todo = @ \ {m},
                     ![w].ops = @ \cup {[of |-> m.of,
                                         row |-> IF r # NoRow /\ row[r].status = "firing" THEN r ELSE NoRow]}]
  BY <1>1, Zenon DEF buildNewAlarm
<1>4. PICK r \in GetExistAlarmCondition(m.of) :
        \/ job' = [job EXCEPT ![w].todo = @ \ {m}]
        \/ job' = [job EXCEPT
                     ![w].todo = @ \ {m},
                     ![w].ops = @ \cup {[of |-> m.of,
                                         row |-> IF r # NoRow /\ row[r].status = "firing" THEN r ELSE NoRow]}]
  BY <1>3
<1>5. k.pc = "list"
  BY <1>1 DEF buildNewAlarm
<1>6. CASE job' = [job EXCEPT ![w].todo = @ \ {m}]
  <2>1. PICK j \in Job : j = [k EXCEPT !.todo = @ \ {m}]
    BY DEF Job
  <2>2. j.pc = k.pc /\ j.seen = k.seen /\ j.alarms = k.alarms /\ j.ops = k.ops
    BY <2>1 DEF Job
  <2>3. Knows(j)
    BY <1>2, <1>5, <2>2 DEF Knows
  <2>4. job' = [job EXCEPT ![w] = j]
    BY <1>1, <1>6, <2>1 DEF IInv, TypeOK
  <2>5. j.todo = k.todo \ {m}
    BY <2>1 DEF Job
  <2>6. InTurn => TurnKnows(j) /\ \A v \in Worker \ {w} : job[v].pc = "idle"
    BY <1>1, <1>5, <2>2, <2>5, OthersRest DEF InTurn, TurnKnows
  <2> QED
    BY <1>2, <1>5, <2>2, <2>3, <2>4, <2>6, NoTable DEF buildNewAlarm
<1>7. ASSUME NEW q, q = (IF r # NoRow /\ row[r].status = "firing" THEN r ELSE NoRow),
             job' = [job EXCEPT ![w].todo = @ \ {m},
                                ![w].ops = @ \cup {[of |-> m.of, row |-> q]}]
      PROVE  TInv'
  <2>1. q = NoRow \/ q \in UsedRows
    BY <1>7 DEF GetExistAlarmCondition, RowsOf, UsedRows
  <2>2. m.of \in Cond
    BY JobFields DEF Alert
  <2>3. [of |-> m.of, row |-> q] \in Op
    BY <2>1, <2>2 DEF Op, UsedRows
  <2>4. PICK op \in Op : op = [of |-> m.of, row |-> q]
    BY <2>3
  <2>5. op.row = q
    BY <2>4
  <2>6. PICK j \in Job : j = [k EXCEPT !.todo = @ \ {m}, !.ops = @ \cup {op}]
    BY DEF Job
  <2>7. j.pc = k.pc /\ j.seen = k.seen /\ j.alarms = k.alarms /\ j.ops = k.ops \cup {op}
    BY <2>6 DEF Job
  <2>8. Knows(j)
    BY <1>2, <1>5, <2>1, <2>5, <2>7 DEF Knows
  <2>9. job' = [job EXCEPT ![w] = j]
    BY <1>1, <1>7, <2>4, <2>6 DEF IInv, TypeOK
  <2>10. j.todo = k.todo \ {m} /\ op.of = m.of
    BY <2>4, <2>6 DEF Job
  <2>11. ASSUME InTurn PROVE TurnKnows(j) /\ \A v \in Worker \ {w} : job[v].pc = "idle"
    <3>1. TurnKnows(k) /\ \A v \in Worker \ {w} : job[v].pc = "idle"
      BY <1>1, <1>5, <2>11, OthersRest DEF InTurn
    <3>2. ASSUME NEW x \in FiringRows, q = NoRow PROVE row[x].of # m.of
      <4>1. SUFFICES ASSUME row[x].of = m.of PROVE FALSE
        OBVIOUS
      <4>2. x \in RowsOf(m.of) /\ x \in UsedRows /\ row[x].status = "firing"
        BY <4>1 DEF FiringRows, RowsOf, UsedRows
      <4>3. r \in RowsOf(m.of) /\ x <= r
        BY <4>2 DEF GetExistAlarmCondition
      <4>4. r \in UsedRows /\ row[r].of = m.of /\ r \in Nat /\ x \in Nat /\ r # NoRow
        BY <4>2, <4>3, AlarmConditionAssumption, SMT DEF RowsOf, UsedRows, RowId, NoRow
      <4>5. x = r
        BY <2>11, <4>1, <4>2, <4>3, <4>4 DEF InTurn, LastFires
      <4> QED
        BY <1>7, <3>2, <4>2, <4>4, <4>5
    <3>3. j.pc = "list"
      BY <1>5, <2>7
    <3>4. \A n, i \in j.todo : n.of = i.of => n = i
      BY <2>10, <3>1 DEF TurnKnows
    <3>5. \A n \in j.todo, o \in j.ops : n.of # o.of
      BY <2>7, <2>10, <3>1 DEF TurnKnows
    <3>6. \A o, p \in j.ops : o.of = p.of => o = p
      BY <2>7, <2>10, <3>1 DEF TurnKnows
    <3>7. \A o \in j.ops : o.row = NoRow => \A x \in FiringRows : row[x].of # o.of
      BY <2>5, <2>7, <2>10, <3>1, <3>2 DEF TurnKnows
    <3> QED
      BY <3>1, <3>3, <3>4, <3>5, <3>6, <3>7 DEF TurnKnows
  <2> QED
    BY <1>2, <1>5, <2>7, <2>8, <2>9, <2>11, NoTable DEF buildNewAlarm
<1> QED
  BY <1>4, <1>6, <1>7

LEMMA ReadRowsTInv ==
  ASSUME TInv, NEW w \in Worker, readFiringRows(w)
  PROVE  TInv'
<1> USE DEF TInv
<1>1. PICK k \in Job : k = job[w]
  BY DEF IInv, TypeOK
<1>2. Knows(k) /\ UNCHANGED_tables /\ overlapped' \in BOOLEAN
  BY <1>1 DEF IInv, TypeOK, readFiringRows
<1>3. PICK op \in k.ops : job' = [job EXCEPT
        ![w].ops = @ \ {op},
        ![w].pc = IF Blocked(op) THEN "list" ELSE IF op.row = NoRow THEN "write" ELSE "rel",
        ![w].cur = IF Blocked(op) THEN NoOp ELSE op,
        ![w].seen = IF Blocked(op) \/ op.row # NoRow THEN {} ELSE FiringRows]
  BY <1>1 DEF readFiringRows
<1>4. op \in Op /\ (op.row # NoRow => op.row \in UsedRows)
  BY <1>2, JobFields DEF Knows
<1>5. PICK pc, cur, seen :
        /\ pc = IF Blocked(op) THEN "list" ELSE IF op.row = NoRow THEN "write" ELSE "rel"
        /\ cur = IF Blocked(op) THEN NoOp ELSE op
        /\ seen = IF Blocked(op) \/ op.row # NoRow THEN {} ELSE FiringRows
  OBVIOUS
<1>6. /\ pc \in {"list", "write", "rel"} /\ cur \in Op \cup {NoOp}
      /\ seen \subseteq UsedRows /\ seen \in SUBSET RowId
      /\ pc # "list" => cur = op
      /\ pc = "write" => op.row = NoRow
      /\ pc = "rel" => op.row # NoRow
  <2>1. FiringRows \subseteq UsedRows /\ UsedRows \subseteq RowId
    BY DEF FiringRows, UsedRows
  <2> QED
    BY <1>4, <1>5, <2>1
<1>7. PICK j \in Job : j = [k EXCEPT !.ops = @ \ {op}, !.pc = pc, !.cur = cur, !.seen = seen]
  BY <1>6 DEF Job
<1>8. j.pc = pc /\ j.cur = cur /\ j.seen = seen /\ j.alarms = k.alarms /\ j.ops = k.ops \ {op}
  BY <1>7 DEF Job
<1>9. Knows(j)
  BY <1>2, <1>4, <1>6, <1>8 DEF Knows
<1>10. job' = [job EXCEPT ![w] = j]
  BY <1>1, <1>3, <1>5, <1>7 DEF IInv, TypeOK
<1>11. j.todo = k.todo /\ k.pc = "list"
  BY <1>1, <1>7 DEF Job, readFiringRows, InUpdateAlarms
<1>12. ASSUME InTurn PROVE TurnKnows(j) /\ \A v \in Worker \ {w} : job[v].pc = "idle"
  <2>1. TurnKnows(k) /\ \A v \in Worker \ {w} : job[v].pc = "idle"
    BY <1>1, <1>11, <1>12, OthersRest DEF InTurn
  <2>2. ASSUME pc = "write"
        PROVE  seen = FiringRows /\ \A r \in FiringRows : row[r].of.crc # op.of.crc
    <3>1. ~Blocked(op) /\ op.row = NoRow /\ seen = FiringRows
      BY <1>5, <2>2
    <3>2. ASSUME NEW r \in FiringRows, row[r].of.crc = op.of.crc PROVE FALSE
      <4>1. row[r].of.tags = op.of.tags
        BY <3>1, <3>2 DEF Blocked
      <4>2. row[r].of \in Cond /\ op.of \in Cond
        <5>1. r \in UsedRows
          BY DEF FiringRows, UsedRows
        <5> QED
          BY <1>4, <5>1, UsedIsRow DEF IInv, Op
      <4>3. row[r].of = op.of
        BY <3>2, <4>1, <4>2 DEF Cond
      <4> QED
        BY <2>1, <3>1, <4>3 DEF TurnKnows
    <3> QED
      BY <3>1, <3>2
  <2>3. \A m, n \in j.todo : m.of = n.of => m = n
    BY <1>11, <2>1 DEF TurnKnows
  <2>4. \A m \in j.todo, o \in j.ops : m.of # o.of
    BY <1>8, <1>11, <2>1 DEF TurnKnows
  <2>5. \A o, p \in j.ops : o.of = p.of => o = p
    BY <1>8, <2>1 DEF TurnKnows
  <2>6. \A o \in j.ops : o.row = NoRow => \A r \in FiringRows : row[r].of # o.of
    BY <1>8, <2>1 DEF TurnKnows
  <2>7. j.pc # "list" => \A o \in j.ops : o.of # j.cur.of
    BY <1>6, <1>8, <2>1 DEF TurnKnows
  <2> QED
    BY <1>6, <1>8, <2>1, <2>2, <2>3, <2>4, <2>5, <2>6, <2>7 DEF TurnKnows
<1> QED
  BY <1>2, <1>6, <1>8, <1>9, <1>10, <1>12, NoTable DEF readFiringRows

LEMMA ReadRelTInv ==
  ASSUME TInv, NEW w \in Worker, readAlarmConditionRel(w)
  PROVE  TInv'
<1> USE DEF TInv
<1>1. PICK k \in Job : k = job[w]
  BY DEF IInv, TypeOK
<1>2. Knows(k) /\ UNCHANGED_tables /\ overlapped' \in BOOLEAN /\ k.pc = "rel"
  BY <1>1 DEF IInv, TypeOK, readAlarmConditionRel
<1>3. PICK A \in SUBSET AlarmId : A = {a \in FiringAlarms : k.cur.row \in comp[a].rel}
  BY DEF FiringAlarms
<1>4. A \subseteq UsedAlarms /\ \A a \in A : k.cur.row \in comp[a].rel
  BY <1>3 DEF FiringAlarms, UsedAlarms
<1>5. PICK j \in Job : j = [k EXCEPT !.pc = "write", !.alarms = A]
  BY DEF Job
<1>6. j.pc = "write" /\ j.cur = k.cur /\ j.seen = k.seen /\ j.alarms = A /\ j.ops = k.ops
  BY <1>5 DEF Job
<1>7. Knows(j)
  BY <1>2, <1>4, <1>6 DEF Knows
<1>8. job' = [job EXCEPT ![w] = j]
  BY <1>1, <1>3, <1>5 DEF IInv, TypeOK, readAlarmConditionRel
<1>9. j.todo = k.todo
  BY <1>5 DEF Job
<1>10. ASSUME InTurn PROVE TurnKnows(j) /\ \A v \in Worker \ {w} : job[v].pc = "idle"
  <2>1. TurnKnows(k) /\ \A v \in Worker \ {w} : job[v].pc = "idle"
    BY <1>1, <1>2, <1>10, OthersRest DEF InTurn
  <2> QED
    BY <1>2, <1>3, <1>6, <1>9, <2>1 DEF TurnKnows, Knows
<1> QED
  BY <1>2, <1>6, <1>7, <1>8, <1>10, NoTable DEF readAlarmConditionRel

(* Done with one element, a handler keeps its list only. *)
LEMMA NextElementKnows ==
  ASSUME IInv, NEW w \in Worker, NextElement(w)
  PROVE  \E j \in Job : /\ Knows(j) /\ job' = [job EXCEPT ![w] = j]
                        /\ j.pc = "list" /\ j.ops = job[w].ops /\ j.todo = job[w].todo
<1>1. PICK k \in Job : k = job[w]
  BY DEF IInv, TypeOK
<1>2. PICK j \in Job : j = [k EXCEPT !.pc = "list", !.cur = NoOp, !.seen = {}, !.alarms = {}]
  BY DEF Job
<1>3. j.pc = "list" /\ j.seen = {} /\ j.alarms = {} /\ j.ops = k.ops /\ j.todo = k.todo
  BY <1>2 DEF Job
<1>4. Knows(j)
  BY <1>1, <1>3 DEF IInv, Knows
<1>5. job' = [job EXCEPT ![w] = j]
  BY <1>1, <1>2 DEF IInv, TypeOK, NextElement
<1> QED
  BY <1>1, <1>3, <1>4, <1>5

(* One row recovers, and with it the open alarms that have it. *)
LEMMA ResolveTInv ==
  ASSUME TInv, NEW w \in Worker, resolveCondition(w)
  PROVE  TInv'
<1> USE DEF TInv
<1>1. PICK k \in Job : k = job[w]
  BY DEF IInv, TypeOK
<1>2. TypeOK /\ Knows(k) /\ k.pc = "write" /\ k.cur.row # NoRow
  BY <1>1 DEF IInv, resolveCondition
<1>3. PICK r \in UsedRows : r = k.cur.row
  BY <1>2 DEF Knows
<1>4. \A a \in k.alarms : r \in comp[a].rel
  BY <1>2, <1>3 DEF Knows
<1>5. r \in RowId /\ row[r] \in Row
  BY <1>2, UsedIsRow DEF UsedRows
<1>6. PICK x \in Row : /\ x.of = row[r].of
                       /\ x.status = IF row[r].status = "firing" THEN "ok" ELSE row[r].status
                       /\ x = [row[r] EXCEPT !.status = IF @ = "firing" THEN "ok" ELSE @]
  BY <1>5 DEF Row
<1>7. row' = [row EXCEPT ![r] = x]
  BY <1>1, <1>2, <1>3, <1>5, <1>6 DEF resolveCondition, TypeOK
<1>8. /\ row' \in [RowId -> Row \cup {Unused}]
      /\ row'[r] = x /\ \A q \in RowId : q # r => row'[q] = row[q]
  BY <1>2, <1>5, <1>7 DEF TypeOK
<1>9. x.status \in {"ok", "closed"}
  BY <1>5, <1>6 DEF Row
<1>10. ASSUME NEW a \in AlarmId
       PROVE  /\ comp'[a] \in Composite \cup {Unused}
              /\ a \in UsedAlarms => comp'[a].rel = comp[a].rel
              /\ comp'[a].status = IF a \in k.alarms /\ comp[a].status = "firing"
                                   THEN "ok" ELSE comp[a].status
  <2>1. comp'[a] = IF a \in k.alarms /\ comp[a].status = "firing"
                   THEN [comp[a] EXCEPT !.status = "ok"] ELSE comp[a]
    BY <1>1 DEF resolveCondition, Recover
  <2>2. CASE a \in k.alarms /\ comp[a].status = "firing"
    <3>1. PICK c \in Composite : c = comp[a]
      BY <1>2, <2>2, UsedIsComposite DEF UsedAlarms
    <3>2. comp'[a] = [c EXCEPT !.status = "ok"]
      BY <2>1, <2>2, <3>1
    <3>3. comp'[a] \in Composite /\ comp'[a].rel = c.rel /\ comp'[a].status = "ok"
      BY <3>2 DEF Composite
    <3> QED
      BY <2>2, <3>1, <3>3
  <2>3. CASE ~(a \in k.alarms /\ comp[a].status = "firing")
    BY <1>2, <2>1, <2>3 DEF TypeOK
  <2> QED
    BY <2>2, <2>3
<1>11. comp' \in [AlarmId -> Composite \cup {Unused}]
  <2>1. comp' = [a \in AlarmId |-> comp'[a]]
    BY DEF resolveCondition, Recover
  <2> QED
    BY <1>10, <2>1
<1>12. PICK j \in Job : /\ Knows(j) /\ job' = [job EXCEPT ![w] = j]
                        /\ j.pc = "list" /\ j.ops = k.ops /\ j.todo = k.todo
  BY <1>1, NextElementKnows DEF resolveCondition
<1>13. UsedRows' = UsedRows
  BY <1>3, <1>8, <1>9 DEF UsedRows
<1>14. UsedAlarms' = UsedAlarms
  BY <1>10 DEF UsedAlarms
<1>15. \A q \in UsedRows : row'[q].of = row[q].of
  BY <1>6, <1>8 DEF UsedRows
<1>16. \A a \in UsedAlarms : comp'[a].rel = comp[a].rel
  BY <1>10 DEF UsedAlarms
<1>17. job' \in [Worker -> Job] /\ UNCHANGED <<nextRow, nextAlarm, abandoned, overlapped>>
  BY <1>2, <1>12 DEF TypeOK, resolveCondition
<1>18. /\ Keeps /\ TypeOK' /\ HandedOut' /\ RaisedForAllConditions'
       /\ abandoned' \subseteq UsedAlarms'
  BY <1>8, <1>11, <1>13, <1>14, <1>15, <1>16, <1>17, OnlyStatus DEF IInv
<1>19. \A v \in Worker : Knows(job[v])'
  BY <1>12, <1>18, JobStep
<1>20. ASSUME NEW a \in AlarmId
       PROVE  /\ comp'[a].status = "ok" => \E q \in comp'[a].rel : row'[q].status # "firing"
              /\ comp'[a].status = "closed" /\ a \notin abandoned' => \A q \in comp'[a].rel : row'[q].status = "closed"
  <2>1. CASE a \notin UsedAlarms
    BY <1>10, <2>1 DEF UsedAlarms
  <2>2. CASE a \in UsedAlarms
    <3>1. comp'[a].rel = comp[a].rel /\ comp[a].rel \subseteq UsedRows
      BY <1>16, <2>2 DEF IInv, HandedOut
    <3>2. \A q \in comp[a].rel :
            /\ row[q].status # "firing" => row'[q].status # "firing"
            /\ row[q].status = "closed" => row'[q].status = "closed"
      BY <1>6, <1>8, <1>9, <3>1 DEF UsedRows
    <3>3. CASE a \in k.alarms /\ comp[a].status = "firing"
      BY <1>4, <1>8, <1>9, <1>10, <3>1, <3>3
    <3>4. CASE comp'[a].status = comp[a].status
      BY <1>17, <3>1, <3>2, <3>4 DEF IInv, EndedWithItsConditions
    <3> QED
      BY <1>10, <3>3, <3>4
  <2> QED
    BY <2>1, <2>2
<1>21. ASSUME InTurn PROVE InTurn'
  <2>1. TurnKnows(k) /\ \A v \in Worker \ {w} : job[v].pc = "idle"
    BY <1>1, <1>2, <1>21, OthersRest DEF InTurn
  <2>2. FiringRows' = FiringRows \ {r} /\ FiringRows \subseteq UsedRows
    BY <1>5, <1>8, <1>9 DEF FiringRows, UsedRows
  <2>3. FiringAlarms' = FiringAlarms \ k.alarms /\ FiringAlarms \subseteq UsedAlarms
    BY <1>10 DEF FiringAlarms, UsedAlarms
  <2>4. TurnKnows(j)'
    BY <1>12, <1>15, <2>1, <2>2 DEF TurnKnows
  <2>5. OneJob' /\ \A v \in Worker : TurnKnows(job[v])'
    BY <1>12, <1>21, <2>1, <2>4, TurnJobs DEF InTurn
  <2>6. OneRow'
    BY <1>15, <1>21, <2>2 DEF InTurn, OneRow
  <2>7. LastFires'
    BY <1>8, <1>9, <1>13, <1>15, <1>21 DEF InTurn, LastFires, UsedRows
  <2>8. \A a \in FiringAlarms' : r \notin comp[a].rel /\ comp'[a].rel = comp[a].rel
                                 /\ comp[a].rel \subseteq RowId
    BY <1>2, <1>3, <1>16, <2>1, <2>3, UsedIsComposite DEF TurnKnows
  <2>9. OpenAlarms'
    BY <1>8, <1>21, <2>3, <2>8 DEF InTurn, OpenAlarms
  <2>10. ASSUME AllFiring' PROVE \E a \in FiringAlarms' \cup abandoned' : comp'[a].rel = FiringRows'
    <3>1. r \notin FiringRows
      <4>1. SUFFICES ASSUME r \in FiringRows PROVE FALSE
        OBVIOUS
      <4>2. row[r].of.crc \in Crc
        BY <1>2, UsedIsRow
      <4>3. PICK q \in FiringRows' : row'[q].of.crc = row[r].of.crc
        BY <2>10, <4>2 DEF AllFiring
      <4>4. q \in FiringRows /\ row[q].of.crc = row[r].of.crc /\ q # r
        BY <1>15, <2>2, <4>3
      <4> QED
        BY <1>21, <4>1, <4>4 DEF InTurn, OneRow
    <3>2. FiringRows' = FiringRows /\ \A q \in FiringRows : row'[q].of.crc = row[q].of.crc
      BY <1>15, <2>2, <3>1
    <3>3. {row'[q].of.crc : q \in FiringRows} = {row[q].of.crc : q \in FiringRows}
      BY <3>2
    <3>4. AllFiring
      BY <2>10, <3>2, <3>3 DEF AllFiring
    <3>5. PICK a \in FiringAlarms \cup abandoned : comp[a].rel = FiringRows
      BY <1>21, <3>4 DEF InTurn, Raised
    <3>6. a \notin k.alarms /\ a \in UsedAlarms
      BY <1>4, <2>3, <3>1, <3>5 DEF IInv
    <3> QED
      BY <1>16, <1>17, <2>3, <3>2, <3>5, <3>6
  <2> QED
    BY <2>5, <2>6, <2>7, <2>9, <2>10 DEF InTurn, Raised
<1> QED
  BY <1>17, <1>18, <1>19, <1>20, <1>21 DEF IInv, EndedWithItsConditions

(* Rows of as many conditions as there are, are of all the conditions. *)
LEMMA AllOfThem ==
  ASSUME TypeOK, NEW S \in SUBSET UsedRows, NEW c \in Crc, AllConditions(S, c)
  PROVE  {row[r].of.crc : r \in S} \cup {c} = Crc
<1> DEFINE C == {row[r].of.crc : r \in S} \cup {c}
<1>1. C \subseteq Crc
  BY UsedIsRow
<1>2. IsFiniteSet(Crc)
  BY AlarmConditionAssumption
<1>3. Cardinality(C) >= Cardinality(Crc)
  BY DEF AllConditions
<1> HIDE DEF C
<1>4. C = Crc
  BY <1>1, <1>2, <1>3, FS_Subset, FS_CardinalityType
<1> QED
  BY <1>4 DEF C

(* A row is added, and the composite alarm if its conditions are complete. *)
LEMMA AddTInv ==
  ASSUME TInv, NEW w \in Worker, addCondition(w)
  PROVE  TInv'
<1> USE DEF TInv
<1>1. PICK k \in Job : k = job[w]
  BY DEF IInv, TypeOK
<1>2. TypeOK /\ Knows(k) /\ k.pc = "write" /\ k.cur \in Op /\ nextRow <= MaxRows
  <2>1. nextRow <= OverlapRows \/ nextRow <= MaxRows
    BY DEF addCondition
  <2>2. nextRow <= MaxRows
    BY <2>1, AlarmConditionAssumption, SMT DEF IInv, TypeOK
  <2> QED
    BY <1>1, <2>2 DEF IInv, addCondition, Knows
<1>3. PICK of \in Cond : of = k.cur.of
  BY <1>2 DEF Op
<1>4. of.crc \in Crc
  BY DEF Cond
<1>5. nextRow \in RowId /\ nextRow' \in 1 .. (MaxRows + 1) /\ nextRow' > nextRow /\ nextRow \in Nat
      /\ nextRow' = nextRow + 1
  BY <1>2, AlarmConditionAssumption, SMT DEF TypeOK, addCondition, RowId
<1>6. PICK x \in Row : x = [of |-> of, status |-> "firing"]
  BY DEF Row
<1>7. x.of = of /\ x.status = "firing"
  BY <1>6
<1>8. row' = [row EXCEPT ![nextRow] = x]
  BY <1>1, <1>3, <1>6 DEF addCondition
<1>9. /\ row' \in [RowId -> Row \cup {Unused}]
      /\ row'[nextRow] = x /\ \A q \in RowId : q # nextRow => row'[q] = row[q]
  BY <1>2, <1>5, <1>8 DEF TypeOK
<1>10. nextRow \notin UsedRows
  BY <1>5 DEF IInv, HandedOut
<1>11. UsedRows' = UsedRows \cup {nextRow}
  BY <1>5, <1>7, <1>9 DEF UsedRows
<1>12. \A q \in UsedRows : row'[q] = row[q] /\ q \in RowId
  BY <1>9, <1>10 DEF UsedRows
<1>13. PICK j \in Job : /\ Knows(j) /\ job' = [job EXCEPT ![w] = j]
                        /\ j.pc = "list" /\ j.ops = k.ops /\ j.todo = k.todo
  BY <1>1, NextElementKnows DEF addCondition
<1>14. overlapped' \in BOOLEAN /\ abandoned' = abandoned /\ abandoned \in SUBSET AlarmId
  BY <1>2 DEF addCondition, TypeOK
<1>15. \A q \in UsedRows' : q < nextRow'
  <2>1. \A q \in UsedRows : q < nextRow /\ q \in Nat
    BY AlarmConditionAssumption, SMT DEF IInv, HandedOut, UsedRows, RowId
  <2> QED
    BY <1>5, <1>11, <2>1
<1>16. ASSUME NEW a \in UsedAlarms, comp'[a] = comp[a]
       PROVE  /\ comp'[a].rel \subseteq UsedRows'
              /\ {row'[r].of.crc : r \in comp'[a].rel} = Crc
              /\ comp'[a].status = "ok" => \E q \in comp'[a].rel : row'[q].status # "firing"
              /\ comp'[a].status = "closed" /\ a \notin abandoned' => \A q \in comp'[a].rel : row'[q].status = "closed"
  <2>1. comp[a].rel \subseteq UsedRows
    BY DEF IInv, HandedOut
  <2>2. \A q \in comp[a].rel : row'[q] = row[q]
    BY <1>12, <2>1
  <2>3. {row[r].of.crc : r \in comp[a].rel} = Crc
    BY DEF IInv, RaisedForAllConditions, UsedAlarms
  <2>4. {row'[r].of.crc : r \in comp[a].rel} = {row[r].of.crc : r \in comp[a].rel}
    BY <2>2
  <2>5. /\ comp[a].status = "ok" => \E q \in comp[a].rel : row[q].status # "firing"
        /\ comp[a].status = "closed" /\ a \notin abandoned => \A q \in comp[a].rel : row[q].status = "closed"
    BY DEF IInv, EndedWithItsConditions, UsedAlarms
  <2> QED
    BY <1>11, <1>14, <1>16, <2>1, <2>2, <2>3, <2>4, <2>5
<1>17. overlapped' = overlapped
  BY DEF addCondition
<1>18. FiringRows' = FiringRows \cup {nextRow} /\ FiringRows \subseteq UsedRows
  BY <1>5, <1>7, <1>9 DEF FiringRows, UsedRows
<1>19. ASSUME InTurn
       PROVE  /\ k.seen = FiringRows /\ \A r \in FiringRows : row[r].of.crc # of.crc
              /\ OneJob' /\ (\A v \in Worker : TurnKnows(job[v])') /\ OneRow' /\ LastFires'
  <2>1. TurnKnows(k) /\ \A v \in Worker \ {w} : job[v].pc = "idle"
    BY <1>1, <1>2, <1>19, OthersRest DEF InTurn
  <2>2. k.cur.row = NoRow
    BY <1>1 DEF addCondition
  <2>3. k.seen = FiringRows /\ \A r \in FiringRows : row[r].of.crc # of.crc
    BY <1>2, <1>3, <2>1, <2>2 DEF TurnKnows
  <2>4. \A op \in k.ops : op.of # of
    BY <1>2, <1>3, <2>1 DEF TurnKnows
  <2>5. TurnKnows(j)'
    BY <1>7, <1>9, <1>12, <1>13, <1>18, <2>1, <2>4 DEF TurnKnows
  <2>6. OneJob' /\ \A v \in Worker : TurnKnows(job[v])'
    <3>1. Keeps
      <4>1. \A a \in UsedAlarms : comp'[a] = comp[a] /\ a \in AlarmId /\ a # nextAlarm
        <5>1. \A a \in UsedAlarms : a \in AlarmId /\ a # nextAlarm
          BY AlarmConditionAssumption, SMT DEF IInv, HandedOut, UsedAlarms, AlarmId
        <5>2. comp' = comp \/ \E c : comp' = [comp EXCEPT ![nextAlarm] = c]
          BY DEF addCondition
        <5> QED
          BY <1>2, <5>1, <5>2 DEF TypeOK
      <4>2. UsedAlarms \subseteq UsedAlarms'
        BY <4>1 DEF UsedAlarms
      <4> QED
        BY <1>11, <4>1, <4>2 DEF Keeps
    <3> QED
      BY <1>13, <1>19, <2>1, <2>5, TurnJobs DEF InTurn
  <2>7. OneRow'
    BY <1>7, <1>9, <1>12, <1>18, <1>19, <2>3 DEF InTurn, OneRow
  <2>8. LastFires'
    <3>1. ASSUME NEW r \in UsedRows', NEW q \in UsedRows', row'[r].of = row'[q].of, r < q
          PROVE  row'[r].status # "firing"
      <4>1. CASE r = nextRow
        <5>1. q < nextRow \/ q = nextRow
          BY <1>11 DEF IInv, HandedOut
        <5> QED
          BY <1>5, <1>11, <3>1, <4>1, <5>1, AlarmConditionAssumption, SMT DEF UsedRows, RowId
      <4>2. CASE r \in UsedRows /\ q = nextRow
        <5>1. row[r].of = of /\ row'[r] = row[r]
          BY <1>7, <1>9, <1>12, <3>1, <4>2
        <5>2. r \notin FiringRows
          BY <2>3, <5>1
        <5> QED
          BY <1>12, <4>2, <5>1, <5>2 DEF FiringRows
      <4>3. CASE r \in UsedRows /\ q \in UsedRows
        BY <1>12, <1>19, <3>1, <4>3 DEF InTurn, LastFires
      <4> QED
        BY <1>11, <4>1, <4>2, <4>3
    <3> QED
      BY <3>1 DEF LastFires
  <2> QED
    BY <2>3, <2>6, <2>7, <2>8
<1>20. ASSUME InTurn, NEW a \in FiringAlarms, comp'[a] = comp[a]
       PROVE  /\ \A r \in comp'[a].rel : row'[r].status # "ok"
              /\ \A b \in FiringAlarms : a < b => \E r \in comp'[a].rel : row'[r].status = "closed"
  <2>1. comp[a].rel \subseteq UsedRows
    BY DEF IInv, HandedOut, FiringAlarms, UsedAlarms
  <2> QED
    BY <1>12, <1>20, <2>1 DEF InTurn, OpenAlarms
<1>21. CASE ~AllConditions(k.seen, of.crc) /\ UNCHANGED <<comp, nextAlarm>>
  <2>1. UsedAlarms' = UsedAlarms
    BY <1>21 DEF UsedAlarms
  <2>2. Keeps
    BY <1>11, <1>21, <2>1 DEF Keeps
  <2>3. job' \in [Worker -> Job] /\ \A v \in Worker : Knows(job[v])'
    BY <1>13, <2>2, JobStep
  <2>4. TypeOK'
    BY <1>2, <1>5, <1>9, <1>14, <1>21, <2>3 DEF TypeOK
  <2>5. HandedOut'
    BY <1>15, <1>16, <1>21, <2>1 DEF IInv, HandedOut
  <2>6. RaisedForAllConditions'
    BY <1>16, <1>21 DEF RaisedForAllConditions, UsedAlarms
  <2>7. EndedWithItsConditions'
    <3>1. Unused.status = "unused"
      BY DEF Unused
    <3>2. \A a \in AlarmId : comp'[a].status \in {"ok", "closed"} => a \in UsedAlarms
      BY <1>21 DEF UsedAlarms
    <3> QED
      BY <1>16, <1>21, <3>2 DEF EndedWithItsConditions
  <2>8. ASSUME InTurn PROVE InTurn'
    <3>1. FiringAlarms' = FiringAlarms
      BY <1>21 DEF FiringAlarms
    <3>2. OpenAlarms'
      BY <1>21, <1>20, <2>8, <3>1 DEF OpenAlarms
    <3>3. ASSUME AllFiring' PROVE FALSE
      <4>1. k.seen = FiringRows
        BY <1>19, <2>8
      <4>2. \A r \in FiringRows : row'[r].of.crc = row[r].of.crc
        BY <1>12, <1>18
      <4>3. {row'[r].of.crc : r \in FiringRows} = {row[r].of.crc : r \in FiringRows}
        BY <4>2
      <4>4. {row'[r].of.crc : r \in FiringRows'} = {row'[r].of.crc : r \in FiringRows} \cup {of.crc}
        BY <1>7, <1>9, <1>18
      <4>5. {row[r].of.crc : r \in k.seen} \cup {of.crc} = Crc
        BY <3>3, <4>1, <4>3, <4>4 DEF AllFiring
      <4>6. Cardinality(Crc) \in Nat
        BY AlarmConditionAssumption, FS_CardinalityType
      <4>7. Cardinality(Crc) >= Cardinality(Crc)
        BY <4>6, SMT
      <4>8. AllConditions(k.seen, of.crc)
        BY <4>5, <4>7, Zenon DEF AllConditions
      <4> QED
        BY <1>21, <4>8
    <3> QED
      BY <1>19, <2>8, <3>2, <3>3 DEF InTurn, Raised
  <2> QED
    BY <1>14, <1>17, <2>1, <2>3, <2>4, <2>5, <2>6, <2>7, <2>8 DEF IInv
<1>22. CASE /\ AllConditions(k.seen, of.crc) /\ nextAlarm <= MaxAlarms
            /\ comp' = [comp EXCEPT ![nextAlarm] = [rel |-> k.seen \cup {nextRow}, status |-> "firing"]]
            /\ nextAlarm' = nextAlarm + 1
  <2>1. k.seen \subseteq UsedRows /\ k.seen \cup {nextRow} \in SUBSET RowId
    BY <1>2, <1>5, JobFields DEF Knows
  <2>2. PICK R \in SUBSET RowId : R = k.seen \cup {nextRow}
    BY <2>1
  <2>3. PICK c \in Composite : c = [rel |-> R, status |-> "firing"]
    BY DEF Composite
  <2>4. c.rel = R /\ c.status = "firing"
    BY <2>3
  <2>5. /\ nextAlarm \in AlarmId /\ nextAlarm' \in 1 .. (MaxAlarms + 1)
        /\ nextAlarm \in Nat /\ nextAlarm' = nextAlarm + 1
    BY <1>2, <1>22, AlarmConditionAssumption, SMT DEF TypeOK, AlarmId
  <2>6. comp' = [comp EXCEPT ![nextAlarm] = c]
    BY <1>22, <2>2, <2>3
  <2>7. /\ comp' \in [AlarmId -> Composite \cup {Unused}]
        /\ comp'[nextAlarm] = c /\ \A a \in AlarmId : a # nextAlarm => comp'[a] = comp[a]
    BY <1>2, <2>5, <2>6 DEF TypeOK
  <2>8. nextAlarm \notin UsedAlarms
    BY <2>5 DEF IInv, HandedOut
  <2>9. UsedAlarms' = UsedAlarms \cup {nextAlarm}
    BY <2>4, <2>5, <2>7 DEF UsedAlarms
  <2>10. \A a \in UsedAlarms : comp'[a] = comp[a]
    BY <2>7, <2>8 DEF UsedAlarms
  <2>11. Keeps
    BY <1>11, <2>9, <2>10 DEF Keeps
  <2>12. job' \in [Worker -> Job] /\ \A v \in Worker : Knows(job[v])'
    BY <1>13, <2>11, JobStep
  <2>13. TypeOK'
    BY <1>2, <1>5, <1>9, <1>14, <2>5, <2>7, <2>12 DEF TypeOK
  <2>14. HandedOut'
    <3>1. \A a \in UsedAlarms : a < nextAlarm /\ a \in Nat
      BY AlarmConditionAssumption, SMT DEF IInv, HandedOut, UsedAlarms, AlarmId
    <3>2. \A a \in UsedAlarms' : a < nextAlarm'
      BY <2>5, <2>9, <3>1
    <3>3. comp'[nextAlarm].rel \subseteq UsedRows'
      BY <1>11, <2>1, <2>2, <2>4, <2>7
    <3>4. \A a \in UsedAlarms' : comp'[a].rel \subseteq UsedRows'
      BY <1>16, <2>9, <2>10, <3>3
    <3> QED
      BY <1>15, <3>2, <3>4 DEF HandedOut
  <2>15. {row'[r].of.crc : r \in R} = Crc
    <3>1. {row[r].of.crc : r \in k.seen} \cup {of.crc} = Crc
      BY <1>2, <1>4, <1>22, <2>1, AllOfThem
    <3>2. \A r \in k.seen : row'[r].of.crc = row[r].of.crc
      BY <1>12, <2>1
    <3>3. row'[nextRow].of.crc = of.crc
      BY <1>7, <1>9
    <3>4. {row'[r].of.crc : r \in k.seen} = {row[r].of.crc : r \in k.seen}
      BY <3>2
    <3>5. {row'[r].of.crc : r \in R} = {row'[r].of.crc : r \in k.seen} \cup {row'[nextRow].of.crc}
      BY <2>2
    <3> QED
      BY <3>1, <3>3, <3>4, <3>5
  <2>16. RaisedForAllConditions'
    <3>1. ASSUME NEW a \in AlarmId, comp'[a].status # "unused"
          PROVE  {row'[r].of.crc : r \in comp'[a].rel} = Crc
      <4>1. CASE a = nextAlarm
        BY <2>4, <2>7, <2>15, <4>1
      <4>2. CASE a # nextAlarm
        <5>1. a \in UsedAlarms /\ comp'[a] = comp[a]
          BY <2>7, <3>1, <4>2 DEF UsedAlarms
        <5> QED
          BY <1>16, <5>1
      <4> QED
        BY <4>1, <4>2
    <3> QED
      BY <3>1 DEF RaisedForAllConditions
  <2>17. EndedWithItsConditions'
    <3>1. ASSUME NEW a \in AlarmId, comp'[a].status \in {"ok", "closed"}
          PROVE  a \in UsedAlarms /\ comp'[a] = comp[a]
      BY <2>4, <2>7, <3>1 DEF UsedAlarms
    <3> QED
      BY <1>16, <3>1 DEF EndedWithItsConditions
  <2>18. ASSUME InTurn PROVE InTurn'
    <3>1. FiringAlarms' = FiringAlarms \cup {nextAlarm} /\ FiringAlarms \subseteq UsedAlarms
      BY <2>4, <2>5, <2>7 DEF FiringAlarms, UsedAlarms
    <3>2. R = FiringRows' /\ comp'[nextAlarm].rel = R
      BY <1>18, <1>19, <2>2, <2>4, <2>7, <2>18
    <3>3. ASSUME NEW a \in FiringAlarms
          PROVE  \E r \in comp'[a].rel : row'[r].status = "closed"
      <4>1. a \in UsedAlarms /\ comp'[a] = comp[a] /\ comp[a].rel \subseteq UsedRows
        BY <2>10, <3>1 DEF IInv, HandedOut
      <4>2. {row[r].of.crc : r \in comp[a].rel} = Crc
        BY <4>1 DEF IInv, RaisedForAllConditions, UsedAlarms
      <4>3. PICK r \in comp[a].rel : row[r].of.crc = of.crc
        BY <1>4, <4>2
      <4>4. r \notin FiringRows /\ row[r].status # "ok"
        BY <1>19, <2>18, <4>3 DEF InTurn, OpenAlarms
      <4>5. row[r].status = "closed"
        <5>1. r \in UsedRows /\ row[r] \in Row
          BY <1>2, <4>1, <4>3, UsedIsRow
        <5> QED
          BY <4>4, <5>1 DEF FiringRows, UsedRows, Row
      <4> QED
        BY <1>12, <4>1, <4>3, <4>5
    <3>4. OpenAlarms'
      <4>1. ASSUME NEW a \in FiringAlarms'
            PROVE  /\ \A r \in comp'[a].rel : row'[r].status # "ok"
                   /\ \A b \in FiringAlarms' : a < b => \E r \in comp'[a].rel : row'[r].status = "closed"
        <5>1. CASE a = nextAlarm
          <6>1. \A r \in comp'[a].rel : row'[r].status # "ok"
            BY <3>2, <5>1 DEF FiringRows
          <6>2. \A b \in FiringAlarms' : ~(a < b)
            <7>1. \A b \in FiringAlarms : b < nextAlarm /\ b \in Nat
              BY <3>1, AlarmConditionAssumption, SMT DEF IInv, HandedOut, UsedAlarms, AlarmId
            <7> QED
              BY <2>5, <3>1, <5>1, <7>1
          <6> QED
            BY <6>1, <6>2
        <5>2. CASE a \in FiringAlarms
          BY <1>20, <2>10, <2>18, <3>1, <3>3, <5>2
        <5> QED
          BY <3>1, <5>1, <5>2
      <4> QED
        BY <4>1 DEF OpenAlarms
    <3>5. Raised'
      BY <3>1, <3>2 DEF Raised
    <3> QED
      BY <1>19, <2>18, <3>4, <3>5 DEF InTurn
  <2> QED
    BY <1>14, <1>17, <2>9, <2>12, <2>13, <2>14, <2>16, <2>17, <2>18 DEF IInv
<1> QED
  <2>1. IF AllConditions(k.seen, of.crc)
        THEN /\ nextAlarm <= MaxAlarms
             /\ comp' = [comp EXCEPT ![nextAlarm] = [rel |-> k.seen \cup {nextRow}, status |-> "firing"]]
             /\ nextAlarm' = nextAlarm + 1
        ELSE UNCHANGED <<comp, nextAlarm>>
    BY <1>1, <1>3 DEF addCondition
  <2> QED
    BY <1>21, <1>22, <2>1

(* Alarms are closed with all their conditions. *)
LEMMA CloseTInv ==
  ASSUME TInv, NEW w \in Worker, closeTransaction(w)
  PROVE  TInv'
<1> USE DEF TInv
<1>1. PICK k \in Job : k = job[w]
  BY DEF IInv, TypeOK
<1>2. TypeOK /\ Knows(k) /\ k.alarms \subseteq UsedAlarms
  BY <1>1 DEF IInv, Knows
<1> DEFINE Touched(r) == \E a \in k.alarms : r \in comp[a].rel
<1>3. \A r \in RowId : Touched(r) => r \in UsedRows
  BY <1>2 DEF IInv, HandedOut
<1>4. ASSUME NEW r \in RowId
      PROVE  /\ row'[r] \in Row \cup {Unused}
             /\ r \in UsedRows => row'[r].of = row[r].of
             /\ row'[r].status = IF Touched(r) THEN "closed" ELSE row[r].status
  <2>1. row'[r] = IF Touched(r) THEN [row[r] EXCEPT !.status = "closed"] ELSE row[r]
    BY <1>1 DEF closeTransaction
  <2>2. CASE Touched(r)
    <3>1. PICK x \in Row : x = row[r]
      BY <1>2, <1>3, <2>2, UsedIsRow
    <3>2. row'[r] = [x EXCEPT !.status = "closed"]
      BY <2>1, <2>2, <3>1
    <3>3. row'[r] \in Row /\ row'[r].of = x.of /\ row'[r].status = "closed"
      BY <3>2 DEF Row
    <3> QED
      BY <2>2, <3>1, <3>3
  <2>3. CASE ~Touched(r)
    BY <1>2, <2>1, <2>3 DEF TypeOK
  <2> QED
    BY <2>2, <2>3
<1>5. ASSUME NEW a \in AlarmId
      PROVE  /\ comp'[a] \in Composite \cup {Unused}
             /\ a \in UsedAlarms => comp'[a].rel = comp[a].rel
             /\ comp'[a].status = IF a \in k.alarms /\ comp[a].status # "deleted"
                                  THEN "closed" ELSE comp[a].status
  <2>1. comp'[a] = IF a \in k.alarms /\ comp[a].status # "deleted"
                   THEN [comp[a] EXCEPT !.status = "closed"] ELSE comp[a]
    BY <1>1 DEF closeTransaction, Closed
  <2>2. CASE a \in k.alarms /\ comp[a].status # "deleted"
    <3>1. PICK c \in Composite : c = comp[a]
      BY <1>2, <2>2, UsedIsComposite
    <3>2. comp'[a] = [c EXCEPT !.status = "closed"]
      BY <2>1, <2>2, <3>1
    <3>3. comp'[a] \in Composite /\ comp'[a].rel = c.rel /\ comp'[a].status = "closed"
      BY <3>2 DEF Composite
    <3> QED
      BY <2>2, <3>1, <3>3
  <2>3. CASE ~(a \in k.alarms /\ comp[a].status # "deleted")
    BY <1>2, <2>1, <2>3 DEF TypeOK
  <2> QED
    BY <2>2, <2>3
<1>6. row' \in [RowId -> Row \cup {Unused}]
  <2>1. row' = [r \in RowId |-> row'[r]]
    BY DEF closeTransaction
  <2> QED
    BY <1>4, <2>1
<1>7. comp' \in [AlarmId -> Composite \cup {Unused}]
  <2>1. comp' = [a \in AlarmId |-> comp'[a]]
    BY DEF closeTransaction, Closed
  <2> QED
    BY <1>5, <2>1
<1> HIDE DEF Touched
<1>8. UsedRows' = UsedRows
  BY <1>3, <1>4 DEF UsedRows
<1>9. UsedAlarms' = UsedAlarms
  BY <1>2, <1>5 DEF UsedAlarms
<1>10. job' = [job EXCEPT ![w] = Idle] /\ UNCHANGED <<nextRow, nextAlarm, abandoned, overlapped>>
  BY DEF closeTransaction
<1>11. job' \in [Worker -> Job]
  BY <1>2, <1>10, IdleFields DEF TypeOK
<1>12. \A r \in UsedRows : row'[r].of = row[r].of
  BY <1>4 DEF UsedRows
<1>13. \A a \in UsedAlarms : comp'[a].rel = comp[a].rel
  BY <1>5 DEF UsedAlarms
<1>14. /\ Keeps /\ TypeOK' /\ HandedOut' /\ RaisedForAllConditions'
       /\ abandoned' \subseteq UsedAlarms'
  BY <1>6, <1>7, <1>8, <1>9, <1>10, <1>11, <1>12, <1>13, OnlyStatus DEF IInv
<1>15. \A v \in Worker : Knows(job[v])'
  BY <1>10, <1>14, IdleFields, IdleKnows, JobStep
<1>16. ASSUME NEW a \in AlarmId
       PROVE  /\ comp'[a].status = "ok" => \E q \in comp'[a].rel : row'[q].status # "firing"
              /\ comp'[a].status = "closed" /\ a \notin abandoned' => \A q \in comp'[a].rel : row'[q].status = "closed"
  <2>1. CASE a \notin UsedAlarms
    BY <1>9, <2>1 DEF UsedAlarms
  <2>2. CASE a \in UsedAlarms
    <3>1. comp'[a].rel = comp[a].rel /\ comp[a].rel \subseteq UsedRows
      BY <1>13, <2>2 DEF IInv, HandedOut
    <3>2. \A q \in comp[a].rel :
            /\ row[q].status # "firing" => row'[q].status # "firing"
            /\ row[q].status = "closed" => row'[q].status = "closed"
      BY <1>4, <3>1 DEF UsedRows
    <3>3. CASE a \in k.alarms /\ comp[a].status # "deleted"
      <4>1. \A q \in comp[a].rel : row'[q].status = "closed"
        BY <1>4, <3>1, <3>3 DEF UsedRows, Touched
      <4> QED
        BY <1>5, <3>1, <3>3, <4>1
    <3>4. CASE comp'[a].status = comp[a].status
      BY <1>10, <3>1, <3>2, <3>4 DEF IInv, EndedWithItsConditions
    <3> QED
      BY <1>5, <3>3, <3>4
  <2> QED
    BY <2>1, <2>2
<1>17. ASSUME InTurn PROVE InTurn'
  <2>1. k.pc = "close"
    BY <1>1 DEF closeTransaction
  <2>2. \A v \in Worker \ {w} : job[v].pc = "idle"
    BY <1>1, <1>17, <2>1, OthersRest
  <2>3. OneJob' /\ \A v \in Worker : TurnKnows(job[v])'
    BY <1>10, <1>17, <2>2, IdleFields, IdleTurn, TurnJobs DEF InTurn
  <2>4. FiringRows' = {r \in FiringRows : ~Touched(r)} /\ FiringRows \subseteq UsedRows
    BY <1>4 DEF FiringRows, UsedRows
  <2>5. FiringAlarms' = FiringAlarms \ k.alarms /\ FiringAlarms \subseteq UsedAlarms
    BY <1>5 DEF FiringAlarms, UsedAlarms
  <2>6. OneRow'
    BY <1>12, <1>17, <2>4 DEF InTurn, OneRow
  <2>7. LastFires'
    BY <1>4, <1>8, <1>12, <1>17 DEF InTurn, LastFires, UsedRows
  <2>8. OpenAlarms'
    <3>1. \A a \in FiringAlarms' : comp'[a].rel = comp[a].rel /\ comp[a].rel \subseteq RowId
      BY <1>2, <1>13, <2>5, UsedIsComposite
    <3> QED
      BY <1>4, <1>17, <2>5, <3>1 DEF InTurn, OpenAlarms
  <2>9. ASSUME AllFiring' PROVE \E a \in FiringAlarms' \cup abandoned' : comp'[a].rel = FiringRows'
    <3>1. ASSUME NEW r \in FiringRows PROVE ~Touched(r)
      <4>1. row[r].of.crc \in Crc
        BY <1>2, <2>4, UsedIsRow
      <4>2. PICK q \in FiringRows' : row'[q].of.crc = row[r].of.crc
        BY <2>9, <4>1 DEF AllFiring
      <4>3. q \in FiringRows /\ row[q].of.crc = row[r].of.crc /\ ~Touched(q)
        BY <1>12, <2>4, <4>2
      <4> QED
        BY <1>17, <4>3 DEF InTurn, OneRow
    <3>2. FiringRows' = FiringRows /\ \A q \in FiringRows : row'[q].of.crc = row[q].of.crc
      BY <1>12, <2>4, <3>1
    <3>3. {row'[q].of.crc : q \in FiringRows} = {row[q].of.crc : q \in FiringRows}
      BY <3>2
    <3>4. AllFiring
      BY <2>9, <3>2, <3>3 DEF AllFiring
    <3>5. PICK a \in FiringAlarms \cup abandoned : comp[a].rel = FiringRows
      BY <1>17, <3>4 DEF InTurn, Raised
    <3>6. FiringRows # {}
      BY <3>4, AlarmConditionAssumption DEF AllFiring
    <3>7. a \notin k.alarms /\ a \in UsedAlarms
      BY <2>5, <3>1, <3>5, <3>6 DEF Touched, IInv
    <3> QED
      BY <1>10, <1>13, <2>5, <3>2, <3>5, <3>7
  <2> QED
    BY <2>3, <2>6, <2>7, <2>8, <2>9 DEF InTurn, Raised
<1> QED
  BY <1>10, <1>14, <1>15, <1>16, <1>17 DEF IInv, EndedWithItsConditions

(* The deletion of the endpoint closes alarms and touches no row. *)
LEMMA DeleteTInv ==
  ASSUME TInv, NEW w \in Worker, deleteTransaction(w)
  PROVE  TInv'
<1> USE DEF TInv
<1>1. PICK k \in Job : k = job[w]
  BY DEF IInv, TypeOK
<1>2. TypeOK /\ k.pc = "delete" /\ k.alarms \subseteq UsedAlarms
  BY <1>1 DEF IInv, Knows, deleteTransaction
<1>3. ASSUME NEW a \in AlarmId
      PROVE  /\ comp'[a] \in Composite \cup {Unused}
             /\ a \in UsedAlarms => comp'[a].rel = comp[a].rel
             /\ comp'[a].status = IF a \in k.alarms /\ comp[a].status # "deleted"
                                  THEN "closed" ELSE comp[a].status
  <2>1. comp'[a] = IF a \in k.alarms /\ comp[a].status # "deleted"
                   THEN [comp[a] EXCEPT !.status = "closed"] ELSE comp[a]
    BY <1>1 DEF deleteTransaction, Closed
  <2>2. CASE a \in k.alarms /\ comp[a].status # "deleted"
    <3>1. PICK c \in Composite : c = comp[a]
      BY <1>2, <2>2, UsedIsComposite
    <3>2. comp'[a] = [c EXCEPT !.status = "closed"]
      BY <2>1, <2>2, <3>1
    <3>3. comp'[a] \in Composite /\ comp'[a].rel = c.rel /\ comp'[a].status = "closed"
      BY <3>2 DEF Composite
    <3> QED
      BY <2>2, <3>1, <3>3
  <2>3. CASE ~(a \in k.alarms /\ comp[a].status # "deleted")
    BY <1>2, <2>1, <2>3 DEF TypeOK
  <2> QED
    BY <2>2, <2>3
<1>4. comp' \in [AlarmId -> Composite \cup {Unused}]
  <2>1. comp' = [a \in AlarmId |-> comp'[a]]
    BY DEF deleteTransaction, Closed
  <2> QED
    BY <1>3, <2>1
<1>5. /\ job' = [job EXCEPT ![w] = Idle] /\ abandoned' = abandoned \cup k.alarms
      /\ UNCHANGED <<row, nextRow, nextAlarm, overlapped>>
  BY <1>1 DEF deleteTransaction
<1>6. UsedRows' = UsedRows
  BY <1>5 DEF UsedRows
<1>7. UsedAlarms' = UsedAlarms
  BY <1>2, <1>3 DEF UsedAlarms
<1>8. \A a \in UsedAlarms : comp'[a].rel = comp[a].rel
  BY <1>3 DEF UsedAlarms
<1>9. job' \in [Worker -> Job]
  BY <1>2, <1>5, IdleFields DEF TypeOK
<1>10. abandoned' \subseteq UsedAlarms
  BY <1>2, <1>5 DEF IInv
<1>11. /\ Keeps /\ TypeOK' /\ HandedOut' /\ RaisedForAllConditions'
       /\ abandoned' \subseteq UsedAlarms'
  <2>1. row' \in [RowId -> Row \cup {Unused}] /\ \A r \in UsedRows : row'[r].of = row[r].of
    BY <1>2, <1>5 DEF TypeOK
  <2> QED
    BY <1>4, <1>5, <1>6, <1>7, <1>8, <1>9, <1>10, <2>1, OnlyStatus
<1>12. \A v \in Worker : Knows(job[v])'
  BY <1>5, <1>11, IdleFields, IdleKnows, JobStep
<1>13. ASSUME NEW a \in AlarmId
       PROVE  /\ comp'[a].status = "ok" => \E q \in comp'[a].rel : row'[q].status # "firing"
              /\ comp'[a].status = "closed" /\ a \notin abandoned' => \A q \in comp'[a].rel : row'[q].status = "closed"
  <2>1. CASE comp'[a].status \notin {"ok", "closed"} \/ a \in k.alarms
    BY <1>3, <1>5, <2>1
  <2>2. CASE comp'[a].status \in {"ok", "closed"} /\ a \notin k.alarms
    <3>1. comp'[a].status = comp[a].status /\ a \in UsedAlarms
      BY <1>3, <2>2 DEF UsedAlarms
    <3> QED
      BY <1>5, <1>8, <3>1 DEF IInv, EndedWithItsConditions
  <2> QED
    BY <2>1, <2>2
<1>14. ASSUME InTurn PROVE InTurn'
  <2>1. \A v \in Worker \ {w} : job[v].pc = "idle"
    BY <1>1, <1>2, <1>14, OthersRest
  <2>2. OneJob' /\ \A v \in Worker : TurnKnows(job[v])'
    BY <1>5, <1>14, <2>1, IdleFields, IdleTurn, TurnJobs DEF InTurn
  <2>3. FiringRows' = FiringRows
    BY <1>5 DEF FiringRows
  <2>4. FiringAlarms' = FiringAlarms \ k.alarms /\ FiringAlarms \subseteq UsedAlarms
    BY <1>3 DEF FiringAlarms, UsedAlarms
  <2>5. OneRow' /\ LastFires'
    BY <1>5, <1>6, <1>14, <2>3 DEF InTurn, OneRow, LastFires
  <2>6. OpenAlarms'
    BY <1>5, <1>8, <1>14, <2>4 DEF InTurn, OpenAlarms
  <2>7. Raised'
    <3>1. FiringAlarms \cup abandoned \subseteq FiringAlarms' \cup abandoned'
      BY <1>5, <2>4
    <3>2. \A a \in FiringAlarms \cup abandoned : comp'[a].rel = comp[a].rel
      BY <1>8, <2>4 DEF IInv
    <3>3. AllFiring' => AllFiring
      BY <1>5, <2>3 DEF AllFiring
    <3> QED
      BY <1>14, <2>3, <3>1, <3>2, <3>3 DEF InTurn, Raised
  <2> QED
    BY <2>2, <2>5, <2>6, <2>7 DEF InTurn
<1> QED
  BY <1>5, <1>11, <1>12, <1>13, <1>14 DEF IInv, EndedWithItsConditions

(* The cleaner deletes recovered alarms. *)
LEMMA CleanTInv ==
  ASSUME TInv, cleanAlarmTableJob
  PROVE  TInv'
<1> USE DEF TInv
<1>1. TypeOK
  BY DEF IInv
<1>2. PICK last \in AlarmId :
        comp' = [a \in AlarmId |-> IF a <= last /\ comp[a].status = "ok"
                                   THEN [comp[a] EXCEPT !.status = "deleted"] ELSE comp[a]]
  BY DEF cleanAlarmTableJob
<1>3. ASSUME NEW a \in AlarmId
      PROVE  /\ comp'[a] \in Composite \cup {Unused}
             /\ a \in UsedAlarms => comp'[a].rel = comp[a].rel
             /\ \/ comp'[a].status = comp[a].status
                \/ comp[a].status = "ok" /\ comp'[a].status = "deleted"
  <2>1. CASE a <= last /\ comp[a].status = "ok"
    <3>1. PICK c \in Composite : c = comp[a]
      BY <1>1, <2>1, UsedIsComposite DEF UsedAlarms
    <3>2. comp'[a] = [c EXCEPT !.status = "deleted"]
      BY <1>2, <2>1, <3>1
    <3>3. comp'[a] \in Composite /\ comp'[a].rel = c.rel /\ comp'[a].status = "deleted"
      BY <3>2 DEF Composite
    <3> QED
      BY <2>1, <3>1, <3>3
  <2>2. CASE ~(a <= last /\ comp[a].status = "ok")
    BY <1>1, <1>2, <2>2 DEF TypeOK
  <2> QED
    BY <2>1, <2>2
<1>4. comp' \in [AlarmId -> Composite \cup {Unused}]
  <2>1. comp' = [a \in AlarmId |-> comp'[a]]
    BY <1>2
  <2> QED
    BY <1>3, <2>1
<1>5. UNCHANGED <<row, nextRow, nextAlarm, job, abandoned, overlapped>>
  BY DEF cleanAlarmTableJob
<1>6. UsedRows' = UsedRows /\ UsedAlarms' = UsedAlarms
  BY <1>3, <1>5 DEF UsedRows, UsedAlarms
<1>7. \A a \in UsedAlarms : comp'[a].rel = comp[a].rel
  BY <1>3 DEF UsedAlarms
<1>8. /\ Keeps /\ TypeOK' /\ HandedOut' /\ RaisedForAllConditions'
      /\ abandoned' \subseteq UsedAlarms'
  BY <1>1, <1>4, <1>5, <1>6, <1>7, OnlyStatus DEF TypeOK, IInv
<1>9. ASSUME NEW v \in Worker PROVE Knows(job[v])'
  <2>1. PICK k : k = job[v]
    OBVIOUS
  <2>2. Knows(k)'
    BY <1>8, <2>1, KnowsKeeps DEF IInv
  <2> QED
    BY <1>5, <2>1, <2>2
<1>10. ASSUME NEW a \in AlarmId
       PROVE  /\ comp'[a].status = "ok" => \E q \in comp'[a].rel : row'[q].status # "firing"
              /\ comp'[a].status = "closed" /\ a \notin abandoned' => \A q \in comp'[a].rel : row'[q].status = "closed"
  BY <1>3, <1>5 DEF IInv, EndedWithItsConditions, UsedAlarms
<1>11. ASSUME InTurn PROVE InTurn'
  <2>1. FiringRows' = FiringRows /\ FiringAlarms' = FiringAlarms /\ FiringAlarms \subseteq UsedAlarms
    BY <1>3, <1>5 DEF FiringRows, FiringAlarms, UsedAlarms
  <2>2. \A a \in FiringAlarms \cup abandoned : comp'[a].rel = comp[a].rel
    BY <1>7, <2>1 DEF IInv
  <2>3. OneJob' /\ \A v \in Worker : TurnKnows(job[v])'
    BY <1>5, <1>11, <2>1, <2>2 DEF InTurn, OneJob, TurnKnows
  <2>4. OneRow' /\ LastFires' /\ OpenAlarms' /\ Raised'
    BY <1>5, <1>6, <1>11, <2>1, <2>2
       DEF InTurn, OneRow, LastFires, OpenAlarms, Raised, AllFiring
  <2> QED
    BY <2>3, <2>4 DEF InTurn
<1> QED
  BY <1>5, <1>8, <1>9, <1>10, <1>11 DEF IInv, EndedWithItsConditions

(* A step of all the handlers at once that writes no table. *)
LEMMA RestTInv ==
  ASSUME TInv, UNCHANGED_tables, UNCHANGED overlapped,
         job' = [w \in Worker |-> Idle] \/ job' = job
  PROVE  TInv'
<1> USE DEF TInv
<1>1. TypeOK'
  BY IdleFields DEF IInv, TypeOK, UNCHANGED_tables
<1>2. UsedRows' = UsedRows /\ UsedAlarms' = UsedAlarms /\ comp' = comp /\ row' = row
      /\ nextRow' = nextRow /\ nextAlarm' = nextAlarm /\ abandoned' = abandoned
  BY DEF UNCHANGED_tables, UsedRows, UsedAlarms
<1>3. HandedOut' /\ RaisedForAllConditions' /\ EndedWithItsConditions' /\ Keeps
  BY <1>2 DEF IInv, HandedOut, RaisedForAllConditions, EndedWithItsConditions, Keeps
<1>4. ASSUME NEW v \in Worker PROVE Knows(job[v])'
  <2>1. PICK k : k = job'[v]
    OBVIOUS
  <2>2. Knows(k)
    BY <2>1, IdleKnows DEF IInv
  <2>3. Knows(k)'
    BY <1>3, <2>2, KnowsKeeps
  <2> QED
    BY <2>1, <2>3
<1>5. ASSUME InTurn PROVE InTurn'
  <2>1. FiringRows' = FiringRows /\ FiringAlarms' = FiringAlarms
    BY <1>2 DEF FiringRows, FiringAlarms
  <2>2. OneRow' /\ LastFires' /\ OpenAlarms' /\ Raised'
    BY <1>2, <1>5, <2>1 DEF InTurn, OneRow, LastFires, OpenAlarms, Raised, AllFiring
  <2>3. OneJob'
    BY <1>5, IdleFields DEF InTurn, OneJob
  <2>4. ASSUME NEW v \in Worker PROVE TurnKnows(job[v])'
    <3>1. CASE job'[v] = Idle
      BY <3>1, IdleFields DEF TurnKnows
    <3>2. CASE job' = job
      BY <1>2, <1>5, <2>1, <3>2 DEF InTurn, TurnKnows
    <3> QED
      BY <3>1, <3>2
  <2> QED
    BY <2>2, <2>3, <2>4 DEF InTurn
<1> QED
  BY <1>1, <1>2, <1>3, <1>4, <1>5 DEF IInv

(* A closing handler begins with the alarms that it has read. *)
LEMMA BeginCloseTInv ==
  ASSUME TInv, UNCHANGED_tables, NEW w \in Worker, NEW A \in SUBSET UsedAlarms,
         NEW pc \in {"close", "delete"}, Begin(w, [Idle EXCEPT !.pc = pc, !.alarms = A])
  PROVE  TInv'
<1>1. A \in SUBSET AlarmId
  BY DEF UsedAlarms
<1>2. PICK j \in Job : j = [Idle EXCEPT !.pc = pc, !.alarms = A]
  BY <1>1 DEF Idle, Job
<1>3. j.pc = pc /\ j.seen = {} /\ j.alarms = A /\ j.ops = {} /\ j.todo = {}
  BY <1>2, SMT DEF Idle
<1>4. Knows(j)
  BY <1>3 DEF Knows
<1>5. TurnKnows(j)
  BY <1>3 DEF TurnKnows
<1> QED
  BY <1>2, <1>3, <1>4, <1>5, BeginTInv

LEMMA NextTInv == TInv /\ [Next]_vars => TInv'
<1> SUFFICES ASSUME TInv, [Next]_vars PROVE TInv'
  OBVIOUS
<1> USE DEF TInv
<1>1. TypeOK
  BY DEF IInv
<1>2. ASSUME NEW w \in Worker, AcceptAlert(w) PROVE TInv'
  BY <1>2, AcceptTInv
<1>3. ASSUME NEW w \in Worker, buildNewAlarm(w) PROVE TInv'
  BY <1>3, BuildTInv
<1>4. ASSUME NEW w \in Worker, readFiringRows(w) PROVE TInv'
  BY <1>4, ReadRowsTInv
<1>5. ASSUME NEW w \in Worker, readAlarmConditionRel(w) PROVE TInv'
  BY <1>5, ReadRelTInv
<1>6. ASSUME NEW w \in Worker, resolveCondition(w) PROVE TInv'
  BY <1>6, ResolveTInv
<1>7. ASSUME NEW w \in Worker, addCondition(w) PROVE TInv'
  BY <1>7, AddTInv
<1>8. ASSUME NEW w \in Worker, failElement(w) PROVE TInv'
  <2>1. overlapped' \in BOOLEAN /\ overlapped' = overlapped /\ UNCHANGED_tables /\ NextElement(w)
        /\ job[w].pc \in {"rel", "write"}
    BY <1>1, <1>8 DEF failElement, TypeOK
  <2>2. PICK j \in Job : /\ Knows(j) /\ job' = [job EXCEPT ![w] = j]
                         /\ j.pc = "list" /\ j.ops = job[w].ops /\ j.todo = job[w].todo
    BY <2>1, NextElementKnows
  <2>3. InTurn => TurnKnows(j) /\ \A v \in Worker \ {w} : job[v].pc = "idle"
    BY <2>1, <2>2, OthersRest DEF InTurn, TurnKnows
  <2> QED
    BY <2>1, <2>2, <2>3, NoTable
<1>9. ASSUME NEW w \in Worker, finishUpdate(w) \/ rollbackClose(w) PROVE TInv'
  <2>1. overlapped' \in BOOLEAN /\ overlapped' = overlapped /\ UNCHANGED_tables
        /\ job' = [job EXCEPT ![w] = Idle] /\ job[w].pc # "idle"
    BY <1>1, <1>9 DEF finishUpdate, rollbackClose, InUpdateAlarms, TypeOK
  <2>2. TurnKnows(Idle)
    BY IdleFields DEF TurnKnows
  <2>3. InTurn => \A v \in Worker \ {w} : job[v].pc = "idle"
    BY <2>1, OthersRest
  <2> QED
    BY <2>1, <2>2, <2>3, IdleFields, IdleKnows, NoTable
<1>10. ASSUME NEW w \in Worker, CloseAlarm(w) PROVE TInv'
  <2>1. PICK A \in SUBSET FiringAlarms : Begin(w, [Idle EXCEPT !.pc = "close", !.alarms = A])
    BY <1>10 DEF CloseAlarm
  <2>2. A \in SUBSET UsedAlarms
    BY DEF FiringAlarms, UsedAlarms
  <2> QED
    BY <1>10, <2>1, <2>2, BeginCloseTInv DEF CloseAlarm
<1>11. ASSUME NEW w \in Worker, PluginCloseAlarmAction(w) PROVE TInv'
  <2>1. PICK a \in AlarmId : /\ comp[a].status \in {"firing", "ok"}
                             /\ Begin(w, [Idle EXCEPT !.pc = "close", !.alarms = {a}])
    BY <1>11 DEF PluginCloseAlarmAction
  <2>2. PICK A \in SUBSET UsedAlarms : A = {a}
    BY <2>1 DEF UsedAlarms
  <2>3. Begin(w, [Idle EXCEPT !.pc = "close", !.alarms = A])
    BY <2>1, <2>2
  <2> QED
    BY <1>11, <2>3, BeginCloseTInv DEF PluginCloseAlarmAction
<1>15. ASSUME NEW w \in Worker, DeleteEndpoint(w) PROVE TInv'
  <2>1. FiringAlarms \in SUBSET UsedAlarms
    BY DEF FiringAlarms, UsedAlarms
  <2> QED
    BY <1>15, <2>1, BeginCloseTInv DEF DeleteEndpoint
<1>16. ASSUME NEW w \in Worker, deleteTransaction(w) PROVE TInv'
  BY <1>16, DeleteTInv
<1>12. ASSUME NEW w \in Worker, closeTransaction(w) PROVE TInv'
  BY <1>12, CloseTInv
<1>13. ASSUME cleanAlarmTableJob PROVE TInv'
  BY <1>13, CleanTInv
<1>14. ASSUME restart \/ UNCHANGED vars PROVE TInv'
  BY <1>14, RestTInv DEF restart, vars, UNCHANGED_tables
<1> QED
  BY <1>2, <1>3, <1>4, <1>5, <1>6, <1>7, <1>8, <1>9, <1>10, <1>11, <1>12, <1>13, <1>14, <1>15,
     <1>16 DEF Next

LEMMA AlwaysTInv == Spec => []TInv
BY InitTInv, NextTInv, PTL DEF Spec

-----------------------------------------------------------------------------
(* Theorems *)

(* Rows, alarms and local states keep their types. *)
THEOREM TypeCorrect == Spec => []TypeOK
<1>1. TInv => TypeOK
  BY DEF TInv, IInv
<1> QED
  BY <1>1, AlwaysTInv, PTL

(* A composite alarm stands for a row of every condition of its strategy,  *)
(* however the handlers of UpdateAlarmWithConditions overlap.              *)
THEOREM RaisedCorrect == Spec => []RaisedForAllConditions
<1>1. TInv => RaisedForAllConditions
  BY DEF TInv, IInv
<1> QED
  BY <1>1, AlwaysTInv, PTL

(* A composite alarm recovers only with one of its conditions, and when it *)
(* is closed its conditions are closed and stay so, unless it was the      *)
(* deletion of its endpoint that closed it.                                *)
THEOREM EndedCorrect == Spec => []EndedWithItsConditions
<1>1. TInv => EndedWithItsConditions
  BY DEF TInv, IInv
<1> QED
  BY <1>1, AlwaysTInv, PTL

(* As long as handlers take turns: if every condition has a firing row, a  *)
(* composite alarm of exactly these rows is open, or was when its endpoint *)
(* was deleted, whatever failed or was restarted before.                   *)
THEOREM AllConditionsRaiseCorrect == Spec => []AllConditionsRaiseInTurn
<1>1. TInv => AllConditionsRaiseInTurn
  BY DEF TInv, InTurn, Raised, AllConditionsRaiseInTurn
<1> QED
  BY <1>1, AlwaysTInv, PTL

(* As long as handlers take turns: no condition of an open alarm has       *)
(* recovered, and an older open alarm has lost a condition to a close.     *)
THEOREM OpenAlarmCorrect == Spec => []OpenAlarmHasItsConditions
<1>1. TInv => OpenAlarmHasItsConditions
  BY DEF TInv, InTurn, OpenAlarms, OpenAlarmHasItsConditions
<1> QED
  BY <1>1, AlwaysTInv, PTL

(* As long as handlers take turns, a condition has at most one open row.   *)
THEOREM OneRowCorrect == Spec => []OneFiringRowPerCondition
<1>1. TInv => OneFiringRowPerCondition
  BY DEF TInv, InTurn, OneRow, OneFiringRowPerCondition
<1> QED
  BY <1>1, AlwaysTInv, PTL
=============================================================================
