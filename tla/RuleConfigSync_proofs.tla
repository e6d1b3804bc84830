----------------------- MODULE RuleConfigSync_proofs -----------------------
(***************************************************************************)
(* Proofs that the safety properties of RuleConfigSync hold for every set  *)
(* of workers, every capacity of the queue and every bound, and that the   *)
(* rule file implements ConfigMirror.                                      *)
(***************************************************************************)
EXTENDS RuleConfigSync, TLAPS

Carrying(w) == job[w].pc \in {"strategies", "enqueue"}

(* Versions count changes. *)
Counted == \A p \in Part : db.content[p] <= changes

(* Nothing that was read is newer than the database. *)
Behind ==
  /\ AtMost(file, db.content)
  /\ \A i \in 1 .. Len(queue) : AtMost(queue[i].content, db.content)
  /\ \A w \in Worker : AtMost(job[w].content, db.content)

(* Of two that carry a content, both know that they may overtake. *)
RivalsKnow ==
  \A v, w \in Worker : v # w /\ Carrying(v) /\ Carrying(w) => job[w].overtaken

(* The version n of part p is at least as new as all that is written or    *)
(* queued.                                                                 *)
Newest(p, n) ==
  /\ file[p] <= n
  /\ \A i \in 1 .. Len(queue) : queue[i].content[p] <= n

(* A content that was not overtaken is the newest where it stands. *)
QueueForward ==
  \A j \in 1 .. Len(queue) : ~queue[j].overtaken =>
    /\ AtMost(file, queue[j].content)
    /\ \A i \in 1 .. j : AtMost(queue[i].content, queue[j].content)

JobForward ==
  \A w \in Worker : ~job[w].overtaken =>
    /\ Carrying(w) => Newest("endpoints", job[w].content["endpoints"])
    /\ job[w].pc = "enqueue" => Newest("strategies", job[w].content["strategies"])

(* Content v is in the file, or something is on its way that brings it     *)
(* there or tells of its loss.                                             *)
OnItsWay(v, j) ==
  \/ j.pc = "endpoints"
  \/ j.pc \in {"strategies", "enqueue"} /\ j.overtaken
  \/ j.pc = "strategies" /\ v["endpoints"] <= j.content["endpoints"]
  \/ j.pc = "enqueue" /\ AtMost(v, j.content)

Carried(v) ==
  \/ \E w \in Worker : OnItsWay(v, job[w])
  \/ \E i \in 1 .. Len(queue) : queue[i].overtaken \/ AtMost(v, queue[i].content)
  \/ AtMost(v, file)

OwnIsCarried == AtMost(own, db.content) /\ (~upset => Carried(own))

(* What the check does not see, it need not see. *)
SeenOrCarried ==
  ~upset /\ ~missed => Carried(db.content) \/ (StaleRow /\ ~Checking)

MarkIsCheck == \A w \in Worker : job[w].pc = "mark" => job[w].check

Order == Counted /\ Behind /\ RivalsKnow /\ QueueForward /\ JobForward /\ MarkIsCheck
IInv == TypeOK /\ Order /\ OwnIsCarried /\ SeenOrCarried

-----------------------------------------------------------------------------
(* Types *)

LEMMA EmptyType == Empty \in Content /\ Idle \in Job
  BY RuleConfigAssumption DEF Empty, Content, Version, Idle, Job

LEMMA BumpFacts ==
  ASSUME TypeOK, Counted, changes < MaxChanges, NEW P \in SUBSET Part
  PROVE  /\ Bump(P) \in Content
         /\ AtMost(db.content, Bump(P))
         /\ \A p \in Part : Bump(P)[p] <= changes + 1
<1>1. \A p \in Part : db.content[p] \in Nat /\ db.content[p] <= changes
  BY RuleConfigAssumption DEF TypeOK, Content, Version, Counted
<1>2. changes \in Nat
  BY RuleConfigAssumption DEF TypeOK
<1>3. \A p \in Part : Bump(P)[p] = IF p \in P THEN db.content[p] + 1 ELSE db.content[p]
  BY DEF Bump
<1>4. \A p \in Part : Bump(P)[p] \in Version
  BY <1>1, <1>2, <1>3, RuleConfigAssumption DEF Version
<1> QED BY <1>1, <1>2, <1>3, <1>4 DEF Bump, Content, AtMost

(* A new content that competes leaves the other jobs as they are, but for  *)
(* what they know of each other.                                           *)
LEMMA CompeteFacts ==
  ASSUME TypeOK, NEW w \in Worker, NEW j \in Job, Compete(w, j)
  PROVE  /\ job' \in [Worker -> Job]
         /\ job'[w].pc = j.pc /\ job'[w].check = j.check /\ job'[w].content = j.content
         /\ \A v \in Worker \ {w} :
              /\ job'[v].pc = job[v].pc /\ job'[v].check = job[v].check
              /\ job'[v].content = job[v].content
              /\ job[v].overtaken => job'[v].overtaken
              /\ Carrying(v) => job'[v].overtaken /\ job'[w].overtaken
<1> DEFINE rivals == {v \in Worker \ {w} : job[v].pc \in {"strategies", "enqueue"}}
<1>1. job' = [v \in Worker |->
               IF v = w THEN [j EXCEPT !.overtaken = (rivals # {})]
               ELSE IF v \in rivals THEN [job[v] EXCEPT !.overtaken = TRUE]
               ELSE job[v]]
  BY Zenon DEF Compete
<1>2. (rivals # {}) \in BOOLEAN
  OBVIOUS
<1>3. PICK b \in BOOLEAN : b = (rivals # {})
  BY <1>2
<1>4. [j EXCEPT !.overtaken = b] \in Job
  BY DEF Job
<1>5. job'[w] = [j EXCEPT !.overtaken = b]
  BY <1>1, <1>3, Zenon
<1>6. \A v \in rivals : job'[v] = [job[v] EXCEPT !.overtaken = TRUE]
  BY <1>1
<1>7. \A v \in Worker : v # w /\ v \notin rivals => job'[v] = job[v]
  BY <1>1
<1>8. \A v \in Worker : job[v] \in Job
  BY DEF TypeOK
<1>9. \A v \in Worker : job'[v] \in Job
  <2> TAKE v \in Worker
  <2>1. CASE v = w
    BY <2>1, <1>4, <1>5
  <2>2. CASE v \in rivals
    BY <2>2, <1>6, <1>8 DEF Job
  <2> QED BY <2>1, <2>2, <1>7, <1>8
<1>10. job' \in [Worker -> Job]
  <2>1. job' = [v \in Worker |-> job'[v]]
    BY <1>1, Zenon
  <2> QED BY <2>1, <1>9
<1>11. \A v \in rivals : job'[v].overtaken /\ job'[w].overtaken
  <2> TAKE v \in rivals
  <2>1. b = TRUE
    BY <1>3
  <2>2. job'[w].overtaken = TRUE
    BY <2>1, <1>5, <1>4 DEF Job
  <2>3. job'[v].overtaken = TRUE
    BY <1>6, <1>8 DEF Job
  <2> QED BY <2>2, <2>3
<1>12. /\ job'[w].pc = j.pc /\ job'[w].check = j.check /\ job'[w].content = j.content
  BY <1>5 DEF Job
<1>13. ASSUME NEW v \in Worker \ {w}
       PROVE  /\ job'[v].pc = job[v].pc /\ job'[v].check = job[v].check
              /\ job'[v].content = job[v].content
              /\ job[v].overtaken => job'[v].overtaken
  <2>1. CASE v \in rivals
    BY <2>1, <1>6, <1>8 DEF Job
  <2> QED BY <2>1, <1>7
<1> QED BY <1>10, <1>11, <1>12, <1>13 DEF Carrying

-----------------------------------------------------------------------------
(* What the transactions of handlers do, here and elsewhere. *)

DbGrows ==
  /\ changes' \in 0 .. MaxChanges
  /\ db' \in [exists : BOOLEAN, content : Content, strategyTime : Time, groupTime : Time]
  /\ Counted'
  /\ AtMost(db.content, db'.content)
  /\ UNCHANGED <<now, syncTime, queue, file, loaded, upset>>

ChangedHere(w) ==
  /\ job[w].pc = "idle"
  /\ job' = [job EXCEPT ![w] = [Idle EXCEPT !.pc = "endpoints"]]
  /\ own' = db'.content /\ missed' = missed

DeletedHere(w) ==
  /\ job[w].pc = "idle"
  /\ Compete(w, [Idle EXCEPT !.pc = "enqueue", !.content = db'.content])
  /\ own' = db'.content /\ missed' = missed

ChangedElsewhere ==
  /\ UNCHANGED <<job, own>>
  /\ missed' \in BOOLEAN
  /\ ~missed' =>
       /\ ~missed
       /\ \/ db'.content = db.content /\ ~StaleRow
          \/ StaleRow' /\ ~Checking

Changed == 
  /\ DbGrows
  /\ \/ \E w \in Worker : ChangedHere(w) \/ DeletedHere(w)
     \/ ChangedElsewhere

LEMMA NatFacts ==
  ASSUME TypeOK
  PROVE  /\ now \in Nat /\ changes \in Nat /\ syncTime \in Nat /\ MaxTime \in Nat
         /\ db.strategyTime \in Nat /\ db.groupTime \in Nat
         /\ 0 \in Time /\ Stamp \subseteq Time
  BY RuleConfigAssumption DEF TypeOK, Time, Stamp

LEMMA UpdateStrategyChanges ==
  ASSUME TypeOK, Counted, NEW w \in Worker \cup {Elsewhere}, UpdateAlarmStrategy(w)
  PROVE  Changed
<1> DEFINE C == Bump({"strategies"})
<1>1. PICK stamp \in Stamp : \E t \in {stamp, db.strategyTime} :
        /\ t >= stamp
        /\ db' = [db EXCEPT !.content = C, !.strategyTime = t]
        /\ SyncAfter(w, stamp > syncTime)
  BY Zenon DEF UpdateAlarmStrategy
<1>2. PICK t \in {stamp, db.strategyTime} :
        /\ t >= stamp
        /\ db' = [db EXCEPT !.content = C, !.strategyTime = t]
        /\ SyncAfter(w, stamp > syncTime)
  BY <1>1
<1>3. /\ CanChange(w, TRUE)
      /\ changes < MaxChanges
  BY Zenon DEF UpdateAlarmStrategy, CanChange
<1>4. /\ C \in Content /\ AtMost(db.content, C) /\ \A p \in Part : C[p] <= changes + 1
  BY <1>3, BumpFacts, Zenon DEF Part
<1> HIDE DEF C
<1>5. t \in Time /\ stamp \in Time
  BY NatFacts DEF TypeOK
<1>6. /\ db' \in [exists : BOOLEAN, content : Content, strategyTime : Time, groupTime : Time]
      /\ db'.content = C /\ db'.strategyTime = t /\ db'.exists
  BY <1>2, <1>3, <1>4, <1>5 DEF TypeOK, CanChange
<1>7. DbGrows
  BY <1>3, <1>4, <1>6, NatFacts, RuleConfigAssumption
  DEF DbGrows, Counted, CanChange, config
<1>8. CASE w \in Worker
  <2>1. ChangedHere(w)
    BY <1>8, <1>2, <1>3 DEF ChangedHere, SyncAfter, CanChange
  <2> QED BY <1>7, <1>8, <2>1 DEF Changed
<1>9. CASE w \notin Worker
  <2>1. stamp > syncTime => StaleRow'
    BY <1>2, <1>5, <1>6, <1>7, NatFacts DEF StaleRow, DbGrows, Time
  <2>2. ChangedElsewhere
    BY <1>9, <1>2, <2>1 DEF ChangedElsewhere, SyncAfter, TypeOK
  <2> QED BY <1>7, <2>2 DEF Changed
<1> QED BY <1>8, <1>9

LEMMA DeleteStrategyChanges ==
  ASSUME TypeOK, Counted, NEW w \in Worker \cup {Elsewhere}, DeleteAlarmStrategy(w)
  PROVE  Changed
<1> DEFINE C == Bump({"strategies"})
<1>1. PICK t \in {0, db.strategyTime} : db' = [db EXCEPT !.content = C, !.strategyTime = t]
  BY Zenon DEF DeleteAlarmStrategy
<1>2. CanChange(w, TRUE) /\ SyncAfter(w, FALSE) /\ changes < MaxChanges
  BY Zenon DEF DeleteAlarmStrategy, CanChange
<1>3. /\ C \in Content /\ AtMost(db.content, C) /\ \A p \in Part : C[p] <= changes + 1
  BY <1>2, BumpFacts, Zenon DEF Part
<1> HIDE DEF C
<1>4. t \in Time
  BY NatFacts DEF TypeOK
<1>5. /\ db' \in [exists : BOOLEAN, content : Content, strategyTime : Time, groupTime : Time]
      /\ db'.content = C
  BY <1>1, <1>3, <1>4 DEF TypeOK
<1>6. DbGrows
  BY <1>2, <1>3, <1>5, NatFacts, RuleConfigAssumption
  DEF DbGrows, Counted, CanChange, config
<1>7. CASE w \in Worker
  BY <1>2, <1>6, <1>7 DEF Changed, ChangedHere, SyncAfter, CanChange
<1>8. CASE w \notin Worker
  BY <1>2, <1>6, <1>8 DEF Changed, ChangedElsewhere, SyncAfter, TypeOK
<1> QED BY <1>7, <1>8

(* A new update time and other endpoints. *)
LEMMA EndpointsChange ==
  ASSUME TypeOK, Counted, NEW w \in Worker \cup {Elsewhere}, CanChange(w, TRUE),
         NEW stamp \in Stamp,
         db' = [db EXCEPT !.content = Bump({"endpoints"}), !.groupTime = stamp],
         SyncAfter(w, stamp > syncTime)
  PROVE  Changed
<1> DEFINE C == Bump({"endpoints"})
<1>1. changes < MaxChanges
  BY DEF CanChange
<1>2. /\ C \in Content /\ AtMost(db.content, C) /\ \A p \in Part : C[p] <= changes + 1
  BY <1>1, BumpFacts, Zenon DEF Part
<1>3. db' = [db EXCEPT !.content = C, !.groupTime = stamp]
  OBVIOUS
<1> HIDE DEF C
<1>4. stamp \in Time
  BY NatFacts
<1>5. /\ db' \in [exists : BOOLEAN, content : Content, strategyTime : Time, groupTime : Time]
      /\ db'.content = C /\ db'.groupTime = stamp /\ db'.exists
  BY <1>2, <1>3, <1>4 DEF TypeOK, CanChange
<1>6. DbGrows
  BY <1>2, <1>5, NatFacts, RuleConfigAssumption DEF DbGrows, Counted, CanChange, config
<1>7. CASE w \in Worker
  BY <1>5, <1>6, <1>7 DEF Changed, ChangedHere, SyncAfter, CanChange
<1>8. CASE w \notin Worker
  <2>1. stamp > syncTime => StaleRow'
    BY <1>4, <1>5, <1>6, NatFacts DEF StaleRow, DbGrows, Time
  <2> QED BY <1>6, <1>8, <2>1 DEF Changed, ChangedElsewhere, SyncAfter, TypeOK
<1> QED BY <1>7, <1>8

LEMMA CreateGroupChanges ==
  ASSUME TypeOK, Counted, CreateEndpointGroup
  PROVE  Changed
<1>1. PICK stamp \in Stamp : db' = [db EXCEPT !.exists = TRUE, !.groupTime = stamp]
  BY DEF CreateEndpointGroup
<1>2. stamp \in Time
  BY NatFacts
<1>3. /\ db' \in [exists : BOOLEAN, content : Content, strategyTime : Time, groupTime : Time]
      /\ db'.content = db.content
  BY <1>1, <1>2 DEF TypeOK
<1>4. CanChange(Elsewhere, FALSE) /\ UNCHANGED <<job, own, missed>>
  BY DEF CreateEndpointGroup
<1>5. ~StaleRow
  BY <1>4 DEF StaleRow, CanChange
<1>6. AtMost(db.content, db.content)
  BY DEF AtMost, TypeOK, Content, Version
<1>7. \A p \in Part : db.content[p] \in Nat /\ db.content[p] <= changes
  BY RuleConfigAssumption DEF TypeOK, Content, Version, Counted
<1>8. DbGrows
  BY <1>3, <1>4, <1>6, <1>7, NatFacts, RuleConfigAssumption
  DEF DbGrows, Counted, CanChange, config
<1> QED BY <1>3, <1>4, <1>5, <1>8 DEF Changed, ChangedElsewhere, TypeOK

LEMMA DeleteGroupChanges ==
  ASSUME TypeOK, Counted, NEW w \in Worker \cup {Elsewhere}, DeleteEndpointGroup(w)
  PROVE  Changed
<1> DEFINE C == Bump(Part)
<1>1. /\ CanChange(w, TRUE) /\ changes < MaxChanges /\ db' = NoGroup
      /\ IF w \in Worker
         THEN /\ Compete(w, [Idle EXCEPT !.pc = "enqueue", !.content = NoGroup.content])
              /\ own' = NoGroup.content /\ missed' = missed
         ELSE SyncAfter(w, FALSE)
  BY Zenon DEF DeleteEndpointGroup, CanChange
<1>2. /\ C \in Content /\ AtMost(db.content, C) /\ \A p \in Part : C[p] <= changes + 1
  BY <1>1, BumpFacts, Zenon
<1>3. NoGroup = [exists |-> FALSE, content |-> C, strategyTime |-> 0, groupTime |-> 0]
  BY DEF NoGroup
<1> HIDE DEF C
<1>4. /\ db' \in [exists : BOOLEAN, content : Content, strategyTime : Time, groupTime : Time]
      /\ db'.content = C
  BY <1>1, <1>2, <1>3, NatFacts
<1>5. DbGrows
  BY <1>1, <1>2, <1>4, NatFacts, RuleConfigAssumption DEF DbGrows, Counted, CanChange, config
<1>6. CASE w \in Worker
  <2>1. Compete(w, [Idle EXCEPT !.pc = "enqueue", !.content = db'.content])
    BY <1>1, <1>6, Zenon
  <2>2. DeletedHere(w)
    BY <2>1, <1>1, <1>6 DEF DeletedHere, CanChange
  <2> QED BY <1>5, <1>6, <2>2 DEF Changed
<1>7. CASE w \notin Worker
  BY <1>1, <1>5, <1>7 DEF Changed, ChangedElsewhere, SyncAfter, TypeOK
<1> QED BY <1>6, <1>7

-----------------------------------------------------------------------------
(* The parts of the invariant that several actions keep for one reason. *)

LEMMA AtMostTransitive ==
  ASSUME NEW a \in Content, NEW b \in Content, NEW c \in Content,
         AtMost(a, b), AtMost(b, c)
  PROVE  AtMost(a, c)
  BY RuleConfigAssumption DEF AtMost, Content, Version

LEMMA QueueType ==
  ASSUME TypeOK
  PROVE  /\ Len(queue) \in Nat
         /\ \A i \in 1 .. Len(queue) :
              queue[i] \in [content : Content, overtaken : BOOLEAN]
<1> DEFINE R == [content : Content, overtaken : BOOLEAN]
<1>1. queue \in Seq(R)
  BY DEF TypeOK
<1> HIDE DEF R
<1>2. Len(queue) \in Nat /\ \A i \in 1 .. Len(queue) : queue[i] \in R
  BY <1>1
<1> QED BY <1>2 DEF R

LEMMA HeadFacts ==
  ASSUME TypeOK, queue # <<>>
  PROVE  Head(queue) = queue[1] /\ 1 \in 1 .. Len(queue)
<1> DEFINE R == [content : Content, overtaken : BOOLEAN]
<1>1. queue \in Seq(R)
  BY DEF TypeOK
<1> HIDE DEF R
<1> QED BY <1>1

(* What is as new as the database is newer than all that is written. *)
LEMMA DatabaseIsNewest ==
  ASSUME TypeOK, Behind, NEW c \in Content, AtMost(db.content, c)
  PROVE  \A p \in Part : Newest(p, c[p])
<1>1. AtMost(file, c)
  BY AtMostTransitive DEF Behind, TypeOK
<1>2. \A i \in 1 .. Len(queue) : AtMost(queue[i].content, c)
  BY QueueType, AtMostTransitive DEF Behind, TypeOK
<1> QED BY <1>1, <1>2 DEF AtMost, Newest

(* A goroutine that carries nothing yet takes up content j. *)
LEMMA CompeteKeeps ==
  ASSUME TypeOK, RivalsKnow, JobForward, NEW w \in Worker, ~Carrying(w),
         NEW j \in Job, Compete(w, j), UNCHANGED <<queue, file>>,
         \A p \in Part : p = "endpoints" \/ j.pc = "enqueue" => Newest(p, j.content[p])
  PROVE  /\ RivalsKnow' /\ JobForward'
         /\ \A v \in Content : \A u \in Worker \ {w} :
              OnItsWay(v, job[u]) => OnItsWay(v, job'[u])
<1>1. /\ job' \in [Worker -> Job]
      /\ job'[w].pc = j.pc /\ job'[w].content = j.content
      /\ \A v \in Worker \ {w} :
           /\ job'[v].pc = job[v].pc
           /\ job'[v].content = job[v].content
           /\ job[v].overtaken => job'[v].overtaken
           /\ Carrying(v) => job'[v].overtaken /\ job'[w].overtaken
  BY CompeteFacts
<1>2. RivalsKnow'
  <2> SUFFICES ASSUME NEW u \in Worker, NEW v \in Worker, u # v,
                      Carrying(u)', Carrying(v)'
               PROVE  job'[v].overtaken
    BY DEF RivalsKnow
  <2>1. CASE u = w
    BY <2>1, <1>1 DEF Carrying
  <2>2. CASE v = w
    BY <2>2, <1>1 DEF Carrying
  <2>3. CASE u # w /\ v # w
    BY <2>3, <1>1 DEF Carrying, RivalsKnow
  <2> QED BY <2>1, <2>2, <2>3
<1>3. \A p, n : Newest(p, n)' <=> Newest(p, n)
  BY DEF Newest
<1>4. JobForward'
  <2> SUFFICES ASSUME NEW u \in Worker, ~job'[u].overtaken
               PROVE  /\ Carrying(u)' => Newest("endpoints", job[u].content["endpoints"])'
                      /\ job'[u].pc = "enqueue" =>
                           Newest("strategies", job[u].content["strategies"])'
    BY DEF JobForward
  <2>1. CASE u = w
    <3>1. \A p \in Part :
            p = "endpoints" \/ job'[u].pc = "enqueue" => Newest(p, job[u].content[p])'
      BY <2>1, <1>1 DEF Newest
    <3> QED BY <3>1 DEF Part
  <2>2. CASE u # w
    <3>1. ~job[u].overtaken /\ job'[u].pc = job[u].pc /\ job'[u].content = job[u].content
      BY <2>2, <1>1
    <3>2. /\ Carrying(u) => Newest("endpoints", job[u].content["endpoints"])
          /\ job[u].pc = "enqueue" => Newest("strategies", job[u].content["strategies"])
      BY <3>1 DEF JobForward
    <3> QED BY <3>1, <3>2 DEF Carrying, Newest
  <2> QED BY <2>1, <2>2
<1>5. \A v \in Content : \A u \in Worker \ {w} :
        OnItsWay(v, job[u]) => OnItsWay(v, job'[u])
  BY <1>1 DEF OnItsWay
<1> QED BY <1>2, <1>4, <1>5

(* One that goes on without carrying anything disturbs no order. *)
LEMMA OthersKeepOrder ==
  ASSUME TypeOK, RivalsKnow, JobForward, NEW w \in Worker,
         NEW k \in Job, k.pc \notin {"strategies", "enqueue"},
         job' = [job EXCEPT ![w] = k], UNCHANGED <<queue, file>>
  PROVE  /\ job' \in [Worker -> Job]
         /\ RivalsKnow' /\ JobForward'
         /\ \A u \in Worker \ {w} : job'[u] = job[u]
         /\ job'[w] = k
<1>1. /\ job' \in [Worker -> Job] /\ job'[w] = k
      /\ \A u \in Worker \ {w} : job'[u] = job[u]
  BY DEF TypeOK
<1>2. \A u \in Worker : Carrying(u)' => u # w /\ Carrying(u)
  BY <1>1 DEF Carrying
<1>3. RivalsKnow'
  BY <1>1, <1>2 DEF RivalsKnow
<1>4. JobForward'
  <2> SUFFICES ASSUME NEW u \in Worker, ~job'[u].overtaken, u # w
               PROVE  /\ Carrying(u)' => Newest("endpoints", job[u].content["endpoints"])'
                      /\ job'[u].pc = "enqueue" =>
                           Newest("strategies", job[u].content["strategies"])'
    BY <1>1, <1>2 DEF JobForward, Carrying
  <2>1. job'[u] = job[u]
    BY <1>1
  <2> QED BY <2>1 DEF JobForward, Carrying, Newest
<1> QED BY <1>1, <1>3, <1>4

LEMMA QueueForwardSame ==
  ASSUME QueueForward, UNCHANGED <<queue, file>>
  PROVE  QueueForward'
  BY DEF QueueForward

(* What carried v goes on to carry it. *)
LEMMA CarriedSame ==
  ASSUME NEW v \in Content, Carried(v), UNCHANGED <<queue, file>>,
         \A u \in Worker : OnItsWay(v, job[u]) => OnItsWay(v, job'[u])
  PROVE  Carried(v)'
  BY DEF Carried

-----------------------------------------------------------------------------
(* The invariant, action by action *)

LEMMA ChangedIInv ==
  ASSUME IInv, Changed
  PROVE  IInv'
<1>1. TypeOK /\ Behind /\ RivalsKnow /\ QueueForward /\ JobForward /\ MarkIsCheck /\ DbGrows
  BY DEF IInv, Order, Changed
<1>2. /\ db.content \in Content /\ db'.content \in Content
      /\ AtMost(db.content, db'.content) /\ UNCHANGED <<queue, file>>
  BY <1>1 DEF TypeOK, DbGrows
<1>3. \A c \in Content : AtMost(c, db.content) => AtMost(c, db'.content)
  BY <1>2, AtMostTransitive
<1>4. /\ AtMost(file, db'.content)
      /\ \A i \in 1 .. Len(queue) : AtMost(queue[i].content, db'.content)
  BY <1>1, <1>3, QueueType DEF Behind, TypeOK
<1>5. AtMost(db'.content, db'.content) /\ AtMost(Empty, db'.content)
  BY <1>2, RuleConfigAssumption DEF AtMost, Content, Version, Empty
<1>6. QueueForward'
  BY <1>1, <1>2, QueueForwardSame
<1>7. \A w \in Worker : job[w].content \in Content /\ AtMost(job[w].content, db'.content)
  BY <1>1, <1>3 DEF Behind, TypeOK, Job
<1>8. \A v \in Content : UNCHANGED job /\ Carried(v) => Carried(v)'
  BY <1>2, CarriedSame
<1>9. ASSUME NEW w \in Worker, ChangedHere(w) \/ DeletedHere(w)
      PROVE  /\ job' \in [Worker -> Job] /\ RivalsKnow' /\ JobForward' /\ MarkIsCheck'
             /\ \A u \in Worker : AtMost(job'[u].content, db'.content)
             /\ OnItsWay(db'.content, job'[w])
             /\ own' = db'.content /\ missed' = missed
  <2>1. CASE ChangedHere(w)
    <3>1. PICK k \in Job : k = [Idle EXCEPT !.pc = "endpoints"]
      BY EmptyType DEF Idle, Job
    <3>2. k.pc = "endpoints" /\ k.content = Empty
      BY <3>1 DEF Idle
    <3>3. job' = [job EXCEPT ![w] = k]
      BY <2>1, <3>1 DEF ChangedHere
    <3>4. /\ job' \in [Worker -> Job] /\ RivalsKnow' /\ JobForward'
          /\ \A u \in Worker \ {w} : job'[u] = job[u]
          /\ job'[w] = k
      BY <1>1, <1>2, <3>2, <3>3, OthersKeepOrder
    <3>5. OnItsWay(db'.content, job'[w])
      BY <3>2, <3>4 DEF OnItsWay
    <3>6. MarkIsCheck'
      BY <1>1, <3>2, <3>4 DEF MarkIsCheck
    <3> QED BY <2>1, <1>5, <1>7, <3>2, <3>4, <3>5, <3>6 DEF ChangedHere
  <2>2. CASE DeletedHere(w)
    <3>1. PICK k \in Job : k = [Idle EXCEPT !.pc = "enqueue", !.content = db'.content]
      BY <1>2, EmptyType DEF Idle, Job
    <3>2. k.pc = "enqueue" /\ k.content = db'.content
      BY <3>1 DEF Idle
    <3>3. Compete(w, k) /\ ~Carrying(w)
      BY <2>2, <3>1, Zenon DEF DeletedHere, Carrying
    <3>4. \A p \in Part : Newest(p, k.content[p])
      BY <1>1, <1>2, <3>2, DatabaseIsNewest
    <3>5. RivalsKnow' /\ JobForward'
      BY <1>1, <1>2, <3>3, <3>4, CompeteKeeps
    <3>6. /\ job' \in [Worker -> Job]
          /\ job'[w].pc = "enqueue" /\ job'[w].content = db'.content
          /\ \A u \in Worker \ {w} : /\ job'[u].content = job[u].content
                                     /\ job'[u].pc = job[u].pc
                                     /\ job'[u].check = job[u].check
      BY <1>1, <3>2, <3>3, CompeteFacts
    <3>7. OnItsWay(db'.content, job'[w])
      BY <1>5, <3>6 DEF OnItsWay
    <3>8. MarkIsCheck'
      BY <1>1, <3>6 DEF MarkIsCheck
    <3> QED BY <2>2, <1>5, <1>7, <3>5, <3>6, <3>7, <3>8 DEF DeletedHere
  <2> QED BY <1>9, <2>1, <2>2
<1>10. CASE \E w \in Worker : ChangedHere(w) \/ DeletedHere(w)
  <2>1. PICK w \in Worker : ChangedHere(w) \/ DeletedHere(w)
    BY <1>10
  <2>2. /\ job' \in [Worker -> Job] /\ RivalsKnow' /\ JobForward' /\ MarkIsCheck'
        /\ \A u \in Worker : AtMost(job'[u].content, db'.content)
        /\ OnItsWay(db'.content, job'[w])
        /\ own' = db'.content /\ missed' = missed
    BY <2>1, <1>9
  <2>3. TypeOK'
    BY <1>1, <1>2, <2>2 DEF TypeOK, DbGrows
  <2>4. Behind'
    BY <1>2, <1>4, <2>2 DEF Behind
  <2>5. OwnIsCarried' /\ SeenOrCarried'
    BY <1>5, <2>2 DEF OwnIsCarried, SeenOrCarried, Carried
  <2> QED BY <1>1, <1>6, <2>2, <2>3, <2>4, <2>5 DEF IInv, Order, DbGrows
<1>11. CASE ChangedElsewhere
  <2>1. UNCHANGED <<job, own>> /\ missed' \in BOOLEAN
    BY <1>11 DEF ChangedElsewhere
  <2>2. TypeOK'
    BY <1>1, <2>1 DEF TypeOK, DbGrows
  <2>3. Behind'
    BY <1>2, <1>4, <1>7, <2>1 DEF Behind
  <2>4. RivalsKnow' /\ JobForward' /\ MarkIsCheck'
    BY <1>1, <1>2, <2>1 DEF RivalsKnow, JobForward, MarkIsCheck, Carrying, Newest
  <2>5. OwnIsCarried'
    <3>1. PICK v \in Content : v = own
      BY <1>1 DEF TypeOK
    <3>2. upset' = upset
      BY <1>1 DEF DbGrows
    <3>3. AtMost(v, db'.content) /\ (~upset => Carried(v))
      BY <3>1, <1>3 DEF IInv, OwnIsCarried
    <3>4. ~upset => Carried(v)'
      BY <3>3, <1>8, <2>1
    <3> QED BY <3>1, <3>2, <3>3, <3>4, <2>1 DEF OwnIsCarried
  <2>6. SeenOrCarried'
    <3> SUFFICES ASSUME ~upset', ~missed'
                 PROVE  Carried(db.content)' \/ (StaleRow' /\ ~Checking')
      BY DEF SeenOrCarried
    <3>1. ~upset /\ ~missed
      BY <1>1, <1>11 DEF DbGrows, ChangedElsewhere
    <3>2. Checking' <=> Checking
      BY <2>1 DEF Checking
    <3>3. CASE StaleRow' /\ ~Checking
      BY <3>2, <3>3
    <3>4. CASE db'.content = db.content /\ ~StaleRow
      <4>1. PICK v \in Content : v = db.content
        BY <1>2
      <4>2. Carried(v)
        BY <3>1, <3>4, <4>1 DEF IInv, SeenOrCarried
      <4>3. Carried(v)'
        BY <4>2, <1>8, <2>1
      <4> QED BY <3>4, <4>1, <4>3
    <3> QED BY <1>11, <3>3, <3>4 DEF ChangedElsewhere
  <2> QED BY <1>1, <1>6, <2>2, <2>3, <2>4, <2>5, <2>6 DEF IInv, Order, DbGrows
<1> QED BY <1>10, <1>11 DEF Changed

LEMMA DoneFacts ==
  ASSUME NEW j \in Job
  PROVE  /\ Done(j) \in Job /\ Done(j).pc \notin {"strategies", "enqueue"}
         /\ Done(j).check = j.check /\ Done(j).content = Empty
         /\ Done(j).pc = "mark" => Done(j).check
  BY EmptyType DEF Done, Idle, Job

(* Steps of one goroutine that leave it without a content. *)
LEMMA DropIInv ==
  ASSUME IInv, NEW w \in Worker, NEW k \in Job, k.pc \notin {"strategies", "enqueue"},
         k.content = Empty, k.pc = "mark" => k.check,
         job' = [job EXCEPT ![w] = k], syncTime' \in Time,
         UNCHANGED <<bounds, db, queue, file, loaded, own, missed>>,
         upset' \in BOOLEAN, upset => upset',
         ~upset' => (\A v \in Content : OnItsWay(v, job[w]) => OnItsWay(v, k)),
         SeenOrCarried'
  PROVE  IInv'
<1>1. TypeOK /\ Counted /\ Behind /\ RivalsKnow /\ QueueForward /\ JobForward /\ MarkIsCheck
  BY DEF IInv, Order
<1>2. /\ job' \in [Worker -> Job] /\ RivalsKnow' /\ JobForward'
      /\ \A u \in Worker \ {w} : job'[u] = job[u]
      /\ job'[w] = k
  BY <1>1, OthersKeepOrder
<1>3. AtMost(Empty, db.content)
  BY <1>1, RuleConfigAssumption DEF AtMost, Empty, TypeOK, Content, Version
<1>4. Counted' /\ Behind' /\ QueueForward' /\ MarkIsCheck'
  BY <1>1, <1>2, <1>3 DEF bounds, Counted, Behind, QueueForward, MarkIsCheck
<1>5. TypeOK'
  BY <1>1, <1>2 DEF TypeOK, bounds
<1>6. OwnIsCarried'
  <2>1. PICK v \in Content : v = own
    BY <1>1 DEF TypeOK
  <2>2. AtMost(v, db.content) /\ (~upset => Carried(v))
    BY <2>1 DEF IInv, OwnIsCarried
  <2>3. ~upset' => Carried(v)'
    BY <2>2, <1>2, CarriedSame
  <2> QED BY <2>1, <2>2, <2>3 DEF OwnIsCarried
<1> QED BY <1>2, <1>4, <1>5, <1>6 DEF IInv, Order

LEMMA CheckIInv ==
  ASSUME IInv, NEW w \in Worker, NEW refreshAll \in BOOLEAN, checkRuleConfigTime(w, refreshAll)
  PROVE  IInv'
<1>1. TypeOK /\ job[w].pc = "idle" /\ UNCHANGED <<bounds, db, config, history>>
  BY DEF IInv, checkRuleConfigTime
<1>2. PICK pc \in {"endpoints", "mark"} :
        /\ job' = [job EXCEPT ![w] = [Idle EXCEPT !.check = TRUE, !.pc = pc]]
        /\ StaleRow => pc = "endpoints"
  BY DEF checkRuleConfigTime
<1>3. PICK k \in Job : k = [Idle EXCEPT !.check = TRUE, !.pc = pc]
  BY <1>2, EmptyType DEF Idle, Job
<1>4. k.pc = pc /\ k.check /\ k.content = Empty
  BY <1>3 DEF Idle
<1>5. \A v \in Content : ~OnItsWay(v, job[w])
  BY <1>1 DEF OnItsWay
<1>6. job' = [job EXCEPT ![w] = k]
  BY <1>2, <1>3
<1>7. job'[w] = k /\ \A u \in Worker \ {w} : job'[u] = job[u]
  BY <1>1, <1>6 DEF TypeOK
<1>8. SeenOrCarried'
  <2> SUFFICES ASSUME ~upset, ~missed
               PROVE  Carried(db.content)'
    BY <1>1 DEF SeenOrCarried, history
  <2>1. PICK v \in Content : v = db.content
    BY <1>1 DEF TypeOK
  <2>2. CASE Carried(v)
    <3>1. Carried(v)'
      BY <2>2, <1>1, <1>5, <1>7, CarriedSame DEF config
    <3> QED BY <3>1, <2>1, <1>1
  <2>3. CASE StaleRow
    BY <2>3, <1>2, <1>4, <1>7 DEF Carried, OnItsWay
  <2> QED BY <2>1, <2>2, <2>3 DEF IInv, SeenOrCarried
<1> QED BY <1>1, <1>2, <1>4, <1>5, <1>6, <1>8, DropIInv DEF TypeOK, config, history

LEMMA MarkIInv ==
  ASSUME IInv, NEW w \in Worker, mark(w)
  PROVE  IInv'
<1>1. /\ TypeOK /\ job[w].pc = "mark" /\ syncTime' = now
      /\ job' = [job EXCEPT ![w] = Idle]
      /\ UNCHANGED <<bounds, db, queue, file, loaded, history>>
  BY DEF IInv, mark
<1>2. Checking
  BY <1>1 DEF IInv, Order, MarkIsCheck, Checking
<1>3. Idle.pc = "idle" /\ Idle.content = Empty
  BY DEF Idle
<1>4. job'[w] = Idle /\ \A u \in Worker \ {w} : job'[u] = job[u]
  BY <1>1 DEF TypeOK
<1>5. \A v \in Content : ~OnItsWay(v, job[w])
  BY <1>1 DEF OnItsWay
<1>6. SeenOrCarried'
  <2> SUFFICES ASSUME ~upset, ~missed
               PROVE  Carried(db.content)'
    BY <1>1 DEF SeenOrCarried, history
  <2>1. PICK v \in Content : v = db.content
    BY <1>1 DEF TypeOK
  <2>2. Carried(v)
    BY <1>2, <2>1 DEF IInv, SeenOrCarried
  <2>3. Carried(v)'
    BY <2>2, <1>1, <1>4, <1>5, CarriedSame
  <2> QED BY <2>1, <2>3, <1>1
<1> QED BY <1>1, <1>3, <1>5, <1>6, EmptyType, DropIInv DEF TypeOK, bounds, history, Time

LEMMA ReadEndpointsIInv ==
  ASSUME IInv, NEW w \in Worker, readEndpoints(w)
  PROVE  IInv'
<1>1. /\ TypeOK /\ Counted /\ Behind /\ RivalsKnow /\ QueueForward /\ JobForward /\ MarkIsCheck
      /\ job[w].pc = "endpoints" /\ job[w] \in Job
      /\ UNCHANGED <<bounds, db, config, own, missed>>
  BY DEF IInv, Order, readEndpoints, TypeOK
<1>2. CASE ~db.exists
  <2>1. upset' = TRUE /\ job' = [job EXCEPT ![w] = Done(job[w])]
    BY <1>2 DEF readEndpoints
  <2>2. SeenOrCarried'
    BY <2>1 DEF SeenOrCarried
  <2> QED BY <1>1, <2>1, <2>2, DoneFacts, DropIInv DEF TypeOK, config
<1>3. CASE db.exists
  <2>0. db.content \in Content /\ AtMost(job[w].content, db.content)
    BY <1>1 DEF TypeOK, Behind
  <2>1. PICK k \in Job : k = [job[w] EXCEPT !.pc = "strategies",
                                            !.content["endpoints"] = db.content["endpoints"]]
    BY <1>1, <2>0 DEF Job, Content, Part
  <2>2. /\ k.pc = "strategies" /\ k.check = job[w].check
        /\ k.content = [job[w].content EXCEPT !["endpoints"] = db.content["endpoints"]]
    BY <1>1, <2>1 DEF Job
  <2>3. /\ k.content["endpoints"] = db.content["endpoints"]
        /\ AtMost(k.content, db.content)
    <3>1. job[w].content \in Content
      BY <1>1 DEF Job
    <3> QED BY <3>1, <2>0, <2>2, RuleConfigAssumption DEF Content, Part, Version, AtMost
  <2>4. Compete(w, k) /\ upset' = upset
    BY <1>3, <2>1, Zenon DEF readEndpoints
  <2>5. AtMost(db.content, db.content)
    BY <2>0, RuleConfigAssumption DEF AtMost, Content, Version
  <2>6. \A p \in Part : p = "endpoints" \/ k.pc = "enqueue" => Newest(p, k.content[p])
    BY <1>1, <2>0, <2>2, <2>3, <2>5, DatabaseIsNewest
  <2>7. RivalsKnow' /\ JobForward'
    <3>1. ~Carrying(w) /\ UNCHANGED <<queue, file>>
      BY <1>1 DEF Carrying, config
    <3> QED BY <1>1, <2>4, <2>6, <3>1, CompeteKeeps
  <2>8. /\ job' \in [Worker -> Job]
        /\ job'[w].pc = k.pc /\ job'[w].check = k.check /\ job'[w].content = k.content
        /\ \A u \in Worker \ {w} :
             /\ job'[u].pc = job[u].pc /\ job'[u].check = job[u].check
             /\ job'[u].content = job[u].content
    BY <1>1, <2>4, CompeteFacts
  <2>9. Behind'
    BY <1>1, <2>3, <2>8 DEF Behind, config
  <2>10. Counted' /\ QueueForward' /\ MarkIsCheck' /\ TypeOK'
    BY <1>1, <2>2, <2>4, <2>8 DEF Counted, QueueForward, MarkIsCheck, TypeOK, bounds, config
  <2>11. \A v \in Content : AtMost(v, db.content) => OnItsWay(v, job'[w])
    BY <2>2, <2>3, <2>8 DEF AtMost, OnItsWay, Part
  <2>12. OwnIsCarried'
    BY <1>1, <2>11 DEF TypeOK, IInv, OwnIsCarried, Carried
  <2>13. SeenOrCarried'
    BY <1>1, <2>0, <2>5, <2>11 DEF SeenOrCarried, Carried
  <2> QED BY <2>7, <2>9, <2>10, <2>12, <2>13 DEF IInv, Order
<1> QED BY <1>2, <1>3

LEMMA ReadingFailsIInv ==
  ASSUME IInv, NEW w \in Worker, readingFails(w)
  PROVE  IInv'
<1>1. /\ TypeOK /\ job[w] \in Job
      /\ upset' = TRUE /\ job' = [job EXCEPT ![w] = Done(job[w])]
      /\ UNCHANGED <<bounds, db, config, own, missed>>
  BY DEF IInv, readingFails, TypeOK
<1>2. SeenOrCarried'
  BY <1>1 DEF SeenOrCarried
<1> QED BY <1>1, <1>2, DoneFacts, DropIInv DEF TypeOK, config

LEMMA ReadStrategiesIInv ==
  ASSUME IInv, NEW w \in Worker, readStrategies(w)
  PROVE  IInv'
<1>1. /\ TypeOK /\ Counted /\ Behind /\ RivalsKnow /\ QueueForward /\ JobForward /\ MarkIsCheck
      /\ job[w].pc = "strategies" /\ job[w] \in Job
      /\ UNCHANGED <<bounds, db, config, history>>
  BY DEF IInv, Order, readStrategies, TypeOK
<1>2. db.content \in Content /\ AtMost(job[w].content, db.content)
  BY <1>1 DEF TypeOK, Behind
<1>3. PICK k \in Job : k = [job[w] EXCEPT !.pc = "enqueue",
                                          !.content["strategies"] = db.content["strategies"]]
  BY <1>1, <1>2 DEF Job, Content, Part
<1>4. job' = [job EXCEPT ![w] = k]
  BY <1>1, <1>3 DEF readStrategies, TypeOK
<1>5. /\ k.pc = "enqueue" /\ k.check = job[w].check /\ k.overtaken = job[w].overtaken
      /\ k.content = [job[w].content EXCEPT !["strategies"] = db.content["strategies"]]
  BY <1>1, <1>3 DEF Job
<1>6. /\ k.content["strategies"] = db.content["strategies"]
      /\ k.content["endpoints"] = job[w].content["endpoints"]
      /\ AtMost(k.content, db.content)
  <2>1. job[w].content \in Content
    BY <1>1 DEF Job
  <2> QED BY <2>1, <1>2, <1>5, RuleConfigAssumption DEF Content, Part, Version, AtMost
<1>7. /\ job' \in [Worker -> Job] /\ job'[w] = k
      /\ \A u \in Worker \ {w} : job'[u] = job[u]
  BY <1>1, <1>4 DEF TypeOK
<1>8. Behind'
  BY <1>1, <1>6, <1>7 DEF Behind, config
<1>9. RivalsKnow'
  BY <1>1, <1>5, <1>7 DEF RivalsKnow, Carrying
<1>10. JobForward'
  <2>1. AtMost(db.content, db.content)
    BY <1>2, RuleConfigAssumption DEF AtMost, Content, Version
  <2>2. Newest("strategies", db.content["strategies"])
    BY <1>1, <1>2, <2>1, DatabaseIsNewest DEF Part
  <2>3. \A u \in Worker \ {w} : ~job[u].overtaken =>
          /\ Carrying(u) => Newest("endpoints", job[u].content["endpoints"])
          /\ job[u].pc = "enqueue" => Newest("strategies", job[u].content["strategies"])
    BY <1>1 DEF JobForward
  <2>4. ~job[w].overtaken => Newest("endpoints", job[w].content["endpoints"])
    BY <1>1 DEF JobForward, Carrying
  <2>5. \A p, n : Newest(p, n)' <=> Newest(p, n)
    BY <1>1 DEF Newest, config
  <2>6. ASSUME NEW u \in Worker, ~job[u]'.overtaken
        PROVE  /\ Carrying(u)' => Newest("endpoints", job[u].content["endpoints"])'
               /\ job[u]'.pc = "enqueue" => Newest("strategies", job[u].content["strategies"])'
    <3>1. CASE u = w
      BY <1>5, <1>6, <1>7, <2>2, <2>4, <2>5, <2>6, <3>1
    <3>2. CASE u # w
      BY <1>7, <2>3, <2>5, <2>6, <3>2 DEF Carrying
    <3> QED BY <3>1, <3>2
  <2> QED BY <2>6 DEF JobForward
<1>11. Counted' /\ QueueForward' /\ MarkIsCheck' /\ TypeOK'
  BY <1>1, <1>5, <1>7 DEF Counted, QueueForward, MarkIsCheck, TypeOK, bounds, config, history
<1>12. \A v \in Content : AtMost(v, db.content) /\ Carried(v) => Carried(v)'
  <2> SUFFICES ASSUME NEW v \in Content, AtMost(v, db.content), Carried(v)
               PROVE  Carried(v)'
    OBVIOUS
  <2>1. OnItsWay(v, job[w]) => OnItsWay(v, k)
    BY <1>1, <1>5, <1>6 DEF OnItsWay, AtMost, Part
  <2> QED BY <1>1, <1>7, <2>1, CarriedSame DEF config
<1>13. OwnIsCarried'
  <2>1. PICK v \in Content : v = own
    BY <1>1 DEF TypeOK
  <2>2. AtMost(v, db.content) /\ (~upset => Carried(v)')
    BY <2>1, <1>12 DEF IInv, OwnIsCarried
  <2> QED BY <2>1, <2>2, <1>1 DEF OwnIsCarried, history
<1>14. SeenOrCarried'
  <2>1. PICK v \in Content : v = db.content /\ AtMost(v, db.content)
    BY <1>2, RuleConfigAssumption DEF AtMost, Content, Version
  <2>2. Carried(db.content) => Carried(db.content)'
    BY <2>1, <1>1, <1>12
  <2>3. (Checking' => Checking) /\ StaleRow' = StaleRow
    BY <1>1, <1>5, <1>7 DEF Checking, StaleRow, config
  <2> QED BY <1>1, <2>2, <2>3 DEF IInv, SeenOrCarried, history
<1> QED BY <1>8, <1>9, <1>10, <1>11, <1>13, <1>14 DEF IInv, Order

LEMMA EnqueueIInv ==
  ASSUME IInv, NEW w \in Worker, SyncLocalRuleConfig(w)
  PROVE  IInv'
<1>1. /\ TypeOK /\ Counted /\ Behind /\ RivalsKnow /\ QueueForward /\ JobForward /\ MarkIsCheck
      /\ job[w].pc = "enqueue" /\ job[w] \in Job
      /\ Len(queue) < QueueSize
      /\ UNCHANGED <<bounds, db, syncTime, file, loaded, history>>
  BY DEF IInv, Order, SyncLocalRuleConfig, TypeOK
<1>2. PICK e \in [content : Content, overtaken : BOOLEAN] :
        e = [content |-> job[w].content, overtaken |-> job[w].overtaken]
  BY <1>1 DEF Job
<1>3. e.content = job[w].content /\ e.overtaken = job[w].overtaken
  BY <1>2
<1>4. queue' = Append(queue, e)
  BY <1>2 DEF SyncLocalRuleConfig
<1>5. /\ Len(queue) \in Nat
      /\ queue' \in Seq([content : Content, overtaken : BOOLEAN])
      /\ Len(queue') = Len(queue) + 1
      /\ queue'[Len(queue) + 1] = e
      /\ \A i \in 1 .. Len(queue) : queue'[i] = queue[i]
  <2> DEFINE R == [content : Content, overtaken : BOOLEAN]
  <2>1. queue \in Seq(R)
    BY <1>1 DEF TypeOK
  <2> HIDE DEF R
  <2>2. e \in R
    BY DEF R
  <2>3. /\ Len(queue) \in Nat /\ queue' \in Seq(R)
        /\ Len(queue') = Len(queue) + 1
        /\ queue'[Len(queue) + 1] = e
        /\ \A i \in 1 .. Len(queue) : queue'[i] = queue[i]
    BY <2>1, <2>2, <1>4
  <2> QED BY <2>3 DEF R
<1>6. \A i \in 1 .. Len(queue') : i \in 1 .. Len(queue) \/ i = Len(queue) + 1
  BY <1>5
<1>7. PICK k \in Job : k = Done(job[w])
  BY <1>1, DoneFacts
<1>8. /\ k.pc \notin {"strategies", "enqueue"} /\ k.check = job[w].check
      /\ k.content = Empty /\ (k.pc = "mark" => k.check)
  BY <1>1, <1>7, DoneFacts
<1>9. /\ job' \in [Worker -> Job] /\ job'[w] = k
      /\ \A u \in Worker \ {w} : job'[u] = job[u]
  BY <1>1, <1>7 DEF SyncLocalRuleConfig, TypeOK
<1>10. Behind'
  <2>1. AtMost(Empty, db.content)
    BY <1>1, RuleConfigAssumption DEF AtMost, Empty, TypeOK, Content, Version
  <2>2. \A i \in 1 .. Len(queue') : AtMost(queue'[i].content, db.content)
    BY <1>1, <1>3, <1>5, <1>6 DEF Behind
  <2> QED BY <2>1, <2>2, <1>1, <1>8, <1>9 DEF Behind
<1>11. RivalsKnow' /\ MarkIsCheck'
  BY <1>1, <1>8, <1>9 DEF RivalsKnow, MarkIsCheck, Carrying
<1>12. QueueForward'
  <2> SUFFICES ASSUME NEW j \in 1 .. Len(queue'), ~queue'[j].overtaken
               PROVE  /\ AtMost(file, queue'[j].content)
                      /\ \A i \in 1 .. j : AtMost(queue'[i].content, queue'[j].content)
    BY <1>1 DEF QueueForward
  <2>1. CASE j \in 1 .. Len(queue)
    <3>1. queue'[j] = queue[j] /\ \A i \in 1 .. j : queue'[i] = queue[i]
      BY <2>1, <1>5
    <3> QED BY <2>1, <3>1, <1>1 DEF QueueForward
  <2>2. CASE j = Len(queue) + 1
    <3>1. queue'[j] = e /\ ~job[w].overtaken
      BY <2>2, <1>3, <1>5
    <3>2. \A p \in Part : Newest(p, e.content[p])
      BY <3>1, <1>1, <1>3 DEF JobForward, Carrying, Part
    <3>3. AtMost(e.content, e.content)
      BY RuleConfigAssumption DEF AtMost, Content, Version
    <3>4. AtMost(file, e.content) /\ \A i \in 1 .. Len(queue) : AtMost(queue[i].content, e.content)
      BY <3>2 DEF Newest, AtMost
    <3>5. \A i \in 1 .. j : i \in 1 .. Len(queue) \/ i = j
      BY <2>2, <1>5
    <3> QED BY <3>1, <3>3, <3>4, <3>5, <1>5
  <2> QED BY <2>1, <2>2, <1>6
<1>13. JobForward'
  <2> SUFFICES ASSUME NEW u \in Worker, ~job'[u].overtaken, Carrying(u)'
               PROVE  FALSE
    BY DEF JobForward, Carrying
  <2>1. u # w /\ job'[u] = job[u]
    BY <1>8, <1>9 DEF Carrying
  <2>2. Carrying(u) /\ Carrying(w) /\ ~job[u].overtaken
    BY <2>1, <1>1 DEF Carrying
  <2> QED BY <2>1, <2>2, <1>1 DEF RivalsKnow
<1>14. Counted' /\ TypeOK'
  BY <1>1, <1>5, <1>9, RuleConfigAssumption DEF Counted, TypeOK, bounds, history
<1>15. \A v \in Content : Carried(v) => Carried(v)'
  <2> SUFFICES ASSUME NEW v \in Content, Carried(v)
               PROVE  Carried(v)'
    OBVIOUS
  <2>1. CASE OnItsWay(v, job[w])
    <3>1. e.overtaken \/ AtMost(v, e.content)
      BY <2>1, <1>1, <1>3 DEF OnItsWay
    <3>2. Len(queue) + 1 \in 1 .. Len(queue')
      BY <1>5
    <3> QED BY <3>1, <3>2, <1>5 DEF Carried
  <2>2. CASE \E u \in Worker \ {w} : OnItsWay(v, job[u])
    BY <2>2, <1>9 DEF Carried
  <2>3. CASE \E i \in 1 .. Len(queue) : queue[i].overtaken \/ AtMost(v, queue[i].content)
    <3>1. PICK i \in 1 .. Len(queue) : queue[i].overtaken \/ AtMost(v, queue[i].content)
      BY <2>3
    <3>2. i \in 1 .. Len(queue') /\ queue'[i] = queue[i]
      BY <1>5
    <3> QED BY <3>1, <3>2 DEF Carried
  <2>4. CASE AtMost(v, file)
    BY <2>4, <1>1 DEF Carried
  <2> QED BY <2>1, <2>2, <2>3, <2>4 DEF Carried
<1>16. OwnIsCarried'
  <2>1. PICK v \in Content : v = own
    BY <1>1 DEF TypeOK
  <2>2. AtMost(v, db.content) /\ (~upset => Carried(v)')
    BY <2>1, <1>15 DEF IInv, OwnIsCarried
  <2> QED BY <2>1, <2>2, <1>1 DEF OwnIsCarried, history
<1>17. SeenOrCarried'
  <2>1. PICK v \in Content : v = db.content
    BY <1>1 DEF TypeOK
  <2>2. Carried(db.content) => Carried(db.content)'
    BY <2>1, <1>1, <1>15
  <2>3. (Checking' => Checking) /\ StaleRow' = StaleRow
    BY <1>1, <1>8, <1>9 DEF Checking, StaleRow
  <2> QED BY <1>1, <2>2, <2>3 DEF IInv, SeenOrCarried, history
<1> QED BY <1>10, <1>11, <1>12, <1>13, <1>14, <1>16, <1>17 DEF IInv, Order

(* The head of the queue is written, or the file is left or lost. *)
LEMMA ConsumeIInv ==
  ASSUME IInv, NEW c, c = Head(queue).content \/ c = file \/ c = Empty,
         NEW reloaded \in BOOLEAN, consume(c, reloaded)
  PROVE  IInv'
<1>1. /\ TypeOK /\ Counted /\ Behind /\ RivalsKnow /\ QueueForward /\ JobForward /\ MarkIsCheck
      /\ queue # <<>> /\ queue' = Tail(queue) /\ file' = c
      /\ loaded' = IF reloaded THEN c ELSE loaded
      /\ UNCHANGED <<bounds, db, syncTime, job, own, missed>>
  BY DEF IInv, Order, consume
<1>2. /\ Len(queue) \in Nat \ {0}
      /\ Head(queue) = queue[1]
      /\ queue[1] \in [content : Content, overtaken : BOOLEAN]
      /\ queue' \in Seq([content : Content, overtaken : BOOLEAN])
      /\ Len(queue') = Len(queue) - 1
      /\ \A i \in 1 .. Len(queue') : i + 1 \in 1 .. Len(queue) /\ queue'[i] = queue[i + 1]
  <2> DEFINE R == [content : Content, overtaken : BOOLEAN]
  <2>1. queue \in Seq(R)
    BY <1>1 DEF TypeOK
  <2> HIDE DEF R
  <2>2. /\ Len(queue) \in Nat \ {0} /\ Head(queue) = queue[1] /\ queue[1] \in R
        /\ queue' \in Seq(R) /\ Len(queue') = Len(queue) - 1
        /\ \A i \in 1 .. Len(queue') : i + 1 \in 1 .. Len(queue) /\ queue'[i] = queue[i + 1]
    BY <2>1, <1>1
  <2> QED BY <2>2 DEF R
<1>3. 1 \in 1 .. Len(queue)
  BY <1>2
<1>4. c \in Content /\ AtMost(c, db.content)
  <2>1. AtMost(Empty, db.content)
    BY <1>1, RuleConfigAssumption DEF AtMost, Empty, TypeOK, Content, Version
  <2>2. AtMost(queue[1].content, db.content)
    BY <1>1, <1>3 DEF Behind
  <2> QED BY <1>1, <1>2, <2>1, <2>2, EmptyType DEF Behind, TypeOK
<1>5. upset' \in BOOLEAN
      /\ (~upset' => ~upset /\ ~queue[1].overtaken /\ c = queue[1].content)
  <2>1. upset' = (upset \/ Head(queue).overtaken \/ c # Head(queue).content)
    BY DEF consume
  <2> QED BY <2>1, <1>2, Zenon
<1>6. Behind'
  BY <1>1, <1>2, <1>4 DEF Behind
<1>7. RivalsKnow' /\ MarkIsCheck' /\ Counted'
  BY <1>1 DEF RivalsKnow, MarkIsCheck, Counted, Carrying, bounds
(* What is newer than all that was written or queued still is. *)
<1>8. ASSUME NEW d \in Content, AtMost(file, d), AtMost(queue[1].content, d)
      PROVE  AtMost(c, d)
  <2>1. AtMost(Empty, d)
    BY RuleConfigAssumption DEF AtMost, Empty, Content, Version
  <2> QED BY <2>1, <1>2, <1>8
<1>9. QueueForward'
  <2> SUFFICES ASSUME NEW j \in 1 .. Len(queue'), ~queue'[j].overtaken
               PROVE  /\ AtMost(c, queue'[j].content)
                      /\ \A i \in 1 .. j : AtMost(queue'[i].content, queue'[j].content)
    BY <1>1 DEF QueueForward
  <2>1. j + 1 \in 1 .. Len(queue) /\ queue'[j] = queue[j + 1]
    BY <1>2
  <2>2. /\ AtMost(file, queue[j + 1].content)
        /\ \A i \in 1 .. (j + 1) : AtMost(queue[i].content, queue[j + 1].content)
    BY <2>1, <1>1 DEF QueueForward
  <2>3. \A i \in 1 .. j : i + 1 \in 1 .. (j + 1) /\ queue'[i] = queue[i + 1]
    BY <1>2
  <2>4. queue[j + 1].content \in Content /\ 1 \in 1 .. (j + 1)
    BY <2>1, <1>1, QueueType
  <2>5. AtMost(c, queue[j + 1].content)
    BY <2>2, <2>4, <1>8
  <2> QED BY <2>1, <2>2, <2>3, <2>5
<1>10. \A p \in Part : \A n \in Version : Newest(p, n) => Newest(p, n)'
  <2> SUFFICES ASSUME NEW p \in Part, NEW n \in Version, Newest(p, n)
               PROVE  Newest(p, n)'
    OBVIOUS
  <2>1. Empty[p] <= n
    BY RuleConfigAssumption DEF Empty, Version
  <2>2. c[p] <= n
    BY <2>1, <1>2, <1>3 DEF Newest
  <2>3. \A i \in 1 .. Len(queue') : queue'[i].content[p] <= n
    BY <1>2 DEF Newest
  <2> QED BY <2>2, <2>3, <1>1 DEF Newest
<1>11. JobForward'
  <2>1. \A u \in Worker : job[u].content \in Content
    BY <1>1 DEF TypeOK, Job
  <2>2. \A u \in Worker : \A p \in Part :
          Newest(p, job[u].content[p]) => Newest(p, job[u].content[p])'
    <3> SUFFICES ASSUME NEW u \in Worker, NEW p \in Part, Newest(p, job[u].content[p])
                 PROVE  Newest(p, job[u].content[p])'
      OBVIOUS
    <3>1. PICK n \in Version : n = job[u].content[p]
      BY <2>1 DEF Content
    <3>2. Newest(p, n)'
      BY <3>1, <1>10
    <3> QED BY <3>1, <3>2, <1>1
  <2> QED BY <1>1, <2>2 DEF JobForward, Carrying, Part
<1>12. TypeOK'
  <2>1. Len(queue') <= QueueSize
    BY <1>1, <1>2, RuleConfigAssumption DEF TypeOK
  <2> QED BY <2>1, <1>1, <1>2, <1>4, <1>5 DEF TypeOK, bounds
<1>13. \A v \in Content : ~upset' /\ Carried(v) => Carried(v)'
  <2> SUFFICES ASSUME NEW v \in Content, ~upset', Carried(v)
               PROVE  Carried(v)'
    OBVIOUS
  <2>1. ~queue[1].overtaken /\ c = queue[1].content
    BY <1>5
  <2>2. CASE \E u \in Worker : OnItsWay(v, job[u])
    BY <2>2, <1>1 DEF Carried
  <2>3. CASE \E i \in 1 .. Len(queue) : queue[i].overtaken \/ AtMost(v, queue[i].content)
    <3>1. PICK i \in 1 .. Len(queue) : queue[i].overtaken \/ AtMost(v, queue[i].content)
      BY <2>3
    <3>2. CASE i = 1
      BY <3>1, <3>2, <2>1, <1>1 DEF Carried
    <3>3. CASE i # 1
      <4>1. i - 1 \in 1 .. Len(queue') /\ queue'[i - 1] = queue[i]
        BY <3>3, <1>2
      <4> QED BY <4>1, <3>1 DEF Carried
    <3> QED BY <3>2, <3>3
  <2>4. CASE AtMost(v, file)
    <3>1. AtMost(file, queue[1].content)
      BY <2>1, <1>1, <1>3 DEF QueueForward
    <3>2. AtMost(v, c)
      BY <2>1, <2>4, <3>1, <1>1, <1>2, AtMostTransitive DEF TypeOK
    <3> QED BY <3>2, <1>1 DEF Carried
  <2> QED BY <2>2, <2>3, <2>4 DEF Carried
<1>14. OwnIsCarried'
  <2>1. PICK v \in Content : v = own
    BY <1>1 DEF TypeOK
  <2>2. AtMost(v, db.content) /\ (~upset' => Carried(v)')
    BY <2>1, <1>5, <1>13 DEF IInv, OwnIsCarried
  <2> QED BY <2>1, <2>2, <1>1 DEF OwnIsCarried
<1>15. SeenOrCarried'
  <2>1. PICK v \in Content : v = db.content
    BY <1>1 DEF TypeOK
  <2>2. ~upset' /\ Carried(db.content) => Carried(db.content)'
    BY <2>1, <1>1, <1>13
  <2>3. Checking' = Checking /\ StaleRow' = StaleRow
    BY <1>1 DEF Checking, StaleRow
  <2> QED BY <1>1, <1>5, <2>2, <2>3 DEF IInv, SeenOrCarried
<1> QED BY <1>6, <1>7, <1>9, <1>11, <1>12, <1>14, <1>15 DEF IInv, Order

LEMMA RestartIInv ==
  ASSUME IInv, InitPrometheusConfig
  PROVE  IInv'
<1>1. /\ TypeOK /\ Counted /\ Behind
      /\ syncTime' = now /\ queue' = <<>>
      /\ UNCHANGED <<now, changes, db, file, loaded, own, missed>>
  BY DEF IInv, Order, InitPrometheusConfig
<1>2. PICK k \in Job : k = [Idle EXCEPT !.check = TRUE,
                                        !.pc = IF db.exists THEN "endpoints" ELSE "mark"]
  BY EmptyType DEF Idle, Job
<1>3. /\ k.check /\ k.content = Empty /\ Idle.content = Empty
      /\ k.pc \in {"endpoints", "mark"} /\ Idle.pc = "idle"
      /\ db.exists => k.pc = "endpoints"
  BY <1>2 DEF Idle
<1>4. /\ \A v \in Worker : job'[v] \in {Idle, k}
      /\ job' = [v \in Worker |-> job'[v]]
      /\ upset' \in BOOLEAN
      /\ ~upset' => db.exists /\ \E w \in Worker : job'[w] = k
  <2>1. CASE /\ job' = [v \in Worker |-> Idle]
             /\ upset' = TRUE
    BY <2>1
  <2>2. ASSUME NEW w \in Worker,
               job' = [v \in Worker |->
                         IF v # w THEN Idle
                         ELSE [Idle EXCEPT !.check = TRUE,
                                           !.pc = IF db.exists THEN "endpoints" ELSE "mark"]],
               upset' = (upset \/ ~db.exists)
        PROVE  /\ \A v \in Worker : job'[v] \in {Idle, k}
               /\ job' = [v \in Worker |-> job'[v]]
               /\ upset' \in BOOLEAN
               /\ ~upset' => db.exists /\ \E u \in Worker : job'[u] = k
    <3>1. job' = [v \in Worker |-> IF v # w THEN Idle ELSE k]
      BY <2>2, <1>2, Zenon
    <3>2. upset' \in BOOLEAN /\ (~upset' => db.exists)
      BY <2>2, Zenon
    <3> QED BY <3>1, <3>2
  <2> QED BY <2>1, <2>2, Zenon DEF InitPrometheusConfig
<1>5. AtMost(Empty, db.content)
  BY <1>1, RuleConfigAssumption DEF AtMost, Empty, TypeOK, Content, Version
<1>6. job' \in [Worker -> Job]
  BY <1>4, <1>2, EmptyType
<1>8. TypeOK'
  BY <1>1, <1>4, <1>6, RuleConfigAssumption DEF TypeOK, Time
<1>9. Counted' /\ Behind'
  BY <1>1, <1>4, <1>3, <1>5 DEF Counted, Behind
<1>10. RivalsKnow' /\ QueueForward' /\ JobForward' /\ MarkIsCheck'
  BY <1>1, <1>4, <1>3 DEF RivalsKnow, QueueForward, JobForward, MarkIsCheck, Carrying
<1>12. OwnIsCarried' /\ SeenOrCarried'
  BY <1>1, <1>4, <1>3 DEF TypeOK, IInv, OwnIsCarried, SeenOrCarried, Carried, OnItsWay
<1> QED BY <1>8, <1>9, <1>10, <1>12 DEF IInv, Order

LEMMA SilentIInv ==
  ASSUME IInv, Tick \/ loadRules \/ UNCHANGED vars
  PROVE  IInv'
<1>1. /\ now' \in Time /\ loaded' \in Content
      /\ UNCHANGED <<changes, db, syncTime, queue, file, job, history>>
  BY NatFacts DEF IInv, TypeOK, Tick, loadRules, vars, bounds, config, Time
<1>2. TypeOK'
  BY <1>1 DEF IInv, TypeOK, history
<1>3. Order'
  BY <1>1 DEF IInv, Order, Counted, Behind, RivalsKnow, QueueForward, JobForward, MarkIsCheck,
              Carrying, Newest
<1>4. OwnIsCarried' /\ SeenOrCarried'
  BY <1>1 DEF IInv, OwnIsCarried, SeenOrCarried, Carried, StaleRow, Checking, history
<1> QED BY <1>2, <1>3, <1>4 DEF IInv

LEMMA InitIInv == Init => IInv
<1> SUFFICES ASSUME Init PROVE IInv
  OBVIOUS
<1>1. TypeOK
  <2>1. job \in [Worker -> Job] /\ <<>> \in Seq([content : Content, overtaken : BOOLEAN])
    BY EmptyType DEF Init
  <2>2. 0 \in Time /\ 0 \in 0 .. MaxChanges /\ Len(<<>>) <= QueueSize
    BY RuleConfigAssumption DEF Time
  <2> QED BY <2>1, <2>2, EmptyType DEF Init, TypeOK
<1>2. AtMost(Empty, Empty)
  BY DEF AtMost, Empty
<1>3. Idle.pc = "idle" /\ Idle.content = Empty
  BY DEF Idle
<1>4. Order
  BY <1>2, <1>3 DEF Init, Order, Counted, Behind, RivalsKnow, QueueForward, JobForward, MarkIsCheck,
                    Carrying, Empty
<1>5. OwnIsCarried /\ SeenOrCarried
  BY <1>2 DEF Init, OwnIsCarried, SeenOrCarried, Carried
<1> QED BY <1>1, <1>4, <1>5 DEF IInv

LEMMA HandlerChanges ==
  ASSUME TypeOK, Counted, NEW w \in Worker \cup {Elsewhere},
         \/ UpdateAlarmStrategy(w)
         \/ DeleteAlarmStrategy(w)
         \/ UpdateGroupEndpoint(w)
         \/ DeleteEndpointGroup(w)
  PROVE  Changed
<1>1. CASE UpdateAlarmStrategy(w)
  BY <1>1, UpdateStrategyChanges
<1>2. CASE DeleteAlarmStrategy(w)
  BY <1>2, DeleteStrategyChanges
<1>3. CASE UpdateGroupEndpoint(w)
  <2>1. CanChange(w, TRUE)
    BY <1>3, Zenon DEF UpdateGroupEndpoint
  <2>2. PICK stamp \in Stamp :
          /\ db' = [db EXCEPT !.content = Bump({"endpoints"}), !.groupTime = stamp]
          /\ SyncAfter(w, stamp > syncTime)
    BY <1>3, Zenon DEF UpdateGroupEndpoint
  <2> QED BY <2>1, <2>2, EndpointsChange
<1>4. CASE DeleteEndpointGroup(w)
  BY <1>4, DeleteGroupChanges
<1> QED BY <1>1, <1>2, <1>3, <1>4

LEMMA GroupChanges ==
  ASSUME TypeOK, Counted, UpdateEndpointGroup \/ CreateEndpointGroup
  PROVE  Changed
<1>1. CASE UpdateEndpointGroup
  <2>1. CanChange(Elsewhere, TRUE)
    BY <1>1, Zenon DEF UpdateEndpointGroup
  <2>2. PICK stamp \in Stamp :
          /\ db' = [db EXCEPT !.content = Bump({"endpoints"}), !.groupTime = stamp]
          /\ SyncAfter(Elsewhere, stamp > syncTime)
    BY <1>1, Zenon DEF UpdateEndpointGroup
  <2> QED BY <2>1, <2>2, EndpointsChange
<1>2. CASE CreateEndpointGroup
  BY <1>2, CreateGroupChanges
<1> QED BY <1>1, <1>2

LEMMA NextIInv == IInv /\ [Next]_vars => IInv'
<1> SUFFICES ASSUME IInv, [Next]_vars PROVE IInv'
  OBVIOUS
<1>1. TypeOK /\ Counted
  BY DEF IInv, Order
<1>2. ASSUME NEW w \in Worker \cup {Elsewhere},
             \/ UpdateAlarmStrategy(w)
             \/ DeleteAlarmStrategy(w)
             \/ UpdateGroupEndpoint(w)
             \/ DeleteEndpointGroup(w)
      PROVE  Changed
  BY <1>2, <1>1, HandlerChanges
<1>3. CASE UpdateEndpointGroup \/ CreateEndpointGroup
  BY <1>1, <1>3, GroupChanges, ChangedIInv
<1>4. ASSUME NEW w \in Worker, Step(w) \/ readingFails(w) \/ SyncLocalRuleConfig(w)
                                 \/ \E refreshAll \in BOOLEAN : checkRuleConfigTime(w, refreshAll)
      PROVE  IInv'
  BY <1>4, ReadEndpointsIInv, ReadingFailsIInv, ReadStrategiesIInv, MarkIInv, EnqueueIInv, CheckIInv DEF Step
<1>5. CASE consumeRuleConfig \/ consumeFails
  BY <1>5, ConsumeIInv DEF consumeRuleConfig, consumeFails
<1>6. CASE InitPrometheusConfig
  BY <1>6, RestartIInv
<1>7. CASE Tick \/ loadRules \/ UNCHANGED vars
  BY <1>7, SilentIInv
<1> QED BY <1>2, <1>3, <1>4, <1>5, <1>6, <1>7, ChangedIInv DEF Next

LEMMA SpecIInv == Spec => []IInv
  BY InitIInv, NextIInv, PTL DEF Spec

-----------------------------------------------------------------------------
(* Theorems *)

(* The clock, the database's versions, queue, files and jobs keep their    *)
(* types; above all the queue never holds more than its capacity.          *)
THEOREM TypeCorrect == Spec => []TypeOK
<1>1. IInv => TypeOK
  BY DEF IInv
<1> QED BY <1>1, SpecIInv, PTL

LEMMA AtRestInFile ==
  ASSUME TypeOK, AtRest, NEW v, Carried(v)
  PROVE  AtMost(v, file)
<1>1. \A w \in Worker : ~OnItsWay(v, job[w])
  BY DEF AtRest, OnItsWay
<1>2. Len(queue) = 0
  BY DEF AtRest
<1> QED BY <1>1, <1>2 DEF Carried

(* SyncPrometheusRuleFile after a handler's transaction brings the change  *)
(* to the file of the own server, whatever else happens meanwhile, unless  *)
(* a reading or a writing fails, or the writing is overtaken.              *)
THEOREM OwnChangeCorrect == Spec => []OwnChangeInFile
<1>1. IInv => OwnChangeInFile
  BY AtRestInFile DEF IInv, OwnIsCarried, OwnChangeInFile
<1> QED BY <1>1, SpecIInv, PTL

(* While nothing fails, what checkRuleConfigTime leaves out of the file    *)
(* for good is only what its query cannot see: deleted rows, old times,    *)
(* commits during a check.                                                 *)
THEOREM MissedCorrect == Spec => []MissedOnlyWhenUnseen
<1>1. IInv => MissedOnlyWhenUnseen
  <2> SUFFICES ASSUME IInv, AtRest, ~upset, ~missed, ~StaleRow
               PROVE  file = db.content
    BY DEF MissedOnlyWhenUnseen
  <2>1. AtMost(db.content, file)
    BY AtRestInFile DEF IInv, SeenOrCarried
  <2>2. AtMost(file, db.content) /\ file \in Content /\ db.content \in Content
    BY DEF IInv, Order, Behind, TypeOK
  <2>3. \A p \in Part : file[p] = db.content[p]
    BY <2>1, <2>2, RuleConfigAssumption DEF AtMost, Content, Version
  <2> QED BY <2>2, <2>3 DEF Content
<1> QED BY <1>1, SpecIInv, PTL

LEMMA InitMirrors == Init => Mirror!Init
  BY DEF Init, Mirror!Init, Mirror!AtMost, Empty

LEMMA NextMirrors == IInv /\ [Next]_vars => [Mirror!Next]_<<db.content, file>>
<1> SUFFICES ASSUME IInv, [Next]_vars PROVE [Mirror!Next]_<<db.content, file>>
  OBVIOUS
<1>1. TypeOK /\ Counted /\ Behind /\ QueueForward
  BY DEF IInv, Order
<1>2. Changed => Mirror!Change
  BY DEF Changed, DbGrows, AtMost, Mirror!Change, Mirror!AtMost
<1>3. ASSUME NEW w \in Worker \cup {Elsewhere},
             \/ UpdateAlarmStrategy(w)
             \/ DeleteAlarmStrategy(w)
             \/ UpdateGroupEndpoint(w)
             \/ DeleteEndpointGroup(w)
      PROVE  Changed
  BY <1>3, <1>1, HandlerChanges
<1>4. CASE UpdateEndpointGroup \/ CreateEndpointGroup
  BY <1>2, <1>4, <1>1, GroupChanges DEF Mirror!Next
<1>5. ASSUME NEW c, NEW reloaded \in BOOLEAN, consume(c, reloaded),
             c = Head(queue).content \/ c = file \/ c = Empty
      PROVE  [Mirror!Next]_<<db.content, file>>
  <2>1. queue # <<>> /\ file' = c /\ db' = db
    BY <1>5 DEF consume
  <2>2. Head(queue) = queue[1] /\ 1 \in 1 .. Len(queue)
    BY <2>1, <1>1, HeadFacts
  <2>3. CASE c = file
    BY <2>1, <2>3
  <2>4. CASE c = Empty
    BY <2>1, <2>4 DEF Mirror!Next, Mirror!Lose, Empty
  <2>5. CASE c = Head(queue).content
    <3>1. AtMost(c, db.content)
      BY <2>2, <2>5, <1>1 DEF Behind
    <3>2. CASE Head(queue).overtaken
      BY <3>1, <3>2, <2>1 DEF Mirror!Next, Mirror!FallBack, Mirror!AtMost, AtMost
    <3>3. CASE ~Head(queue).overtaken
      <4>1. AtMost(file, c)
        BY <3>3, <2>2, <2>5, <1>1 DEF QueueForward
      <4> QED BY <3>1, <4>1, <2>1 DEF Mirror!Next, Mirror!Follow, Mirror!AtMost, AtMost
    <3> QED BY <3>2, <3>3
  <2> QED BY <1>5, <2>3, <2>4, <2>5
<1>6. CASE consumeRuleConfig \/ consumeFails
  BY <1>5, <1>6 DEF consumeRuleConfig, consumeFails
<1>7. ASSUME NEW w \in Worker, Step(w) \/ readingFails(w) \/ SyncLocalRuleConfig(w)
                                 \/ \E refreshAll \in BOOLEAN : checkRuleConfigTime(w, refreshAll)
      PROVE  UNCHANGED <<db, file>>
  BY <1>7 DEF Step, readEndpoints, readingFails, readStrategies, mark, SyncLocalRuleConfig, checkRuleConfigTime,
              config
<1>8. CASE Tick \/ loadRules \/ InitPrometheusConfig \/ UNCHANGED vars
  BY <1>8 DEF Tick, loadRules, InitPrometheusConfig, vars, config
<1> QED BY <1>2, <1>3, <1>4, <1>6, <1>7, <1>8 DEF Next, Mirror!Next

(* The rule file implements ConfigMirror: it never runs ahead of the       *)
(* database, and it goes back to older rules only when a writing failed or *)
(* two writings overtook each other.                                       *)
THEOREM Refinement == Spec => MirrorsDatabase
<1> QED BY SpecIInv, InitMirrors, NextMirrors, PTL DEF Spec, MirrorsDatabase, Mirror!Spec
=============================================================================
