------------------------ MODULE AgentManager_proofs ------------------------
(***************************************************************************)
(* Proofs that the file of the agent manager names what is deployed, for   *)
(* any number of calls that overlap with each other, with the check and    *)
(* with the start of the manager; and that the manager knows every process *)
(* it has started, when they do not overlap.                               *)
(***************************************************************************)
EXTENDS AgentManager, TLAPS

(* Where the goroutines can be, and where they have a deployment. *)
Calls == {"idle", "stop", "clear", "copy", "insert", "start", "starting", "note", "save"}
Looks == {"idle", "look", "refresh", "start", "starting"}
Loads == {"idle", "load", "start", "starting", "list"}

InPlace(a, j) ==
  /\ j.pc \in {"stop", "clear", "insert", "start", "starting", "refresh"} => j.d # None
  /\ a \in Handler => j.pc \in Calls
  /\ a = Check => j.pc \in Looks
  /\ a = Boot => j.pc \in Loads

(* While the manager loads its file nothing else is at work. *)
Loading ==
  ~Up =>
    /\ process = None
    /\ \A a \in Actor \ {Boot} : job[a].pc = "idle"
    /\ job[Boot].pc \in {"start", "starting"} =>
         saved.d = job[Boot].d /\ obj[job[Boot].d].deploy

(* The deployment in the map is one that the file takes, or a call is      *)
(* about to make it one.                                                   *)
WasDeployed ==
  process # None =>
    obj[process].deploy \/ \E h \in Handler : job[h].pc = "start" /\ job[h].d = process

(* If the file does not name it and its writing has not failed, a call has *)
(* yet to write the file.                                                  *)
WillSave ==
  process # None /\ saved.d # process /\ ~unsaved => \E h \in Handler : job[h].pc # "idle"

IInv ==
  /\ TypeOK
  /\ \A a \in Actor : InPlace(a, job[a])
  /\ saved.running => saved.d # None
  /\ Loading
  /\ WasDeployed
  /\ WillSave

-----------------------------------------------------------------------------
(* Types *)

Obj == [status : {"none", "dead", "running", "stop"}, pid : Pid \cup {None},
        retry : 0 .. Retry, deploy : BOOLEAN]
Work == [pc : {"idle", "stop", "clear", "copy", "insert", "start", "starting",
               "note", "save", "look", "refresh", "load", "list"},
         add : BOOLEAN, d : Deployment \cup {None}, pids : SUBSET Pid]

LEMMA ActorsDiffer ==
  /\ Check \in Actor /\ Boot \in Actor /\ Handler \subseteq Actor
  /\ Check \notin Handler /\ Boot \notin Handler /\ Check # Boot
  /\ None \notin Deployment /\ None \notin Pid
BY AgentManagerAssumption, SMT DEF Actor, None, Deployment, Pid

LEMMA IdleFields ==
  /\ Idle \in Work /\ Idle.pc = "idle" /\ Idle.d = None /\ Idle.add = FALSE /\ Idle.pids = {}
  /\ \A a \in Actor : InPlace(a, Idle)
<1>1. Idle \in Work /\ Idle.pc = "idle" /\ Idle.d = None /\ Idle.add = FALSE /\ Idle.pids = {}
  BY DEF Idle, Work
<1> QED
  BY <1>1 DEF InPlace, Calls, Looks, Loads

LEMMA NoObjFields == NoObj \in Obj /\ NoObj.deploy = FALSE
<1>1. 0 \in 0 .. Retry
  BY AgentManagerAssumption
<1> QED
  BY <1>1 DEF NoObj, Obj

LEMMA Types ==
  ASSUME TypeOK
  PROVE  /\ job \in [Actor -> Work] /\ obj \in [Deployment -> Obj]
         /\ process \in Deployment \cup {None} /\ known \in BOOLEAN
         /\ saved \in [d : Deployment \cup {None}, running : BOOLEAN] /\ unsaved \in BOOLEAN
         /\ dir \subseteq Deployment /\ booting \subseteq Deployment
         /\ running \in [Pid -> Deployment \cup {None}] /\ excused \in BOOLEAN
BY DEF TypeOK, Work, Obj

LEMMA WorkFields ==
  ASSUME NEW j \in Work
  PROVE  j.add \in BOOLEAN /\ j.d \in Deployment \cup {None} /\ j.pids \subseteq Pid
BY DEF Work

-----------------------------------------------------------------------------
(* A goroutine goes on while the manager is up *)

LEMMA GoesOn ==
  ASSUME IInv, NEW a \in Actor, NEW j \in Work,
         job' = [job EXCEPT ![a] = j], InPlace(a, j),
         Up, a = Boot => j.pc \in {"idle", "list"},
         UNCHANGED <<process, saved, unsaved>>, known' \in BOOLEAN, excused' \in BOOLEAN,
         obj' \in [Deployment -> Obj], dir' \in SUBSET Deployment, booting' \in SUBSET Deployment,
         running' \in [Pid -> Deployment \cup {None}],
         process # None /\ obj[process].deploy => obj'[process].deploy,
         process # None /\ a \in Handler /\ job[a].pc = "start" /\ job[a].d = process =>
           obj'[process].deploy,
         a \in Handler /\ job[a].pc # "idle" => j.pc # "idle"
  PROVE  IInv'
<1> USE DEF IInv
<1>1. /\ job \in [Actor -> Work] /\ job' \in [Actor -> Work] /\ job'[a] = j
      /\ \A b \in Actor : b # a => job'[b] = job[b]
  BY Types
<1>2. TypeOK'
  BY <1>1, Types DEF TypeOK, Work, Obj
<1>3. \A b \in Actor : InPlace(b, job'[b])
  BY <1>1
<1>4. Up'
  BY <1>1, ActorsDiffer DEF Up
<1>5. Loading'
  BY <1>4 DEF Loading
<1>6. WasDeployed'
  BY <1>1, ActorsDiffer DEF WasDeployed
<1>7. WillSave'
  BY <1>1, ActorsDiffer DEF WillSave
<1> QED
  BY <1>2, <1>3, <1>5, <1>6, <1>7 DEF InPlace

(* The same where only the local state changes. *)
LEMMA OnlyLocal ==
  ASSUME IInv, NEW a \in Actor, NEW j \in Work,
         job' = [job EXCEPT ![a] = j], InPlace(a, j),
         Up, a = Boot => j.pc \in {"idle", "list"},
         UNCHANGED <<process, known, obj, files, system>>, excused' \in BOOLEAN,
         a \in Handler => job[a].pc # "start" /\ (job[a].pc # "idle" => j.pc # "idle")
  PROVE  IInv'
BY GoesOn, Types DEF IInv, files, system

LEMMA AtWork ==
  ASSUME IInv, NEW a \in Actor, a # Boot, job[a].pc # "idle"
  PROVE  Up
BY DEF IInv, Loading

LEMMA Local ==
  ASSUME IInv, NEW a \in Actor
  PROVE  job[a] \in Work /\ InPlace(a, job[a]) /\ job[a].d \in Deployment \cup {None}
BY Types, WorkFields DEF IInv

(* What a call begins with. *)
LEMMA BeginJob ==
  ASSUME IInv, NEW h \in Handler, AddDeploy(h) \/ DeleteDeploy(h)
  PROVE  \E j \in Work :
           /\ Begin(h, j)
           /\ \/ j.pc = "stop" /\ j.d = process /\ process # None
              \/ j.pc = "copy" /\ ~known
              \/ j.pc = "save" /\ process = None
              \/ j.pc = "idle"
<1>1. process \in Deployment \cup {None}
  BY Types DEF IInv
<1>2. CASE AddDeploy(h)
  <2>1. CASE ~known
    <3>1. PICK j \in Work : j = [Idle EXCEPT !.pc = "copy"]
      BY IdleFields DEF Work
    <3>2. j.pc = "copy"
      BY <3>1, IdleFields DEF Work
    <3> QED
      BY <1>2, <2>1, <3>1, <3>2 DEF AddDeploy
  <2>2. CASE known /\ process = None
    BY <1>2, <2>2, IdleFields DEF AddDeploy
  <2>3. CASE known /\ process # None
    <3>1. PICK j \in Work : j = [Idle EXCEPT !.pc = "stop", !.add = TRUE, !.d = process]
      BY <1>1, IdleFields DEF Work
    <3>2. j.pc = "stop" /\ j.d = process
      BY <3>1, IdleFields DEF Work
    <3> QED
      BY <1>2, <2>3, <3>1, <3>2 DEF AddDeploy
  <2> QED
    BY <2>1, <2>2, <2>3
<1>3. CASE DeleteDeploy(h)
  <2>1. CASE process = None
    <3>1. PICK j \in Work : j = [Idle EXCEPT !.pc = "save"]
      BY IdleFields DEF Work
    <3>2. j.pc = "save"
      BY <3>1, IdleFields DEF Work
    <3> QED
      BY <1>3, <2>1, <3>1, <3>2 DEF DeleteDeploy
  <2>2. CASE process # None
    <3>1. PICK j \in Work : j = [Idle EXCEPT !.pc = "stop", !.d = process]
      BY <1>1, IdleFields DEF Work
    <3>2. j.pc = "stop" /\ j.d = process
      BY <3>1, IdleFields DEF Work
    <3> QED
      BY <1>3, <2>2, <3>1, <3>2 DEF DeleteDeploy
  <2> QED
    BY <2>1, <2>2
<1> QED
  BY <1>2, <1>3

LEMMA BeginIInv ==
  ASSUME IInv, NEW h \in Handler, AddDeploy(h) \/ DeleteDeploy(h)
  PROVE  IInv'
<1>1. excused \in BOOLEAN /\ h \in Actor
  BY Types, ActorsDiffer DEF IInv
<1>2. PICK j \in Work :
        /\ Begin(h, j)
        /\ j.pc \in {"stop", "copy", "save", "idle"} /\ (j.pc = "stop" => j.d # None)
  BY BeginJob
<1>3. Up /\ job[h].pc = "idle" /\ job' = [job EXCEPT ![h] = j] /\ excused' = (excused \/ Busy)
  BY <1>2 DEF Begin
<1>4. UNCHANGED <<process, known, obj, files, system>>
  BY DEF AddDeploy, DeleteDeploy
<1>5. InPlace(h, j)
  BY <1>2, ActorsDiffer DEF InPlace, Calls
<1>6. excused' \in BOOLEAN
  BY <1>1, <1>3 DEF Busy
<1> QED
  BY <1>1, <1>3, <1>4, <1>5, <1>6, ActorsDiffer, OnlyLocal

LEMMA stopIInv ==
  ASSUME IInv, NEW h \in Handler, stop(h)
  PROVE  IInv'
<1> DEFINE d == job[h].d
<1>1. /\ job[h].pc = "stop" /\ job' = [job EXCEPT ![h].pc = "clear"]
      /\ Stopped(d) /\ UNCHANGED <<process, known, files, booting, excused>>
  BY DEF stop, Goto
<1>2. h \in Actor /\ job[h] \in Work /\ d \in Deployment /\ Up
  BY <1>1, ActorsDiffer, Local, AtWork DEF InPlace
<1>3. PICK j \in Work : j = [job[h] EXCEPT !.pc = "clear"]
  BY <1>2 DEF Work
<1>4. j.pc = "clear" /\ j.d = d /\ job' = [job EXCEPT ![h] = j]
  BY <1>1, <1>2, <1>3, Types DEF Work, IInv
<1>5. InPlace(h, j)
  BY <1>2, <1>4, ActorsDiffer DEF InPlace, Calls
<1>6. /\ running' \in [Pid -> Deployment \cup {None}] /\ obj' \in [Deployment -> Obj]
      /\ \A e \in Deployment : obj'[e].deploy = obj[e].deploy
  <2>1. obj \in [Deployment -> Obj] /\ running \in [Pid -> Deployment \cup {None}]
    BY Types DEF IInv
  <2>2. PICK o \in Obj : o = [obj[d] EXCEPT !.pid = None, !.status = "stop"]
    <3>1. obj[d] \in Obj
      BY <1>2, <2>1
    <3> HIDE DEF d
    <3> QED
      BY <3>1 DEF Obj
  <2>3. o.deploy = obj[d].deploy
    BY <1>2, <2>1, <2>2 DEF Obj
  <2>4. CASE obj[d].pid \in Live
    <3>1. obj' = [obj EXCEPT ![d] = o]
      BY <1>1, <1>2, <2>1, <2>2, <2>4 DEF Stopped
    <3>2. running' = [running EXCEPT ![obj[d].pid] = None]
      BY <1>1, <2>4 DEF Stopped
    <3> QED
      BY <1>2, <2>1, <2>3, <3>1, <3>2
  <2>5. CASE obj[d].pid \notin Live
    BY <1>1, <2>1, <2>5 DEF Stopped
  <2> QED
    BY <2>4, <2>5
<1>7. /\ process \in Deployment \cup {None} /\ known' \in BOOLEAN /\ excused' \in BOOLEAN
      /\ dir' \in SUBSET Deployment /\ booting' \in SUBSET Deployment
      /\ UNCHANGED <<process, saved, unsaved>>
  BY <1>1, Types DEF IInv, files
<1> HIDE DEF d
<1> QED
  BY <1>1, <1>2, <1>4, <1>5, <1>6, <1>7, ActorsDiffer, GoesOn

LEMMA copyPackageIInv ==
  ASSUME IInv, NEW h \in Handler, copyPackage(h)
  PROVE  IInv'
<1>1. job[h].pc = "copy" /\ UNCHANGED <<process, known, saved, unsaved, system, excused>>
  BY DEF copyPackage
<1>2. h \in Actor /\ job[h] \in Work /\ Up
  BY <1>1, ActorsDiffer, Local, AtWork
<1>3. /\ process \in Deployment \cup {None} /\ known' \in BOOLEAN /\ excused' \in BOOLEAN
      /\ booting' \in SUBSET Deployment /\ running' \in [Pid -> Deployment \cup {None}]
      /\ UNCHANGED <<process, saved, unsaved>>
      /\ obj \in [Deployment -> Obj] /\ dir \in SUBSET Deployment
  BY <1>1, Types DEF IInv, system
<1>4. CASE Goto(h, "save") /\ UNCHANGED <<dir, obj>>
  <2>1. PICK j \in Work : j = [job[h] EXCEPT !.pc = "save"]
    BY <1>2 DEF Work
  <2>2. j.pc = "save" /\ job' = [job EXCEPT ![h] = j]
    BY <1>2, <1>4, <2>1, Types DEF Work, IInv, Goto
  <2>3. InPlace(h, j)
    BY <2>2, ActorsDiffer DEF InPlace, Calls
  <2> QED
    BY <1>1, <1>2, <1>3, <1>4, <2>2, <2>3, ActorsDiffer, GoesOn
<1>5. ASSUME NEW d \in Fresh, dir' = dir \cup {d},
             obj' = [obj EXCEPT ![d] = [NoObj EXCEPT !.status = "dead"]],
             job' = [job EXCEPT ![h].pc = "insert", ![h].d = d]
      PROVE  IInv'
  <2>1. d \in Deployment /\ d # process /\ d # None
    BY ActorsDiffer DEF Fresh, Referred
  <2>2. PICK j \in Work : j = [job[h] EXCEPT !.pc = "insert", !.d = d]
    BY <1>2, <2>1 DEF Work
  <2>3. j.pc = "insert" /\ j.d = d /\ job' = [job EXCEPT ![h] = j]
    BY <1>2, <1>5, <2>2, Types DEF Work, IInv
  <2>4. InPlace(h, j)
    BY <2>1, <2>3, ActorsDiffer DEF InPlace, Calls
  <2>5. [NoObj EXCEPT !.status = "dead"] \in Obj
    BY NoObjFields DEF Obj
  <2>6. /\ obj' \in [Deployment -> Obj] /\ dir' \in SUBSET Deployment
        /\ process # None => obj'[process] = obj[process]
    BY <1>3, <1>5, <2>1, <2>5
  <2> QED
    BY <1>1, <1>2, <1>3, <2>3, <2>4, <2>6, ActorsDiffer, GoesOn
<1> QED
  BY <1>4, <1>5 DEF copyPackage

-----------------------------------------------------------------------------
(* ProcessObj.start *)

(* A start leaves the deployment as one that the file takes. *)
LEMMA StartsObj ==
  ASSUME IInv, NEW a \in Actor, Starts(a)
  PROVE  /\ job[a].pc \in {"start", "starting"} /\ job[a].d \in Deployment
         /\ obj' \in [Deployment -> Obj]
         /\ \A e \in Deployment : obj[e].deploy => obj'[e].deploy
         /\ job[a].pc = "start" => obj'[job[a].d].deploy
<1> DEFINE d == job[a].d
<1>1. job[a].pc \in {"start", "starting"}
  BY DEF Starts, startScript, startFails, started, startTimeout
<1>2. d \in Deployment /\ obj \in [Deployment -> Obj] /\ obj[d] \in Obj
  BY <1>1, Local, Types DEF InPlace, IInv
<1>3. obj[d].retry \in 0 .. Retry /\ (obj[d].retry < Retry => obj[d].retry + 1 \in 0 .. Retry)
  <2>1. obj[d].retry \in 0 .. Retry
    BY <1>2 DEF Obj
  <2> QED
    BY <2>1, AgentManagerAssumption, SMT
<1>4. ASSUME NEW p \in Obj, p.retry = obj[d].retry
      PROVE  Counted(a, p) \in Obj /\ Counted(a, p).deploy = p.deploy
  <2>1. CASE a = Check /\ p.retry < Retry
    <3>1. PICK q \in Obj : q = [p EXCEPT !.retry = @ + 1]
      BY <1>3, <1>4, <2>1 DEF Obj
    <3>2. q.deploy = p.deploy
      BY <3>1 DEF Obj
    <3> QED
      BY <2>1, <3>1, <3>2 DEF Counted
  <2>2. CASE ~(a = Check /\ p.retry < Retry)
    BY <2>2 DEF Counted
  <2> QED
    BY <2>1, <2>2
<1>5. \E o \in Obj : /\ obj' = [obj EXCEPT ![d] = o]
                     /\ obj[d].deploy => o.deploy
                     /\ job[a].pc = "start" => o.deploy
  <2>1. CASE startScript(a)
    <3>1. PICK o \in Obj : o = [obj[d] EXCEPT !.deploy = TRUE]
      BY <1>2 DEF Obj
    <3>2. o.deploy
      BY <1>2, <3>1 DEF Obj
    <3>3. obj' = [obj EXCEPT ![d] = o]
      BY <1>2, <2>1, <3>1 DEF startScript
    <3> QED
      BY <3>2, <3>3
  <2>2. CASE startFails(a)
    <3>1. PICK p \in Obj : p = [obj[d] EXCEPT !.deploy = TRUE]
      BY <1>2 DEF Obj
    <3>2. p.deploy /\ p.retry = obj[d].retry
      BY <1>2, <3>1 DEF Obj
    <3>3. obj' = [obj EXCEPT ![d] = Counted(a, p)]
      BY <1>2, <2>2, <3>1 DEF startFails
    <3> QED
      BY <1>4, <3>2, <3>3
  <2>3. CASE started(a)
    <3>1. PICK i \in ProcessesOf(d) :
            obj' = [obj EXCEPT ![d] = Counted(a, [obj[d] EXCEPT !.pid = i, !.status = "running"])]
      BY <1>2, <2>3 DEF started
    <3>2. i \in Pid
      BY DEF ProcessesOf
    <3>3. PICK p \in Obj : p = [obj[d] EXCEPT !.pid = i, !.status = "running"]
      BY <1>2, <3>2 DEF Obj
    <3>4. p.deploy = obj[d].deploy /\ p.retry = obj[d].retry
      BY <1>2, <3>3 DEF Obj
    <3>5. job[a].pc = "starting"
      BY <2>3 DEF started
    <3> QED
      BY <1>4, <3>1, <3>3, <3>4, <3>5
  <2>4. CASE startTimeout(a)
    <3>1. PICK p \in Obj : p = [obj[d] EXCEPT !.status = "stop"]
      BY <1>2 DEF Obj
    <3>2. p.deploy = obj[d].deploy /\ p.retry = obj[d].retry
      BY <1>2, <3>1 DEF Obj
    <3>3. obj' = [obj EXCEPT ![d] = Counted(a, p)]
      BY <1>2, <2>4, <3>1 DEF startTimeout
    <3>4. job[a].pc = "starting"
      BY <2>4 DEF startTimeout
    <3> QED
      BY <1>4, <3>2, <3>3, <3>4
  <2> QED
    BY <2>1, <2>2, <2>3, <2>4 DEF Starts
<1>6. PICK o \in Obj : /\ obj' = [obj EXCEPT ![d] = o]
                       /\ obj[d].deploy => o.deploy
                       /\ job[a].pc = "start" => o.deploy
  BY <1>5
<1> QED
  BY <1>1, <1>2, <1>6

(* A call or the check starts an exporter. *)
LEMMA StartsIInv ==
  ASSUME IInv, NEW a \in Actor, a # Boot, Starts(a)
  PROVE  IInv'
<1>1. /\ job[a].pc \in {"start", "starting"} /\ job[a].d \in Deployment
      /\ obj' \in [Deployment -> Obj]
      /\ \A e \in Deployment : obj[e].deploy => obj'[e].deploy
      /\ job[a].pc = "start" => obj'[job[a].d].deploy
  BY StartsObj
<1>2. Up /\ job[a] \in Work /\ process \in Deployment \cup {None}
  BY <1>1, AtWork, Local, Types DEF IInv
<1>3. UNCHANGED <<process, known, files, running, excused>> /\ booting' \in SUBSET Deployment
  BY <1>1, Types DEF IInv, Starts, startScript, startFails, started, startTimeout, system
<1>4. PICK j \in Work :
        /\ job' = [job EXCEPT ![a] = j]
        /\ InPlace(a, j)
        /\ a \in Handler => j.pc # "idle"
  <2>1. CASE startScript(a)
    <3>1. PICK j \in Work : j = [job[a] EXCEPT !.pc = "starting"]
      BY <1>2 DEF Work
    <3>2. j.pc = "starting" /\ j.d = job[a].d /\ job' = [job EXCEPT ![a] = j]
      BY <1>2, <2>1, <3>1, Types DEF Work, IInv, startScript, Goto
    <3>3. InPlace(a, j)
      BY <1>1, <1>2, <3>2, ActorsDiffer DEF InPlace, Calls, Looks
    <3> QED
      BY <3>2, <3>3
  <2>2. CASE AfterStart(a)
    <3>1. CASE a = Check
      BY <2>2, <3>1, IdleFields, ActorsDiffer DEF AfterStart, End
    <3>2. CASE a # Check
      <4>1. PICK j \in Work : j = [job[a] EXCEPT !.pc = "note"]
        BY <1>2 DEF Work
      <4>2. j.pc = "note" /\ job' = [job EXCEPT ![a] = j] /\ a \in Handler
        BY <1>2, <2>2, <3>2, <4>1, Types DEF Work, IInv, AfterStart, Goto, Actor
      <4>3. InPlace(a, j)
        BY <3>2, <4>2, ActorsDiffer DEF InPlace, Calls
      <4> QED
        BY <4>2, <4>3
    <3> QED
      BY <3>1, <3>2
  <2> QED
    BY <2>1, <2>2 DEF Starts, startFails, started, startTimeout
<1>5. /\ known' \in BOOLEAN /\ excused' \in BOOLEAN /\ dir' \in SUBSET Deployment
      /\ running' \in [Pid -> Deployment \cup {None}] /\ UNCHANGED <<saved, unsaved>>
  BY <1>3, Types DEF IInv, files
<1>6. /\ process # None /\ obj[process].deploy => obj'[process].deploy
      /\ process # None /\ a \in Handler /\ job[a].pc = "start" /\ job[a].d = process =>
           obj'[process].deploy
  BY <1>1, <1>2
<1> QED
  BY <1>1, <1>2, <1>3, <1>4, <1>5, <1>6, GoesOn

(* The manager starts what it has loaded. *)
LEMMA BootStartsIInv ==
  ASSUME IInv, Starts(Boot)
  PROVE  IInv'
<1> USE DEF IInv
<1>1. /\ job[Boot].pc \in {"start", "starting"} /\ job[Boot].d \in Deployment
      /\ obj' \in [Deployment -> Obj]
      /\ \A e \in Deployment : obj[e].deploy => obj'[e].deploy
  BY StartsObj, ActorsDiffer
<1>2. /\ ~Up /\ process = None /\ \A a \in Actor \ {Boot} : job[a].pc = "idle"
      /\ saved.d = job[Boot].d /\ obj[job[Boot].d].deploy
  BY <1>1 DEF Loading, Up
<1>3. Boot \in Actor /\ job[Boot] \in Work /\ job \in [Actor -> Work] /\ job[Boot].d # None
  BY <1>1, ActorsDiffer, Types
<1>4. UNCHANGED <<files, running, excused>> /\ booting' \in SUBSET Deployment
  BY <1>1, Types DEF Starts, startScript, startFails, started, startTimeout, system
<1>5. PICK j \in Work :
        /\ job' = [job EXCEPT ![Boot] = j] /\ InPlace(Boot, j)
        /\ \/ j.pc = "starting" /\ j.d = job[Boot].d /\ UNCHANGED <<process, known>>
           \/ j.pc = "list" /\ process' \in {None, job[Boot].d} /\ known' \in BOOLEAN
  <2>1. CASE startScript(Boot)
    <3>1. PICK j \in Work : j = [job[Boot] EXCEPT !.pc = "starting"]
      BY <1>3 DEF Work
    <3>2. j.pc = "starting" /\ j.d = job[Boot].d /\ job' = [job EXCEPT ![Boot] = j]
      BY <1>3, <2>1, <3>1 DEF Work, startScript, Goto
    <3>3. InPlace(Boot, j)
      BY <1>3, <3>2, ActorsDiffer DEF InPlace, Loads
    <3> QED
      BY <2>1, <3>2, <3>3 DEF startScript
  <2>2. ASSUME AfterStart(Boot), process' \in {None, job[Boot].d}, known' \in BOOLEAN
        PROVE  \E j \in Work : /\ job' = [job EXCEPT ![Boot] = j] /\ InPlace(Boot, j)
                               /\ j.pc = "list"
    <3>1. PICK j \in Work : j = [Idle EXCEPT !.pc = "list"]
      BY IdleFields DEF Work
    <3>2. j.pc = "list" /\ job' = [job EXCEPT ![Boot] = j]
      BY <2>2, <3>1, IdleFields, ActorsDiffer DEF Work, AfterStart
    <3>3. InPlace(Boot, j)
      BY <3>2, ActorsDiffer DEF InPlace, Loads
    <3> QED
      BY <3>2, <3>3
  <2>3. CASE startFails(Boot) \/ started(Boot) \/ startTimeout(Boot)
    <3>1. AfterStart(Boot) /\ process' \in {None, job[Boot].d} /\ known' \in BOOLEAN
      BY <1>2, <2>3, Types DEF startFails, started, startTimeout
    <3> QED
      BY <2>2, <3>1
  <2> QED
    BY <2>1, <2>3 DEF Starts
<1>6. job'[Boot] = j /\ \A a \in Actor : a # Boot => job'[a] = job[a]
  BY <1>3, <1>5
<1>7. process' \in Deployment \cup {None} /\ known' \in BOOLEAN
  BY <1>1, <1>2, <1>5, Types
<1>8. TypeOK'
  BY <1>1, <1>3, <1>4, <1>5, <1>7, Types DEF TypeOK, Work, Obj, files
<1>9. \A a \in Actor : InPlace(a, job'[a])
  BY <1>5, <1>6
<1>10. obj'[job[Boot].d].deploy /\ saved' = saved
  BY <1>1, <1>2, <1>4 DEF files
<1>11. Loading'
  <2>1. CASE j.pc = "list"
    BY <1>6, <2>1 DEF Loading, Up
  <2>2. CASE j.pc = "starting"
    BY <1>2, <1>5, <1>6, <1>10, <2>2 DEF Loading
  <2> QED
    BY <1>5, <2>1, <2>2
<1>12. process' # None => process' = job[Boot].d
  BY <1>2, <1>5
<1>13. WasDeployed' /\ WillSave'
  BY <1>2, <1>10, <1>12 DEF WasDeployed, WillSave
<1> QED
  BY <1>8, <1>9, <1>10, <1>11, <1>13 DEF InPlace

-----------------------------------------------------------------------------
(* The maps and the file *)

LEMMA clearUselessDirIInv ==
  ASSUME IInv, NEW h \in Handler, clearUselessDir(h)
  PROVE  IInv'
<1> USE DEF IInv
<1> DEFINE d == job[h].d
           pc == IF job[h].add THEN "copy" ELSE "save"
<1>1. /\ job[h].pc = "clear" /\ process' = None /\ known' = FALSE /\ unsaved' = FALSE
      /\ dir' = dir \ {d}
      /\ job' = [job EXCEPT ![h] = [Idle EXCEPT !.pc = pc]]
      /\ obj' = IF \E a \in Actor \ {h} : job[a].d = d
                THEN obj ELSE [obj EXCEPT ![d] = NoObj]
      /\ UNCHANGED <<saved, system, excused>>
  BY DEF clearUselessDir
<1>2. h \in Actor /\ h # Boot /\ job[h] \in Work /\ d \in Deployment /\ Up
  BY <1>1, ActorsDiffer, Local, AtWork DEF InPlace
<1>3. PICK j \in Work : j = [Idle EXCEPT !.pc = pc]
  BY IdleFields DEF Work
<1>4. /\ j.pc \in {"copy", "save"} /\ job' = [job EXCEPT ![h] = j]
      /\ job' \in [Actor -> Work]
      /\ job'[h] = j /\ \A a \in Actor : a # h => job'[a] = job[a]
  BY <1>1, <1>2, <1>3, Types DEF Work
<1>5. InPlace(h, j)
  BY <1>2, <1>4, ActorsDiffer DEF InPlace, Calls
<1>6. obj' \in [Deployment -> Obj]
  BY <1>1, <1>2, Types, NoObjFields
<1>7. TypeOK'
  BY <1>1, <1>4, <1>6, Types DEF TypeOK, Work, Obj, system
<1>8. \A a \in Actor : InPlace(a, job'[a])
  BY <1>4, <1>5
<1>9. Loading'
  BY <1>2, <1>4, ActorsDiffer DEF Loading, Up
<1>10. WasDeployed' /\ WillSave'
  BY <1>1 DEF WasDeployed, WillSave
<1> QED
  BY <1>1, <1>7, <1>8, <1>9, <1>10 DEF InPlace

LEMMA insertEntryIInv ==
  ASSUME IInv, NEW h \in Handler, insertEntry(h)
  PROVE  IInv'
<1> USE DEF IInv
<1>1. /\ job[h].pc = "insert" /\ process' = job[h].d /\ job' = [job EXCEPT ![h].pc = "start"]
      /\ UNCHANGED <<known, obj, files, system, excused>>
  BY DEF insertEntry, Goto
<1>2. h \in Actor /\ h # Boot /\ job[h] \in Work /\ job[h].d \in Deployment /\ Up
  BY <1>1, ActorsDiffer, Local, AtWork DEF InPlace
<1>3. PICK j \in Work : j = [job[h] EXCEPT !.pc = "start"]
  BY <1>2 DEF Work
<1>4. /\ j.pc = "start" /\ j.d = job[h].d /\ job' = [job EXCEPT ![h] = j]
      /\ job' \in [Actor -> Work]
      /\ job'[h] = j /\ \A a \in Actor : a # h => job'[a] = job[a]
  BY <1>1, <1>2, <1>3, Types DEF Work
<1>5. InPlace(h, j)
  BY <1>2, <1>4, ActorsDiffer DEF InPlace, Calls
<1>6. TypeOK'
  BY <1>1, <1>2, <1>4, Types DEF TypeOK, Work, Obj, files, system
<1>7. \A a \in Actor : InPlace(a, job'[a])
  BY <1>4, <1>5
<1>8. Loading'
  BY <1>2, <1>4, ActorsDiffer DEF Loading, Up
<1>9. WasDeployed' /\ WillSave'
  BY <1>1, <1>4 DEF WasDeployed, WillSave
<1> QED
  BY <1>1, <1>6, <1>7, <1>8, <1>9 DEF InPlace, files

LEMMA RecordFields ==
  ASSUME IInv
  PROVE  /\ Record \in [d : Deployment \cup {None}, running : BOOLEAN]
         /\ Record.running => Record.d # None
         /\ process # None /\ obj[process].deploy => Record.d = process
         /\ NoRecord \in [d : Deployment \cup {None}, running : BOOLEAN] /\ ~NoRecord.running
<1>1. process \in Deployment \cup {None}
  BY Types DEF IInv
<1>2. NoRecord \in [d : Deployment \cup {None}, running : BOOLEAN] /\ ~NoRecord.running
  BY DEF NoRecord
<1>3. CASE process # None /\ obj[process].deploy
  <2>1. Record = [d |-> process, running |-> obj[process].status = "running"]
    BY <1>3 DEF Record
  <2> QED
    BY <1>1, <1>2, <1>3, <2>1
<1>4. CASE ~(process # None /\ obj[process].deploy)
  <2>1. Record = NoRecord
    BY <1>4 DEF Record
  <2> QED
    BY <1>2, <1>4, <2>1
<1> QED
  BY <1>3, <1>4

(* What the file says after it was written, or was not. *)
LEMMA SavedFields ==
  ASSUME IInv, SaveDeployProcess
  PROVE  /\ saved' \in [d : Deployment \cup {None}, running : BOOLEAN]
         /\ saved'.running => saved'.d # None
         /\ process # None /\ obj[process].deploy /\ saved' = Record => saved'.d = process
<1>1. saved' \in {Record, saved, NoRecord}
  BY DEF SaveDeployProcess
<1>2. /\ saved \in [d : Deployment \cup {None}, running : BOOLEAN]
      /\ saved.running => saved.d # None
  BY Types DEF IInv
<1> QED
  BY <1>1, <1>2, RecordFields

LEMMA saveIInv ==
  ASSUME IInv, NEW h \in Handler, save(h)
  PROVE  IInv'
<1> USE DEF IInv
<1>1. /\ job[h].pc \in {"note", "save"} /\ known' = (known \/ job[h].pc = "note")
      /\ SaveDeployProcess /\ unsaved' = (process # None /\ saved' # Record)
      /\ job' = [job EXCEPT ![h] = Idle]
      /\ UNCHANGED <<process, obj, dir, system, excused>>
  BY DEF save, End
<1>2. h \in Actor /\ h # Boot /\ Up /\ known' \in BOOLEAN /\ unsaved' \in BOOLEAN
  BY <1>1, ActorsDiffer, AtWork, Types
<1>3. /\ job' \in [Actor -> Work]
      /\ job'[h] = Idle /\ \A a \in Actor : a # h => job'[a] = job[a]
  BY <1>1, <1>2, Types, IdleFields
<1>4. TypeOK'
  BY <1>1, <1>2, <1>3, Types, SavedFields DEF TypeOK, Work, Obj, system
<1>5. \A a \in Actor : InPlace(a, job'[a])
  BY <1>3, IdleFields
<1>6. Loading'
  BY <1>2, <1>3, ActorsDiffer DEF Loading, Up
<1>7. ASSUME process # None
      PROVE  obj[process].deploy \/ \E g \in Handler : job'[g].pc = "start" /\ job'[g].d = process
  BY <1>1, <1>3, <1>7, ActorsDiffer DEF WasDeployed
<1>8. WasDeployed'
  BY <1>1, <1>7 DEF WasDeployed
<1>9. WillSave'
  BY <1>1, <1>7, SavedFields DEF WillSave
<1> QED
  BY <1>4, <1>5, <1>6, <1>8, <1>9, <1>1, SavedFields DEF InPlace

-----------------------------------------------------------------------------
(* The check, the system, and the end and start of the manager *)

LEMMA systemIInv ==
  ASSUME IInv,
         UNCHANGED <<process, known, obj, files, job>>,
         booting' \in SUBSET Deployment, running' \in [Pid -> Deployment \cup {None}],
         excused' \in BOOLEAN
  PROVE  IInv'
BY Types DEF IInv, TypeOK, files, Loading, Up, WasDeployed, WillSave, InPlace

LEMMA launchIInv ==
  ASSUME IInv, (\E d \in Deployment : launch(d)) \/ (\E i \in Pid : exporterDies(i))
  PROVE  IInv'
<1>1. /\ booting \in SUBSET Deployment /\ running \in [Pid -> Deployment \cup {None}]
      /\ excused \in BOOLEAN
  BY Types DEF IInv
<1>2. ASSUME NEW d \in Deployment, launch(d) PROVE IInv'
  <2>1. booting' \in SUBSET Deployment /\ UNCHANGED <<process, known, obj, files, job>>
    BY <1>1, <1>2 DEF launch
  <2>2. CASE UNCHANGED <<running, excused>>
    BY <1>1, <2>1, <2>2, systemIInv
  <2>3. ASSUME NEW i \in UnusedPids, running' = [running EXCEPT ![i] = d],
               excused' = (excused \/ Free(d))
        PROVE  IInv'
    <3>1. running' \in [Pid -> Deployment \cup {None}]
      BY <1>1, <2>3 DEF UnusedPids
    <3>2. excused' \in BOOLEAN
      BY <1>1, <2>3 DEF Free
    <3> QED
      BY <2>1, <3>1, <3>2, systemIInv
  <2> QED
    BY <1>2, <2>2, <2>3 DEF launch
<1>3. ASSUME NEW i \in Pid, exporterDies(i) PROVE IInv'
  <2>1. /\ running' \in [Pid -> Deployment \cup {None}]
        /\ booting' = booting /\ excused' = excused
        /\ UNCHANGED <<process, known, obj, files, job>>
    BY <1>1, <1>3 DEF exporterDies
  <2> QED
    BY <1>1, <2>1, systemIInv
<1> QED
  BY <1>2, <1>3

LEMMA checkIInv ==
  ASSUME IInv, getSystemProcessPid \/ look
  PROVE  IInv'
<1>1. /\ process \in Deployment \cup {None} /\ excused \in BOOLEAN
      /\ Check \in Actor /\ Check # Boot /\ Check \notin Handler
  BY Types, ActorsDiffer DEF IInv
<1>2. CASE getSystemProcessPid
  <2>1. PICK j \in Work : j = [Idle EXCEPT !.pc = "look", !.pids = Live]
    BY IdleFields DEF Work, Live
  <2>2. j.pc = "look"
    BY <2>1, IdleFields DEF Work
  <2>3. /\ Up /\ job' = [job EXCEPT ![Check] = j] /\ excused' = (excused \/ Busy)
        /\ UNCHANGED <<process, known, obj, files, system>>
    BY <1>2, <2>1 DEF getSystemProcessPid, Begin
  <2>4. InPlace(Check, j)
    BY <1>1, <2>2 DEF InPlace, Looks
  <2>5. excused' \in BOOLEAN
    BY <1>1, <2>3 DEF Busy
  <2> QED
    BY <1>1, <2>3, <2>4, <2>5, OnlyLocal
<1>3. CASE look
  <2>1. job[Check].pc = "look" /\ UNCHANGED <<process, known, obj, files, system, excused>>
    BY <1>3 DEF look
  <2>2. Up /\ job[Check] \in Work
    BY <1>1, <2>1, AtWork, Local
  <2>3. PICK j \in Work : job' = [job EXCEPT ![Check] = j] /\ InPlace(Check, j)
    <3>1. Idle \in Work /\ InPlace(Check, Idle)
      BY <1>1, IdleFields
    <3>2. CASE job' = [job EXCEPT ![Check] = Idle]
      BY <3>1, <3>2
    <3>3. ASSUME process # None,
                 \/ job' = [job EXCEPT ![Check] = [job[Check] EXCEPT !.pc = "refresh", !.d = process]]
                 \/ job' = [job EXCEPT ![Check] = [Idle EXCEPT !.pc = "start", !.d = process]]
          PROVE  \E j \in Work : job' = [job EXCEPT ![Check] = j] /\ InPlace(Check, j)
      <4>1. PICK j \in Work : j = [job[Check] EXCEPT !.pc = "refresh", !.d = process]
        BY <1>1, <2>2 DEF Work
      <4>2. j.pc = "refresh" /\ j.d = process
        BY <2>2, <4>1 DEF Work
      <4>3. PICK k \in Work : k = [Idle EXCEPT !.pc = "start", !.d = process]
        BY <1>1, IdleFields DEF Work
      <4>4. k.pc = "start" /\ k.d = process
        BY <4>3, IdleFields DEF Work
      <4>5. InPlace(Check, j) /\ InPlace(Check, k)
        BY <1>1, <3>3, <4>2, <4>4 DEF InPlace, Looks
      <4> QED
        BY <3>3, <4>1, <4>3, <4>5
    <3>4. \/ job' = [job EXCEPT ![Check] = Idle]
          \/ /\ process # None
             /\ \/ job' = [job EXCEPT ![Check] = [job[Check] EXCEPT !.pc = "refresh", !.d = process]]
                \/ job' = [job EXCEPT ![Check] = [Idle EXCEPT !.pc = "start", !.d = process]]
      <4>1. CASE process = None /\ End(Check)
        BY <4>1 DEF End
      <4>2. CASE process # None
        <5>1. job[Check] \in Work /\ job \in [Actor -> Work]
          BY <1>1, <2>2, Types DEF IInv
        <5>2. job' = [job EXCEPT ![Check] =
                IF obj[process].status = "running" /\ obj[process].pid \notin job[Check].pids
                THEN [job[Check] EXCEPT !.pc = "refresh", !.d = process]
                ELSE IF obj[process].status = "dead" /\ obj[process].retry < Retry
                THEN [Idle EXCEPT !.pc = "start", !.d = process]
                ELSE Idle]
          BY <1>1, <1>3, <4>2, <5>1 DEF look
        <5> QED
          BY <4>2, <5>2
      <4> QED
        BY <1>3, <4>1, <4>2 DEF look
    <3> QED
      BY <3>2, <3>3, <3>4
  <2> QED
    BY <1>1, <2>1, <2>2, <2>3, OnlyLocal
<1> QED
  BY <1>2, <1>3

LEMMA refreshPidIInv ==
  ASSUME IInv, refreshPid
  PROVE  IInv'
<1> DEFINE d == job[Check].d
<1>1. /\ Check \in Actor /\ Check # Boot /\ Check \notin Handler
      /\ job[Check].pc = "refresh" /\ UNCHANGED <<process, known, files, system, excused>>
  BY ActorsDiffer DEF refreshPid
<1>2. Up /\ job[Check] \in Work /\ d \in Deployment
  BY <1>1, AtWork, Local DEF InPlace
<1>3. /\ obj \in [Deployment -> Obj] /\ obj[d] \in Obj /\ obj[d].pid \in Pid \cup {None}
      /\ process \in Deployment \cup {None} /\ known' \in BOOLEAN /\ excused' \in BOOLEAN
      /\ dir' \in SUBSET Deployment /\ booting' \in SUBSET Deployment
      /\ running' \in [Pid -> Deployment \cup {None}] /\ UNCHANGED <<process, saved, unsaved>>
  BY <1>1, <1>2, Types DEF IInv, Obj, files, system
<1>4. PICK i \in IF ProcessesOf(d) = {} THEN {obj[d].pid} ELSE ProcessesOf(d) :
        IF i \in job[Check].pids
        THEN obj' = [obj EXCEPT ![d].pid = i] /\ End(Check)
        ELSE /\ obj' = [obj EXCEPT ![d].pid = i, ![d].status = "dead"]
             /\ job' = [job EXCEPT ![Check].pc = "start", ![Check].pids = {}]
  BY DEF refreshPid
<1>5. i \in Pid \cup {None}
  BY <1>3, <1>4 DEF ProcessesOf
<1>6. PICK j \in Work : job' = [job EXCEPT ![Check] = j] /\ InPlace(Check, j)
  <2>1. CASE i \in job[Check].pids
    BY <1>1, <1>4, <2>1, IdleFields DEF End
  <2>2. CASE i \notin job[Check].pids
    <3>1. PICK j \in Work : j = [job[Check] EXCEPT !.pc = "start", !.pids = {}]
      BY <1>2 DEF Work
    <3>2. j.pc = "start" /\ j.d = d
      BY <1>2, <3>1 DEF Work
    <3>3. job' = [job EXCEPT ![Check].pc = "start", ![Check].pids = {}]
      BY <1>4, <2>2
    <3>4. job' = [job EXCEPT ![Check] = j]
      BY <1>1, <3>1, <3>3, Types DEF IInv
    <3>5. InPlace(Check, j)
      BY <1>1, <1>2, <3>2, ActorsDiffer DEF InPlace, Looks
    <3> QED
      BY <3>4, <3>5
  <2> QED
    BY <2>1, <2>2
<1>7. PICK o \in Obj : obj' = [obj EXCEPT ![d] = o] /\ o.deploy = obj[d].deploy
  <2>1. PICK p \in Obj : p = [obj[d] EXCEPT !.pid = i]
    BY <1>3, <1>5 DEF Obj
  <2>2. PICK q \in Obj : q = [obj[d] EXCEPT !.pid = i, !.status = "dead"]
    BY <1>3, <1>5 DEF Obj
  <2>3. p.deploy = obj[d].deploy /\ q.deploy = obj[d].deploy
    BY <1>3, <2>1, <2>2 DEF Obj
  <2> QED
    BY <1>2, <1>3, <1>4, <2>1, <2>2, <2>3
<1>8. /\ obj' \in [Deployment -> Obj]
      /\ process # None /\ obj[process].deploy => obj'[process].deploy
  BY <1>2, <1>3, <1>7
<1> QED
  BY <1>1, <1>2, <1>3, <1>6, <1>8, GoesOn

(* The manager has ended: nothing is at work. *)
LEMMA ExitIInv ==
  ASSUME IInv, Exit,
         obj' = [d \in Deployment |-> NoObj],
         saved' \in [d : Deployment \cup {None}, running : BOOLEAN],
         saved'.running => saved'.d # None,
         UNCHANGED <<dir, booting>>, running' \in [Pid -> Deployment \cup {None}],
         excused' \in BOOLEAN
  PROVE  IInv'
<1>1. PICK l \in Work : l = [Idle EXCEPT !.pc = "load"]
  BY IdleFields DEF Work
<1>2. l.pc = "load"
  BY <1>1, IdleFields DEF Work
<1>3. /\ process' = None /\ known' = FALSE /\ unsaved' = FALSE
      /\ job' = [a \in Actor |-> IF a = Boot THEN l ELSE Idle]
  BY <1>1 DEF Exit
<1>4. TypeOK'
  <2>1. job' \in [Actor -> Work] /\ obj' \in [Deployment -> Obj]
    BY <1>3, IdleFields, NoObjFields
  <2>2. /\ process' \in Deployment \cup {None} /\ known' \in BOOLEAN
        /\ dir' \subseteq Deployment /\ booting' \subseteq Deployment
        /\ unsaved' \in BOOLEAN
    BY <1>3, Types DEF IInv
  <2> QED
    BY <2>1, <2>2 DEF TypeOK, Work, Obj
<1>5. InPlace(Boot, l)
  BY <1>2, ActorsDiffer DEF InPlace, Loads
<1>6. \A a \in Actor : InPlace(a, job'[a])
  BY <1>3, <1>5, IdleFields
<1>7. Loading'
  BY <1>2, <1>3, IdleFields, ActorsDiffer DEF Loading, Up
<1>8. WasDeployed' /\ WillSave'
  BY <1>3 DEF WasDeployed, WillSave
<1> QED
  BY <1>4, <1>6, <1>7, <1>8 DEF IInv, InPlace

LEMMA endsIInv ==
  ASSUME IInv, kill \/ startSignal
  PROVE  IInv'
<1>1. /\ saved \in [d : Deployment \cup {None}, running : BOOLEAN]
      /\ saved.running => saved.d # None
      /\ running \in [Pid -> Deployment \cup {None}] /\ excused \in BOOLEAN
  BY Types DEF IInv
<1>2. CASE kill
  <2>1. excused' \in BOOLEAN
    BY <1>1, <1>2 DEF kill
  <2>2. saved' \in {saved, NoRecord}
    BY <1>2 DEF kill
  <2>3. /\ saved' \in [d : Deployment \cup {None}, running : BOOLEAN]
        /\ saved'.running => saved'.d # None
    BY <1>1, <2>2, RecordFields
  <2> QED
    BY <1>1, <1>2, <2>1, <2>3, ExitIInv DEF kill, system
<1>3. CASE startSignal
  <2>1. excused' \in BOOLEAN
    BY <1>1, <1>3 DEF startSignal, Busy
  <2>2. running' \in [Pid -> Deployment \cup {None}]
    BY <1>1, <1>3 DEF startSignal, StopDeployProcess
  <2>3. /\ saved' \in [d : Deployment \cup {None}, running : BOOLEAN]
        /\ saved'.running => saved'.d # None
    BY <1>3, SavedFields DEF startSignal
  <2> QED
    BY <1>3, <2>1, <2>2, <2>3, ExitIInv DEF startSignal
<1> QED
  BY <1>2, <1>3

LEMMA LoadIInv ==
  ASSUME IInv, LoadDeployProcess
  PROVE  IInv'
<1> USE DEF IInv
<1>1. /\ job[Boot].pc = "load" /\ UNCHANGED <<process, known, files, system, excused>>
      /\ ~Up /\ process = None /\ \A a \in Actor \ {Boot} : job[a].pc = "idle"
      /\ Boot \in Actor
  BY ActorsDiffer DEF LoadDeployProcess, Loading, Up
<1>2. job[Boot] \in Work /\ job \in [Actor -> Work] /\ obj \in [Deployment -> Obj]
  BY <1>1, Types
<1>3. \E j \in Work :
        /\ job' = [job EXCEPT ![Boot] = j] /\ InPlace(Boot, j) /\ j.pc \in {"start", "list"}
        /\ obj' \in [Deployment -> Obj]
        /\ j.pc = "start" => saved.d = j.d /\ obj'[j.d].deploy
  <2>1. CASE saved.running
    <3>1. saved.d \in Deployment
      BY <2>1, Types
    <3>2. PICK j \in Work : j = [job[Boot] EXCEPT !.pc = "start", !.d = saved.d]
      BY <1>2, <3>1 DEF Work
    <3>3. j.pc = "start" /\ j.d = saved.d /\ job' = [job EXCEPT ![Boot] = j]
      BY <1>1, <1>2, <2>1, <3>2 DEF Work, LoadDeployProcess
    <3>4. InPlace(Boot, j)
      BY <3>1, <3>3, ActorsDiffer DEF InPlace, Loads
    <3>5. PICK o \in Obj : o = [NoObj EXCEPT !.status = "running", !.deploy = TRUE]
      BY NoObjFields DEF Obj
    <3>6. o.deploy
      BY <3>5, NoObjFields DEF Obj
    <3>7. obj' = [obj EXCEPT ![saved.d] = o]
      BY <2>1, <3>5 DEF LoadDeployProcess
    <3> QED
      BY <1>2, <3>1, <3>3, <3>4, <3>6, <3>7
  <2>2. CASE ~saved.running
    <3>1. PICK j \in Work : j = [job[Boot] EXCEPT !.pc = "list"]
      BY <1>2 DEF Work
    <3>2. j.pc = "list" /\ job' = [job EXCEPT ![Boot] = j] /\ obj' = obj
      BY <1>1, <1>2, <2>2, <3>1 DEF Work, LoadDeployProcess, Goto
    <3>3. InPlace(Boot, j)
      BY <3>2, ActorsDiffer DEF InPlace, Loads
    <3> QED
      BY <1>2, <3>2, <3>3
  <2> QED
    BY <2>1, <2>2
<1>4. PICK j \in Work :
        /\ job' = [job EXCEPT ![Boot] = j] /\ InPlace(Boot, j) /\ j.pc \in {"start", "list"}
        /\ obj' \in [Deployment -> Obj]
        /\ j.pc = "start" => saved.d = j.d /\ obj'[j.d].deploy
  BY <1>3
<1>5. job'[Boot] = j /\ \A a \in Actor : a # Boot => job'[a] = job[a]
  BY <1>1, <1>2, <1>4
<1>6. TypeOK'
  BY <1>1, <1>2, <1>4, Types DEF TypeOK, Work, Obj, files, system
<1>7. \A a \in Actor : InPlace(a, job'[a])
  BY <1>4, <1>5
<1>8. saved' = saved
  BY <1>1 DEF files
<1>9. Loading'
  BY <1>1, <1>4, <1>5, <1>8 DEF Loading, Up
<1>10. WasDeployed' /\ WillSave'
  BY <1>1 DEF WasDeployed, WillSave
<1> QED
  BY <1>6, <1>7, <1>8, <1>9, <1>10 DEF InPlace

LEMMA CleanDeployDirIInv ==
  ASSUME IInv, CleanDeployDir
  PROVE  IInv'
<1>1. /\ job[Boot].pc = "list" /\ job' = [job EXCEPT ![Boot] = Idle]
      /\ dir' = dir \cap {process}
      /\ UNCHANGED <<process, known, obj, saved, unsaved, system, excused>>
  BY DEF CleanDeployDir, End
<1>2. /\ Boot \in Actor /\ Boot \notin Handler /\ Up
      /\ Idle \in Work /\ Idle.pc = "idle" /\ InPlace(Boot, Idle)
  BY <1>1, ActorsDiffer, IdleFields DEF Up
<1>3. /\ known' \in BOOLEAN /\ excused' \in BOOLEAN /\ dir' \in SUBSET Deployment
      /\ booting' \in SUBSET Deployment /\ running' \in [Pid -> Deployment \cup {None}]
      /\ obj' \in [Deployment -> Obj] /\ obj' = obj /\ UNCHANGED <<process, saved, unsaved>>
  BY <1>1, Types DEF IInv, system
<1> QED
  BY <1>1, <1>2, <1>3, GoesOn

-----------------------------------------------------------------------------
(* The theorems *)

LEMMA InitIInv ==
  ASSUME Init
  PROVE  IInv
<1>1. TypeOK
  BY IdleFields, NoObjFields DEF Init, TypeOK, Work, Obj, NoRecord
<1>2. \A a \in Actor : InPlace(a, job[a])
  BY IdleFields DEF Init
<1>3. Loading
  BY IdleFields, ActorsDiffer DEF Init, Loading, Up
<1> QED
  BY <1>1, <1>2, <1>3 DEF Init, IInv, WasDeployed, WillSave, NoRecord

LEMMA NextIInv ==
  ASSUME IInv, [Next]_vars
  PROVE  IInv'
<1>1. CASE UNCHANGED vars
  <2>1. /\ UNCHANGED <<process, known, obj, files, job, booting, running, excused>>
        /\ booting \in SUBSET Deployment /\ running \in [Pid -> Deployment \cup {None}]
        /\ excused \in BOOLEAN
    BY <1>1, Types DEF IInv, vars, system
  <2> QED
    BY <2>1, systemIInv
<1>2. CASE Next
  <2>1. CASE \E h \in Handler : AddDeploy(h) \/ DeleteDeploy(h) \/ Handles(h)
    BY <2>1, BeginIInv, stopIInv, clearUselessDirIInv, copyPackageIInv, insertEntryIInv, saveIInv
       DEF Handles
  <2>2. CASE \E a \in Actor : Starts(a)
    BY <2>2, StartsIInv, BootStartsIInv
  <2>3. CASE getSystemProcessPid \/ Checks
    BY <2>3, checkIInv, refreshPidIInv DEF Checks
  <2>4. CASE Boots
    BY <2>4, LoadIInv, CleanDeployDirIInv DEF Boots
  <2>5. CASE startSignal \/ kill
    BY <2>5, endsIInv
  <2>6. CASE (\E d \in Deployment : launch(d)) \/ (\E i \in Pid : exporterDies(i))
    BY <2>6, launchIInv
  <2> QED
    BY <1>2, <2>1, <2>2, <2>3, <2>4, <2>5, <2>6 DEF Next
<1> QED
  BY <1>1, <1>2

THEOREM Invariance == Spec => []IInv
<1>1. Init => IInv
  BY InitIInv
<1>2. IInv /\ [Next]_vars => IInv'
  BY NextIInv
<1> QED
  BY <1>1, <1>2, PTL DEF Spec

(* The maps, the file and the local states keep their types; the check     *)
(* never counts more tries than autoRestartTime.                           *)
THEOREM TypeCorrect == Spec => []TypeOK
<1>1. IInv => TypeOK
  BY DEF IInv
<1> QED
  BY <1>1, Invariance, PTL

(* However calls, checks and starts overlap: when they have ended, the     *)
(* file names the deployment that is in the map, unless the writing of it  *)
(* has failed.                                                             *)
THEOREM SavedCorrect == Spec => []DeployedIsSaved
<1>1. IInv => DeployedIsSaved
  BY ActorsDiffer DEF IInv, WillSave, DeployedIsSaved, Busy
<1> QED
  BY <1>1, Invariance, PTL

-----------------------------------------------------------------------------
(* No stray exporter.  As long as nothing has excused one, at most one     *)
(* goroutine is at work, and where it stands says which processes there    *)
(* are.                                                                    *)

(* Every process that runs is the one the map names, and not thought dead. *)
Known ==
  \A i \in Live : process # None /\ obj[process].pid = i /\ obj[process].status # "dead"

(* The script that a goroutine waits for has started the only process.     *)
Launched(d) == d \notin booting /\ \E i \in Pid : Live = {i} /\ running[i] = d

Fine(a, j) ==
  /\ j.pc \in {"idle", "stop", "note", "look", "list"} => Known
  /\ j.pc = "look" => Live \subseteq j.pids
  /\ j.pc \in {"clear", "copy", "insert", "start", "save", "refresh", "load"} => Live = {}
  /\ j.pc = "starting" => Live = {} \/ Launched(j.d)
  /\ a # Boot /\ j.pc \in {"stop", "clear", "start", "starting", "note", "refresh"} => process = j.d
  /\ process # None => known \/ (a \in Handler /\ j.pc \in {"start", "starting", "note"})

Alone(a) == \A b \in Actor \ {a} : job[b].pc = "idle"

Orderly == ~excused => \E a \in Actor : Alone(a) /\ Fine(a, job[a])

(* The one that is at work is the one that stands well. *)
LEMMA Lone ==
  ASSUME Orderly, ~excused, NEW a \in Actor, job[a].pc # "idle"
  PROVE  Alone(a) /\ Fine(a, job[a])
<1>1. PICK b \in Actor : Alone(b) /\ Fine(b, job[b])
  BY DEF Orderly
<1>2. b = a
  BY <1>1 DEF Alone
<1> QED
  BY <1>1, <1>2

LEMMA Quiet ==
  ASSUME Orderly, ~excused, ~Busy
  PROVE  /\ Known /\ (process # None => known)
         /\ \A a \in Actor : Alone(a)
BY DEF Orderly, Fine, Alone, Busy

(* It is enough to look at the one that takes a step. *)
LEMMA GoesOnAlone ==
  ASSUME IInv, NEW a \in Actor, Alone(a), NEW j \in Work,
         job' = [job EXCEPT ![a] = j], Fine(a, j)'
  PROVE  Orderly'
<1>1. job'[a] = j /\ \A b \in Actor : b # a => job'[b] = job[b]
  BY Types DEF IInv
<1>2. Alone(a)'
  BY <1>1 DEF Alone
<1>3. Fine(a, job[a])'
  BY <1>1 DEF Fine
<1> QED
  BY <1>2, <1>3 DEF Orderly

LEMMA GotoJob ==
  ASSUME IInv, NEW a \in Actor,
         NEW pc \in {"clear", "save", "start", "starting", "note", "list"},
         job' = [job EXCEPT ![a].pc = pc]
  PROVE  \E j \in Work : job' = [job EXCEPT ![a] = j] /\ j.pc = pc /\ j.d = job[a].d
<1>1. job[a] \in Work /\ job \in [Actor -> Work]
  BY Types DEF IInv
<1>2. PICK j \in Work : j = [job[a] EXCEPT !.pc = pc]
  BY <1>1 DEF Work
<1>3. j.pc = pc /\ j.d = job[a].d
  BY <1>1, <1>2 DEF Work
<1> QED
  BY <1>1, <1>2, <1>3

(* What a goroutine does after a start. *)
LEMMA AfterStartJob ==
  ASSUME IInv, NEW a \in Actor, AfterStart(a)
  PROVE  \E j \in Work :
           /\ job' = [job EXCEPT ![a] = j]
           /\ \/ a = Check /\ j.pc = "idle"
              \/ a = Boot /\ j.pc = "list"
              \/ a \in Handler /\ j.pc = "note" /\ j.d = job[a].d
<1>1. CASE a = Check
  BY <1>1, IdleFields, ActorsDiffer DEF AfterStart, End
<1>2. CASE a = Boot
  <2>1. PICK j \in Work : j = [Idle EXCEPT !.pc = "list"]
    BY IdleFields DEF Work
  <2>2. j.pc = "list"
    BY <2>1, IdleFields DEF Work
  <2> QED
    BY <1>2, <2>1, <2>2, ActorsDiffer DEF AfterStart
<1>3. CASE a \in Handler
  <2>1. job' = [job EXCEPT ![a].pc = "note"]
    BY <1>3, ActorsDiffer DEF AfterStart, Goto
  <2> QED
    BY <1>3, <2>1, GotoJob
<1> QED
  BY <1>1, <1>2, <1>3 DEF Actor

LEMMA NoneLives ==
  ASSUME Live = {}
  PROVE  Known
BY DEF Known

LEMMA LiveStays ==
  ASSUME UNCHANGED running
  PROVE  Live' = Live
BY DEF Live

LEMMA KnownStays ==
  ASSUME Known, UNCHANGED <<process, obj, running>>
  PROVE  Known'
BY DEF Known, Live


LEMMA beginsOrderly ==
  ASSUME IInv, Orderly, NEW h \in Handler, AddDeploy(h) \/ DeleteDeploy(h), ~excused'
  PROVE  Orderly'
<1>1. PICK j \in Work :
        /\ Begin(h, j)
        /\ \/ j.pc = "stop" /\ j.d = process /\ process # None
           \/ j.pc = "copy" /\ ~known
           \/ j.pc = "save" /\ process = None
           \/ j.pc = "idle"
  BY BeginJob
<1>2. /\ UNCHANGED <<process, known, obj, running>> /\ h \in Actor
      /\ ~excused /\ ~Busy /\ job' = [job EXCEPT ![h] = j]
  BY <1>1, ActorsDiffer DEF AddDeploy, DeleteDeploy, Begin, system
<1>3. Known /\ (process # None => known) /\ Alone(h)
  BY <1>2, Quiet
<1>4. Known' /\ Live' = Live
  BY <1>2, <1>3, KnownStays, LiveStays
<1>5. j.pc \in {"copy", "save"} => Live = {}
  BY <1>1, <1>3 DEF Known
<1>6. Fine(h, j)'
  BY <1>1, <1>2, <1>3, <1>4, <1>5 DEF Fine
<1> QED
  BY <1>2, <1>3, <1>6, GoesOnAlone

LEMMA stopOrderly ==
  ASSUME IInv, Orderly, NEW h \in Handler, stop(h), ~excused'
  PROVE  Orderly'
<1> DEFINE d == job[h].d
<1>1. /\ job[h].pc = "stop" /\ job' = [job EXCEPT ![h].pc = "clear"]
      /\ Stopped(d) /\ UNCHANGED <<process, known, booting>> /\ ~excused /\ h \in Actor
  BY ActorsDiffer DEF stop, Goto
<1>2. Alone(h) /\ Known /\ process = d /\ (process # None => known)
  BY <1>1, ActorsDiffer, Lone DEF Fine
<1>3. PICK j \in Work : job' = [job EXCEPT ![h] = j] /\ j.pc = "clear" /\ j.d = d
  BY <1>1, GotoJob
<1>4. Live' = {}
  <2>1. CASE obj[d].pid \in Live
    <3>1. running \in [Pid -> Deployment \cup {None}]
      BY Types DEF IInv
    <3>2. running' = [running EXCEPT ![obj[d].pid] = None]
      BY <1>1, <2>1 DEF Stopped
    <3>3. \A i \in Pid : running[i] # None => i = obj[d].pid
      BY <1>2 DEF Known, Live
    <3> QED
      BY <3>1, <3>2, <3>3 DEF Live
  <2>2. CASE obj[d].pid \notin Live
    <3>1. running' = running
      BY <1>1, <2>2 DEF Stopped
    <3>2. Live = {}
      BY <1>2, <2>2 DEF Known
    <3> QED
      BY <3>1, <3>2, LiveStays
  <2> QED
    BY <2>1, <2>2
<1>5. Fine(h, j)'
  BY <1>1, <1>2, <1>3, <1>4 DEF Fine
<1> QED
  BY <1>1, <1>2, <1>3, <1>5, GoesOnAlone

LEMMA clearUselessDirOrderly ==
  ASSUME IInv, Orderly, NEW h \in Handler, clearUselessDir(h), ~excused'
  PROVE  Orderly'
<1> DEFINE pc == IF job[h].add THEN "copy" ELSE "save"
<1>1. /\ job[h].pc = "clear" /\ process' = None
      /\ job' = [job EXCEPT ![h] = [Idle EXCEPT !.pc = pc]]
      /\ running' = running /\ ~excused /\ h \in Actor
  BY ActorsDiffer DEF clearUselessDir, system
<1>2. Alone(h) /\ Live = {}
  BY <1>1, Lone DEF Fine
<1>3. PICK j \in Work : j = [Idle EXCEPT !.pc = pc]
  BY IdleFields DEF Work
<1>4. j.pc \in {"copy", "save"}
  BY <1>3, IdleFields DEF Work
<1>5. job' = [job EXCEPT ![h] = j]
  BY <1>1, <1>3
<1>6. Live' = {}
  BY <1>1, <1>2, LiveStays
<1>7. Fine(h, j)'
  BY <1>1, <1>4, <1>6 DEF Fine
<1> QED
  BY <1>1, <1>2, <1>5, <1>7, GoesOnAlone

LEMMA copyPackageOrderly ==
  ASSUME IInv, Orderly, NEW h \in Handler, copyPackage(h), ~excused'
  PROVE  Orderly'
<1>1. /\ job[h].pc = "copy" /\ UNCHANGED <<process, known, running>>
      /\ ~excused /\ h \in Actor
  BY ActorsDiffer DEF copyPackage, system
<1>2. Alone(h) /\ Live = {} /\ (process # None => known)
  BY <1>1, Lone DEF Fine
<1>3. PICK j \in Work : job' = [job EXCEPT ![h] = j] /\ j.pc \in {"insert", "save"}
  <2>1. CASE Goto(h, "save")
    BY <1>1, <2>1, GotoJob DEF Goto
  <2>2. ASSUME NEW d \in Fresh, job' = [job EXCEPT ![h].pc = "insert", ![h].d = d]
        PROVE  \E j \in Work : job' = [job EXCEPT ![h] = j] /\ j.pc \in {"insert", "save"}
    <3>1. job[h] \in Work /\ job \in [Actor -> Work] /\ d \in Deployment
      BY <1>1, Types DEF IInv, Fresh
    <3>2. PICK j \in Work : j = [job[h] EXCEPT !.pc = "insert", !.d = d]
      BY <3>1 DEF Work
    <3>3. j.pc = "insert" /\ job' = [job EXCEPT ![h] = j]
      BY <2>2, <3>1, <3>2 DEF Work
    <3> QED
      BY <3>3
  <2> QED
    BY <2>1, <2>2 DEF copyPackage
<1>4. Live' = {}
  BY <1>1, <1>2, LiveStays
<1>5. Fine(h, j)'
  BY <1>1, <1>2, <1>3, <1>4 DEF Fine
<1> QED
  BY <1>1, <1>2, <1>3, <1>5, GoesOnAlone

LEMMA insertEntryOrderly ==
  ASSUME IInv, Orderly, NEW h \in Handler, insertEntry(h), ~excused'
  PROVE  Orderly'
<1>1. /\ job[h].pc = "insert" /\ process' = job[h].d
      /\ job' = [job EXCEPT ![h].pc = "start"]
      /\ running' = running /\ ~excused /\ h \in Actor
  BY ActorsDiffer DEF insertEntry, Goto, system
<1>2. Alone(h) /\ Live = {}
  BY <1>1, Lone DEF Fine
<1>3. PICK j \in Work : job' = [job EXCEPT ![h] = j] /\ j.pc = "start" /\ j.d = job[h].d
  BY <1>1, GotoJob
<1>4. Live' = {}
  BY <1>1, <1>2, LiveStays
<1>5. Fine(h, j)'
  BY <1>1, <1>3, <1>4 DEF Fine
<1> QED
  BY <1>1, <1>2, <1>3, <1>5, GoesOnAlone

LEMMA saveOrderly ==
  ASSUME IInv, Orderly, NEW h \in Handler, save(h), ~excused'
  PROVE  Orderly'
<1>1. /\ job[h].pc \in {"note", "save"} /\ known' = (known \/ job[h].pc = "note")
      /\ job' = [job EXCEPT ![h] = Idle]
      /\ UNCHANGED <<process, obj, running>> /\ ~excused /\ h \in Actor
  BY ActorsDiffer DEF save, End, system
<1>2. /\ Alone(h)
      /\ job[h].pc = "note" => Known
      /\ job[h].pc = "save" => Live = {} /\ (process # None => known)
  BY <1>1, Lone DEF Fine
<1>3. Known'
  BY <1>1, <1>2, NoneLives, KnownStays
<1>4. Fine(h, Idle)'
  BY <1>1, <1>2, <1>3, IdleFields DEF Fine
<1> QED
  BY <1>1, <1>2, <1>4, IdleFields, GoesOnAlone


LEMMA CountedFields ==
  ASSUME NEW a \in Actor, NEW p \in Obj
  PROVE  Counted(a, p).pid = p.pid /\ Counted(a, p).status = p.status
BY DEF Counted, Obj

(* A start begins where nothing lives, and ends with what has come.        *)
LEMMA StartsOrderly ==
  ASSUME IInv, Orderly, NEW a \in Actor, Starts(a), ~excused'
  PROVE  Orderly'
<1> DEFINE d == job[a].d
<1>1. /\ job[a].pc \in {"start", "starting"} /\ d \in Deployment /\ d # None
      /\ running' = running /\ ~excused
  <2>1. job[a].pc \in {"start", "starting"} /\ d \in Deployment /\ d # None
    BY StartsObj, ActorsDiffer
  <2>2. running' = running /\ excused' = excused
    BY DEF Starts, startScript, startFails, started, startTimeout, system
  <2> QED
    BY <2>1, <2>2
<1>2. Alone(a) /\ Fine(a, job[a]) /\ Live' = Live
  BY <1>1, Lone, LiveStays
<1>3. CASE startScript(a)
  <2>1. PICK j \in Work : job' = [job EXCEPT ![a] = j] /\ j.pc = "starting" /\ j.d = d
    BY <1>3, GotoJob DEF startScript, Goto
  <2>2. job[a].pc = "start" /\ UNCHANGED <<process, known>>
    BY <1>3 DEF startScript
  <2>3. Fine(a, j)'
    BY <1>2, <2>1, <2>2 DEF Fine
  <2> QED
    BY <1>2, <2>1, <2>3, GoesOnAlone
<1>4. CASE startFails(a) \/ startTimeout(a)
  <2>1. /\ Live = {} /\ UNCHANGED <<process, known>> /\ AfterStart(a)
        /\ a # Boot => process = d
        /\ process # None => known \/ a \in Handler
    <3>1. CASE startFails(a)
      BY <1>2, <3>1 DEF startFails, Fine
    <3>2. CASE startTimeout(a)
      <4>1. job[a].pc = "starting" /\ ProcessesOf(d) = {}
        BY <3>2 DEF startTimeout
      <4>2. ~Launched(d)
        BY <4>1 DEF Launched, ProcessesOf
      <4> QED
        BY <1>2, <3>2, <4>1, <4>2 DEF startTimeout, Fine
    <3> QED
      BY <1>4, <3>1, <3>2
  <2>2. PICK j \in Work :
          /\ job' = [job EXCEPT ![a] = j]
          /\ \/ a = Check /\ j.pc = "idle"
             \/ a = Boot /\ j.pc = "list"
             \/ a \in Handler /\ j.pc = "note" /\ j.d = d
    BY <2>1, AfterStartJob
  <2>3. Known'
    BY <1>2, <2>1 DEF Known
  <2>4. Fine(a, j)'
    BY <1>2, <2>1, <2>2, <2>3, ActorsDiffer DEF Fine
  <2> QED
    BY <1>2, <2>2, <2>4, GoesOnAlone
<1>5. CASE started(a)
  <2>1. PICK i \in ProcessesOf(d) :
          obj' = [obj EXCEPT ![d] = Counted(a, [obj[d] EXCEPT !.pid = i, !.status = "running"])]
    BY <1>1, <1>5, Types DEF started, IInv
  <2>2. /\ job[a].pc = "starting" /\ AfterStart(a)
        /\ IF a = Boot THEN process' = d /\ known' = TRUE ELSE UNCHANGED <<process, known>>
    BY <1>5 DEF started
  <2>3. i \in Pid /\ running[i] = d /\ i \in Live
    BY <1>1, <2>1 DEF ProcessesOf, Live
  <2>4. Live = {i}
    BY <1>2, <2>2, <2>3 DEF Fine, Launched
  <2>5. obj'[d].pid = i /\ obj'[d].status # "dead"
    <3>1. obj \in [Deployment -> Obj] /\ obj[d] \in Obj
      BY <1>1, Types DEF IInv
    <3>2. PICK p \in Obj : p = [obj[d] EXCEPT !.pid = i, !.status = "running"]
      BY <2>3, <3>1 DEF Obj
    <3>3. p.pid = i /\ p.status = "running"
      BY <3>1, <3>2 DEF Obj
    <3>4. obj'[d] = Counted(a, p)
      BY <1>1, <2>1, <3>1, <3>2
    <3> QED
      BY <3>3, <3>4, CountedFields
  <2>6. PICK j \in Work :
          /\ job' = [job EXCEPT ![a] = j]
          /\ \/ a = Check /\ j.pc = "idle"
             \/ a = Boot /\ j.pc = "list"
             \/ a \in Handler /\ j.pc = "note" /\ j.d = d
    BY <2>2, AfterStartJob
  <2>7. process' = d /\ (known' \/ a \in Handler)
    BY <1>1, <1>2, <2>2, ActorsDiffer DEF Fine
  <2>8. Known'
    BY <1>1, <1>2, <2>4, <2>5, <2>7 DEF Known
  <2>9. Fine(a, j)'
    BY <2>6, <2>7, <2>8, ActorsDiffer DEF Fine
  <2> QED
    BY <1>2, <2>6, <2>9, GoesOnAlone
<1> QED
  BY <1>3, <1>4, <1>5 DEF Starts

LEMMA getSystemProcessPidOrderly ==
  ASSUME IInv, Orderly, getSystemProcessPid, ~excused'
  PROVE  Orderly'
<1>1. PICK j \in Work : j = [Idle EXCEPT !.pc = "look", !.pids = Live]
  BY IdleFields DEF Work, Live
<1>2. j.pc = "look" /\ j.pids = Live
  BY <1>1, IdleFields DEF Work
<1>3. /\ job' = [job EXCEPT ![Check] = j] /\ ~excused /\ ~Busy /\ Check \in Actor
      /\ UNCHANGED <<process, known, obj, running>>
  BY <1>1, ActorsDiffer DEF getSystemProcessPid, Begin, system
<1>4. Known /\ (process # None => known) /\ Alone(Check)
  BY <1>3, Quiet
<1>5. Known' /\ Live' = Live
  BY <1>3, <1>4, KnownStays, LiveStays
<1>6. Fine(Check, j)'
  BY <1>2, <1>3, <1>4, <1>5 DEF Fine
<1> QED
  BY <1>3, <1>4, <1>6, GoesOnAlone

(* It looks further only where the one process it knows of is gone.        *)
LEMMA lookOrderly ==
  ASSUME IInv, Orderly, look, ~excused'
  PROVE  Orderly'
<1>1. /\ job[Check].pc = "look" /\ ~excused /\ Check \in Actor /\ Check # Boot
      /\ Check \notin Handler /\ UNCHANGED <<process, known, obj, running>>
  BY ActorsDiffer DEF look, system
<1>2. Alone(Check) /\ Known /\ Live \subseteq job[Check].pids /\ (process # None => known)
  BY <1>1, Lone DEF Fine
<1>3. Known' /\ Live' = Live
  BY <1>1, <1>2, KnownStays, LiveStays
<1>4. job[Check] \in Work /\ job \in [Actor -> Work] /\ process \in Deployment \cup {None}
  BY <1>1, Types DEF IInv
<1>5. PICK j \in Work :
        /\ job' = [job EXCEPT ![Check] = j]
        /\ \/ j.pc = "idle"
           \/ j.pc \in {"refresh", "start"} /\ j.d = process /\ Live = {}
  <2>1. CASE End(Check)
    BY <2>1, IdleFields DEF End
  <2>2. PICK r \in Work : r = [job[Check] EXCEPT !.pc = "refresh", !.d = process]
    BY <1>4 DEF Work
  <2>3. r.pc = "refresh" /\ r.d = process
    BY <1>4, <2>2 DEF Work
  <2>4. PICK s \in Work : s = [Idle EXCEPT !.pc = "start", !.d = process]
    BY <1>4, IdleFields DEF Work
  <2>5. s.pc = "start" /\ s.d = process
    BY <2>4, IdleFields DEF Work
  <2>6. CASE process # None
    <3>1. \/ End(Check)
          \/ /\ job' = [job EXCEPT ![Check] = r]
             /\ obj[process].pid \notin job[Check].pids
          \/ /\ job' = [job EXCEPT ![Check] = s]
             /\ obj[process].status = "dead"
      BY <1>1, <1>3, <1>4, <2>2, <2>4, <2>6 DEF look, End
    <3>2. ASSUME obj[process].pid \notin job[Check].pids \/ obj[process].status = "dead"
          PROVE  Live = {}
      BY <1>2, <3>2 DEF Known
    <3> QED
      BY <2>1, <2>3, <2>5, <3>1, <3>2
  <2>7. CASE process = None
    BY <2>1, <2>7 DEF look
  <2> QED
    BY <2>6, <2>7
<1>6. Fine(Check, j)'
  BY <1>1, <1>2, <1>3, <1>5 DEF Fine
<1> QED
  BY <1>1, <1>2, <1>5, <1>6, GoesOnAlone

LEMMA refreshPidOrderly ==
  ASSUME IInv, Orderly, refreshPid, ~excused'
  PROVE  Orderly'
<1> DEFINE d == job[Check].d
<1>1. /\ job[Check].pc = "refresh" /\ ~excused /\ Check \in Actor /\ Check # Boot
      /\ Check \notin Handler /\ UNCHANGED <<process, known, running>>
  BY ActorsDiffer DEF refreshPid, system
<1>2. Alone(Check) /\ Live = {} /\ process = d /\ (process # None => known)
  BY <1>1, Lone DEF Fine
<1>3. Live' = {} /\ Known'
  BY <1>1, <1>2, LiveStays DEF Known
<1>4. PICK j \in Work :
        /\ job' = [job EXCEPT ![Check] = j]
        /\ j.pc = "idle" \/ (j.pc = "start" /\ j.d = d)
  <2>1. CASE End(Check)
    BY <2>1, IdleFields DEF End
  <2>2. CASE job' = [job EXCEPT ![Check].pc = "start", ![Check].pids = {}]
    <3>1. job[Check] \in Work /\ job \in [Actor -> Work]
      BY <1>1, Types DEF IInv
    <3>2. PICK j \in Work : j = [job[Check] EXCEPT !.pc = "start", !.pids = {}]
      BY <3>1 DEF Work
    <3>3. j.pc = "start" /\ j.d = d /\ job' = [job EXCEPT ![Check] = j]
      BY <2>2, <3>1, <3>2 DEF Work
    <3> QED
      BY <3>3
  <2> QED
    BY <2>1, <2>2 DEF refreshPid
<1>5. Fine(Check, j)'
  BY <1>1, <1>2, <1>3, <1>4 DEF Fine
<1> QED
  BY <1>1, <1>2, <1>4, <1>5, GoesOnAlone


(* The manager that ends leaves nothing behind, or is excused.             *)
LEMMA endsOrderly ==
  ASSUME IInv, Orderly, kill \/ startSignal, ~excused'
  PROVE  Orderly'
<1>1. Exit /\ ~excused /\ Boot \in Actor
  BY ActorsDiffer DEF kill, startSignal
<1>2. Live' = {}
  <2>1. CASE kill
    <3>1. Live = {} /\ running' = running
      BY <2>1 DEF kill, system
    <3> QED
      BY <3>1, LiveStays
  <2>2. CASE startSignal
    <3>1. ~Busy /\ StopDeployProcess
      BY <2>2 DEF startSignal
    <3>2. \A i \in Live : process # None /\ obj[process].pid = i
      BY <1>1, <3>1, Quiet DEF Known
    <3> QED
      BY <3>1, <3>2 DEF StopDeployProcess, Live
  <2> QED
    BY <2>1, <2>2
<1>3. PICK l \in Work : l = [Idle EXCEPT !.pc = "load"]
  BY IdleFields DEF Work
<1>4. l.pc = "load"
  BY <1>3, IdleFields DEF Work
<1>5. /\ process' = None
      /\ job' = [a \in Actor |-> IF a = Boot THEN l ELSE Idle]
  BY <1>1, <1>3 DEF Exit
<1>6. job'[Boot] = l /\ \A a \in Actor \ {Boot} : job'[a] = Idle
  BY <1>1, <1>5
<1>7. Alone(Boot)'
  BY <1>6, IdleFields DEF Alone
<1>8. Fine(Boot, job[Boot])'
  BY <1>2, <1>4, <1>5, <1>6 DEF Fine
<1> QED
  BY <1>1, <1>7, <1>8 DEF Orderly

LEMMA LoadOrderly ==
  ASSUME IInv, Orderly, LoadDeployProcess, ~excused'
  PROVE  Orderly'
<1>1. /\ job[Boot].pc = "load" /\ ~excused /\ Boot \in Actor
      /\ UNCHANGED <<process, known, running>>
  BY ActorsDiffer DEF LoadDeployProcess, system
<1>2. Alone(Boot) /\ Live = {} /\ process = None
  BY <1>1, Lone DEF Fine, IInv, Loading, Up
<1>3. Live' = {} /\ Known'
  BY <1>1, <1>2, LiveStays DEF Known
<1>4. PICK j \in Work : job' = [job EXCEPT ![Boot] = j] /\ j.pc \in {"start", "list"}
  <2>1. CASE saved.running
    <3>1. /\ job[Boot] \in Work /\ job \in [Actor -> Work]
          /\ saved.d \in Deployment \cup {None}
      BY <1>1, Types DEF IInv
    <3>2. PICK j \in Work : j = [job[Boot] EXCEPT !.pc = "start", !.d = saved.d]
      BY <3>1 DEF Work
    <3>3. j.pc = "start" /\ job' = [job EXCEPT ![Boot] = j]
      BY <1>1, <2>1, <3>1, <3>2 DEF Work, LoadDeployProcess
    <3> QED
      BY <3>3
  <2>2. CASE ~saved.running
    BY <1>1, <2>2, GotoJob DEF LoadDeployProcess, Goto
  <2> QED
    BY <2>1, <2>2
<1>5. Fine(Boot, j)'
  BY <1>1, <1>2, <1>3, <1>4 DEF Fine
<1> QED
  BY <1>1, <1>2, <1>4, <1>5, GoesOnAlone

LEMMA CleanDeployDirOrderly ==
  ASSUME IInv, Orderly, CleanDeployDir, ~excused'
  PROVE  Orderly'
<1>1. /\ job[Boot].pc = "list" /\ job' = [job EXCEPT ![Boot] = Idle] /\ ~excused
      /\ UNCHANGED <<process, known, obj, running>> /\ Boot \in Actor /\ Boot \notin Handler
  BY ActorsDiffer DEF CleanDeployDir, End, system
<1>2. Alone(Boot) /\ Known /\ (process # None => known)
  BY <1>1, Lone DEF Fine
<1>3. Known'
  BY <1>1, <1>2, KnownStays
<1>4. Fine(Boot, Idle)'
  BY <1>1, <1>2, <1>3, IdleFields DEF Fine
<1> QED
  BY <1>1, <1>2, <1>4, IdleFields, GoesOnAlone

(* A process that nobody waits for excuses what follows.                   *)
LEMMA launchOrderly ==
  ASSUME IInv, Orderly, NEW d \in Deployment, launch(d), ~excused'
  PROVE  Orderly'
<1>1. /\ d \in booting /\ booting' = booting \ {d} /\ ~excused /\ d # None
      /\ UNCHANGED <<process, known, obj, job>>
  <2>1. d # None /\ excused \in BOOLEAN /\ Free(d) \in BOOLEAN
    BY ActorsDiffer, Types DEF Free, IInv
  <2>2. ~excused
    BY <2>1 DEF launch
  <2> QED
    BY <2>1, <2>2 DEF launch
<1>2. CASE UNCHANGED running
  <2>1. PICK a \in Actor : Alone(a) /\ Fine(a, job[a])
    BY <1>1 DEF Orderly
  <2>2. Launched(job[a].d) => Launched(job[a].d)'
    BY <1>1, <1>2 DEF Launched, Live
  <2>3. Live' = Live /\ (Known => Known')
    BY <1>1, <1>2 DEF Known, Live
  <2>4. Fine(a, job[a])' /\ Alone(a)'
    BY <1>1, <2>1, <2>2, <2>3 DEF Fine, Alone
  <2> QED
    BY <2>4 DEF Orderly
<1>3. ASSUME NEW i \in UnusedPids, running' = [running EXCEPT ![i] = d], ~Free(d)
      PROVE  Orderly'
  <2>1. PICK a \in Actor : job[a].pc = "starting" /\ job[a].d = d
    BY <1>3 DEF Free
  <2>2. Alone(a) /\ Fine(a, job[a])
    BY <1>1, <2>1, Lone
  <2>3. Live = {}
    BY <1>1, <2>1, <2>2 DEF Fine, Launched
  <2>4. running \in [Pid -> Deployment \cup {None}] /\ i \in Pid
    BY Types DEF IInv, UnusedPids
  <2>5. Live' = {i} /\ running'[i] = d
    BY <1>1, <1>3, <2>3, <2>4 DEF Live
  <2>6. Launched(d)'
    BY <1>1, <2>4, <2>5 DEF Launched
  <2>7. Fine(a, job[a])' /\ Alone(a)'
    BY <1>1, <2>1, <2>2, <2>6 DEF Fine, Alone
  <2> QED
    BY <2>7 DEF Orderly
<1> QED
  BY <1>1, <1>2, <1>3 DEF launch

LEMMA exporterDiesOrderly ==
  ASSUME IInv, Orderly, NEW i \in Pid, exporterDies(i), ~excused'
  PROVE  Orderly'
<1>1. /\ running' = [running EXCEPT ![i] = None] /\ ~excused
      /\ UNCHANGED <<process, known, obj, booting, job>>
      /\ running \in [Pid -> Deployment \cup {None}]
  BY Types DEF exporterDies, IInv
<1>2. PICK a \in Actor : Alone(a) /\ Fine(a, job[a])
  BY <1>1 DEF Orderly
<1>3. /\ Live' = Live \ {i}
      /\ \A k \in Pid : k # i => running'[k] = running[k]
  BY <1>1 DEF Live
<1>4. Known => Known'
  BY <1>1, <1>3 DEF Known
<1>5. ASSUME NEW d, Launched(d)
      PROVE  (Live = {} \/ Launched(d))'
  BY <1>1, <1>3, <1>5 DEF Launched
<1>6. Live = {} => Live' = {}
  BY <1>3
<1>7. Fine(a, job[a])' /\ Alone(a)'
  <2>1. job[a].pc = "starting" => (Live = {} \/ Launched(job[a].d))'
    BY <1>1, <1>2, <1>5, <1>6 DEF Fine
  <2> QED
    BY <1>1, <1>2, <1>3, <1>4, <1>6, <2>1 DEF Fine, Alone
<1> QED
  BY <1>7 DEF Orderly

LEMMA InitOrderly ==
  ASSUME Init
  PROVE  Orderly
<1>1. Live = {} /\ Boot \in Actor /\ process = None
  BY ActorsDiffer DEF Init, Live
<1>2. \A a \in Actor : job[a].pc = "idle"
  BY IdleFields DEF Init
<1>3. Alone(Boot) /\ Fine(Boot, job[Boot])
  BY <1>1, <1>2 DEF Alone, Fine, Known, Init
<1> QED
  BY <1>1, <1>3 DEF Orderly

LEMMA NextOrderly ==
  ASSUME IInv, Orderly, [Next]_vars
  PROVE  Orderly'
<1> SUFFICES ASSUME ~excused'
             PROVE  Orderly'
  BY DEF Orderly
<1>1. CASE UNCHANGED vars
  BY <1>1 DEF Orderly, Alone, Fine, Known, Launched, Live, vars, system
<1>2. CASE Next
  <2>1. CASE \E h \in Handler : AddDeploy(h) \/ DeleteDeploy(h) \/ Handles(h)
    BY <2>1, beginsOrderly, stopOrderly, clearUselessDirOrderly, copyPackageOrderly,
       insertEntryOrderly, saveOrderly DEF Handles
  <2>2. CASE \E a \in Actor : Starts(a)
    BY <2>2, StartsOrderly
  <2>3. CASE getSystemProcessPid \/ Checks
    BY <2>3, getSystemProcessPidOrderly, lookOrderly, refreshPidOrderly DEF Checks
  <2>4. CASE Boots
    BY <2>4, LoadOrderly, CleanDeployDirOrderly DEF Boots
  <2>5. CASE startSignal \/ kill
    BY <2>5, endsOrderly
  <2>6. CASE (\E d \in Deployment : launch(d)) \/ (\E i \in Pid : exporterDies(i))
    BY <2>6, launchOrderly, exporterDiesOrderly
  <2> QED
    BY <1>2, <2>1, <2>2, <2>3, <2>4, <2>5, <2>6 DEF Next
<1> QED
  BY <1>1, <1>2

(* While calls, checks and starts of the manager do not overlap, and no    *)
(* process comes late or outlives a manager that was killed, the manager   *)
(* knows every exporter that runs whenever it is at rest.                  *)
THEOREM StrayCorrect == Spec => []NoStrayExporter
<1>1. Init => Orderly
  BY InitOrderly
<1>2. IInv /\ Orderly /\ [Next]_vars => Orderly'
  BY NextOrderly
<1>3. Orderly => NoStrayExporter
  BY Quiet DEF NoStrayExporter, Known
<1> QED
  BY <1>1, <1>2, <1>3, Invariance, PTL DEF Spec
=============================================================================
