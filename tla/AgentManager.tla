---------------------------- MODULE AgentManager ----------------------------
(***************************************************************************)
(* The agent manager deploys exporters for the server: a call copies a     *)
(* package to a directory of its own, runs its start script and looks for  *)
(* the process, for five seconds.  Every thirty seconds a check restarts   *)
(* the exporters that have died.  The manager keeps what it deployed in a  *)
(* file, from which it starts the exporters again when it is started       *)
(* itself; exporters survive the manager unless it stops them.             *)
(*                                                                         *)
(* The handlers, the check, the signal handler and the start of the        *)
(* manager are goroutines that share the map of exporters; its lock is not *)
(* taken where entries are deleted.  The module is about one exporter (one *)
(* guid); a deployment is a ProcessObj with its directory, and no two have *)
(* the same directory.  A call "init" is made of deletions and additions.  *)
(***************************************************************************)
EXTENDS Naturals, FiniteSets

CONSTANTS
  Handler,    \* the calls that may be at work at the same time
  Check,      \* the goroutine of StartManager
  Boot,       \* the goroutine of main
  Retry,      \* autoRestartTime
  MaxDeploy,  \* bound on the deployments that are remembered at the same time
  MaxPid      \* bound on the processes that are

ASSUME AgentManagerAssumption ==
  /\ Check \notin Handler /\ Boot \notin Handler /\ Check # Boot
  /\ Retry \in Nat /\ MaxDeploy \in Nat /\ MaxPid \in Nat

Actor == Handler \cup {Check, Boot}
Deployment == 1 .. MaxDeploy
Pid == 1 .. MaxPid
None == 0

VARIABLES
  process,    \* GlobalProcessMap: the exporter's deployment
  known,      \* deployGuidStatus: has it an entry?
  obj,        \* the ProcessObj of each deployment
  saved,      \* process.data
  unsaved,    \* history: the last writing of it, that was to name the deployment
              \* in the map, has failed
  dir,        \* the directories
  booting,    \* the start scripts at work
  running,    \* running[i]: the deployment that process i is of, while it runs
  job,        \* the local state of the goroutines
  excused     \* history: two of them have been at work at the same time, a process
              \* came too late to be found, or the manager was killed

files == <<saved, unsaved, dir>>
system == <<booting, running>>
vars == <<process, known, obj, files, system, job, excused>>

(* The file that lists nothing, or that cannot be decoded. *)
NoRecord == [d |-> None, running |-> FALSE]
NoObj == [status |-> "none", pid |-> None, retry |-> 0, deploy |-> FALSE]
Idle == [pc |-> "idle", add |-> FALSE, d |-> None, pids |-> {}]

TypeOK ==
  /\ process \in Deployment \cup {None} /\ known \in BOOLEAN
  /\ obj \in [Deployment -> [status : {"none", "dead", "running", "stop"},
                             pid : Pid \cup {None}, retry : 0 .. Retry,
                             deploy : BOOLEAN]]
  /\ saved \in [d : Deployment \cup {None}, running : BOOLEAN] /\ unsaved \in BOOLEAN
  /\ dir \subseteq Deployment /\ booting \subseteq Deployment
  /\ running \in [Pid -> Deployment \cup {None}]
  /\ job \in [Actor -> [pc : {"idle", "stop", "clear", "copy", "insert", "start", "starting",
                              "note", "save", "look", "refresh", "load", "list"},
                        add : BOOLEAN, d : Deployment \cup {None}, pids : SUBSET Pid]]
  /\ excused \in BOOLEAN

Init ==
  /\ process = None /\ known = FALSE
  /\ obj = [d \in Deployment |-> NoObj]
  /\ saved = NoRecord /\ unsaved = FALSE
  /\ dir = {} /\ booting = {}
  /\ running = [i \in Pid |-> None]
  /\ job = [a \in Actor |-> Idle]
  /\ excused = FALSE

Live == {i \in Pid : running[i] # None}
Goto(a, pc) == job' = [job EXCEPT ![a].pc = pc]
End(a) == job' = [job EXCEPT ![a] = Idle]

(* ProcessObj.start holds the lock of its object while the script runs and *)
(* until the process is found.                                             *)
Free(d) == \A a \in Actor : job[a].pc = "starting" => job[a].d # d

Up == job[Boot].pc \in {"idle", "list"}

Busy == \E a \in Actor : job[a].pc # "idle"

(* An actor begins its work. *)
Begin(a, j) ==
  /\ Up /\ job[a].pc = "idle"
  /\ job' = [job EXCEPT ![a] = j]
  /\ excused' = (excused \/ Busy)

-----------------------------------------------------------------------------
(* AddDeploy and DeleteDeploy *)

(* The old deployment is deleted first.  (If the entries of the two maps   *)
(* do not agree the handler panics, and net/http recovers.)                *)
AddDeploy(h) ==
  /\ Begin(h, IF ~known THEN [Idle EXCEPT !.pc = "copy"]
              ELSE IF process = None THEN Idle
              ELSE [Idle EXCEPT !.pc = "stop", !.add = TRUE, !.d = process])
  /\ UNCHANGED <<process, known, obj, files, system>>

DeleteDeploy(h) ==
  /\ Begin(h, IF process = None THEN [Idle EXCEPT !.pc = "save"]
              ELSE [Idle EXCEPT !.pc = "stop", !.d = process])
  /\ UNCHANGED <<process, known, obj, files, system>>

Stopped_noKill(d) ==
  /\ obj' = [obj EXCEPT ![d].pid = None, ![d].status = "stop"]
  /\ UNCHANGED running

(* kill -9 fails for a process that is gone, and then nothing is recorded. *)
Stopped(d) ==
  IF obj[d].pid \in Live
  THEN /\ running' = [running EXCEPT ![obj[d].pid] = None]
       /\ obj' = [obj EXCEPT ![d].pid = None, ![d].status = "stop"]
  ELSE UNCHANGED <<running, obj>>

stop(h) ==
  /\ job[h].pc = "stop" /\ Free(job[h].d)
  /\ Stopped(job[h].d)
  /\ Goto(h, "clear")
  /\ UNCHANGED <<process, known, files, booting, excused>>

(* The directory is removed, and the entries with it. *)
clearUselessDir(h) ==
  /\ job[h].pc = "clear"
  /\ dir' = dir \ {job[h].d}
  /\ process' = None /\ known' = FALSE /\ unsaved' = FALSE
  /\ job' = [job EXCEPT ![h] = [Idle EXCEPT !.pc = IF job[h].add THEN "copy" ELSE "save"]]
  /\ obj' = IF \E a \in Actor \ {h} : job[a].d = job[h].d
            THEN obj ELSE [obj EXCEPT ![job[h].d] = NoObj]
  /\ UNCHANGED <<saved, system, excused>>

Referred(d) == d \in {process, saved.d} \/ \E a \in Actor : job[a].d = d

Fresh ==
  {d \in Deployment : ~Referred(d) /\ d \notin dir \cup booting
                                   /\ \A i \in Pid : running[i] # d}

copyPackage(h) ==
  /\ job[h].pc = "copy"
  /\ \/ \E d \in Fresh :
          /\ \A e \in Fresh : d <= e
          /\ dir' = dir \cup {d}
          /\ obj' = [obj EXCEPT ![d] = [NoObj EXCEPT !.status = "dead"]]
          /\ job' = [job EXCEPT ![h].pc = "insert", ![h].d = d]
     \/ Goto(h, "save") /\ UNCHANGED <<dir, obj>>
  /\ UNCHANGED <<process, known, saved, unsaved, system, excused>>

Iterating == job[Check].pc \in {"refresh", "start", "starting"}

insertEntry(h) ==
  /\ job[h].pc = "insert" /\ ~Iterating
  /\ process' = job[h].d
  /\ Goto(h, "start")
  /\ UNCHANGED <<known, obj, files, system, excused>>

Record_running ==
  IF process # None /\ obj[process].status = "running"
  THEN [d |-> process, running |-> TRUE] ELSE NoRecord

(* What is to be in the file. *)
Record ==
  IF process # None /\ obj[process].deploy
  THEN [d |-> process, running |-> obj[process].status = "running"] ELSE NoRecord

(* It may not be encoded, or the writing fails before or after the file is *)
(* truncated: the errors are dropped.                                      *)
SaveDeployProcess == saved' \in {Record, saved, NoRecord}

(* The status of a deployment is noted before the file is written. *)
save(h) ==
  /\ job[h].pc \in {"note", "save"}
  /\ known' = (known \/ job[h].pc = "note")
  /\ SaveDeployProcess /\ unsaved' = (process # None /\ saved' # Record)
  /\ End(h)
  /\ UNCHANGED <<process, obj, dir, system, excused>>

-----------------------------------------------------------------------------
(* ProcessObj.start.  Every restart by the check counts, and nothing sets  *)
(* the count back.                                                         *)

Counted_offByOne(a, p) ==
  IF a = Check /\ p.retry <= Retry THEN [p EXCEPT !.retry = @ + 1] ELSE p

Counted(a, p) ==
  IF a = Check /\ p.retry < Retry THEN [p EXCEPT !.retry = @ + 1] ELSE p

AfterStart(a) ==
  IF a = Check THEN End(a)
  ELSE IF a = Boot THEN job' = [job EXCEPT ![a] = [Idle EXCEPT !.pc = "list"]]
  ELSE Goto(a, "note")

startScript(a) ==
  /\ job[a].pc = "start" /\ Free(job[a].d)
  /\ job[a].d \in dir
  /\ obj' = [obj EXCEPT ![job[a].d].deploy = TRUE]
  /\ booting' = booting \cup {job[a].d}
  /\ Goto(a, "starting")
  /\ UNCHANGED <<process, known, files, running, excused>>

(* The script or its parameters cannot be read, or the script fails. *)
startFails(a) ==
  /\ job[a].pc = "start" /\ Free(job[a].d)
  /\ obj' = [obj EXCEPT ![job[a].d] = Counted(a, [@ EXCEPT !.deploy = TRUE])]
  /\ AfterStart(a)
  /\ UNCHANGED <<process, known, files, system, excused>>

ProcessesOf(d) == {i \in Pid : running[i] = d}

(* The first process that runs from the directory is taken; the manager    *)
(* that loads its file lists the deployment only now.                      *)
started(a) ==
  /\ job[a].pc = "starting"
  /\ \E i \in ProcessesOf(job[a].d) :
       obj' = [obj EXCEPT ![job[a].d] =
                 Counted(a, [@ EXCEPT !.pid = i, !.status = "running"])]
  /\ AfterStart(a)
  /\ IF a = Boot THEN process' = job[a].d /\ known' = TRUE ELSE UNCHANGED <<process, known>>
  /\ UNCHANGED <<files, system, excused>>

startTimeout(a) ==
  /\ job[a].pc = "starting"
  /\ ProcessesOf(job[a].d) = {}
  /\ obj' = [obj EXCEPT ![job[a].d] = Counted(a, [@ EXCEPT !.status = "stop"])]
  /\ AfterStart(a)
  /\ UNCHANGED <<process, known, files, system, excused>>

-----------------------------------------------------------------------------
(* The system *)

UnusedPids ==
  {i \in Pid : /\ i \notin Live
               /\ \A d \in Deployment : obj[d].pid = i => ~Referred(d)
               /\ \A a \in Actor : i \notin job[a].pids}

(* The script has started the exporter, which may have ended already. *)
launch(d) ==
  /\ d \in booting
  /\ booting' = booting \ {d}
  /\ \/ \E i \in UnusedPids :
          /\ \A k \in UnusedPids : i <= k
          /\ running' = [running EXCEPT ![i] = d]
          /\ excused' = (excused \/ Free(d))
     \/ UNCHANGED <<running, excused>>
  /\ UNCHANGED <<process, known, obj, files, job>>

exporterDies(i) ==
  /\ i \in Live
  /\ running' = [running EXCEPT ![i] = None]
  /\ UNCHANGED <<process, known, obj, files, booting, job, excused>>

-----------------------------------------------------------------------------
(* The check of StartManager: all processes are listed first *)

(* The first tick comes when the start has long ended. *)
getSystemProcessPid ==
  /\ job[Boot].pc = "idle"
  /\ Begin(Check, [Idle EXCEPT !.pc = "look", !.pids = Live])
  /\ UNCHANGED <<process, known, obj, files, system>>

look_once ==
  /\ job[Check].pc = "look"
  /\ process # None => Free(process)
  /\ LET p == obj[process]
     IN job' = [job EXCEPT ![Check] =
          IF process # None /\ p.status = "dead" /\ p.retry < Retry
          THEN [Idle EXCEPT !.pc = "start", !.d = process]
          ELSE Idle]
  /\ UNCHANGED <<process, known, obj, files, system, excused>>

look ==
  /\ job[Check].pc = "look"
  /\ \/ /\ process = None
        /\ End(Check)
     \/ /\ process # None /\ Free(process)
        /\ LET p == obj[process]
           IN job' = [job EXCEPT ![Check] =
                IF p.status = "running" /\ p.pid \notin @.pids
                THEN [@ EXCEPT !.pc = "refresh", !.d = process]
                ELSE IF p.status = "dead" /\ p.retry < Retry
                THEN [Idle EXCEPT !.pc = "start", !.d = process]
                ELSE Idle]
  /\ UNCHANGED <<process, known, obj, files, system, excused>>

(* update(1) takes another process of that name, if there is one;          *)
(* update(2) finds the exporter dead unless that one was in the list.      *)
refreshPid ==
  /\ job[Check].pc = "refresh" /\ Free(job[Check].d)
  /\ LET d == job[Check].d
         P == ProcessesOf(d)
     IN \E i \in IF P = {} THEN {obj[d].pid} ELSE P :
          IF i \in job[Check].pids
          THEN obj' = [obj EXCEPT ![d].pid = i] /\ End(Check)
          ELSE /\ obj' = [obj EXCEPT ![d].pid = i, ![d].status = "dead"]
               /\ job' = [job EXCEPT ![Check].pc = "start", ![Check].pids = {}]
  /\ UNCHANGED <<process, known, files, system, excused>>

-----------------------------------------------------------------------------
(* The manager ends and is started again *)

Exit ==
  /\ process' = None /\ known' = FALSE /\ unsaved' = FALSE
  /\ job' = [a \in Actor |-> IF a = Boot THEN [Idle EXCEPT !.pc = "load"] ELSE Idle]

(* It may be killed while a call writes the file. *)
kill ==
  /\ Exit
  /\ \/ UNCHANGED saved
     \/ (\E h \in Handler : job[h].pc \in {"note", "save"}) /\ saved' = NoRecord
  /\ obj' = [d \in Deployment |-> NoObj]
  /\ excused' = (excused \/ Live # {} \/ booting # {})
  /\ UNCHANGED <<dir, system>>

StopDeployProcess ==
  running' = [i \in Pid |-> IF process # None /\ obj[process].pid = i THEN None ELSE running[i]]

(* SIGTERM.  The exporter is saved as it is, and stopped then. *)
startSignal ==
  /\ Up
  /\ process # None => Free(process)
  /\ SaveDeployProcess
  /\ StopDeployProcess
  /\ Exit
  /\ obj' = [d \in Deployment |-> NoObj]
  /\ excused' = (excused \/ Busy \/ booting # {})
  /\ UNCHANGED <<dir, booting>>

LoadDeployProcess ==
  /\ job[Boot].pc = "load"
  /\ IF saved.running
     THEN /\ obj' = [obj EXCEPT ![saved.d] = [NoObj EXCEPT !.status = "running", !.deploy = TRUE]]
          /\ job' = [job EXCEPT ![Boot].pc = "start", ![Boot].d = saved.d]
     ELSE Goto(Boot, "list") /\ UNCHANGED obj
  /\ UNCHANGED <<process, known, files, system, excused>>

(* Beside the handlers and the check: the directories of deployments that  *)
(* are not in the map go.                                                  *)
CleanDeployDir ==
  /\ job[Boot].pc = "list"
  /\ dir' = dir \cap {process}
  /\ End(Boot)
  /\ UNCHANGED <<process, known, obj, saved, unsaved, system, excused>>
-----------------------------------------------------------------------------
Handles(h) ==
  \/ stop(h) \/ clearUselessDir(h)
  \/ copyPackage(h) \/ insertEntry(h) \/ save(h)

Starts(a) == startScript(a) \/ startFails(a) \/ started(a) \/ startTimeout(a)
Checks == look \/ refreshPid
Boots == LoadDeployProcess \/ CleanDeployDir

Next ==
  \/ \E h \in Handler : AddDeploy(h) \/ DeleteDeploy(h) \/ Handles(h)
  \/ \E a \in Actor : Starts(a)
  \/ getSystemProcessPid
  \/ Checks
  \/ Boots
  \/ startSignal
  \/ kill
  \/ \E d \in Deployment : launch(d)
  \/ \E i \in Pid : exporterDies(i)

Spec == Init /\ [][Next]_vars

(* As long as a goroutine can go on, the ticker can start the check or a   *)
(* script is at work, one of these steps is taken: less than a scheduler   *)
(* gives, that forgets none of them.                                       *)
Fairness ==
  WF_vars(\/ \E h \in Handler : Handles(h)
          \/ \E a \in Actor : Starts(a)
          \/ getSystemProcessPid \/ Checks \/ Boots
          \/ \E d \in Deployment : launch(d))

FairSpec == Spec /\ Fairness

-----------------------------------------------------------------------------
(* Properties *)

(* When calls, checks and starts of the manager do not overlap, and no     *)
(* process comes later than the five seconds or outlives a manager that    *)
(* was killed, then between them the manager knows every exporter that     *)
(* runs, and could stop it.                                                *)
NoStrayExporter ==
  ~Busy /\ ~excused =>
    \A i \in Live : process # None /\ obj[process].pid = i

(* However they overlap, what the manager has deployed is in its file      *)
(* when they have ended, for the next start, unless the last writing of    *)
(* the file has failed: that is not noticed, and not repeated before the   *)
(* next call.                                                              *)
DeployedIsSaved == ~Busy /\ process # None /\ ~unsaved => saved.d = process

Fails(a) == startFails(a) \/ startTimeout(a)
Disturbed == \/ \E h \in Handler : AddDeploy(h) \/ DeleteDeploy(h)
             \/ \E a \in Actor : Fails(a)
             \/ \E i \in Pid : exporterDies(i)
             \/ startSignal \/ kill

(* When it is no longer disturbed and its starts succeed, the manager gets *)
(* its exporter to run again, unless it has used up its tries before or a  *)
(* start took too long: that one counts as stopped.                        *)
DeadIsRestarted ==
  <>[][~Disturbed]_vars =>
    <>[](process # None =>
           LET p == obj[process]
           IN \/ p.status = "running" /\ p.pid \in Live
              \/ p.status = "stop"
              \/ p.status = "dead" /\ p.retry = Retry)
=============================================================================
