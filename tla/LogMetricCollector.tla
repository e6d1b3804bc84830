------------------------- MODULE LogMetricCollector -------------------------
(***************************************************************************)
(* Values taken from log lines by the node exporter.  Every monitor of a   *)
(* log file has a goroutine that follows the file (start), one that takes  *)
(* the values out of the lines (startHandleTailData, the handler) and a    *)
(* bounded channel of values; every ten seconds calcLogMetricData empties  *)
(* the channels and publishes what Prometheus scrapes.  A post of the      *)
(* server replaces the monitors.                                           *)
(*                                                                         *)
(* Three locks meet: a post holds logMetricHttpLock and wants the lock of  *)
(* a monitor, a handler holds its monitor's lock, shared, and wants room   *)
(* in the channel, and the calculation, which makes room, wants            *)
(* logMetricHttpLock, shared.                                              *)
(*                                                                         *)
(* The monitors here are those of one file, one for each service group,    *)
(* and each has one metric; a value is a line that was found.  A           *)
(* calculation ends before the next tick, the exporter does not restart,   *)
(* and a handler that has been cancelled does not wait on the channel of   *)
(* before its file was opened anew.                                        *)
(***************************************************************************)
EXTENDS Naturals, Sequences, FiniteSets, Functions

CONSTANTS
  Job,        \* the monitors of the file
  Step,       \* the metric's step, in units of the ten seconds of a tick
  ChanSize,   \* logMetricChanLength
  MaxLines    \* bound on the lines that the monitors find

ASSUME LogMetricAssumption ==
  /\ Step \in Nat \ {0}
  /\ ChanSize \in Nat \ {0}
  /\ MaxLines \in Nat

VARIABLES
  jobs,       \* logMetricMonitorJobs
  monitor,    \* their goroutines, channels and locks
  metric,     \* logMetricMonitorMetrics
  calc,       \* calcLogMetricData
  post,       \* the post at work
  found,      \* history: how many lines a monitor has found
  shown,      \* history: how many lines the published values counted
  dropped     \* history: the monitors that have given up lines, with their channels

history == <<found, shown, dropped>>
vars == <<jobs, monitor, metric, calc, post, history>>

(* The lines count the one that start holds when DataChan is full.         *)
Monitor == [phase : {"none", "on", "stopping", "off"},   \* start
            reopen : BOOLEAN,                \* a token in ReOpenHandlerChan
            cancel : BOOLEAN,                \* a token in TailDataCancelChan
            lines : 0 .. (ChanSize + 1),     \* DataChan
            ready : 0 .. 2,                  \* the handlers that wait for a line
            sending : 0 .. 2,                \* those with a line, and with the lock, shared
            data : 0 .. ChanSize]            \* DataChannel

NoMonitor == [phase |-> "none", reopen |-> FALSE, cancel |-> FALSE, lines |-> 0,
              ready |-> 0, sending |-> 0, data |-> 0]

(* The age is the time since UpdateTime. *)
Metric == [exists : BOOLEAN, display : BOOLEAN, count : Nat, age : 0 .. Step]
NoMetric == [exists |-> FALSE, display |-> FALSE, count |-> 0, age |-> 0]

NoCalc == [pc |-> "idle", todo |-> {}, got |-> [j \in Job |-> 0]]
NoPost == [pc |-> "idle", config |-> {}, todo |-> <<>>, kept |-> <<>>]

TypeOK ==
  /\ jobs \in Seq(Job)
  /\ monitor \in [Job -> Monitor]
  /\ metric \in [Job -> Metric]
  /\ calc \in [pc : {"idle", "take"}, todo : SUBSET Job, got : [Job -> 0 .. ChanSize]]
  /\ post \in [pc : {"idle", "update", "reopen", "add"}, config : SUBSET Job,
               todo : Seq(Job), kept : Seq(Job)]
  /\ found \in [Job -> Nat] /\ shown \in [Job -> Nat]
  /\ dropped \subseteq Job

Init ==
  /\ jobs = <<>>
  /\ monitor = [j \in Job |-> NoMonitor]
  /\ metric = [j \in Job |-> NoMetric]
  /\ calc = NoCalc /\ post = NoPost
  /\ found = [j \in Job |-> 0] /\ shown = [j \in Job |-> 0] /\ dropped = {}

Elements(s) == {s[i] : i \in 1 .. Len(s)}

-----------------------------------------------------------------------------
(* start: a line comes, or the file is to be opened anew *)

newLine(j) ==
  /\ monitor[j].phase = "on"
  /\ monitor[j].lines <= ChanSize
  /\ FoldFunction(+, 0, found) < MaxLines
  /\ monitor' = [monitor EXCEPT ![j].lines = @ + 1]
  /\ found' = [found EXCEPT ![j] = @ + 1]
  /\ UNCHANGED <<jobs, metric, calc, post, shown, dropped>>

stopTail(j) ==
  /\ monitor[j].phase = "on" /\ monitor[j].reopen
  /\ monitor[j].lines <= ChanSize
  /\ monitor' = [monitor EXCEPT ![j].phase = "stopping", ![j].reopen = FALSE]
  /\ UNCHANGED <<jobs, metric, calc, post, history>>

cancelHandler_not(j) ==
  /\ monitor[j].phase = "stopping" /\ ~monitor[j].cancel
  /\ monitor' = [monitor EXCEPT ![j].phase = "off"]
  /\ UNCHANGED <<jobs, metric, calc, post, history>>

cancelHandler(j) ==
  /\ monitor[j].phase = "stopping" /\ ~monitor[j].cancel
  /\ monitor' = [monitor EXCEPT ![j].phase = "off", ![j].cancel = TRUE]
  /\ UNCHANGED <<jobs, metric, calc, post, history>>

start_noHandler(j) ==
  /\ monitor[j].phase = "off"
  /\ monitor' = [monitor EXCEPT ![j].phase = "on", ![j].lines = 0]
  /\ dropped' = IF monitor[j].lines > 0 THEN dropped \cup {j} ELSE dropped
  /\ UNCHANGED <<jobs, metric, calc, post, found, shown>>

(* Two seconds later, with a new DataChan and at the end of the file.      *)
start(j) ==
  /\ monitor[j].phase = "off"
  /\ monitor' = [monitor EXCEPT ![j].phase = "on", ![j].lines = 0, ![j].ready = @ + 1]
  /\ dropped' = IF monitor[j].lines > 0 THEN dropped \cup {j} ELSE dropped
  /\ UNCHANGED <<jobs, metric, calc, post, found, shown>>

-----------------------------------------------------------------------------
(* startHandleTailData *)

(* A post that waits for the monitor's lock is let in first. *)
PostWaits(j) == post.pc = "update" /\ post.todo # <<>> /\ Head(post.todo) = j

takeLine(j) ==
  /\ monitor[j].ready > 0 /\ monitor[j].lines > 0
  /\ ~PostWaits(j)
  /\ monitor' = [monitor EXCEPT ![j].lines = @ - 1, ![j].ready = @ - 1, ![j].sending = @ + 1]
  /\ UNCHANGED <<jobs, metric, calc, post, history>>

sendData_unbounded(j) ==
  /\ monitor[j].sending > 0
  /\ monitor' = [monitor EXCEPT ![j].data = @ + 1, ![j].ready = @ + 1, ![j].sending = @ - 1]
  /\ UNCHANGED <<jobs, metric, calc, post, history>>

sendData(j) ==
  /\ monitor[j].sending > 0
  /\ monitor[j].data < ChanSize
  /\ monitor' = [monitor EXCEPT ![j].data = @ + 1, ![j].ready = @ + 1, ![j].sending = @ - 1]
  /\ UNCHANGED <<jobs, metric, calc, post, history>>

handlerEnds(j) ==
  /\ monitor[j].ready > 0 /\ monitor[j].cancel
  /\ monitor' = [monitor EXCEPT ![j].cancel = FALSE, ![j].ready = @ - 1]
  /\ UNCHANGED <<jobs, metric, calc, post, history>>

-----------------------------------------------------------------------------
(* LogMetricMonitorHttpHandle, LogMetricMonitorHandleAction *)

LogMetricMonitorHttpHandle ==
  /\ post.pc = "idle" /\ calc.pc = "idle"
  /\ \E config \in SUBSET Job :
       post' = [NoPost EXCEPT !.pc = "update", !.config = config, !.todo = jobs]
  /\ UNCHANGED <<jobs, monitor, metric, calc, history>>

Exclusive(j) == PostWaits(j) /\ monitor[j].sending = 0

(* A value regular that has changed gets a channel of its own. *)
update(j) ==
  /\ Exclusive(j) /\ j \in post.config
  /\ \E same \in BOOLEAN :
       /\ monitor' = IF same THEN monitor ELSE [monitor EXCEPT ![j].data = 0]
       /\ dropped' = IF same \/ monitor[j].data = 0 THEN dropped ELSE dropped \cup {j}
  /\ post' = [post EXCEPT !.todo = Tail(@), !.kept = Append(@, j)]
  /\ UNCHANGED <<jobs, metric, calc, found, shown>>

Inside(j) == monitor[j].lines + monitor[j].sending + monitor[j].data

(* Without rules the goroutines of the monitor do nothing more, and end. *)
destroy(j) ==
  /\ Exclusive(j) /\ j \notin post.config
  /\ monitor' = [monitor EXCEPT ![j] = NoMonitor]
  /\ dropped' = IF Inside(j) > 0 THEN dropped \cup {j} ELSE dropped
  /\ post' = [post EXCEPT !.todo = Tail(@)]
  /\ UNCHANGED <<jobs, metric, calc, found, shown>>

(* The other monitors of a file that lost one open it anew. *)
afterUpdate ==
  /\ post.pc = "update" /\ post.todo = <<>>
  /\ post' = IF Len(post.kept) < Len(jobs)
             THEN [post EXCEPT !.pc = "reopen", !.todo = post.kept]
             ELSE [post EXCEPT !.pc = "add"]
  /\ UNCHANGED <<jobs, monitor, metric, calc, history>>

reopen(j) ==
  /\ post.pc = "reopen" /\ post.todo # <<>> /\ Head(post.todo) = j
  /\ ~monitor[j].reopen
  /\ monitor' = [monitor EXCEPT ![j].reopen = TRUE]
  /\ post' = [post EXCEPT !.todo = Tail(@)]
  /\ UNCHANGED <<jobs, metric, calc, history>>

afterReopen ==
  /\ post.pc = "reopen" /\ post.todo = <<>>
  /\ post' = [post EXCEPT !.pc = "add"]
  /\ UNCHANGED <<jobs, monitor, metric, calc, history>>

new(j) ==
  /\ post.pc = "add"
  /\ j \in post.config \ Elements(post.kept)
  /\ monitor' = [monitor EXCEPT ![j] = [NoMonitor EXCEPT !.phase = "on", !.ready = 1]]
  /\ post' = [post EXCEPT !.kept = Append(@, j)]
  /\ UNCHANGED <<jobs, metric, calc, history>>

LogMetricSaveConfig ==
  /\ post.pc = "add"
  /\ post.config \subseteq Elements(post.kept)
  /\ jobs' = post.kept
  /\ post' = NoPost
  /\ UNCHANGED <<monitor, metric, calc, history>>

-----------------------------------------------------------------------------
(* calcLogMetricData *)

(* Without monitors a calculation returns at once: what was published      *)
(* stays.                                                                  *)
calcLogMetricData ==
  /\ calc.pc = "idle" /\ post.pc = "idle"
  /\ calc' = IF jobs = <<>> THEN NoCalc
             ELSE [NoCalc EXCEPT !.pc = "take", !.todo = Elements(jobs)]
  /\ metric' = [j \in Job |-> [metric[j] EXCEPT !.age = IF @ < Step THEN @ + 1 ELSE @]]
  /\ UNCHANGED <<jobs, monitor, post, history>>

take(j) ==
  /\ calc.pc = "take" /\ j \in calc.todo
  /\ calc' = [calc EXCEPT !.todo = @ \ {j}, !.got[j] = monitor[j].data]
  /\ monitor' = [monitor EXCEPT ![j].data = 0]
  /\ UNCHANGED <<jobs, metric, post, history>>

(* A metric without new data keeps its old object, whose value is set to   *)
(* zero if it has been displayed.                                          *)
Value_kept(j) == IF calc.got[j] > 0 THEN calc.got[j] ELSE metric[j].count

Value(j) ==
  IF calc.got[j] > 0 THEN calc.got[j]
  ELSE IF metric[j].display THEN 0 ELSE metric[j].count

(* buildLogMetricDisplayMetrics: the value of the old object is added if   *)
(* it has not been displayed yet.                                          *)
Published(j) ==
  IF calc.got[j] = 0 /\ ~metric[j].exists THEN NoMetric
  ELSE LET waiting == metric[j].exists /\ ~metric[j].display
           age == IF waiting THEN metric[j].age ELSE 0
           display == Step < 2 \/ ~metric[j].exists \/ age + 1 >= Step
       IN [exists |-> TRUE, display |-> display,
           count |-> Value(j) + (IF waiting THEN metric[j].count ELSE 0),
           age |-> IF display THEN 0 ELSE age]

publish ==
  /\ calc.pc = "take" /\ calc.todo = {}
  /\ metric' = [j \in Job |-> Published(j)]
  /\ shown' = [j \in Job |->
                 IF Published(j).display THEN shown[j] + Published(j).count ELSE shown[j]]
  /\ calc' = NoCalc
  /\ UNCHANGED <<jobs, monitor, post, found, dropped>>

-----------------------------------------------------------------------------
Reopens(j) == stopTail(j) \/ cancelHandler(j) \/ start(j)
Posts == \/ \E j \in Job : update(j) \/ destroy(j) \/ reopen(j) \/ new(j)
         \/ afterUpdate \/ afterReopen \/ LogMetricSaveConfig
Calculates == (\E j \in Job : take(j)) \/ publish

Next ==
  \/ \E j \in Job : newLine(j) \/ Reopens(j) \/ takeLine(j) \/ sendData(j) \/ handlerEnds(j)
  \/ LogMetricMonitorHttpHandle
  \/ Posts
  \/ calcLogMetricData
  \/ Calculates

Spec == Init /\ [][Next]_vars

(* Goroutines are scheduled, select does not neglect a channel for ever,   *)
(* and readers that wait for a lock get it when the writer leaves.         *)
Fairness ==
  /\ \A j \in Job : /\ WF_vars(Reopens(j)) /\ WF_vars(sendData(j))
                    /\ SF_vars(takeLine(j)) /\ SF_vars(handlerEnds(j))
  /\ WF_vars(Posts)
  /\ SF_vars(calcLogMetricData) /\ WF_vars(Calculates)

FairSpec == Spec /\ Fairness

-----------------------------------------------------------------------------
(* Properties *)

Pending(j) == IF metric[j].exists /\ ~metric[j].display THEN metric[j].count ELSE 0

InFlight(j) == Inside(j) + calc.got[j] + Pending(j)

(* Every line that was found is counted by the published values once, or   *)
(* still on its way, unless its channel was given up with the file or the  *)
(* configuration; and even then none is counted twice.  (The comments at   *)
(* Display and "keep append old data": the values of the ticks between are *)
(* gathered and appear once, at the step.)                                 *)
EachLineOnce ==
  \A j \in Job :
    /\ shown[j] + InFlight(j) <= found[j]
    /\ j \notin dropped => shown[j] + InFlight(j) = found[j]

(* However often a file is opened anew, while the handler of before may    *)
(* still be at work: once the cancelled ones have ended, exactly one       *)
(* handler takes the lines of a file that is followed.                     *)
OneHandler ==
  \A j \in Job :
    monitor[j].ready + monitor[j].sending =
      (IF monitor[j].phase \in {"on", "stopping"} THEN 1 ELSE 0)
        + (IF monitor[j].cancel THEN 1 ELSE 0)

(* The cycle of the three locks. *)
Stuck ==
  /\ post.pc # "idle"
  /\ \E j \in Job : monitor[j].sending > 0 /\ monitor[j].data = ChanSize

(* Nothing but a full channel during a post stops the posts, or keeps the  *)
(* lines, which come to an end here, from being counted or dropped.        *)
PostsAndLinesEnd ==
  []~Stuck => /\ []<>(post.pc = "idle")
              /\ \A j \in Job : []<>(InFlight(j) = 0)
=============================================================================
