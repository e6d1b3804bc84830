------------------------ MODULE LogKeywordCollector ------------------------
(***************************************************************************)
(* The keyword counters of one host.  A handler of the server changes the  *)
(* keywords in the database, reads what the host has to count and posts it *)
(* to the host's node exporter, once; nothing repeats a post that failed.  *)
(* The exporter keeps one collector per log file: a goroutine that follows *)
(* the file until it is told to stop by a token in a channel of capacity   *)
(* one, and the keyword's count, which Prometheus scrapes.  A post updates *)
(* the collectors of the files it names, stops the others, starts new      *)
(* ones, and is saved for the next start.  No lock keeps two posts apart.  *)
(*                                                                         *)
(* A file has at most one keyword here, and files without one are left     *)
(* out.  A collector that was stopped and dropped is gone.                 *)
(***************************************************************************)
EXTENDS Naturals, Sequences, FiniteSets

CONSTANTS
  Path,         \* the log files
  Keyword,      \* the keywords
  Bad,          \* the keywords that are no regular expressions, but should be
  None,         \* no keyword: the file is not configured, the collector has no rule
  Worker,       \* the posts that may be under way at the same time
  MaxChanges,   \* bound on the changes of the database
  MaxCollectors,\* bound on the collectors at the same time
  MaxCount      \* bound on the hits of a keyword

ASSUME LogKeywordAssumption ==
  /\ Bad \subseteq Keyword
  /\ None \notin Keyword
  /\ MaxChanges \in Nat /\ MaxCollectors \in Nat /\ MaxCount \in Nat

Config == [Path -> Keyword \cup {None}]
Version == 0 .. MaxChanges
Id == 1 .. MaxCollectors

VARIABLES
  db,          \* what the host has to count, according to the database
  version,     \* the number of changes so far
  collector,   \* the collectors
  jobs,        \* logKeywordCollectorJobs: the collectors that are scraped
  saved,       \* the file log_monitor_cache.json
  handled,     \* history: what the exporter handled or loaded last
  post,        \* the posts, from the change of the database to the answer
  reordered,   \* history: a post was begun while another one was under way
  overlapped,  \* history: two posts have been at work in the exporter at the same time
  badPosted,   \* history: a bad expression has been posted
  unsent,      \* history: a post was not sent, did not end, or was forgotten by
               \* an exporter that had not saved it
  unsaved      \* history: the last writing of the file failed

file == <<saved, handled, unsaved>>
exporter == <<collector, jobs, file>>
history == <<reordered, overlapped, badPosted, unsent>>
vars == <<db, version, exporter, post, history>>

Content == [config : Config, version : Version]

Empty == [p \in Path |-> None]
(* Without the file, or with one that cannot be decoded, nothing is loaded. *)
Unreadable == [config |-> Empty, version |-> 0]
Stopped == [path |-> None, keyword |-> None, count |-> 0, tail |-> FALSE, destroy |-> FALSE]

Collector == [path : Path, keyword : Keyword \cup {None}, count : 0 .. MaxCount,
              tail : BOOLEAN,          \* does its goroutine follow the file?
              destroy : BOOLEAN]       \* is there a token in its DestroyChan?

Post == [pc : {"idle", "read", "send", "update", "remove", "add", "start", "save"},
         load : BOOLEAN,               \* LogKeyWordLoadConfig, not a post
         config : Config, version : Version,
         list : Seq(Id),               \* the collectors it has still to look at
         removed : SUBSET Path,        \* removePathList
         new : Path \cup {None},       \* the file it starts a collector for
         failed : BOOLEAN,             \* err
         overtaken : BOOLEAN]          \* history: another one was under way as well

Idle == [pc |-> "idle", load |-> FALSE, config |-> Empty, version |-> 0, list |-> <<>>,
         removed |-> {}, new |-> None, failed |-> FALSE, overtaken |-> FALSE]

TypeOK ==
  /\ db \in Config /\ version \in Version
  /\ collector \in [Id -> Collector \cup {Stopped}]
  /\ jobs \in Seq(Id) /\ Len(jobs) <= MaxCollectors
  /\ saved \in Content /\ handled \in Content
  /\ post \in [Worker -> Post]
  /\ reordered \in BOOLEAN /\ overlapped \in BOOLEAN
  /\ badPosted \in BOOLEAN /\ unsent \in BOOLEAN /\ unsaved \in BOOLEAN

Init ==
  /\ db = Empty /\ version = 0
  /\ collector = [i \in Id |-> Stopped]
  /\ jobs = <<>>
  /\ saved = Unreadable /\ handled = Unreadable /\ unsaved = FALSE
  /\ post = [w \in Worker |-> Idle]
  /\ reordered = FALSE /\ overlapped = FALSE
  /\ badPosted = FALSE /\ unsent = FALSE

Elements(s) == {s[i] : i \in 1 .. Len(s)}

Goto(w, pc) == post' = [post EXCEPT ![w].pc = pc]
End(w) == post' = [post EXCEPT ![w] = Idle]

-----------------------------------------------------------------------------
(* The server *)

(* CreateLogKeyword, UpdateLogKeyword, DeleteLogKeyword,                   *)
(* UpdateLogKeywordMonitor, DeleteLogKeywordMonitor: a transaction first.  *)
changeKeyword(w) ==
  /\ post[w].pc = "idle"
  /\ version < MaxChanges
  /\ version' = version + 1
  /\ \E p \in Path, k \in Keyword \cup {None} : db' = [db EXCEPT ![p] = k]
  /\ Goto(w, "read")
  /\ UNCHANGED <<exporter, history>>

UnderWay(w) == post[w].pc \notin {"idle", "read"} /\ ~post[w].load

getLogKeywordExporterConfig(w) ==
  /\ post[w].pc = "read"
  /\ LET rivals == {v \in Worker \ {w} : UnderWay(v)}
     IN /\ post' = [v \in Worker |->
          IF v = w THEN [Idle EXCEPT !.pc = "send", !.config = db, !.version = version,
                                     !.overtaken = (rivals # {})]
          ELSE IF v \in rivals THEN [post[v] EXCEPT !.overtaken = TRUE]
          ELSE post[v]]
        /\ reordered' = (reordered \/ rivals # {})
  /\ UNCHANGED <<db, version, exporter, overlapped, badPosted, unsent>>

AtExporter(w) == post[w].pc \in {"update", "remove", "add", "start", "save"}

(* The exporter starts to handle the post. *)
updateEndpointLogKeyword(w) ==
  /\ post[w].pc = "send"
  /\ post' = [post EXCEPT ![w].pc = "update", ![w].list = jobs]
  /\ overlapped' = (overlapped \/ \E v \in Worker : AtExporter(v))
  /\ badPosted' = (badPosted \/ \E p \in Path : post[w].config[p] \in Bad)
  /\ UNCHANGED <<db, version, exporter, reordered, unsent>>

(* The host does not answer, the database does not, or the post to another *)
(* host before this one failed.                                            *)
notSent(w) ==
  /\ post[w].pc \in {"read", "send"}
  /\ End(w)
  /\ unsent' = TRUE
  /\ UNCHANGED <<db, version, exporter, reordered, overlapped, badPosted>>

-----------------------------------------------------------------------------
(* logKeywordHttpAction *)

(* The collector that w looks at, if there is one. *)
Current(w) == collector[Head(post[w].list)]

Wanted(w, c) == post[w].config[c.path] # None

(* destroy holds the collector's lock while it waits for room in its       *)
(* channel.                                                                *)
Destroying(w, i) ==
  /\ post[w].pc = "update" /\ post[w].list # <<>> /\ Head(post[w].list) = i
  /\ ~Wanted(w, collector[i])

Locked(i) == collector[i].destroy /\ \E w \in Worker : Destroying(w, i)

Rule(k) == IF k \in Bad THEN None ELSE k

update_reset(w) ==
  /\ post[w].pc = "update" /\ post[w].list # <<>>
  /\ Wanted(w, Current(w))
  /\ LET i == Head(post[w].list)
         k == post[w].config[collector[i].path]
     IN /\ ~Locked(i)
        /\ collector' = [collector EXCEPT ![i].keyword = Rule(k), ![i].count = 0]
        /\ post' = [post EXCEPT ![w].list = Tail(@), ![w].failed = @ \/ k \in Bad]
  /\ UNCHANGED <<db, version, jobs, file, history>>

update(w) ==
  /\ post[w].pc = "update" /\ post[w].list # <<>>
  /\ Wanted(w, Current(w))
  /\ LET i == Head(post[w].list)
         k == post[w].config[collector[i].path]
     IN /\ ~Locked(i)
        /\ collector' = [collector EXCEPT ![i].keyword = Rule(k),
                           ![i].count = IF Rule(k) = collector[i].keyword THEN @ ELSE 0]
        /\ post' = [post EXCEPT ![w].list = Tail(@), ![w].failed = @ \/ k \in Bad]
  /\ UNCHANGED <<db, version, jobs, file, history>>

destroy(w) ==
  /\ post[w].pc = "update" /\ post[w].list # <<>>
  /\ ~Wanted(w, Current(w)) /\ ~Current(w).destroy
  /\ LET i == Head(post[w].list)
     IN /\ collector' = [collector EXCEPT ![i].destroy = TRUE, ![i].keyword = None, ![i].count = 0]
        /\ post' = [post EXCEPT ![w].list = Tail(@),
                                ![w].removed = @ \cup {collector[i].path}]
  /\ UNCHANGED <<db, version, jobs, file, history>>

(* All collectors have been looked at: a bad expression ends the post.     *)
afterUpdate(w) ==
  /\ post[w].pc = "update" /\ post[w].list = <<>>
  /\ IF post[w].failed THEN End(w) ELSE Goto(w, "remove")
  /\ UNCHANGED <<db, version, exporter, history>>

remove_none(w) ==
  /\ post[w].pc = "remove"
  /\ Goto(w, "add")
  /\ UNCHANGED <<db, version, exporter, history>>

(* The collectors that are left stay in their order. *)
remove(w) ==
  /\ post[w].pc = "remove"
  /\ LET kept == {m \in 1 .. Len(jobs) : collector[jobs[m]].path \notin post[w].removed}
     IN \E n \in 0 .. Len(jobs) : \E f \in [1 .. n -> kept] :
          /\ \A k, l \in 1 .. n : k < l => f[k] < f[l]
          /\ \A m \in kept : \E k \in 1 .. n : f[k] = m
          /\ jobs' = [k \in 1 .. n |-> jobs[f[k]]]
  /\ Goto(w, "add")
  /\ UNCHANGED <<db, version, collector, file, history>>

Missing(w) ==
  {p \in Path : post[w].config[p] # None /\ \A i \in Elements(jobs) : collector[i].path # p}

findNew(w) ==
  /\ post[w].pc = "add"
  /\ \/ \E p \in Missing(w) : post' = [post EXCEPT ![w].pc = "start", ![w].new = p]
     \/ Missing(w) = {} /\ Goto(w, "save")
  /\ UNCHANGED <<db, version, exporter, history>>

Unused(i) ==
  /\ ~collector[i].tail
  /\ i \notin Elements(jobs)
  /\ \A w \in Worker : i \notin Elements(post[w].list)

start_twice(w) ==
  /\ post[w].pc = "start"
  /\ LET k == post[w].config[post[w].new]
     IN \E i \in Id :
          /\ Unused(i) /\ \A j \in Id : Unused(j) => i <= j
          /\ collector' = [collector EXCEPT ![i] =
               [path |-> post[w].new, keyword |-> Rule(k), count |-> 0, tail |-> TRUE, destroy |-> FALSE]]
          /\ jobs' = jobs \o <<i, i>>
          /\ post' = [post EXCEPT ![w].pc = "add", ![w].new = None, ![w].failed = @ \/ k \in Bad]
  /\ UNCHANGED <<db, version, file, history>>

start(w) ==
  /\ post[w].pc = "start"
  /\ LET k == post[w].config[post[w].new]
     IN \E i \in Id :
          /\ Unused(i) /\ \A j \in Id : Unused(j) => i <= j
          /\ collector' = [collector EXCEPT ![i] =
               [path |-> post[w].new, keyword |-> Rule(k), count |-> 0, tail |-> TRUE, destroy |-> FALSE]]
          /\ jobs' = Append(jobs, i)
          /\ post' = [post EXCEPT ![w].pc = "add", ![w].new = None, ![w].failed = @ \/ k \in Bad]
  /\ UNCHANGED <<db, version, file, history>>

Sent(w) == [config |-> post[w].config, version |-> post[w].version]

(* WriteFile may fail before it has touched the file, or after.  That is   *)
(* only logged.                                                            *)
WriteFile(w) ==
  /\ saved' \in {Sent(w), saved, Unreadable}
  /\ unsaved' = (saved' # Sent(w))

logKeywordSaveConfig_load(w) ==
  /\ post[w].pc = "save"
  /\ IF post[w].failed
     THEN UNCHANGED file
     ELSE WriteFile(w) /\ handled' = Sent(w)
  /\ End(w)
  /\ UNCHANGED <<db, version, collector, jobs, history>>

logKeywordSaveConfig_first(w) ==
  /\ post[w].pc = "save"
  /\ IF post[w].failed \/ post[w].load
     THEN UNCHANGED file
     ELSE /\ handled' = Sent(w)
          /\ IF saved.version > 0 THEN UNCHANGED <<saved, unsaved>> ELSE WriteFile(w)
  /\ End(w)
  /\ UNCHANGED <<db, version, collector, jobs, history>>

(* Whatever happened, the answer is "OK". *)
logKeywordSaveConfig(w) ==
  /\ post[w].pc = "save"
  /\ IF post[w].failed \/ post[w].load
     THEN UNCHANGED file
     ELSE WriteFile(w) /\ handled' = Sent(w)
  /\ End(w)
  /\ UNCHANGED <<db, version, collector, jobs, history>>

-----------------------------------------------------------------------------
(* The collectors *)

countLine(i) ==
  /\ collector[i].tail /\ collector[i].keyword # None
  /\ collector[i].count < MaxCount
  /\ collector' = [collector EXCEPT ![i].count = @ + 1]
  /\ UNCHANGED <<db, version, jobs, file, post, history>>

stopTail(i) ==
  /\ collector[i].tail /\ collector[i].destroy
  /\ collector' = [collector EXCEPT ![i].tail = FALSE, ![i].destroy = FALSE]
  /\ UNCHANGED <<db, version, jobs, file, post, history>>

Writing(w) == post[w].pc = "save" /\ ~post[w].failed /\ ~post[w].load

(* The exporter starts and loads what was saved, while posts may come.     *)
restart ==
  /\ collector' = [i \in Id |-> Stopped]
  /\ jobs' = <<>>
  /\ \/ saved' = saved
     \/ (\E w \in Worker : Writing(w)) /\ saved' = Unreadable
  /\ handled' = saved' /\ unsaved' = FALSE
  /\ \E w \in Worker :
       post' = [v \in Worker |->
         IF v # w THEN Idle
         ELSE [Idle EXCEPT !.pc = "update", !.load = TRUE,
                           !.config = saved'.config, !.version = saved'.version]]
  /\ unsent' = (unsent \/ unsaved \/ \E w \in Worker : post[w].pc # "idle" /\ ~post[w].load)
  /\ UNCHANGED <<db, version, reordered, overlapped, badPosted>>

-----------------------------------------------------------------------------
Handle(w) ==
  \/ getLogKeywordExporterConfig(w)
  \/ updateEndpointLogKeyword(w)
  \/ update(w)
  \/ destroy(w)
  \/ afterUpdate(w)
  \/ remove(w)
  \/ findNew(w)
  \/ start(w)
  \/ logKeywordSaveConfig(w)

Next ==
  \/ \E w \in Worker : changeKeyword(w) \/ Handle(w) \/ notSent(w)
  \/ \E i \in Id : countLine(i) \/ stopTail(i)
  \/ restart

Spec == Init /\ [][Next]_vars

-----------------------------------------------------------------------------
(* Properties *)

AtRest == \A w \in Worker : post[w].pc = "idle"

(* Each configured file is followed by one collector that counts its      *)
(* keyword and is not about to stop, and there is no other collector.      *)
Counting(config) ==
  /\ Len(jobs) = Cardinality({p \in Path : config[p] # None})
  /\ \A p \in Path : config[p] # None =>
       \E i \in Elements(jobs) :
         /\ collector[i].path = p /\ collector[i].keyword = config[p]
         /\ collector[i].tail /\ ~collector[i].destroy

(* At rest, if no posts met in the exporter and none had a bad expression, *)
(* the collectors are what the exporter handled last, whether it could be  *)
(* saved or not, or what it loaded when it started.                        *)
CollectorsFollowConfig ==
  AtRest /\ ~overlapped /\ ~badPosted => Counting(handled.config)

(* If besides every post was begun after the one before had ended, came to *)
(* its own end and was not forgotten (that is, the exporter did not start  *)
(* from a file that it had failed to write), the exporter counts what the  *)
(* database says, and unless the last writing failed it will after the     *)
(* next start.                                                             *)
DatabaseIsCounted ==
  AtRest /\ ~reordered /\ ~badPosted /\ ~unsent =>
    /\ ~overlapped => Counting(db)
    /\ ~unsaved => saved.config = db

(* A count that is scraped never falls while the file and the keyword stay *)
(* configured and the exporter does not restart, if posts do not overlap:  *)
(* the server takes every other value than the last one for a new hit.     *)
CountsDoNotFall ==
  [][~overlapped =>
       \A i, j \in Id :
         /\ i \in Elements(jobs) /\ j \in Elements(jobs')
         /\ collector[i].path = collector'[j].path
         /\ collector[i].keyword = collector'[j].keyword
         /\ collector[i].keyword # None
         => collector'[j].count >= collector[i].count]_vars

Mirror ==
  INSTANCE ConfigMirror
  WITH Part <- {"config"},
       source <- [p \in {"config"} |-> version],
       copy <- [p \in {"config"} |-> saved.version],
       overtaken <- \E w \in Worker : post[w].pc = "save" /\ post[w].overtaken

(* What is saved for the next start never is older than what was saved     *)
(* before, while the posts do not overlap, unless all is lost by a writing *)
(* that failed.                                                            *)
SavedMirrorsDatabase == Mirror!Spec

(* Nor does a post stop a collector that has already stopped: nobody      *)
(* empties its channel any more, and the next attempt would wait for room  *)
(* in it for ever, with the collector's lock.  A bad expression, which     *)
(* ends a post after it stopped collectors and before it drops them, is    *)
(* how that comes about.                                                   *)
DestroyIsHeard ==
  ~overlapped /\ ~badPosted =>
    \A w \in Worker, i \in Id : Destroying(w, i) => collector[i].tail
=============================================================================
