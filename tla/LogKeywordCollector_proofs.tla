--------------------- MODULE LogKeywordCollector_proofs ---------------------
(***************************************************************************)
(* Proofs about the keyword counters of a host, for any number of posts,   *)
(* files and keywords: what is handled and saved follows the database, the *)
(* collectors follow what is handled, and no post waits for a collector    *)
(* that does not hear it.                                                  *)
(***************************************************************************)
EXTENDS LogKeywordCollector, FiniteSetTheorems, TLAPS

(* The three variables of the file are taken apart wherever it is named.   *)
USE DEF file

Distinct(s) == \A m, n \in 1 .. Len(s) : s[m] = s[n] => m = n

(* What holds of a post, and what the types of the others rest on.         *)
Sound(q) ==
  /\ \A i \in Elements(q.list) : collector[i] \in Collector
  /\ q.pc = "start" => q.new \in Path
  /\ q.pc \in {"idle", "read", "send"} => ~q.load /\ q.removed = {} /\ ~q.failed

TypeInv ==
  /\ TypeOK
  /\ Distinct(jobs)
  /\ \A i \in Elements(jobs) : collector[i] \in Collector
  /\ \A w \in Worker : Sound(post[w])

-----------------------------------------------------------------------------
(* The database and what the exporter has of it *)

Timely(q) ==
  /\ q.version <= version
  /\ q.version = version => q.config = db
  /\ q.overtaken \/ (saved.version <= q.version /\ handled.version <= q.version)
  /\ q.overtaken => reordered

(* Of two posts that are under way each has been overtaken. *)
Rivals == \A v, w \in Worker : v # w /\ UnderWay(v) /\ UnderWay(w) => post[v].overtaken

Clean(c) == \A p \in Path : c[p] \notin Bad

NoneFails ==
  ~badPosted =>
    /\ Clean(saved.config)
    /\ \A w \in Worker : AtExporter(w) => Clean(post[w].config) /\ ~post[w].failed

(* The last change of the database is handled, or a post carries it.       *)
Carried ==
  ~reordered /\ ~badPosted /\ ~unsent =>
    \/ handled.version = version
    \/ \E w \in Worker : \/ post[w].pc = "read"
                         \/ UnderWay(w) /\ post[w].version = version

(* Its version is one the database has had; the last one is what it says.  *)
Known(c) == c.version <= version /\ (c.version = version => c.config = db)

DatabaseInv ==
  /\ version = 0 => db = Empty
  /\ Known(saved) /\ Known(handled)
  /\ ~unsaved => saved = handled
  /\ \A w \in Worker : UnderWay(w) => Timely(post[w])
  /\ Rivals
  /\ NoneFails
  /\ Carried

-----------------------------------------------------------------------------
(* The collectors, while posts do not meet in the exporter *)

PathOf(i) == collector[i].path

AloneThere == \A v, w \in Worker : AtExporter(v) /\ AtExporter(w) => v = w

OnePerPath == \A i, j \in Elements(jobs) : PathOf(i) = PathOf(j) => i = j

(* What a post at the exporter has still to look at, and what it starts.   *)
Ahead(q) ==
  /\ q.pc = "update" => Distinct(q.list) /\ Elements(q.list) \subseteq Elements(jobs)
  /\ q.pc = "start" => \A i \in Elements(jobs) : PathOf(i) # q.new

OrderInv == ~overlapped => AloneThere /\ OnePerPath /\ \A w \in Worker : Ahead(post[w])

Follows(i) == collector[i].tail /\ ~collector[i].destroy

Counts(i, c) == c[PathOf(i)] # None /\ collector[i].keyword = c[PathOf(i)] /\ Follows(i)

Covered(c) == \A p \in Path : c[p] # None => \E i \in Elements(jobs) : PathOf(i) = p

Treated(q, i) == PathOf(i) \in q.removed \/ Counts(i, q.config)

(* How far a post has come with the collectors.                            *)
Stage(q) ==
  /\ q.pc = "update" =>
       \A i \in Elements(jobs) : IF i \in Elements(q.list) THEN Follows(i) ELSE Treated(q, i)
  /\ q.pc = "remove" => \A i \in Elements(jobs) : Treated(q, i)
  /\ q.pc \in {"update", "remove"} => \A p \in q.removed : q.config[p] = None
  /\ q.pc \in {"add", "start", "save"} => \A i \in Elements(jobs) : Counts(i, q.config)
  /\ q.pc = "start" => q.config[q.new] # None
  /\ q.pc = "save" => Covered(q.config)
  /\ q.load => q.config = handled.config

AtRestThere == \A w \in Worker : ~AtExporter(w)

FollowInv ==
  ~overlapped /\ ~badPosted =>
    /\ \A w \in Worker : AtExporter(w) => Stage(post[w])
    /\ AtRestThere =>
         Covered(handled.config) /\ \A i \in Elements(jobs) : Counts(i, handled.config)

-----------------------------------------------------------------------------
(* Sequences without repetition *)

LEMMA ElementsOfTail ==
  ASSUME NEW S, NEW s \in Seq(S), s # <<>>
  PROVE  /\ Tail(s) \in Seq(S) /\ Head(s) \in S
         /\ Head(s) \in Elements(s) /\ Elements(Tail(s)) \subseteq Elements(s)
         /\ \A x \in Elements(s) : x = Head(s) \/ x \in Elements(Tail(s))
<1>1. Len(s) \in Nat /\ Len(s) >= 1 /\ Head(s) = s[1] /\ s[1] \in S
  OBVIOUS
<1>2. /\ Tail(s) \in Seq(S) /\ Len(Tail(s)) = Len(s) - 1
      /\ \A k \in 1 .. Len(s) - 1 : Tail(s)[k] = s[k + 1]
  OBVIOUS
<1>3. Head(s) \in Elements(s)
  BY <1>1 DEF Elements
<1>4. Elements(Tail(s)) \subseteq Elements(s)
  BY <1>1, <1>2 DEF Elements
<1>5. ASSUME NEW k \in 1 .. Len(s), k # 1
      PROVE  s[k] \in Elements(Tail(s))
  <2>1. k - 1 \in 1 .. Len(Tail(s)) /\ Tail(s)[k - 1] = s[k]
    BY <1>1, <1>2, <1>5
  <2> QED
    BY <2>1 DEF Elements
<1>6. \A x \in Elements(s) : x = Head(s) \/ x \in Elements(Tail(s))
  BY <1>1, <1>5 DEF Elements
<1> QED
  BY <1>1, <1>2, <1>3, <1>4, <1>6

LEMMA DistinctTail ==
  ASSUME NEW S, NEW s \in Seq(S), s # <<>>, Distinct(s)
  PROVE  Distinct(Tail(s)) /\ Head(s) \notin Elements(Tail(s))
<1>1. /\ Len(s) \in Nat /\ Len(s) >= 1 /\ Head(s) = s[1]
      /\ Len(Tail(s)) = Len(s) - 1
      /\ \A k \in 1 .. Len(s) - 1 : Tail(s)[k] = s[k + 1]
  OBVIOUS
<1>2. \A m, n \in 1 .. Len(s) : s[m] = s[n] => m = n
  BY DEF Distinct
<1>3. ASSUME NEW m \in 1 .. Len(s) - 1, NEW n \in 1 .. Len(s) - 1, Tail(s)[m] = Tail(s)[n]
      PROVE  m = n
  <2>1. m + 1 \in 1 .. Len(s) /\ n + 1 \in 1 .. Len(s) /\ s[m + 1] = s[n + 1]
    BY <1>1, <1>3
  <2>2. m + 1 = n + 1
    BY <1>2, <2>1
  <2> QED
    BY <2>2
<1>4. ASSUME NEW m \in 1 .. Len(s) - 1
      PROVE  Tail(s)[m] # Head(s)
  <2>1. m + 1 \in 1 .. Len(s) /\ 1 \in 1 .. Len(s) /\ Tail(s)[m] = s[m + 1]
    BY <1>1
  <2>2. s[m + 1] # s[1]
    BY <1>2, <2>1
  <2> QED
    BY <1>1, <2>1, <2>2
<1> QED
  BY <1>1, <1>3, <1>4 DEF Distinct, Elements

LEMMA AppendOne ==
  ASSUME NEW S, NEW s \in Seq(S), NEW x \in S
  PROVE  /\ Append(s, x) \in Seq(S)
         /\ Elements(Append(s, x)) = Elements(s) \cup {x}
         /\ Distinct(s) /\ x \notin Elements(s) => Distinct(Append(s, x))
<1> DEFINE t == Append(s, x)
<1>1. /\ t \in Seq(S) /\ Len(s) \in Nat /\ Len(t) = Len(s) + 1
      /\ \A k \in 1 .. Len(s) : t[k] = s[k]
      /\ t[Len(s) + 1] = x
  OBVIOUS
<1>2. \A k \in 1 .. Len(t) : k \in 1 .. Len(s) \/ k = Len(s) + 1
  BY <1>1
<1>3. \A k \in 1 .. Len(s) : k \in 1 .. Len(t) /\ Len(s) + 1 \in 1 .. Len(t)
  BY <1>1
<1>4. Len(s) + 1 \in 1 .. Len(t)
  BY <1>1
<1>5. Elements(t) = Elements(s) \cup {x}
  <2> HIDE DEF t
  <2> QED
    BY <1>1, <1>2, <1>3, <1>4 DEF Elements
<1>6. ASSUME Distinct(s), x \notin Elements(s)
      PROVE  Distinct(t)
  <2>1. \A k \in 1 .. Len(s) : s[k] # x
    BY <1>6 DEF Elements
  <2>2. \A m, n \in 1 .. Len(s) : s[m] = s[n] => m = n
    BY <1>6 DEF Distinct
  <2> HIDE DEF t
  <2> QED
    BY <1>1, <1>2, <2>1, <2>2 DEF Distinct
<1> QED
  BY <1>1, <1>5, <1>6

LEMMA InitialSegment ==
  ASSUME NEW n \in Nat
  PROVE  IsFiniteSet(1 .. n) /\ Cardinality(1 .. n) = n
<1>1. IsFiniteSet(1 .. n) /\ Cardinality(1 .. n) = IF 1 > n THEN 0 ELSE n - 1 + 1
  BY FS_Interval
<1> QED
  BY <1>1

LEMMA DistinctBounded ==
  ASSUME NEW s \in Seq(Id), Distinct(s)
  PROVE  Len(s) <= MaxCollectors
<1>1. Len(s) \in Nat /\ s \in [1 .. Len(s) -> Id] /\ MaxCollectors \in Nat
  BY LogKeywordAssumption
<1>2. s \in Injection(1 .. Len(s), Id)
  BY <1>1 DEF Distinct, Injection, IsInjective
<1>3. /\ IsFiniteSet(Id) /\ Cardinality(Id) = MaxCollectors
      /\ Cardinality(1 .. Len(s)) = Len(s)
  BY <1>1, InitialSegment DEF Id
<1>4. Cardinality(1 .. Len(s)) <= Cardinality(Id)
  BY <1>2, <1>3, FS_Injection
<1> QED
  BY <1>3, <1>4

(* What a sequence keeps of another one.                                   *)
Keeps(t, s, kept) ==
  \E n \in 0 .. Len(s) : \E f \in [1 .. n -> kept] :
    /\ \A k, l \in 1 .. n : k < l => f[k] < f[l]
    /\ \A m \in kept : \E k \in 1 .. n : f[k] = m
    /\ t = [k \in 1 .. n |-> s[f[k]]]

LEMMA KeepsElements ==
  ASSUME NEW S, NEW s \in Seq(S), NEW kept \in SUBSET (1 .. Len(s)), NEW t, Keeps(t, s, kept)
  PROVE  /\ t \in Seq(S)
         /\ Elements(t) = {s[m] : m \in kept}
         /\ Distinct(s) => Distinct(t)
<1>0. PICK n \in 0 .. Len(s) : \E f \in [1 .. n -> kept] :
        /\ \A k, l \in 1 .. n : k < l => f[k] < f[l]
        /\ \A m \in kept : \E k \in 1 .. n : f[k] = m
        /\ t = [k \in 1 .. n |-> s[f[k]]]
  BY DEF Keeps
<1>1. PICK f \in [1 .. n -> kept] :
        /\ \A k, l \in 1 .. n : k < l => f[k] < f[l]
        /\ \A m \in kept : \E k \in 1 .. n : f[k] = m
        /\ t = [k \in 1 .. n |-> s[f[k]]]
  BY <1>0
<1>2. n \in Nat /\ Len(s) \in Nat
  OBVIOUS
<1>3. \A k \in 1 .. n : f[k] \in kept /\ f[k] \in 1 .. Len(s) /\ t[k] = s[f[k]] /\ s[f[k]] \in S
  <2>1. \A m \in 1 .. Len(s) : s[m] \in S
    OBVIOUS
  <2> QED
    BY <1>1, <1>2, <2>1
<1>4. t \in Seq(S) /\ Len(t) = n
  BY <1>1, <1>2, <1>3
<1>5. Elements(t) = {s[m] : m \in kept}
  BY <1>1, <1>3, <1>4 DEF Elements
<1>6. ASSUME Distinct(s), NEW k \in 1 .. n, NEW l \in 1 .. n, t[k] = t[l]
      PROVE  k = l
  <2>1. f[k] = f[l]
    BY <1>3, <1>6 DEF Distinct
  <2>2. f[k] \in Nat /\ f[l] \in Nat
    BY <1>2, <1>3
  <2>3. ~(k < l) /\ ~(l < k)
    BY <1>1, <2>1, <2>2
  <2> QED
    BY <1>2, <2>3
<1> QED
  BY <1>4, <1>5, <1>6 DEF Distinct


-----------------------------------------------------------------------------
(* Types, and what each operation makes of its post *)

LEMMA Types ==
  ASSUME TypeInv
  PROVE  /\ db \in Config /\ version \in Version /\ version \in Nat
         /\ collector \in [Id -> Collector \cup {Stopped}]
         /\ jobs \in Seq(Id)
         /\ saved \in Content /\ handled \in Content /\ unsaved \in BOOLEAN
         /\ saved.config \in Config /\ saved.version \in Version /\ saved.version \in Nat
         /\ handled.config \in Config /\ handled.version \in Version /\ handled.version \in Nat
         /\ post \in [Worker -> Post]
         /\ reordered \in BOOLEAN /\ overlapped \in BOOLEAN
         /\ badPosted \in BOOLEAN /\ unsent \in BOOLEAN
BY DEF TypeInv, TypeOK, Content, Version

LEMMA PostFields ==
  ASSUME NEW q \in Post
  PROVE  /\ q.load \in BOOLEAN /\ q.config \in Config /\ q.version \in Version
         /\ q.version \in Nat /\ q.list \in Seq(Id) /\ q.removed \in SUBSET Path
         /\ q.new \in Path \cup {None} /\ q.failed \in BOOLEAN /\ q.overtaken \in BOOLEAN
BY DEF Post, Version

LEMMA CollectorFields ==
  ASSUME NEW c \in Collector
  PROVE  /\ c.path \in Path /\ c.keyword \in Keyword \cup {None}
         /\ c.count \in 0 .. MaxCount /\ c.count \in Nat
         /\ c.tail \in BOOLEAN /\ c.destroy \in BOOLEAN
BY DEF Collector

LEMMA EmptyConfig == Empty \in Config /\ \A p \in Path : Empty[p] = None
BY DEF Empty, Config

LEMMA IdlePost ==
  /\ Idle \in Post /\ Idle.pc = "idle" /\ ~Idle.load /\ Idle.removed = {} /\ ~Idle.failed
  /\ Idle.list = <<>> /\ Idle.overtaken = FALSE
<1>1. 0 \in Version
  BY LogKeywordAssumption DEF Version
<1> QED
  BY <1>1, EmptyConfig DEF Idle, Post

LEMMA NoElements == Elements(<<>>) = {} /\ Distinct(<<>>)
BY DEF Elements, Distinct

(* What a post carries does not change. *)
Same(q, r) ==
  q.load = r.load /\ q.config = r.config /\ q.version = r.version /\ q.overtaken = r.overtaken

LEMMA GotoPost ==
  ASSUME TypeInv, NEW w \in Worker,
         NEW pc \in {"read", "remove", "add", "save"}, Goto(w, pc)
  PROVE  \E q \in Post :
           /\ post' = [post EXCEPT ![w] = q] /\ q.pc = pc /\ Same(q, post[w])
           /\ q.list = post[w].list /\ q.removed = post[w].removed /\ q.failed = post[w].failed
<1>1. post \in [Worker -> Post] /\ post[w] \in Post
  BY Types
<1>2. PICK q \in Post : q = [post[w] EXCEPT !.pc = pc]
  BY <1>1 DEF Post
<1>3. /\ q.pc = pc /\ Same(q, post[w])
      /\ q.list = post[w].list /\ q.removed = post[w].removed /\ q.failed = post[w].failed
  BY <1>1, <1>2 DEF Post, Same
<1> QED
  BY <1>1, <1>2, <1>3 DEF Goto

LEMMA RuleKeyword ==
  ASSUME NEW k \in Keyword \cup {None}
  PROVE  Rule(k) \in Keyword \cup {None} /\ (k \notin Bad => Rule(k) = k)
BY DEF Rule

LEMMA updateStep ==
  ASSUME TypeInv, NEW w \in Worker, update(w)
  PROVE  \E i \in Id, q \in Post, c \in Collector :
           /\ post[w].pc = "update" /\ post[w].list # <<>> /\ i = Head(post[w].list)
           /\ collector[i] \in Collector /\ post[w].config[PathOf(i)] # None
           /\ post' = [post EXCEPT ![w] = q] /\ collector' = [collector EXCEPT ![i] = c]
           /\ q.pc = "update" /\ Same(q, post[w])
           /\ q.list = Tail(post[w].list) /\ q.removed = post[w].removed
           /\ (q.failed <=> post[w].failed \/ post[w].config[PathOf(i)] \in Bad)
           /\ c.path = PathOf(i) /\ c.keyword = Rule(post[w].config[PathOf(i)])
           /\ c.tail = collector[i].tail /\ c.destroy = collector[i].destroy
           /\ c.keyword = collector[i].keyword => c.count = collector[i].count
           /\ UNCHANGED <<db, version, jobs, file, history>>
<1> DEFINE i == Head(post[w].list)
           k == post[w].config[collector[i].path]
           n == IF Rule(k) = collector[i].keyword THEN collector[i].count ELSE 0
<1>1. /\ post \in [Worker -> Post] /\ post[w] \in Post
      /\ collector \in [Id -> Collector \cup {Stopped}]
  BY Types
<1>2. post[w].pc = "update" /\ post[w].list # <<>> /\ post[w].list \in Seq(Id)
  BY <1>1, PostFields DEF update
<1>3. i \in Id /\ i \in Elements(post[w].list) /\ Tail(post[w].list) \in Seq(Id)
  BY <1>2, ElementsOfTail
<1>4. collector[i] \in Collector
  BY <1>3 DEF TypeInv, Sound
<1>5. k \in Keyword \cup {None} /\ k # None
  BY <1>1, <1>4, PostFields, CollectorFields DEF update, Wanted, Current, Config
<1>6. n \in 0 .. MaxCount
  <2>1. 0 \in 0 .. MaxCount
    BY LogKeywordAssumption
  <2> QED
    BY <1>4, <2>1, CollectorFields
<1>7. PICK q \in Post :
        q = [post[w] EXCEPT !.list = Tail(@), !.failed = @ \/ k \in Bad]
  <2>1. (post[w].failed \/ k \in Bad) \in BOOLEAN
    BY <1>1, PostFields
  <2> HIDE DEF k
  <2> QED
    BY <1>1, <1>3, <2>1 DEF Post
<1>8. /\ q.pc = "update" /\ Same(q, post[w])
      /\ q.list = Tail(post[w].list) /\ q.removed = post[w].removed
      /\ q.failed = (post[w].failed \/ k \in Bad)
  <2> HIDE DEF k
  <2> QED
    BY <1>1, <1>2, <1>7 DEF Post, Same
<1>9. PICK c \in Collector : c = [collector[i] EXCEPT !.keyword = Rule(k), !.count = n]
  <2>1. Rule(k) \in Keyword \cup {None}
    BY <1>5, RuleKeyword
  <2> HIDE DEF i, k, n
  <2> QED
    BY <1>4, <1>6, <2>1 DEF Collector
<1>10. /\ c.path = collector[i].path /\ c.keyword = Rule(k) /\ c.count = n
       /\ c.tail = collector[i].tail /\ c.destroy = collector[i].destroy
  <2> HIDE DEF i, k, n
  <2> QED
    BY <1>4, <1>9 DEF Collector
<1>11. post' = [post EXCEPT ![w] = q]
  BY <1>1, <1>7 DEF update
<1>12. collector' = [collector EXCEPT ![i] = c]
  BY <1>1, <1>3, <1>9 DEF update
<1>13. UNCHANGED <<db, version, jobs, file, history>>
  BY DEF update
<1> QED
  BY <1>2, <1>3, <1>4, <1>5, <1>8, <1>10, <1>11, <1>12, <1>13 DEF PathOf

LEMMA destroyStep ==
  ASSUME TypeInv, NEW w \in Worker, destroy(w)
  PROVE  \E i \in Id, q \in Post, c \in Collector :
           /\ post[w].pc = "update" /\ post[w].list # <<>> /\ i = Head(post[w].list)
           /\ collector[i] \in Collector /\ post[w].config[PathOf(i)] = None
           /\ post' = [post EXCEPT ![w] = q] /\ collector' = [collector EXCEPT ![i] = c]
           /\ q.pc = "update" /\ Same(q, post[w])
           /\ q.list = Tail(post[w].list) /\ q.removed = post[w].removed \cup {PathOf(i)}
           /\ q.failed = post[w].failed
           /\ c.path = PathOf(i) /\ c.keyword = None
           /\ UNCHANGED <<db, version, jobs, file, history>>
<1> DEFINE i == Head(post[w].list)
<1>1. /\ post \in [Worker -> Post] /\ post[w] \in Post
      /\ collector \in [Id -> Collector \cup {Stopped}]
  BY Types
<1>2. post[w].pc = "update" /\ post[w].list # <<>> /\ post[w].list \in Seq(Id)
  BY <1>1, PostFields DEF destroy
<1>3. i \in Id /\ i \in Elements(post[w].list) /\ Tail(post[w].list) \in Seq(Id)
  BY <1>2, ElementsOfTail
<1>4. collector[i] \in Collector /\ collector[i].path \in Path
  BY <1>3, CollectorFields DEF TypeInv, Sound
<1>5. post[w].config[collector[i].path] = None
  BY DEF destroy, Wanted, Current
<1>6. PICK q \in Post :
        q = [post[w] EXCEPT !.list = Tail(@), !.removed = @ \cup {collector[i].path}]
  <2>1. (post[w].removed \cup {collector[i].path}) \in SUBSET Path
    BY <1>1, <1>4, PostFields
  <2> HIDE DEF i
  <2> QED
    BY <1>1, <1>3, <2>1 DEF Post
<1>7. /\ q.pc = "update" /\ Same(q, post[w])
      /\ q.list = Tail(post[w].list) /\ q.removed = post[w].removed \cup {collector[i].path}
      /\ q.failed = post[w].failed
  <2> HIDE DEF i
  <2> QED
    BY <1>1, <1>2, <1>6 DEF Post, Same
<1>8. PICK c \in Collector :
        c = [collector[i] EXCEPT !.destroy = TRUE, !.keyword = None, !.count = 0]
  <2>1. 0 \in 0 .. MaxCount
    BY LogKeywordAssumption
  <2> HIDE DEF i
  <2> QED
    BY <1>4, <2>1 DEF Collector
<1>9. c.path = collector[i].path /\ c.keyword = None
  <2> HIDE DEF i
  <2> QED
    BY <1>4, <1>8 DEF Collector
<1>10. post' = [post EXCEPT ![w] = q]
  BY <1>1, <1>6 DEF destroy
<1>11. collector' = [collector EXCEPT ![i] = c]
  BY <1>1, <1>3, <1>8 DEF destroy
<1>12. UNCHANGED <<db, version, jobs, file, history>>
  BY DEF destroy
<1> QED
  BY <1>2, <1>3, <1>4, <1>5, <1>7, <1>9, <1>10, <1>11, <1>12 DEF PathOf


LEMMA removeStep ==
  ASSUME TypeInv, NEW w \in Worker, remove(w)
  PROVE  \E q \in Post :
           /\ post[w].pc = "remove" /\ post' = [post EXCEPT ![w] = q]
           /\ q.pc = "add" /\ Same(q, post[w]) /\ q.failed = post[w].failed
           /\ q.list = post[w].list
           /\ jobs' \in Seq(Id) /\ Distinct(jobs')
           /\ \A i \in Elements(jobs') : i \in Elements(jobs) /\ PathOf(i) \notin post[w].removed
           /\ \A i \in Elements(jobs) : PathOf(i) \in post[w].removed \/ i \in Elements(jobs')
           /\ UNCHANGED <<db, version, collector, file, history>>
<1>1. post[w].pc = "remove" /\ Goto(w, "add") /\ UNCHANGED <<db, version, collector, file, history>>
  BY DEF remove
<1>2. PICK q \in Post :
        /\ post' = [post EXCEPT ![w] = q] /\ q.pc = "add" /\ Same(q, post[w])
        /\ q.list = post[w].list /\ q.failed = post[w].failed
  BY <1>1, GotoPost
<1> DEFINE kept == {m \in 1 .. Len(jobs) : collector[jobs[m]].path \notin post[w].removed}
<1>3. Keeps(jobs', jobs, kept)
  BY DEF remove, Keeps
<1>4. jobs \in Seq(Id) /\ Distinct(jobs) /\ kept \in SUBSET (1 .. Len(jobs))
  BY Types DEF TypeInv
<1>5. jobs' \in Seq(Id) /\ Elements(jobs') = {jobs[m] : m \in kept} /\ Distinct(jobs')
  <2> HIDE DEF kept
  <2> QED
    BY <1>3, <1>4, KeepsElements
<1>6. \A i \in Elements(jobs') : i \in Elements(jobs) /\ PathOf(i) \notin post[w].removed
  BY <1>5 DEF Elements, PathOf
<1>7. \A i \in Elements(jobs) : PathOf(i) \in post[w].removed \/ i \in Elements(jobs')
  BY <1>5 DEF Elements, PathOf
<1> QED
  BY <1>1, <1>2, <1>5, <1>6, <1>7

LEMMA findNewStep ==
  ASSUME TypeInv, NEW w \in Worker, findNew(w)
  PROVE  \E q \in Post :
           /\ post[w].pc = "add" /\ post' = [post EXCEPT ![w] = q]
           /\ Same(q, post[w]) /\ q.failed = post[w].failed /\ q.list = post[w].list
           /\ \/ q.pc = "start" /\ q.new \in Missing(w)
              \/ q.pc = "save" /\ Missing(w) = {}
           /\ UNCHANGED <<db, version, exporter, history>>
<1>1. post[w].pc = "add" /\ UNCHANGED <<db, version, exporter, history>>
  BY DEF findNew
<1>2. CASE Missing(w) = {} /\ Goto(w, "save")
  BY <1>1, <1>2, GotoPost
<1>3. ASSUME NEW p \in Missing(w), post' = [post EXCEPT ![w].pc = "start", ![w].new = p]
      PROVE  \E q \in Post :
               /\ post' = [post EXCEPT ![w] = q] /\ Same(q, post[w]) /\ q.failed = post[w].failed
               /\ q.list = post[w].list /\ q.pc = "start" /\ q.new = p
  <2>1. post \in [Worker -> Post] /\ post[w] \in Post /\ p \in Path
    BY Types DEF Missing
  <2>2. PICK q \in Post : q = [post[w] EXCEPT !.pc = "start", !.new = p]
    BY <2>1 DEF Post
  <2>3. /\ Same(q, post[w]) /\ q.failed = post[w].failed /\ q.list = post[w].list
        /\ q.pc = "start" /\ q.new = p
    BY <2>1, <2>2 DEF Post, Same
  <2>4. post' = [post EXCEPT ![w] = q]
    BY <1>3, <2>1, <2>2
  <2> QED
    BY <2>3, <2>4
<1> QED
  BY <1>1, <1>2, <1>3 DEF findNew

LEMMA startStep ==
  ASSUME TypeInv, NEW w \in Worker, start(w)
  PROVE  \E i \in Id, q \in Post, c \in Collector :
           /\ post[w].pc = "start" /\ post[w].new \in Path /\ i \notin Elements(jobs)
           /\ post' = [post EXCEPT ![w] = q] /\ collector' = [collector EXCEPT ![i] = c]
           /\ q.pc = "add" /\ Same(q, post[w]) /\ q.list = post[w].list
           /\ (q.failed <=> post[w].failed \/ post[w].config[post[w].new] \in Bad)
           /\ c.path = post[w].new /\ c.keyword = Rule(post[w].config[post[w].new])
           /\ c.tail /\ ~c.destroy
           /\ jobs' = Append(jobs, i)
           /\ UNCHANGED <<db, version, file, history>>
<1> DEFINE k == post[w].config[post[w].new]
           r == [path |-> post[w].new, keyword |-> Rule(k), count |-> 0,
                 tail |-> TRUE, destroy |-> FALSE]
<1>1. /\ post \in [Worker -> Post] /\ post[w] \in Post
      /\ collector \in [Id -> Collector \cup {Stopped}]
  BY Types
<1>2. post[w].pc = "start" /\ post[w].new \in Path
  BY DEF start, TypeInv, Sound
<1>3. k \in Keyword \cup {None}
  BY <1>1, <1>2, PostFields DEF Config
<1>4. PICK i \in Id :
        /\ Unused(i) /\ collector' = [collector EXCEPT ![i] = r] /\ jobs' = Append(jobs, i)
        /\ post' = [post EXCEPT ![w].pc = "add", ![w].new = None, ![w].failed = @ \/ k \in Bad]
  BY DEF start
<1>5. i \notin Elements(jobs)
  BY <1>4 DEF Unused
<1>6. PICK c \in Collector : c = r
  <2>1. 0 \in 0 .. MaxCount /\ Rule(k) \in Keyword \cup {None}
    BY <1>3, RuleKeyword, LogKeywordAssumption
  <2> HIDE DEF k
  <2> QED
    BY <1>2, <2>1 DEF Collector
<1>7. c.path = post[w].new /\ c.keyword = Rule(k) /\ c.tail /\ ~c.destroy
  BY <1>6
<1>8. PICK q \in Post :
        q = [post[w] EXCEPT !.pc = "add", !.new = None, !.failed = @ \/ k \in Bad]
  <2>1. (post[w].failed \/ k \in Bad) \in BOOLEAN
    BY <1>1, PostFields
  <2> HIDE DEF k
  <2> QED
    BY <1>1, <2>1 DEF Post
<1>9. /\ q.pc = "add" /\ Same(q, post[w]) /\ q.list = post[w].list
      /\ q.failed = (post[w].failed \/ k \in Bad)
  <2> HIDE DEF k
  <2> QED
    BY <1>1, <1>8 DEF Post, Same
<1>10. post' = [post EXCEPT ![w] = q]
  BY <1>1, <1>4, <1>8
<1>11. UNCHANGED <<db, version, file, history>>
  BY DEF start
<1> QED
  BY <1>2, <1>4, <1>5, <1>6, <1>7, <1>9, <1>10, <1>11

(* The post that is begun reads the database as it is. *)
LEMMA readStep ==
  ASSUME TypeInv, NEW w \in Worker, getLogKeywordExporterConfig(w)
  PROVE  \E q \in Post :
           /\ post[w].pc = "read" /\ post'[w] = q /\ q.pc = "send" /\ ~q.load
           /\ q.config = db /\ q.version = version /\ q.list = <<>>
           /\ q.removed = {} /\ ~q.failed
           /\ q.overtaken <=> \E v \in Worker : v # w /\ UnderWay(v)
<1> DEFINE some == {v \in Worker \ {w} : UnderWay(v)} # {}
<1>1. PICK q \in Post : q = [Idle EXCEPT !.pc = "send", !.config = db, !.version = version,
                                         !.overtaken = some]
  BY IdlePost, Types DEF Post
<1>2. /\ q.pc = "send" /\ ~q.load /\ q.config = db /\ q.version = version /\ q.list = <<>>
      /\ q.removed = {} /\ ~q.failed /\ q.overtaken = some
  BY <1>1, IdlePost DEF Post
<1>3. post[w].pc = "read" /\ post'[w] = q
  BY <1>1 DEF getLogKeywordExporterConfig
<1> QED
  BY <1>2, <1>3

(* The others go on, overtaken if they are under way. *)
LEMMA readOthers ==
  ASSUME TypeInv, NEW w \in Worker, getLogKeywordExporterConfig(w), NEW v \in Worker, v # w
  PROVE  /\ post'[v] \in Post /\ post'[v].pc = post[v].pc
         /\ post'[v].load = post[v].load /\ post'[v].config = post[v].config
         /\ post'[v].version = post[v].version /\ post'[v].list = post[v].list
         /\ post'[v].removed = post[v].removed /\ post'[v].failed = post[v].failed
         /\ post'[v].new = post[v].new
         /\ post'[v].overtaken <=> post[v].overtaken \/ UnderWay(v)
<1>1. post[v] \in Post
  BY Types
<1>2. CASE UnderWay(v)
  <2>1. post'[v] = [post[v] EXCEPT !.overtaken = TRUE]
    BY <1>2 DEF getLogKeywordExporterConfig
  <2> QED
    BY <1>1, <1>2, <2>1 DEF Post
<1>3. CASE ~UnderWay(v)
  BY <1>1, <1>3 DEF getLogKeywordExporterConfig
<1> QED
  BY <1>2, <1>3

LEMMA sendStep ==
  ASSUME TypeInv, NEW w \in Worker, updateEndpointLogKeyword(w)
  PROVE  \E q \in Post :
           /\ post[w].pc = "send" /\ post' = [post EXCEPT ![w] = q]
           /\ q.pc = "update" /\ Same(q, post[w]) /\ ~q.load
           /\ q.list = jobs /\ q.removed = {} /\ ~q.failed
<1>1. post \in [Worker -> Post] /\ post[w] \in Post /\ jobs \in Seq(Id)
  BY Types
<1>2. post[w].pc = "send" /\ ~post[w].load /\ post[w].removed = {} /\ ~post[w].failed
  BY DEF updateEndpointLogKeyword, TypeInv, Sound
<1>3. PICK q \in Post : q = [post[w] EXCEPT !.pc = "update", !.list = jobs]
  BY <1>1 DEF Post
<1>4. /\ q.pc = "update" /\ Same(q, post[w]) /\ q.list = jobs
      /\ q.removed = post[w].removed /\ q.failed = post[w].failed
  BY <1>1, <1>3 DEF Post, Same
<1>5. post' = [post EXCEPT ![w] = q]
  BY <1>1, <1>3 DEF updateEndpointLogKeyword
<1> QED
  BY <1>2, <1>4, <1>5 DEF Same

LEMMA UnreadableContent == Unreadable \in Content
BY EmptyConfig, LogKeywordAssumption DEF Unreadable, Content, Version

(* What the file is when the exporter starts. *)
LEMMA restartFile ==
  ASSUME TypeInv, restart
  PROVE  /\ saved' \in Content /\ handled' = saved' /\ ~unsaved'
         /\ saved' = saved \/ saved' = Unreadable
         /\ ~unsent' => ~unsent /\ ~unsaved /\ saved' = saved
<1>1. /\ handled' = saved' /\ ~unsaved'
      /\ saved' = saved \/ ((\E w \in Worker : Writing(w)) /\ saved' = Unreadable)
  BY DEF restart
<1>2. unsent' = (unsent \/ unsaved \/ \E w \in Worker : post[w].pc # "idle" /\ ~post[w].load)
  BY DEF restart
<1>3. \A w \in Worker : Writing(w) => post[w].pc # "idle" /\ ~post[w].load
  BY DEF Writing
<1> QED
  BY <1>1, <1>2, <1>3, Types, UnreadableContent

(* The post of the exporter that starts. *)
LEMMA restartStep ==
  ASSUME TypeInv, restart
  PROVE  \E w \in Worker, q \in Post :
           /\ post' = [v \in Worker |-> IF v # w THEN Idle ELSE q]
           /\ q.pc = "update" /\ q.load /\ q.config = handled'.config /\ q.list = <<>>
           /\ q.removed = {} /\ ~q.failed
<1>1. PICK w \in Worker :
        post' = [v \in Worker |->
          IF v # w THEN Idle
          ELSE [Idle EXCEPT !.pc = "update", !.load = TRUE,
                            !.config = saved'.config, !.version = saved'.version]]
  BY DEF restart
<1>2. PICK c \in Content : c = saved' /\ c = handled'
  BY restartFile
<1>3. PICK q \in Post :
        q = [Idle EXCEPT !.pc = "update", !.load = TRUE,
                         !.config = c.config, !.version = c.version]
  BY IdlePost DEF Post, Content
<1>4. /\ q.pc = "update" /\ q.load /\ q.config = c.config /\ q.list = <<>>
      /\ q.removed = {} /\ ~q.failed
  BY <1>3, IdlePost DEF Post
<1> QED
  BY <1>1, <1>2, <1>3, <1>4

(* What a post leaves in the file. *)
LEMMA saveFile ==
  ASSUME TypeInv, NEW w \in Worker, logKeywordSaveConfig(w)
  PROVE  /\ saved' \in Content /\ handled' \in Content /\ unsaved' \in BOOLEAN
         /\ \/ (post[w].failed \/ post[w].load) /\ UNCHANGED file
            \/ /\ ~post[w].failed /\ ~post[w].load
               /\ handled'.config = post[w].config /\ handled'.version = post[w].version
               /\ saved' \in {handled', saved, Unreadable}
               /\ ~unsaved' => saved' = handled'
<1>1. CASE (post[w].failed \/ post[w].load) /\ UNCHANGED file
  BY <1>1, Types
<1>2. CASE ~post[w].failed /\ ~post[w].load /\ WriteFile(w) /\ handled' = Sent(w)
  <2>1. Sent(w) \in Content /\ Sent(w).config = post[w].config /\ Sent(w).version = post[w].version
    BY Types, PostFields DEF Sent, Content
  <2> QED
    BY <1>2, <2>1, Types, UnreadableContent DEF WriteFile
<1> QED
  BY <1>1, <1>2 DEF logKeywordSaveConfig

-----------------------------------------------------------------------------
(* The types *)

LEMMA TypesGoOn ==
  ASSUME TypeInv,
         collector' \in [Id -> Collector \cup {Stopped}],
         \A i \in Id : collector[i] \in Collector => collector'[i] \in Collector,
         jobs' \in Seq(Id), Distinct(jobs'),
         \A i \in Elements(jobs') : collector'[i] \in Collector,
         db' \in Config, version' \in Version,
         saved' \in Content, handled' \in Content, unsaved' \in BOOLEAN,
         reordered' \in BOOLEAN, overlapped' \in BOOLEAN,
         badPosted' \in BOOLEAN, unsent' \in BOOLEAN,
         post' \in [Worker -> Post],
         \A v \in Worker : Sound(post[v])'
  PROVE  TypeInv'
<1>1. Len(jobs') <= MaxCollectors
  BY DistinctBounded
<1>2. TypeOK'
  BY <1>1 DEF TypeOK
<1> QED
  BY <1>2 DEF TypeInv, Distinct

(* Only the post of w changes, and at most collectors.                     *)
LEMMA TypesOfStep ==
  ASSUME TypeInv, NEW w \in Worker, NEW q \in Post, post' = [post EXCEPT ![w] = q],
         collector' \in [Id -> Collector \cup {Stopped}],
         \A i \in Id : collector[i] \in Collector => collector'[i] \in Collector,
         jobs' \in Seq(Id), Distinct(jobs'),
         \A i \in Elements(jobs') : collector'[i] \in Collector,
         db' \in Config, version' \in Version,
         saved' \in Content, handled' \in Content, unsaved' \in BOOLEAN,
         reordered' \in BOOLEAN, overlapped' \in BOOLEAN,
         badPosted' \in BOOLEAN, unsent' \in BOOLEAN,
         \A i \in Elements(q.list) : i \in Id /\ collector[i] \in Collector,
         q.pc = "start" => q.new \in Path,
         q.pc \in {"idle", "read", "send"} => ~q.load /\ q.removed = {} /\ ~q.failed
  PROVE  TypeInv'
<1>1. /\ post \in [Worker -> Post] /\ post' \in [Worker -> Post]
      /\ post'[w] = q /\ \A v \in Worker : v # w => post'[v] = post[v]
  BY Types
<1>2. \A v \in Worker : \A i \in Elements(post[v].list) : i \in Id
  <2>1. \A v \in Worker : post[v].list \in Seq(Id)
    BY <1>1, PostFields
  <2> QED
    BY <2>1 DEF Elements
<1>3. ASSUME NEW v \in Worker
      PROVE  Sound(post[v])'
  <2>1. CASE v = w
    BY <1>1, <2>1 DEF Sound
  <2>2. CASE v # w
    <3>1. post'[v] = post[v] /\ Sound(post[v])
      BY <1>1, <2>2 DEF TypeInv
    <3>2. \A i \in Elements(post[v].list) : collector'[i] \in Collector
      BY <1>2, <3>1 DEF Sound
    <3> QED
      BY <3>1, <3>2 DEF Sound
  <2> QED
    BY <2>1, <2>2
<1> QED
  BY <1>1, <1>3, TypesGoOn

LEMMA ElementsTyped ==
  ASSUME TypeInv
  PROVE  /\ \A i \in Elements(jobs) : i \in Id /\ collector[i] \in Collector
         /\ \A w \in Worker : \A i \in Elements(post[w].list) : i \in Id /\ collector[i] \in Collector
<1>1. jobs \in Seq(Id) /\ \A w \in Worker : post[w].list \in Seq(Id)
  BY Types, PostFields
<1>2. \A s \in Seq(Id) : \A i \in Elements(s) : i \in Id
  BY DEF Elements
<1> QED
  BY <1>1, <1>2 DEF TypeInv, Sound

(* The post of w changes, and nothing that has a type to lose.             *)
LEMMA TypesOfPost ==
  ASSUME TypeInv, NEW w \in Worker, NEW q \in Post, post' = [post EXCEPT ![w] = q],
         UNCHANGED <<collector, jobs>>,
         db' \in Config, version' \in Version,
         saved' \in Content, handled' \in Content, unsaved' \in BOOLEAN,
         reordered' \in BOOLEAN, overlapped' \in BOOLEAN,
         badPosted' \in BOOLEAN, unsent' \in BOOLEAN,
         \A i \in Elements(q.list) : i \in Id /\ collector[i] \in Collector,
         q.pc = "start" => q.new \in Path,
         q.pc \in {"idle", "read", "send"} => ~q.load /\ q.removed = {} /\ ~q.failed
  PROVE  TypeInv'
<1>1. /\ collector' \in [Id -> Collector \cup {Stopped}]
      /\ \A i \in Id : collector[i] \in Collector => collector'[i] \in Collector
      /\ jobs' \in Seq(Id) /\ Distinct(jobs')
      /\ \A i \in Elements(jobs') : collector'[i] \in Collector
  BY Types, ElementsTyped DEF TypeInv
<1> QED
  BY <1>1, TypesOfStep

LEMMA changeKeywordTypes ==
  ASSUME TypeInv, NEW w \in Worker, changeKeyword(w)
  PROVE  TypeInv'
<1>1. PICK q \in Post :
        /\ post' = [post EXCEPT ![w] = q] /\ q.pc = "read" /\ Same(q, post[w])
        /\ q.list = post[w].list /\ q.removed = post[w].removed /\ q.failed = post[w].failed
  BY GotoPost DEF changeKeyword
<1>2. ~q.load /\ q.removed = {} /\ ~q.failed
  BY <1>1 DEF changeKeyword, TypeInv, Sound, Same
<1>3. db' \in Config /\ version' \in Version
  <2>1. db' \in Config
    BY Types DEF changeKeyword, Config
  <2>2. version' \in Version
    BY Types, LogKeywordAssumption DEF changeKeyword, Version
  <2> QED
    BY <2>1, <2>2
<1>4. /\ UNCHANGED <<collector, jobs, file, reordered, overlapped, badPosted, unsent>>
  BY DEF changeKeyword, exporter, history
<1> QED
  BY <1>1, <1>2, <1>3, <1>4, Types, ElementsTyped, TypesOfPost

LEMMA readTypes ==
  ASSUME TypeInv, NEW w \in Worker, getLogKeywordExporterConfig(w)
  PROVE  TypeInv'
<1>1. PICK q \in Post :
        /\ post[w].pc = "read" /\ post'[w] = q /\ q.pc = "send" /\ ~q.load
        /\ q.list = <<>> /\ q.removed = {} /\ ~q.failed
  BY readStep
<1>2. UNCHANGED <<db, version, collector, jobs, file, overlapped, badPosted, unsent>>
  BY DEF getLogKeywordExporterConfig, exporter
<1>3. reordered' \in BOOLEAN
  BY Types DEF getLogKeywordExporterConfig
<1>4. \A v \in Worker : post'[v] \in Post
  BY <1>1, readOthers
<1>5. post' \in [Worker -> Post]
  <2>1. post' = [v \in Worker |-> post'[v]]
    BY DEF getLogKeywordExporterConfig
  <2> QED
    BY <1>4, <2>1
<1>6. ASSUME NEW v \in Worker
      PROVE  Sound(post[v])'
  <2>1. CASE v = w
    BY <1>1, <2>1, NoElements DEF Sound
  <2>2. CASE v # w
    <3>1. Sound(post[v])
      BY DEF TypeInv
    <3> QED
      BY <1>2, <2>2, <3>1, readOthers DEF Sound
  <2> QED
    BY <2>1, <2>2
<1>7. /\ collector' \in [Id -> Collector \cup {Stopped}]
      /\ \A i \in Id : collector[i] \in Collector => collector'[i] \in Collector
      /\ jobs' \in Seq(Id) /\ Distinct(jobs')
      /\ \A i \in Elements(jobs') : collector'[i] \in Collector
  BY <1>2, Types, ElementsTyped DEF TypeInv
<1> QED
  BY <1>2, <1>3, <1>5, <1>6, <1>7, Types, TypesGoOn

LEMMA endTypes ==
  ASSUME TypeInv, NEW w \in Worker, End(w), UNCHANGED <<db, version, collector, jobs>>,
         saved' \in Content, handled' \in Content, unsaved' \in BOOLEAN,
         reordered' \in BOOLEAN, overlapped' \in BOOLEAN,
         badPosted' \in BOOLEAN, unsent' \in BOOLEAN
  PROVE  TypeInv'
<1>1. /\ Idle \in Post /\ post' = [post EXCEPT ![w] = Idle]
      /\ Elements(Idle.list) = {} /\ Idle.pc = "idle"
      /\ ~Idle.load /\ Idle.removed = {} /\ ~Idle.failed
  BY IdlePost, NoElements DEF End
<1>2. db' \in Config /\ version' \in Version
  BY Types
<1> QED
  BY <1>1, <1>2, TypesOfPost

LEMMA sendTypes ==
  ASSUME TypeInv, NEW w \in Worker, updateEndpointLogKeyword(w)
  PROVE  TypeInv'
<1>1. PICK q \in Post :
        /\ post' = [post EXCEPT ![w] = q]
        /\ q.pc = "update" /\ q.list = jobs /\ q.removed = {} /\ ~q.failed
  BY sendStep
<1>2. UNCHANGED <<db, version, collector, jobs, file, reordered, unsent>>
  BY DEF updateEndpointLogKeyword, exporter
<1>3. overlapped' \in BOOLEAN /\ badPosted' \in BOOLEAN
  BY Types DEF updateEndpointLogKeyword
<1> QED
  BY <1>1, <1>2, <1>3, Types, ElementsTyped, TypesOfPost

(* A collector that is updated or destroyed stays one.                     *)
LEMMA oneCollectorTypes ==
  ASSUME TypeInv, NEW w \in Worker, NEW q \in Post, NEW i \in Id, NEW c \in Collector,
         post' = [post EXCEPT ![w] = q], collector' = [collector EXCEPT ![i] = c],
         UNCHANGED <<db, version, jobs, file, history>>,
         q.pc = "update", post[w].list # <<>>, q.list = Tail(post[w].list)
  PROVE  TypeInv'
<1>1. post[w].list \in Seq(Id) /\ collector \in [Id -> Collector \cup {Stopped}]
  BY Types, PostFields
<1>2. \A j \in Elements(q.list) : j \in Id /\ collector[j] \in Collector
  BY <1>1, ElementsOfTail, ElementsTyped
<1>3. /\ collector' \in [Id -> Collector \cup {Stopped}]
      /\ \A j \in Id : collector[j] \in Collector => collector'[j] \in Collector
  BY <1>1
<1>4. /\ jobs' \in Seq(Id) /\ Distinct(jobs')
      /\ \A j \in Elements(jobs') : collector'[j] \in Collector
  BY <1>3, Types, ElementsTyped DEF TypeInv
<1>5. UNCHANGED <<reordered, overlapped, badPosted, unsent>>
  BY DEF history
<1> QED
  BY <1>2, <1>3, <1>4, <1>5, Types, TypesOfStep

LEMMA updateTypes ==
  ASSUME TypeInv, NEW w \in Worker, update(w) \/ destroy(w)
  PROVE  TypeInv'
<1>1. PICK i \in Id, q \in Post, c \in Collector :
        /\ post' = [post EXCEPT ![w] = q] /\ collector' = [collector EXCEPT ![i] = c]
        /\ q.pc = "update" /\ post[w].list # <<>> /\ q.list = Tail(post[w].list)
        /\ UNCHANGED <<db, version, jobs, file, history>>
  BY updateStep, destroyStep
<1> QED
  BY <1>1, oneCollectorTypes

LEMMA afterUpdateTypes ==
  ASSUME TypeInv, NEW w \in Worker, afterUpdate(w)
  PROVE  TypeInv'
<1>1. UNCHANGED <<db, version, collector, jobs, file, reordered, overlapped, badPosted, unsent>>
  BY DEF afterUpdate, exporter, history
<1>2. CASE End(w)
  BY <1>1, <1>2, Types, endTypes
<1>3. CASE Goto(w, "remove")
  <2>1. PICK q \in Post :
          post' = [post EXCEPT ![w] = q] /\ q.pc = "remove" /\ q.list = post[w].list
    BY <1>3, GotoPost
  <2> QED
    BY <1>1, <2>1, Types, ElementsTyped, TypesOfPost
<1> QED
  BY <1>2, <1>3 DEF afterUpdate

LEMMA removeTypes ==
  ASSUME TypeInv, NEW w \in Worker, remove(w)
  PROVE  TypeInv'
<1>1. PICK q \in Post :
        /\ post' = [post EXCEPT ![w] = q] /\ q.pc = "add" /\ q.list = post[w].list
        /\ jobs' \in Seq(Id) /\ Distinct(jobs')
        /\ \A i \in Elements(jobs') : i \in Elements(jobs)
        /\ UNCHANGED <<db, version, collector, file, history>>
  BY removeStep
<1>2. /\ \A i \in Elements(jobs') : collector'[i] \in Collector
      /\ \A i \in Id : collector[i] \in Collector => collector'[i] \in Collector
  BY <1>1, ElementsTyped
<1>3. UNCHANGED <<reordered, overlapped, badPosted, unsent>>
  BY <1>1 DEF history
<1> QED
  BY <1>1, <1>2, <1>3, Types, ElementsTyped, TypesOfStep

LEMMA findNewTypes ==
  ASSUME TypeInv, NEW w \in Worker, findNew(w)
  PROVE  TypeInv'
<1>1. PICK q \in Post :
        /\ post' = [post EXCEPT ![w] = q] /\ q.list = post[w].list
        /\ (q.pc = "start" /\ q.new \in Path) \/ q.pc = "save"
        /\ UNCHANGED <<db, version, exporter, history>>
  BY findNewStep DEF Missing
<1>2. UNCHANGED <<collector, jobs, file, reordered, overlapped, badPosted, unsent>>
  BY <1>1 DEF history, exporter
<1> QED
  BY <1>1, <1>2, Types, ElementsTyped, TypesOfPost

LEMMA startTypes ==
  ASSUME TypeInv, NEW w \in Worker, start(w)
  PROVE  TypeInv'
<1>1. PICK i \in Id, q \in Post, c \in Collector :
        /\ i \notin Elements(jobs)
        /\ post' = [post EXCEPT ![w] = q] /\ collector' = [collector EXCEPT ![i] = c]
        /\ q.pc = "add" /\ q.list = post[w].list /\ jobs' = Append(jobs, i)
        /\ UNCHANGED <<db, version, file, history>>
  BY startStep
<1>2. /\ collector' \in [Id -> Collector \cup {Stopped}] /\ collector'[i] = c
      /\ \A j \in Id : collector[j] \in Collector => collector'[j] \in Collector
  BY <1>1, Types
<1>3. /\ jobs' \in Seq(Id) /\ Distinct(jobs') /\ Elements(jobs') = Elements(jobs) \cup {i}
  BY <1>1, Types, AppendOne DEF TypeInv
<1>4. \A j \in Elements(jobs') : collector'[j] \in Collector
  BY <1>2, <1>3, ElementsTyped
<1>5. UNCHANGED <<reordered, overlapped, badPosted, unsent>>
  BY <1>1 DEF history
<1> QED
  BY <1>1, <1>2, <1>3, <1>4, <1>5, Types, ElementsTyped, TypesOfStep

LEMMA saveTypes ==
  ASSUME TypeInv, NEW w \in Worker, logKeywordSaveConfig(w)
  PROVE  TypeInv'
<1>1. /\ End(w) /\ UNCHANGED <<db, version, collector, jobs>>
      /\ UNCHANGED <<reordered, overlapped, badPosted, unsent>>
  BY DEF logKeywordSaveConfig, history
<1>2. saved' \in Content /\ handled' \in Content /\ unsaved' \in BOOLEAN
  BY saveFile
<1> QED
  BY <1>1, <1>2, Types, endTypes


(* A hit, and the end of a goroutine. *)
LEMMA collectorStep ==
  ASSUME TypeInv, NEW i \in Id, countLine(i) \/ stopTail(i)
  PROVE  /\ collector' \in [Id -> Collector \cup {Stopped}]
         /\ \A j \in Id : j # i => collector'[j] = collector[j]
         /\ collector[i] \in Collector => collector'[i] \in Collector
         /\ \/ /\ countLine(i) /\ collector'[i].count >= collector[i].count
               /\ collector'[i].tail = collector[i].tail
               /\ collector'[i].destroy = collector[i].destroy
            \/ stopTail(i) /\ collector[i].destroy /\ collector'[i].count = collector[i].count
         /\ collector'[i].path = collector[i].path
         /\ collector'[i].keyword = collector[i].keyword
<1>1. collector \in [Id -> Collector \cup {Stopped}] /\ collector[i] \in Collector
  <2>1. collector \in [Id -> Collector \cup {Stopped}] /\ collector[i].tail
    BY Types DEF countLine, stopTail
  <2> QED
    BY <2>1 DEF Stopped
<1>2. CASE countLine(i)
  <2>1. collector[i].count + 1 \in 0 .. MaxCount /\ collector[i].count + 1 >= collector[i].count
    BY <1>1, <1>2, CollectorFields, LogKeywordAssumption DEF countLine
  <2>2. PICK c \in Collector : c = [collector[i] EXCEPT !.count = @ + 1]
    BY <1>1, <2>1 DEF Collector
  <2>3. /\ c.path = collector[i].path /\ c.keyword = collector[i].keyword
        /\ c.tail = collector[i].tail /\ c.destroy = collector[i].destroy
        /\ c.count = collector[i].count + 1
    BY <1>1, <2>2 DEF Collector
  <2>4. collector' = [collector EXCEPT ![i] = c]
    BY <1>1, <1>2, <2>2 DEF countLine
  <2> QED
    BY <1>1, <1>2, <2>1, <2>3, <2>4
<1>3. CASE stopTail(i)
  <2>1. PICK c \in Collector : c = [collector[i] EXCEPT !.tail = FALSE, !.destroy = FALSE]
    BY <1>1 DEF Collector
  <2>2. /\ c.path = collector[i].path /\ c.keyword = collector[i].keyword
        /\ c.count = collector[i].count
    BY <1>1, <2>1 DEF Collector
  <2>3. collector' = [collector EXCEPT ![i] = c] /\ collector[i].destroy
    BY <1>1, <1>3, <2>1 DEF stopTail
  <2> QED
    BY <1>1, <1>3, <2>2, <2>3
<1> QED
  BY <1>2, <1>3

LEMMA collectorTypes ==
  ASSUME TypeInv, NEW i \in Id, countLine(i) \/ stopTail(i)
  PROVE  TypeInv'
<1>1. UNCHANGED <<db, version, jobs, file, post, reordered, overlapped, badPosted, unsent>>
  BY DEF countLine, stopTail, history
<1>2. /\ collector' \in [Id -> Collector \cup {Stopped}]
      /\ \A j \in Id : collector[j] \in Collector => collector'[j] \in Collector
  BY collectorStep
<1>3. \A v \in Worker : Sound(post[v])'
  BY <1>1, <1>2, ElementsTyped DEF Sound, TypeInv
<1>4. \A j \in Elements(jobs') : collector'[j] \in Collector
  BY <1>1, <1>2, ElementsTyped
<1>5. Distinct(jobs')
  BY <1>1 DEF TypeInv
<1> QED
  BY <1>1, <1>2, <1>3, <1>4, <1>5, Types, TypesGoOn

LEMMA restartTypes ==
  ASSUME TypeInv, restart
  PROVE  TypeInv'
<1>1. PICK w \in Worker, q \in Post :
        /\ post' = [v \in Worker |-> IF v # w THEN Idle ELSE q]
        /\ q.pc = "update" /\ q.list = <<>>
  BY restartStep
<1>2. /\ collector' = [i \in Id |-> Stopped] /\ jobs' = <<>>
      /\ UNCHANGED <<db, version, reordered, overlapped, badPosted>>
      /\ saved' \in Content /\ handled' \in Content /\ unsaved' \in BOOLEAN
  BY restartFile DEF restart
<1>3. unsent' \in BOOLEAN
  BY Types DEF restart
<1>4. post' \in [Worker -> Post]
  BY <1>1, IdlePost
<1>5. ASSUME NEW v \in Worker
      PROVE  Sound(post[v])'
  <2>1. \/ post'[v].pc = "update" /\ post'[v].list = <<>>
        \/ post'[v] = Idle
    BY <1>1
  <2> QED
    BY <2>1, IdlePost, NoElements DEF Sound
<1>6. /\ jobs' \in Seq(Id) /\ Distinct(jobs') /\ Elements(jobs') = {}
      /\ collector' \in [Id -> Collector \cup {Stopped}]
  BY <1>2, NoElements
<1>7. Len(jobs') <= MaxCollectors
  BY <1>6, DistinctBounded
<1>8. TypeOK'
  BY <1>2, <1>3, <1>4, <1>6, <1>7, Types DEF TypeOK
<1> QED
  BY <1>5, <1>6, <1>8 DEF TypeInv, Distinct

LEMMA InitTypes ==
  ASSUME Init
  PROVE  TypeInv
<1>1. 0 \in Version /\ Empty \in Config
  BY LogKeywordAssumption, EmptyConfig DEF Version
<1>2. /\ jobs \in Seq(Id) /\ Distinct(jobs) /\ Elements(jobs) = {}
  BY NoElements DEF Init
<1>3. Len(jobs) <= MaxCollectors
  BY <1>2, DistinctBounded
<1>4. TypeOK
  BY <1>1, <1>2, <1>3, IdlePost, UnreadableContent DEF Init, TypeOK
<1>5. \A w \in Worker : Sound(post[w])
  BY IdlePost, NoElements DEF Init, Sound
<1> QED
  BY <1>2, <1>4, <1>5 DEF TypeInv

LEMMA NextTypes ==
  ASSUME TypeInv, [Next]_vars
  PROVE  TypeInv'
<1>1. CASE UNCHANGED vars
  <2>1. UNCHANGED <<db, version, collector, jobs, file, post, reordered, overlapped,
                    badPosted, unsent>>
    BY <1>1 DEF vars, exporter, history
  <2> QED
    BY <2>1 DEF TypeInv, TypeOK, Sound, Distinct
<1>2. CASE Next
  <2>1. ASSUME NEW w \in Worker, notSent(w)
        PROVE  TypeInv'
    <3>1. /\ End(w) /\ UNCHANGED <<db, version, collector, jobs, file>> /\ unsent' \in BOOLEAN
          /\ UNCHANGED <<reordered, overlapped, badPosted>>
      BY <2>1 DEF notSent, exporter
    <3> QED
      BY <3>1, Types, endTypes
  <2>2. ASSUME NEW w \in Worker, Handle(w)
        PROVE  TypeInv'
    BY <2>2, readTypes, sendTypes, updateTypes, afterUpdateTypes, removeTypes, findNewTypes,
       startTypes, saveTypes DEF Handle
  <2> QED
    BY <1>2, <2>1, <2>2, changeKeywordTypes, collectorTypes, restartTypes DEF Next
<1> QED
  BY <1>1, <1>2

THEOREM TypeInvariance == Spec => []TypeInv
<1>1. Init => TypeInv
  BY InitTypes
<1>2. TypeInv /\ [Next]_vars => TypeInv'
  BY NextTypes
<1> QED
  BY <1>1, <1>2, PTL DEF Spec

(* Types; above all, no collector is in the list twice, and so the list    *)
(* never is longer than there are collectors.                              *)
THEOREM TypeCorrect == Spec => []TypeOK
<1>1. TypeInv => TypeOK
  BY DEF TypeInv
<1> QED
  BY <1>1, TypeInvariance, PTL


-----------------------------------------------------------------------------
(* What is handled and saved, and the database *)

LEMMA OnePost ==
  ASSUME TypeInv, NEW w \in Worker, NEW q, post' = [post EXCEPT ![w] = q]
  PROVE  post'[w] = q /\ \A v \in Worker : v # w => post'[v] = post[v]
BY Types

LEMMA changeKeywordDatabase ==
  ASSUME TypeInv, DatabaseInv, NEW w \in Worker, changeKeyword(w)
  PROVE  DatabaseInv'
<1>1. PICK q \in Post : post' = [post EXCEPT ![w] = q] /\ q.pc = "read"
  BY GotoPost DEF changeKeyword
<1>2. /\ post[w].pc = "idle" /\ version' = version + 1
      /\ UNCHANGED <<file, reordered, badPosted>>
  BY DEF changeKeyword, exporter, history
<1>3. post'[w] = q /\ \A v \in Worker : v # w => post'[v] = post[v]
  BY <1>1, OnePost
<1>4. \A v \in Worker : (UnderWay(v)' => v # w) /\ (AtExporter(v)' => v # w)
  BY <1>1, <1>3 DEF UnderWay, AtExporter
<1>5. \A v \in Worker : v # w => (UnderWay(v)' <=> UnderWay(v)) /\ (AtExporter(v)' <=> AtExporter(v))
  BY <1>3 DEF UnderWay, AtExporter
<1>6. /\ version \in Nat /\ saved.version \in Nat /\ handled.version \in Nat
      /\ \A v \in Worker : post[v].version \in Nat
  BY Types, PostFields
<1>7. /\ Known(saved)' /\ Known(handled)' /\ version' # 0
      /\ (~unsaved => saved = handled)'
  BY <1>2, <1>6 DEF DatabaseInv, Known
<1>8. ASSUME NEW v \in Worker, UnderWay(v)'
      PROVE  Timely(post[v])'
  <2>1. v # w /\ post'[v] = post[v] /\ Timely(post[v])
    BY <1>3, <1>4, <1>5, <1>8 DEF DatabaseInv
  <2>2. post[v].version <= version' /\ post[v].version # version'
    BY <1>2, <1>6, <2>1 DEF Timely
  <2> QED
    BY <1>2, <2>1, <2>2 DEF Timely
<1>9. Rivals'
  BY <1>3, <1>4, <1>5 DEF DatabaseInv, Rivals
<1>10. NoneFails'
  BY <1>2, <1>3, <1>4, <1>5 DEF DatabaseInv, NoneFails, Clean
<1>11. Carried'
  BY <1>1, <1>3 DEF Carried
<1> QED
  BY <1>7, <1>8, <1>9, <1>10, <1>11 DEF DatabaseInv

LEMMA readDatabase ==
  ASSUME TypeInv, DatabaseInv, NEW w \in Worker, getLogKeywordExporterConfig(w)
  PROVE  DatabaseInv'
<1>1. PICK q \in Post :
        /\ post[w].pc = "read" /\ post'[w] = q /\ q.pc = "send" /\ ~q.load
        /\ q.config = db /\ q.version = version
        /\ q.overtaken <=> \E v \in Worker : v # w /\ UnderWay(v)
  BY readStep
<1>2. /\ UNCHANGED <<db, version, file, badPosted, unsent>>
      /\ reordered' <=> reordered \/ \E v \in Worker : v # w /\ UnderWay(v)
  BY Types DEF getLogKeywordExporterConfig, exporter
<1>3. ~UnderWay(w) /\ UnderWay(w)' /\ ~AtExporter(w)'
  BY <1>1 DEF UnderWay, AtExporter
<1>4. ASSUME NEW v \in Worker, v # w
      PROVE  /\ UnderWay(v)' <=> UnderWay(v)
             /\ AtExporter(v)' <=> AtExporter(v)
             /\ post'[v].pc = post[v].pc /\ post'[v].config = post[v].config
             /\ post'[v].version = post[v].version /\ post'[v].failed = post[v].failed
             /\ post'[v].overtaken <=> post[v].overtaken \/ UnderWay(v)
  BY <1>4, readOthers DEF UnderWay, AtExporter
<1>5. Timely(post[w])'
  BY <1>1, <1>2, Types DEF Timely, DatabaseInv, Known
<1>6. ASSUME NEW v \in Worker, v # w, UnderWay(v)'
      PROVE  Timely(post[v])'
  <2>1. Timely(post[v]) /\ reordered'
    BY <1>2, <1>4, <1>6 DEF DatabaseInv
  <2> QED
    BY <1>2, <1>4, <1>6, <2>1 DEF Timely
<1>7. Rivals'
  BY <1>1, <1>3, <1>4 DEF Rivals
<1>8. NoneFails'
  BY <1>2, <1>3, <1>4 DEF DatabaseInv, NoneFails, Clean
<1>9. Carried'
  BY <1>1, <1>2, <1>3 DEF Carried
<1> QED
  BY <1>2, <1>5, <1>6, <1>7, <1>8, <1>9 DEF DatabaseInv, Known

(* A post that goes on carries the same; if it ends, there are less. *)
LEMMA postsDatabase ==
  ASSUME TypeInv, DatabaseInv, UNCHANGED <<db, version, file, reordered>>,
         \A v \in Worker : UnderWay(v)' => UnderWay(v) /\ Same(post'[v], post[v]),
         NoneFails', Carried'
  PROVE  DatabaseInv'
<1>1. \A v \in Worker : UnderWay(v)' => Timely(post[v])'
  BY DEF DatabaseInv, Timely, Same
<1>2. Rivals'
  BY DEF DatabaseInv, Rivals, Same
<1> QED
  BY <1>1, <1>2 DEF DatabaseInv, Known

LEMMA sendDatabase ==
  ASSUME TypeInv, DatabaseInv, NEW w \in Worker, updateEndpointLogKeyword(w)
  PROVE  DatabaseInv'
<1>1. PICK q \in Post :
        /\ post[w].pc = "send" /\ post' = [post EXCEPT ![w] = q]
        /\ q.pc = "update" /\ Same(q, post[w]) /\ ~q.failed
  BY sendStep
<1>2. /\ UNCHANGED <<db, version, file, reordered, unsent>>
      /\ badPosted' <=> badPosted \/ \E p \in Path : post[w].config[p] \in Bad
  BY Types DEF updateEndpointLogKeyword, exporter
<1>3. post'[w] = q /\ \A v \in Worker : v # w => post'[v] = post[v]
  BY <1>1, OnePost
<1>4. \A v \in Worker : (UnderWay(v)' <=> UnderWay(v)) /\ Same(post'[v], post[v])
  BY <1>1, <1>3 DEF UnderWay, Same
<1>5. NoneFails'
  BY <1>1, <1>2, <1>3 DEF DatabaseInv, NoneFails, Clean, AtExporter, Same
<1>6. \A v \in Worker : post[v].pc = "read" => post'[v].pc = "read"
  BY <1>1, <1>3
<1>7. Carried'
  BY <1>2, <1>4, <1>6 DEF DatabaseInv, Carried, Same
<1> QED
  BY <1>2, <1>4, <1>5, <1>7, postsDatabase

(* A step of a post in the exporter, but its last one.                     *)
LEMMA goesOnDatabase ==
  ASSUME TypeInv, DatabaseInv, NEW w \in Worker, NEW q \in Post,
         AtExporter(w), post' = [post EXCEPT ![w] = q],
         q.pc \in {"update", "remove", "add", "start", "save"}, Same(q, post[w]),
         q.failed => post[w].failed \/ \E p \in Path : post[w].config[p] \in Bad,
         UNCHANGED <<db, version, file, history>>
  PROVE  DatabaseInv'
<1>1. post'[w] = q /\ \A v \in Worker : v # w => post'[v] = post[v]
  BY OnePost
<1>2. UNCHANGED <<reordered, badPosted, unsent>>
  BY DEF history
<1>3. \A v \in Worker : /\ UnderWay(v)' <=> UnderWay(v)
                        /\ AtExporter(v)' <=> AtExporter(v)
                        /\ Same(post'[v], post[v])
                        /\ post[v].pc = "read" => post'[v].pc = "read"
  BY <1>1 DEF UnderWay, AtExporter, Same
<1>4. NoneFails'
  BY <1>1, <1>2, <1>3 DEF DatabaseInv, NoneFails, Clean, Same
<1>5. Carried'
  BY <1>2, <1>3 DEF DatabaseInv, Carried, Same
<1> QED
  BY <1>2, <1>3, <1>4, <1>5, postsDatabase


LEMMA exporterDatabase ==
  ASSUME TypeInv, DatabaseInv, NEW w \in Worker,
         \/ update(w) \/ destroy(w) \/ remove(w) \/ findNew(w) \/ start(w)
         \/ afterUpdate(w) /\ ~post[w].failed
  PROVE  DatabaseInv'
<1>1. ASSUME update(w) \/ destroy(w)
      PROVE  DatabaseInv'
  <2>1. PICK i \in Id, q \in Post, c \in Collector :
          /\ post[w].pc = "update" /\ collector[i] \in Collector
          /\ post' = [post EXCEPT ![w] = q] /\ q.pc = "update" /\ Same(q, post[w])
          /\ q.failed => post[w].failed \/ post[w].config[PathOf(i)] \in Bad
          /\ UNCHANGED <<db, version, file, history>>
    <3>1. CASE update(w)
      <4>1. PICK i \in Id, q \in Post, c \in Collector :
              /\ post[w].pc = "update" /\ collector[i] \in Collector
              /\ post' = [post EXCEPT ![w] = q] /\ q.pc = "update" /\ Same(q, post[w])
              /\ (q.failed <=> post[w].failed \/ post[w].config[PathOf(i)] \in Bad)
              /\ UNCHANGED <<db, version, jobs, file, history>>
        BY <3>1, updateStep
      <4> QED
        BY <4>1
    <3>2. CASE destroy(w)
      <4>1. PICK i \in Id, q \in Post, c \in Collector :
              /\ post[w].pc = "update" /\ collector[i] \in Collector
              /\ post' = [post EXCEPT ![w] = q] /\ q.pc = "update" /\ Same(q, post[w])
              /\ q.failed = post[w].failed
              /\ UNCHANGED <<db, version, jobs, file, history>>
        BY <3>2, destroyStep
      <4> QED
        BY <4>1
    <3> QED
      BY <1>1, <3>1, <3>2
  <2>2. PathOf(i) \in Path /\ AtExporter(w)
    BY <2>1, CollectorFields DEF PathOf, AtExporter
  <2> QED
    BY <2>1, <2>2, goesOnDatabase
<1>2. ASSUME remove(w)
      PROVE  DatabaseInv'
  <2>1. PICK q \in Post :
          /\ post[w].pc = "remove" /\ post' = [post EXCEPT ![w] = q]
          /\ q.pc = "add" /\ Same(q, post[w]) /\ q.failed = post[w].failed
          /\ UNCHANGED <<db, version, file, history>>
    BY <1>2, removeStep
  <2> QED
    BY <2>1, goesOnDatabase DEF AtExporter
<1>3. ASSUME findNew(w)
      PROVE  DatabaseInv'
  <2>1. PICK q \in Post :
          /\ post[w].pc = "add" /\ post' = [post EXCEPT ![w] = q]
          /\ q.pc \in {"start", "save"} /\ Same(q, post[w]) /\ q.failed = post[w].failed
          /\ UNCHANGED <<db, version, file, history>>
    BY <1>3, findNewStep DEF exporter
  <2> QED
    BY <2>1, goesOnDatabase DEF AtExporter
<1>4. ASSUME start(w)
      PROVE  DatabaseInv'
  <2>1. PICK i \in Id, q \in Post, c \in Collector :
          /\ post[w].pc = "start" /\ post[w].new \in Path /\ post' = [post EXCEPT ![w] = q]
          /\ q.pc = "add" /\ Same(q, post[w])
          /\ (q.failed <=> post[w].failed \/ post[w].config[post[w].new] \in Bad)
          /\ UNCHANGED <<db, version, file, history>>
    BY <1>4, startStep
  <2> QED
    BY <2>1, goesOnDatabase DEF AtExporter
<1>5. ASSUME afterUpdate(w), ~post[w].failed
      PROVE  DatabaseInv'
  <2>1. /\ post[w].pc = "update" /\ Goto(w, "remove")
        /\ UNCHANGED <<db, version, exporter, history>>
    BY <1>5 DEF afterUpdate
  <2>2. PICK q \in Post :
          /\ post' = [post EXCEPT ![w] = q] /\ q.pc = "remove" /\ Same(q, post[w])
          /\ q.failed = post[w].failed
    BY <2>1, GotoPost
  <2> QED
    BY <2>1, <2>2, goesOnDatabase DEF AtExporter, exporter
<1> QED
  BY <1>1, <1>2, <1>3, <1>4, <1>5

(* A post that ends without saving: nobody was promised anything.          *)
LEMMA endsDatabase ==
  ASSUME TypeInv, DatabaseInv, NEW w \in Worker, End(w),
         UNCHANGED <<db, version, file, reordered, badPosted>>, badPosted \/ unsent'
  PROVE  DatabaseInv'
<1>1. post'[w] = Idle /\ \A v \in Worker : v # w => post'[v] = post[v]
  BY OnePost DEF End
<1>2. \A v \in Worker : UnderWay(v)' => UnderWay(v) /\ Same(post'[v], post[v])
  BY <1>1, IdlePost DEF UnderWay, Same
<1>3. NoneFails'
  BY <1>1, IdlePost DEF DatabaseInv, NoneFails, Clean, AtExporter
<1>4. Carried'
  BY DEF Carried
<1> QED
  BY <1>2, <1>3, <1>4, postsDatabase

LEMMA afterUpdateDatabase ==
  ASSUME TypeInv, DatabaseInv, NEW w \in Worker, afterUpdate(w)
  PROVE  DatabaseInv'
<1>1. CASE ~post[w].failed
  BY <1>1, exporterDatabase
<1>2. CASE post[w].failed
  <2>1. /\ post[w].pc = "update" /\ End(w)
        /\ UNCHANGED <<db, version, file, reordered, badPosted>>
    BY <1>2 DEF afterUpdate, exporter, history
  <2>2. badPosted
    BY <1>2, <2>1 DEF DatabaseInv, NoneFails, AtExporter
  <2> QED
    BY <2>1, <2>2, endsDatabase
<1> QED
  BY <1>1, <1>2

LEMMA notSentDatabase ==
  ASSUME TypeInv, DatabaseInv, NEW w \in Worker, notSent(w)
  PROVE  DatabaseInv'
BY endsDatabase DEF notSent, exporter

LEMMA UnreadableFile ==
  ASSUME TypeInv, DatabaseInv
  PROVE  Known(Unreadable) /\ Clean(Unreadable.config) /\ Unreadable.version = 0
BY Types, EmptyConfig, LogKeywordAssumption DEF Unreadable, DatabaseInv, Known, Clean

(* What the last step of a post makes of the file.                         *)
LEMMA saveStep ==
  ASSUME TypeInv, NEW w \in Worker, logKeywordSaveConfig(w)
  PROVE  /\ post[w].pc = "save" /\ AtExporter(w)
         /\ post'[w] = Idle /\ \A v \in Worker : v # w => post'[v] = post[v]
         /\ UNCHANGED <<db, version, collector, jobs, reordered, overlapped, badPosted, unsent>>
         /\ \/ /\ post[w].failed \/ post[w].load
               /\ UNCHANGED file
            \/ /\ ~post[w].failed /\ ~post[w].load /\ UnderWay(w)
               /\ handled'.config = post[w].config /\ handled'.version = post[w].version
               /\ saved' \in {handled', saved, Unreadable}
               /\ ~unsaved' => saved' = handled'
<1>1. post[w].pc = "save" /\ End(w) /\ UNCHANGED <<db, version, collector, jobs, history>>
  BY DEF logKeywordSaveConfig
<1>2. post'[w] = Idle /\ \A v \in Worker : v # w => post'[v] = post[v]
  BY <1>1, OnePost DEF End
<1> QED
  BY <1>1, <1>2, saveFile DEF AtExporter, UnderWay, history

LEMMA saveDatabase ==
  ASSUME TypeInv, DatabaseInv, NEW w \in Worker, logKeywordSaveConfig(w)
  PROVE  DatabaseInv'
<1>1. /\ post[w].pc = "save" /\ AtExporter(w)
      /\ post'[w] = Idle /\ \A v \in Worker : v # w => post'[v] = post[v]
      /\ UNCHANGED <<db, version, reordered, badPosted, unsent>>
  BY saveStep
<1>2. /\ \A v \in Worker : UnderWay(v)' => v # w /\ UnderWay(v) /\ post'[v] = post[v]
      /\ \A v \in Worker : AtExporter(v)' => v # w /\ AtExporter(v) /\ post'[v] = post[v]
  BY <1>1, IdlePost DEF UnderWay, AtExporter
<1>3. CASE /\ ~post[w].failed /\ ~post[w].load /\ UnderWay(w)
           /\ handled'.config = post[w].config /\ handled'.version = post[w].version
           /\ saved' \in {handled', saved, Unreadable}
           /\ ~unsaved' => saved' = handled'
  <2>1. Timely(post[w])
    BY <1>3 DEF DatabaseInv
  <2>2. /\ Known(saved)' /\ Known(handled)' /\ (version = 0 => db = Empty)'
        /\ (~unsaved => saved = handled)'
    BY <1>1, <1>3, <2>1, UnreadableFile DEF DatabaseInv, Timely, Known
  <2>3. ASSUME NEW v \in Worker, UnderWay(v)'
        PROVE  Timely(post[v])'
    <3>1. v # w /\ UnderWay(v) /\ post'[v] = post[v]
      BY <1>2, <2>3
    <3>2. Timely(post[v]) /\ post[v].overtaken
      BY <1>3, <3>1 DEF DatabaseInv, Rivals
    <3> QED
      BY <1>1, <3>1, <3>2 DEF Timely
  <2>4. Rivals'
    BY <1>2 DEF DatabaseInv, Rivals
  <2>5. NoneFails'
    <3>1. ~badPosted => Clean(saved'.config)
      BY <1>1, <1>3, UnreadableFile DEF DatabaseInv, NoneFails, Clean
    <3> QED
      BY <1>1, <1>2, <3>1 DEF DatabaseInv, NoneFails, Clean
  <2>6. ASSUME ~reordered, ~badPosted, ~unsent
        PROVE  \/ handled'.version = version
               \/ \E v \in Worker : post'[v].pc = "read"
    <3>1. handled.version <= post[w].version /\ post[w].version <= version /\ ~post[w].overtaken
      BY <2>1, <2>6 DEF Timely
    <3>2. CASE handled.version = version
      BY <1>3, <3>1, <3>2, Types, PostFields
    <3>3. ASSUME NEW v \in Worker, post[v].pc = "read"
          PROVE  post'[v].pc = "read"
      BY <1>1, <3>3
    <3>4. ASSUME NEW v \in Worker, UnderWay(v), post[v].version = version
          PROVE  handled'.version = version
      <4>1. v = w
        BY <1>3, <3>1, <3>4 DEF DatabaseInv, Rivals
      <4> QED
        BY <1>3, <3>4, <4>1
    <3> QED
      BY <2>6, <3>2, <3>3, <3>4 DEF DatabaseInv, Carried
  <2>7. Carried'
    BY <1>1, <2>6 DEF Carried
  <2> QED
    BY <2>2, <2>3, <2>4, <2>5, <2>7 DEF DatabaseInv
<1>4. CASE (post[w].failed \/ post[w].load) /\ UNCHANGED file
  <2>1. NoneFails'
    BY <1>1, <1>2, <1>4 DEF DatabaseInv, NoneFails, Clean
  <2>2. ASSUME ~reordered, ~badPosted, ~unsent
        PROVE  \/ handled.version = version
               \/ \E v \in Worker : \/ post'[v].pc = "read"
                                    \/ UnderWay(v)' /\ post'[v].version = version
    <3>1. ~UnderWay(w)
      BY <1>1, <1>4, <2>2 DEF DatabaseInv, NoneFails, UnderWay
    <3>2. ASSUME NEW v \in Worker, post[v].pc = "read" \/ (UnderWay(v) /\ post[v].version = version)
          PROVE  post'[v].pc = "read" \/ (UnderWay(v)' /\ post'[v].version = version)
      <4>1. v # w
        BY <1>1, <3>1, <3>2
      <4> QED
        BY <1>1, <3>2, <4>1 DEF UnderWay
    <3> QED
      BY <2>2, <3>2 DEF DatabaseInv, Carried
  <2>3. Carried'
    BY <1>1, <1>4, <2>2 DEF Carried
  <2> QED
    BY <1>1, <1>2, <1>4, <2>1, <2>3, postsDatabase DEF Same
<1> QED
  BY <1>3, <1>4, saveStep

LEMMA restartDatabase ==
  ASSUME TypeInv, DatabaseInv, restart
  PROVE  DatabaseInv'
<1>1. PICK w \in Worker, q \in Post :
        /\ post' = [v \in Worker |-> IF v # w THEN Idle ELSE q]
        /\ q.pc = "update" /\ q.load /\ q.config = handled'.config /\ ~q.failed
  BY restartStep
<1>2. /\ UNCHANGED <<db, version, reordered, badPosted>>
      /\ unsent' <=> \/ unsent \/ unsaved
                     \/ \E v \in Worker : post[v].pc # "idle" /\ ~post[v].load
  BY Types DEF restart
<1>3. post'[w] = q /\ \A v \in Worker : v # w => post'[v] = Idle
  BY <1>1
<1>4. \A v \in Worker : ~UnderWay(v)' /\ (AtExporter(v)' => v = w)
  BY <1>1, <1>3, IdlePost DEF UnderWay, AtExporter
<1>5. Known(saved)' /\ Known(handled)' /\ (~badPosted => Clean(saved'.config))
  BY <1>2, restartFile, UnreadableFile DEF DatabaseInv, NoneFails, Known
<1>6. NoneFails'
  BY <1>1, <1>2, <1>3, <1>4, <1>5, restartFile DEF NoneFails, Clean
<1>7. Carried'
  <2>1. ASSUME ~unsent'
        PROVE  /\ ~unsent /\ handled' = handled
               /\ \A v \in Worker : post[v].pc # "read" /\ ~UnderWay(v)
    BY <1>2, <2>1, restartFile DEF UnderWay, TypeInv, Sound, DatabaseInv
  <2> QED
    BY <1>2, <2>1 DEF DatabaseInv, Carried
<1>8. Rivals'
  BY <1>4 DEF Rivals
<1>9. (version = 0 => db = Empty)' /\ (~unsaved => saved = handled)'
  BY <1>2, restartFile DEF DatabaseInv
<1> QED
  BY <1>4, <1>5, <1>6, <1>7, <1>8, <1>9 DEF DatabaseInv

LEMMA collectorDatabase ==
  ASSUME TypeInv, DatabaseInv, UNCHANGED <<db, version, file, post, history>>
  PROVE  DatabaseInv'
BY DEF DatabaseInv, Known, Timely, Rivals, NoneFails, Carried, UnderWay, AtExporter, Clean, history

LEMMA InitDatabase ==
  ASSUME Init
  PROVE  DatabaseInv
<1>1. \A w \in Worker : ~UnderWay(w) /\ ~AtExporter(w)
  BY IdlePost DEF Init, UnderWay, AtExporter
<1>2. Clean(Empty)
  BY EmptyConfig, LogKeywordAssumption DEF Clean
<1>3. /\ saved.config = Empty /\ db = Empty /\ saved.version = 0 /\ version = 0
      /\ handled = saved
  BY DEF Init, Unreadable
<1> QED
  BY <1>1, <1>2, <1>3 DEF DatabaseInv, Known, Rivals, NoneFails, Carried

LEMMA NextDatabase ==
  ASSUME TypeInv, DatabaseInv, [Next]_vars
  PROVE  DatabaseInv'
<1>1. CASE UNCHANGED vars
  BY <1>1, collectorDatabase DEF vars, exporter
<1>2. CASE Next
  <2>1. ASSUME NEW w \in Worker, Handle(w)
        PROVE  DatabaseInv'
    BY <2>1, readDatabase, sendDatabase, exporterDatabase, afterUpdateDatabase, saveDatabase
       DEF Handle
  <2>2. ASSUME NEW i \in Id, countLine(i) \/ stopTail(i)
        PROVE  DatabaseInv'
    BY <2>2, collectorDatabase DEF countLine, stopTail
  <2> QED
    BY <1>2, <2>1, <2>2, changeKeywordDatabase, notSentDatabase, restartDatabase DEF Next
<1> QED
  BY <1>1, <1>2

THEOREM DatabaseInvariance == Spec => []DatabaseInv
<1>1. Init => DatabaseInv
  BY InitDatabase
<1>2. TypeInv /\ DatabaseInv /\ [Next]_vars => DatabaseInv'
  BY NextDatabase
<1> QED
  BY <1>1, <1>2, TypeInvariance, PTL DEF Spec

-----------------------------------------------------------------------------
(* The refinement *)

(* Every step leaves the versions alone, changes the database, saves or    *)
(* starts the exporter.                                                    *)
LEMMA VersionSteps ==
  ASSUME TypeInv, [Next]_vars
  PROVE  \/ UNCHANGED <<version, file>>
         \/ version' = version + 1 /\ UNCHANGED file
         \/ \E w \in Worker : logKeywordSaveConfig(w)
         \/ restart
<1>1. CASE UNCHANGED vars
  BY <1>1 DEF vars, exporter
<1>2. CASE Next
  <2>1. ASSUME NEW w \in Worker, changeKeyword(w) \/ Handle(w) \/ notSent(w)
        PROVE  \/ UNCHANGED <<version, file>>
               \/ version' = version + 1 /\ UNCHANGED file
               \/ logKeywordSaveConfig(w)
    <3>1. CASE Handle(w)
      BY <3>1 DEF Handle, getLogKeywordExporterConfig, updateEndpointLogKeyword, update, destroy,
                  afterUpdate, remove, findNew, start, exporter
    <3>2. CASE changeKeyword(w) \/ notSent(w)
      BY <3>2 DEF changeKeyword, notSent, exporter
    <3> QED
      BY <2>1, <3>1, <3>2
  <2> QED
    BY <1>2, <2>1 DEF Next, countLine, stopTail
<1> QED
  BY <1>1, <1>2

LEMMA NextMirrors ==
  ASSUME TypeInv, DatabaseInv, [Next]_vars
  PROVE  [Mirror!Next]_<<[p \in {"config"} |-> version], [p \in {"config"} |-> saved.version]>>
<1>1. version \in Nat /\ saved.version \in Nat
  BY Types
<1>2. CASE UNCHANGED <<version, file>>
  BY <1>2
<1>3. CASE version' = version + 1 /\ UNCHANGED file
  BY <1>1, <1>3 DEF Mirror!Next, Mirror!Change, Mirror!AtMost
<1>4. ASSUME NEW w \in Worker, logKeywordSaveConfig(w)
      PROVE  [Mirror!Next]_<<[p \in {"config"} |-> version], [p \in {"config"} |-> saved.version]>>
  <2>1. post[w].pc = "save" /\ version' = version
    BY <1>4, saveStep
  <2>2. CASE UNCHANGED saved
    BY <2>1, <2>2
  <2>3. CASE UnderWay(w) /\ saved'.version = post[w].version
    <3>1. saved'.version <= version /\ (post[w].overtaken \/ saved.version <= saved'.version)
      BY <2>3 DEF DatabaseInv, Timely
    <3>2. CASE post[w].overtaken
      BY <2>1, <3>1, <3>2 DEF Mirror!Next, Mirror!FallBack, Mirror!AtMost
    <3>3. CASE saved.version <= saved'.version
      BY <2>1, <3>1, <3>3 DEF Mirror!Next, Mirror!Follow, Mirror!AtMost
    <3> QED
      BY <3>1, <3>2, <3>3
  <2>4. CASE saved' = Unreadable
    BY <2>1, <2>4, UnreadableFile DEF Mirror!Next, Mirror!Lose
  <2>5. \/ UNCHANGED saved \/ saved' = Unreadable
        \/ UnderWay(w) /\ saved'.version = post[w].version
    BY <1>4, saveStep
  <2> QED
    BY <2>2, <2>3, <2>4, <2>5
<1>5. CASE restart
  <2>1. version' = version /\ (saved' = saved \/ saved' = Unreadable)
    BY <1>5, restartFile DEF restart
  <2> QED
    BY <2>1, UnreadableFile DEF Mirror!Next, Mirror!Lose
<1> QED
  BY <1>2, <1>3, <1>4, <1>5, VersionSteps

(* What is saved implements ConfigMirror: it never runs ahead of the       *)
(* database, and goes back only where a post that was overtaken is saved   *)
(* or a writing fails and all is lost.                                     *)
THEOREM MirrorCorrect == Spec => SavedMirrorsDatabase
<1>1. Init => Mirror!Init
  BY DEF Init, Unreadable, Mirror!Init, Mirror!AtMost
<1>2. TypeInv /\ DatabaseInv /\ [Next]_vars =>
        [Mirror!Next]_<<[p \in {"config"} |-> version], [p \in {"config"} |-> saved.version]>>
  BY NextMirrors
<1> QED
  BY <1>1, <1>2, TypeInvariance, DatabaseInvariance, PTL
     DEF Spec, SavedMirrorsDatabase, Mirror!Spec

-----------------------------------------------------------------------------
(* The order in which posts come to the exporter *)

LEMMA WhereAhead ==
  ASSUME NEW w \in Worker, ~AtExporter(w)
  PROVE  Ahead(post[w])
BY DEF AtExporter, Ahead

(* Nothing happens in the exporter, or a post leaves it. *)
LEMMA outsideOrder ==
  ASSUME OrderInv, UNCHANGED <<collector, jobs, overlapped>>,
         \A v \in Worker : AtExporter(v)' =>
           /\ AtExporter(v) /\ post'[v].pc = post[v].pc
           /\ post'[v].list = post[v].list /\ post'[v].new = post[v].new
  PROVE  OrderInv'
<1> SUFFICES ASSUME ~overlapped'
             PROVE  (AloneThere /\ OnePerPath /\ \A w \in Worker : Ahead(post[w]))'
  BY DEF OrderInv
<1>1. AloneThere /\ OnePerPath /\ \A w \in Worker : Ahead(post[w])
  BY DEF OrderInv
<1>2. AloneThere' /\ OnePerPath'
  BY <1>1 DEF AloneThere, OnePerPath, PathOf
<1>3. ASSUME NEW w \in Worker, AtExporter(w)'
      PROVE  Ahead(post[w])'
  BY <1>1, <1>3 DEF Ahead, Distinct, PathOf
<1>4. ASSUME NEW w \in Worker, ~AtExporter(w)'
      PROVE  Ahead(post[w])'
  BY <1>4 DEF Ahead, AtExporter
<1> QED
  BY <1>2, <1>3, <1>4

(* A step of a post in the exporter that adds no collector.                *)
LEMMA insideOrder ==
  ASSUME TypeInv, OrderInv, NEW w \in Worker, NEW q \in Post, post' = [post EXCEPT ![w] = q],
         AtExporter(w), UNCHANGED overlapped,
         \A i \in Elements(jobs') : i \in Elements(jobs) /\ collector'[i].path = collector[i].path,
         ~overlapped => Ahead(q)'
  PROVE  OrderInv'
<1> SUFFICES ASSUME ~overlapped, ~overlapped'
             PROVE  (AloneThere /\ OnePerPath /\ \A v \in Worker : Ahead(post[v]))'
  BY DEF OrderInv
<1>1. AloneThere /\ OnePerPath
  BY DEF OrderInv
<1>2. post'[w] = q /\ \A v \in Worker : v # w => post'[v] = post[v]
  BY OnePost
<1>3. \A v \in Worker : v # w => ~AtExporter(v)'
  BY <1>1, <1>2 DEF AloneThere, AtExporter
<1>4. AloneThere' /\ OnePerPath'
  BY <1>1, <1>3 DEF AloneThere, OnePerPath, PathOf
<1>5. Ahead(post[w])'
  BY <1>2 DEF Ahead
<1>6. ASSUME NEW v \in Worker, ~AtExporter(v)'
      PROVE  Ahead(post[v])'
  BY <1>6 DEF Ahead, AtExporter
<1> QED
  BY <1>3, <1>4, <1>5, <1>6

LEMMA updateOrder ==
  ASSUME TypeInv, OrderInv, NEW w \in Worker, update(w) \/ destroy(w)
  PROVE  OrderInv'
<1>1. PICK i \in Id, q \in Post, c \in Collector :
        /\ post[w].pc = "update" /\ post[w].list # <<>>
        /\ post' = [post EXCEPT ![w] = q] /\ collector' = [collector EXCEPT ![i] = c]
        /\ q.pc = "update" /\ q.list = Tail(post[w].list) /\ c.path = PathOf(i)
        /\ UNCHANGED <<db, version, jobs, file, history>>
  BY updateStep, destroyStep
<1>2. \A j \in Elements(jobs') : j \in Elements(jobs) /\ collector'[j].path = collector[j].path
  <2>1. \A j \in Id : collector'[j].path = collector[j].path
    BY <1>1, Types DEF PathOf
  <2> QED
    BY <1>1, <2>1, ElementsTyped
<1>3. ASSUME ~overlapped
      PROVE  Ahead(q)'
  <2>1. Distinct(post[w].list) /\ Elements(post[w].list) \subseteq Elements(jobs)
    BY <1>1, <1>3 DEF OrderInv, Ahead
  <2>2. post[w].list \in Seq(Id)
    BY Types, PostFields
  <2>3. Distinct(q.list) /\ Elements(q.list) \subseteq Elements(jobs)
    BY <1>1, <2>1, <2>2, ElementsOfTail, DistinctTail
  <2> QED
    BY <1>1, <2>3 DEF Ahead
<1> QED
  BY <1>1, <1>2, <1>3, insideOrder DEF AtExporter, history

LEMMA leaveOrder ==
  ASSUME TypeInv, OrderInv, NEW w \in Worker, End(w), UNCHANGED <<collector, jobs, overlapped>>
  PROVE  OrderInv'
<1>1. post'[w] = Idle /\ \A v \in Worker : v # w => post'[v] = post[v]
  BY OnePost DEF End
<1>2. \A v \in Worker : AtExporter(v)' => v # w /\ AtExporter(v)
  BY <1>1, IdlePost DEF AtExporter
<1> QED
  BY <1>1, <1>2, outsideOrder

LEMMA othersOrder ==
  ASSUME TypeInv, OrderInv, NEW w \in Worker, afterUpdate(w) \/ remove(w) \/ findNew(w)
  PROVE  OrderInv'
<1>1. CASE afterUpdate(w)
  <2>1. post[w].pc = "update" /\ UNCHANGED <<collector, jobs, overlapped>>
    BY <1>1 DEF afterUpdate, exporter, history
  <2>2. CASE End(w)
    BY <2>1, <2>2, leaveOrder
  <2>3. CASE Goto(w, "remove")
    <3>1. PICK q \in Post : post' = [post EXCEPT ![w] = q] /\ q.pc = "remove"
      BY <2>3, GotoPost
    <3> QED
      BY <2>1, <3>1, insideOrder DEF AtExporter, Ahead
  <2> QED
    BY <1>1, <2>2, <2>3 DEF afterUpdate
<1>2. CASE remove(w)
  <2>1. PICK q \in Post :
          /\ post[w].pc = "remove" /\ post' = [post EXCEPT ![w] = q] /\ q.pc = "add"
          /\ \A i \in Elements(jobs') : i \in Elements(jobs)
          /\ UNCHANGED <<db, version, collector, file, history>>
    BY <1>2, removeStep
  <2> QED
    BY <2>1, insideOrder DEF AtExporter, Ahead, history
<1>3. CASE findNew(w)
  <2>1. PICK q \in Post :
          /\ post[w].pc = "add" /\ post' = [post EXCEPT ![w] = q]
          /\ (q.pc = "start" /\ q.new \in Missing(w)) \/ q.pc = "save"
          /\ UNCHANGED <<db, version, exporter, history>>
    BY <1>3, findNewStep
  <2>2. UNCHANGED <<collector, jobs, overlapped>>
    BY <2>1 DEF exporter, history
  <2>3. Ahead(q)'
    BY <2>1, <2>2 DEF Ahead, Missing, PathOf
  <2> QED
    BY <2>1, <2>2, <2>3, insideOrder DEF AtExporter
<1> QED
  BY <1>1, <1>2, <1>3

LEMMA startOrder ==
  ASSUME TypeInv, OrderInv, NEW w \in Worker, start(w)
  PROVE  OrderInv'
<1>1. PICK i \in Id, q \in Post, c \in Collector :
        /\ post[w].pc = "start" /\ i \notin Elements(jobs)
        /\ post' = [post EXCEPT ![w] = q] /\ collector' = [collector EXCEPT ![i] = c]
        /\ q.pc = "add" /\ c.path = post[w].new /\ jobs' = Append(jobs, i)
        /\ UNCHANGED <<db, version, file, history>>
  BY startStep
<1> SUFFICES ASSUME ~overlapped, ~overlapped'
             PROVE  (AloneThere /\ OnePerPath /\ \A v \in Worker : Ahead(post[v]))'
  BY <1>1 DEF OrderInv, history
<1>2. AloneThere /\ OnePerPath /\ \A j \in Elements(jobs) : PathOf(j) # post[w].new
  BY <1>1 DEF OrderInv, Ahead
<1>3. post'[w] = q /\ \A v \in Worker : v # w => post'[v] = post[v]
  BY <1>1, OnePost
<1>4. \A v \in Worker : v # w => ~AtExporter(v)'
  BY <1>1, <1>2, <1>3 DEF AloneThere, AtExporter
<1>5. Elements(jobs') = Elements(jobs) \cup {i}
  BY <1>1, Types, AppendOne
<1>6. collector'[i] = c /\ \A j \in Elements(jobs) : collector'[j] = collector[j]
  BY <1>1, Types, ElementsTyped
<1>7. AloneThere' /\ OnePerPath'
  BY <1>1, <1>2, <1>4, <1>5, <1>6 DEF AloneThere, OnePerPath, PathOf
<1>8. ASSUME NEW v \in Worker
      PROVE  Ahead(post[v])'
  <2>1. CASE v = w
    BY <1>1, <1>3, <2>1 DEF Ahead
  <2>2. CASE v # w
    BY <1>4, <2>2 DEF Ahead, AtExporter
  <2> QED
    BY <2>1, <2>2
<1> QED
  BY <1>7, <1>8

LEMMA sendOrder ==
  ASSUME TypeInv, OrderInv, NEW w \in Worker, updateEndpointLogKeyword(w)
  PROVE  OrderInv'
<1>1. PICK q \in Post :
        post' = [post EXCEPT ![w] = q] /\ q.pc = "update" /\ q.list = jobs
  BY sendStep
<1>2. UNCHANGED <<collector, jobs>> /\ overlapped' = (overlapped \/ \E v \in Worker : AtExporter(v))
  BY DEF updateEndpointLogKeyword, exporter
<1> SUFFICES ASSUME ~overlapped'
             PROVE  (AloneThere /\ OnePerPath /\ \A v \in Worker : Ahead(post[v]))'
  BY DEF OrderInv
<1>3. ~overlapped /\ \A v \in Worker : ~AtExporter(v)
  BY <1>2, Types
<1>4. post'[w] = q /\ \A v \in Worker : v # w => post'[v] = post[v]
  BY <1>1, OnePost
<1>5. \A v \in Worker : v # w => ~AtExporter(v)'
  BY <1>3, <1>4 DEF AtExporter
<1>6. AloneThere' /\ OnePerPath'
  BY <1>2, <1>3, <1>5 DEF OrderInv, AloneThere, OnePerPath, PathOf
<1>7. ASSUME NEW v \in Worker
      PROVE  Ahead(post[v])'
  <2>1. CASE v = w
    <3>1. Distinct(jobs)
      BY DEF TypeInv
    <3> QED
      BY <1>1, <1>2, <1>4, <2>1, <3>1 DEF Ahead, Distinct
  <2>2. CASE v # w
    BY <1>5, <2>2 DEF Ahead, AtExporter
  <2> QED
    BY <2>1, <2>2
<1> QED
  BY <1>6, <1>7

(* What the server does before and after, and the end of a post.           *)
LEMMA aroundOrder ==
  ASSUME TypeInv, OrderInv, NEW w \in Worker,
         \/ changeKeyword(w) \/ getLogKeywordExporterConfig(w) \/ notSent(w)
         \/ logKeywordSaveConfig(w)
  PROVE  OrderInv'
<1>1. CASE changeKeyword(w)
  <2>1. PICK q \in Post : post' = [post EXCEPT ![w] = q] /\ q.pc = "read"
    BY <1>1, GotoPost DEF changeKeyword
  <2>2. post'[w] = q /\ \A v \in Worker : v # w => post'[v] = post[v]
    BY <2>1, OnePost
  <2>3. UNCHANGED <<collector, jobs, overlapped>>
    BY <1>1 DEF changeKeyword, exporter, history
  <2>4. \A v \in Worker : AtExporter(v)' => v # w /\ AtExporter(v)
    BY <2>1, <2>2 DEF AtExporter
  <2> QED
    BY <2>2, <2>3, <2>4, outsideOrder
<1>2. CASE getLogKeywordExporterConfig(w)
  <2>1. UNCHANGED <<collector, jobs, overlapped>>
    BY <1>2 DEF getLogKeywordExporterConfig, exporter
  <2>2. ~AtExporter(w)'
    BY <1>2, readStep DEF AtExporter
  <2>3. ASSUME NEW v \in Worker, AtExporter(v)'
        PROVE  /\ AtExporter(v) /\ post'[v].pc = post[v].pc
               /\ post'[v].list = post[v].list /\ post'[v].new = post[v].new
    <3>1. v # w
      BY <2>2, <2>3
    <3> QED
      BY <1>2, <2>3, <3>1, readOthers DEF AtExporter
  <2> QED
    BY <2>1, <2>3, outsideOrder
<1>3. CASE notSent(w)
  BY <1>3, leaveOrder DEF notSent, exporter
<1>4. CASE logKeywordSaveConfig(w)
  BY <1>4, leaveOrder DEF logKeywordSaveConfig, history
<1> QED
  BY <1>1, <1>2, <1>3, <1>4

(* The goroutines leave the files of the collectors alone.                 *)
LEMMA collectorOrder ==
  ASSUME TypeInv, OrderInv, NEW i \in Id, countLine(i) \/ stopTail(i)
  PROVE  OrderInv'
<1>1. UNCHANGED <<jobs, post, overlapped>>
  BY DEF countLine, stopTail, history
<1>2. \A j \in Elements(jobs) : PathOf(j)' = PathOf(j)
  <2>1. \A j \in Id : collector'[j].path = collector[j].path
    BY collectorStep
  <2> QED
    BY <2>1, ElementsTyped DEF PathOf
<1>3. \A v \in Worker : Ahead(post[v]) => Ahead(post[v])'
  BY <1>1, <1>2 DEF Ahead
<1> QED
  BY <1>1, <1>2, <1>3 DEF OrderInv, AloneThere, AtExporter, OnePerPath

LEMMA restartOrder ==
  ASSUME TypeInv, OrderInv, restart
  PROVE  OrderInv'
<1>1. PICK w \in Worker, q \in Post :
        /\ post' = [v \in Worker |-> IF v # w THEN Idle ELSE q]
        /\ q.pc = "update" /\ q.list = <<>>
  BY restartStep
<1>2. jobs' = <<>>
  BY DEF restart
<1>3. post'[w] = q /\ \A v \in Worker : v # w => post'[v] = Idle
  BY <1>1
<1>4. \A v \in Worker : v # w => ~AtExporter(v)'
  BY <1>3, IdlePost DEF AtExporter
<1>5. AloneThere' /\ OnePerPath'
  BY <1>2, <1>4, NoElements DEF AloneThere, OnePerPath
<1>6. \A v \in Worker : Ahead(post[v])'
  BY <1>1, <1>3, IdlePost, NoElements DEF Ahead
<1> QED
  BY <1>5, <1>6 DEF OrderInv

LEMMA InitOrder ==
  ASSUME Init
  PROVE  OrderInv
BY IdlePost, NoElements DEF Init, OrderInv, AloneThere, AtExporter, OnePerPath, Ahead

LEMMA NextOrder ==
  ASSUME TypeInv, OrderInv, [Next]_vars
  PROVE  OrderInv'
<1>1. CASE UNCHANGED vars
  BY <1>1 DEF vars, exporter, history, OrderInv, AloneThere, AtExporter, OnePerPath, PathOf,
              Ahead, Distinct
<1>2. CASE Next
  <2>1. ASSUME NEW w \in Worker, changeKeyword(w) \/ Handle(w) \/ notSent(w)
        PROVE  OrderInv'
    BY <2>1, aroundOrder, updateOrder, othersOrder, startOrder, sendOrder DEF Handle
  <2> QED
    BY <1>2, <2>1, collectorOrder, restartOrder DEF Next
<1> QED
  BY <1>1, <1>2

THEOREM OrderInvariance == Spec => []OrderInv
<1>1. Init => OrderInv
  BY InitOrder
<1>2. TypeInv /\ OrderInv /\ [Next]_vars => OrderInv'
  BY NextOrder
<1> QED
  BY <1>1, <1>2, TypeInvariance, PTL DEF Spec

-----------------------------------------------------------------------------
(* The counts *)

NoCountFalls ==
  \A i, j \in Id :
    /\ i \in Elements(jobs) /\ j \in Elements(jobs')
    /\ collector[i].path = collector'[j].path
    /\ collector[i].keyword = collector'[j].keyword
    /\ collector[i].keyword # None
    => collector'[j].count >= collector[i].count

(* A step that adds no collector, moves none to another file, and lets no  *)
(* count fall whose keyword stays.                                         *)
LEMMA CountsOnePerPath ==
  ASSUME TypeInv, OrderInv, ~overlapped,
         \A j \in Elements(jobs') :
           /\ j \in Elements(jobs) /\ collector'[j].path = collector[j].path
           /\ collector'[j].keyword = collector[j].keyword /\ collector[j].keyword # None =>
                collector'[j].count >= collector[j].count
  PROVE  NoCountFalls
<1> SUFFICES ASSUME NEW i \in Elements(jobs), NEW j \in Elements(jobs'),
                    collector[i].path = collector'[j].path,
                    collector[i].keyword = collector'[j].keyword,
                    collector[i].keyword # None
             PROVE  collector'[j].count >= collector[i].count
  BY DEF NoCountFalls
<1>1. j = i
  BY DEF OrderInv, OnePerPath, PathOf
<1> QED
  BY <1>1

(* If no collector changes, no count does.                                 *)
LEMMA CountsStay ==
  ASSUME TypeInv, OrderInv, ~overlapped, UNCHANGED collector,
         \A j \in Elements(jobs') : j \in Elements(jobs)
  PROVE  NoCountFalls
<1>1. \A j \in Elements(jobs) : collector[j].count >= collector[j].count
  BY ElementsTyped, CollectorFields
<1> QED
  BY <1>1, CountsOnePerPath

LEMMA updateCounts ==
  ASSUME TypeInv, OrderInv, ~overlapped, NEW w \in Worker, update(w) \/ destroy(w)
  PROVE  NoCountFalls
<1>1. PICK i \in Id, c \in Collector :
        /\ collector' = [collector EXCEPT ![i] = c] /\ c.path = collector[i].path
        /\ c.keyword = None \/ (c.keyword = collector[i].keyword => c.count = collector[i].count)
        /\ UNCHANGED jobs
  <2>1. CASE update(w)
    <3>1. PICK i \in Id, q \in Post, c \in Collector :
            /\ collector' = [collector EXCEPT ![i] = c] /\ c.path = PathOf(i)
            /\ c.keyword = collector[i].keyword => c.count = collector[i].count
            /\ UNCHANGED <<db, version, jobs, file, history>>
      BY <2>1, updateStep
    <3> QED
      BY <3>1 DEF PathOf
  <2>2. CASE destroy(w)
    <3>1. PICK i \in Id, q \in Post, c \in Collector :
            /\ collector' = [collector EXCEPT ![i] = c] /\ c.path = PathOf(i) /\ c.keyword = None
            /\ UNCHANGED <<db, version, jobs, file, history>>
      BY <2>2, destroyStep
    <3> QED
      BY <3>1 DEF PathOf
  <2> QED
    BY <2>1, <2>2
<1>2. collector'[i] = c /\ \A j \in Id : j # i => collector'[j] = collector[j]
  BY <1>1, Types
<1>3. \A j \in Elements(jobs) : j \in Id /\ collector[j].count >= collector[j].count
  BY ElementsTyped, CollectorFields
<1>4. ASSUME NEW j \in Elements(jobs')
      PROVE  /\ j \in Elements(jobs) /\ collector'[j].path = collector[j].path
             /\ collector'[j].keyword = collector[j].keyword /\ collector[j].keyword # None =>
                  collector'[j].count >= collector[j].count
  BY <1>1, <1>2, <1>3, <1>4
<1> QED
  BY <1>4, CountsOnePerPath

(* Of a new collector there was none before it for its file.               *)
LEMMA startCounts ==
  ASSUME TypeInv, OrderInv, ~overlapped, NEW w \in Worker, start(w)
  PROVE  NoCountFalls
<1>1. PICK n \in Id, q \in Post, c \in Collector :
        /\ post[w].pc = "start" /\ n \notin Elements(jobs)
        /\ collector' = [collector EXCEPT ![n] = c]
        /\ c.path = post[w].new /\ jobs' = Append(jobs, n)
  BY startStep
<1>2. OnePerPath /\ \A j \in Elements(jobs) : PathOf(j) # post[w].new
  BY <1>1 DEF OrderInv, Ahead
<1>3. Elements(jobs') = Elements(jobs) \cup {n}
  BY <1>1, Types, AppendOne
<1>4. /\ collector'[n] = c
      /\ \A j \in Elements(jobs) : collector'[j] = collector[j] /\ collector[j].count >= collector[j].count
  BY <1>1, Types, ElementsTyped, CollectorFields
<1> SUFFICES ASSUME NEW i \in Elements(jobs), NEW j \in Elements(jobs'),
                    collector[i].path = collector'[j].path
             PROVE  collector'[j].count >= collector[i].count
  BY DEF NoCountFalls
<1>5. j # n
  BY <1>1, <1>2, <1>4 DEF PathOf
<1>6. j = i
  BY <1>2, <1>3, <1>4, <1>5 DEF OnePerPath, PathOf
<1> QED
  BY <1>4, <1>6

LEMMA collectorCounts ==
  ASSUME TypeInv, OrderInv, ~overlapped, NEW i \in Id, countLine(i) \/ stopTail(i)
  PROVE  NoCountFalls
<1>1. UNCHANGED jobs
  BY DEF countLine, stopTail
<1>2. /\ \A j \in Id : j # i => collector'[j] = collector[j]
      /\ collector'[i].path = collector[i].path
      /\ collector'[i].count >= collector[i].count \/ collector'[i].count = collector[i].count
  BY collectorStep
<1>3. \A j \in Elements(jobs) : j \in Id /\ collector[j].count >= collector[j].count
  BY ElementsTyped, CollectorFields
<1>4. ASSUME NEW j \in Elements(jobs')
      PROVE  /\ j \in Elements(jobs) /\ collector'[j].path = collector[j].path
             /\ collector'[j].count >= collector[j].count
  BY <1>1, <1>2, <1>3, <1>4
<1> QED
  BY <1>4, CountsOnePerPath

LEMMA NextCounts ==
  ASSUME TypeInv, OrderInv, ~overlapped, [Next]_vars
  PROVE  NoCountFalls
<1>1. CASE UNCHANGED vars
  BY <1>1, CountsStay DEF vars, exporter
<1>2. CASE Next
  <2>1. ASSUME NEW w \in Worker, changeKeyword(w) \/ Handle(w) \/ notSent(w)
        PROVE  NoCountFalls
    <3>1. CASE \/ changeKeyword(w) \/ notSent(w) \/ getLogKeywordExporterConfig(w)
               \/ updateEndpointLogKeyword(w) \/ afterUpdate(w) \/ findNew(w)
               \/ logKeywordSaveConfig(w)
      <4>1. UNCHANGED <<collector, jobs>>
        BY <3>1 DEF changeKeyword, notSent, getLogKeywordExporterConfig, updateEndpointLogKeyword,
                    afterUpdate, findNew, logKeywordSaveConfig, exporter
      <4> QED
        BY <4>1, CountsStay
    <3>2. CASE remove(w)
      BY <3>2, removeStep, CountsStay
    <3> QED
      BY <2>1, <3>1, <3>2, updateCounts, startCounts DEF Handle
  <2>2. CASE restart
    <3>1. Elements(jobs') = {}
      BY <2>2, NoElements DEF restart
    <3> QED
      BY <3>1 DEF NoCountFalls
  <2> QED
    BY <1>2, <2>1, <2>2, collectorCounts DEF Next
<1> QED
  BY <1>1, <1>2

(* While posts do not overlap, the count that is scraped of a file and a   *)
(* keyword never falls: a post that leaves both alone, and those that stop *)
(* or start others, keep it.                                               *)
THEOREM CountsCorrect == Spec => CountsDoNotFall
<1>1. TypeInv /\ OrderInv /\ [Next]_vars =>
        [~overlapped =>
           \A i, j \in Id :
             /\ i \in Elements(jobs) /\ j \in Elements(jobs')
             /\ collector[i].path = collector'[j].path
             /\ collector[i].keyword = collector'[j].keyword
             /\ collector[i].keyword # None
             => collector'[j].count >= collector[i].count]_vars
  BY NextCounts DEF NoCountFalls
<1> QED
  BY <1>1, TypeInvariance, OrderInvariance, PTL DEF Spec, CountsDoNotFall

-----------------------------------------------------------------------------
(* The collectors follow what is posted *)

(* Nothing happens to a collector that its file and its keyword depend on. *)
Kept(j) ==
  /\ PathOf(j)' = PathOf(j) /\ collector'[j].keyword = collector[j].keyword
  /\ Follows(j) => Follows(j)'

LEMMA KeptCounts ==
  ASSUME NEW j, Kept(j), NEW c, Counts(j, c)
  PROVE  Counts(j, c)'
BY DEF Kept, Counts

(* A step of the post in the exporter after which it still is there.       *)
LEMMA insideFollow ==
  ASSUME TypeInv, OrderInv, NEW w \in Worker, NEW q \in Post, post' = [post EXCEPT ![w] = q],
         AtExporter(w), q.pc \in {"update", "remove", "add", "start", "save"},
         UNCHANGED <<overlapped, badPosted>>,
         ~overlapped /\ ~badPosted => Stage(q)'
  PROVE  FollowInv'
<1> SUFFICES ASSUME ~overlapped, ~badPosted
             PROVE  FollowInv'
  BY DEF FollowInv
<1>1. post'[w] = q /\ \A v \in Worker : v # w => post'[v] = post[v]
  BY OnePost
<1>2. \A v \in Worker : v # w => ~AtExporter(v)'
  BY <1>1 DEF OrderInv, AloneThere, AtExporter
<1>3. AtExporter(w)'
  BY <1>1 DEF AtExporter
<1>4. Stage(post[w])'
  BY <1>1 DEF Stage, Treated
<1> QED
  BY <1>2, <1>3, <1>4 DEF FollowInv, AtRestThere

(* Nothing happens in the exporter but what its goroutines do.             *)
LEMMA outsideFollow ==
  ASSUME FollowInv, UNCHANGED <<jobs, file, overlapped, badPosted>>,
         \A j \in Elements(jobs) :
           Kept(j) \/ (~Follows(j) /\ PathOf(j)' = PathOf(j)),
         \A v \in Worker : AtExporter(v)' <=> AtExporter(v),
         \A v \in Worker : AtExporter(v) =>
           /\ post'[v].pc = post[v].pc /\ post'[v].load = post[v].load
           /\ post'[v].config = post[v].config /\ post'[v].list = post[v].list
           /\ post'[v].removed = post[v].removed /\ post'[v].new = post[v].new
  PROVE  FollowInv'
<1> SUFFICES ASSUME ~overlapped, ~badPosted
             PROVE  FollowInv'
  BY DEF FollowInv
<1>1. ASSUME NEW j \in Elements(jobs), NEW c
      PROVE  PathOf(j)' = PathOf(j) /\ (Follows(j) => Follows(j)') /\ (Counts(j, c) => Counts(j, c)')
  BY KeptCounts DEF Kept, Counts
<1>2. ASSUME NEW v \in Worker, AtExporter(v)'
      PROVE  Stage(post[v])'
  <2>1. /\ Stage(post[v])
        /\ post'[v].pc = post[v].pc /\ post'[v].load = post[v].load
        /\ post'[v].config = post[v].config /\ post'[v].list = post[v].list
        /\ post'[v].removed = post[v].removed /\ post'[v].new = post[v].new
    BY <1>2 DEF FollowInv
  <2>2. \A j \in Elements(jobs) : Treated(post[v], j) => Treated(post[v], j)'
    BY <1>1, <2>1 DEF Treated
  <2>3. Covered(post[v].config) => Covered(post[v].config)'
    BY <1>1, <2>1 DEF Covered
  <2>4. \A j \in Elements(jobs) : /\ Follows(j) => Follows(j)'
                                  /\ Counts(j, post[v].config) => Counts(j, post[v].config)'
    BY <1>1, <2>1
  <2> QED
    BY <2>1, <2>2, <2>3, <2>4 DEF Stage
<1>3. ASSUME AtRestThere'
      PROVE  (Covered(handled.config) /\ \A i \in Elements(jobs) : Counts(i, handled.config))'
  <2>1. Covered(handled.config) /\ \A i \in Elements(jobs) : Counts(i, handled.config)
    BY <1>3 DEF AtRestThere, FollowInv
  <2>2. Covered(handled.config)'
    BY <1>1, <2>1 DEF Covered
  <2> QED
    BY <1>1, <2>1, <2>2
<1> QED
  BY <1>2, <1>3 DEF FollowInv

LEMMA updateFollow ==
  ASSUME TypeInv, DatabaseInv, OrderInv, FollowInv, NEW w \in Worker, update(w)
  PROVE  FollowInv'
<1>1. PICK i \in Id, q \in Post, c \in Collector :
        /\ post[w].pc = "update" /\ post[w].list # <<>> /\ i = Head(post[w].list)
        /\ collector[i] \in Collector /\ post[w].config[PathOf(i)] # None
        /\ post' = [post EXCEPT ![w] = q] /\ collector' = [collector EXCEPT ![i] = c]
        /\ q.pc = "update" /\ Same(q, post[w])
        /\ q.list = Tail(post[w].list) /\ q.removed = post[w].removed
        /\ (q.failed <=> post[w].failed \/ post[w].config[PathOf(i)] \in Bad)
        /\ c.path = PathOf(i) /\ c.keyword = Rule(post[w].config[PathOf(i)])
        /\ c.tail = collector[i].tail /\ c.destroy = collector[i].destroy
        /\ c.keyword = collector[i].keyword => c.count = collector[i].count
        /\ UNCHANGED <<db, version, jobs, file, history>>
  BY updateStep
<1>2. AtExporter(w) /\ UNCHANGED <<overlapped, badPosted>>
  BY <1>1 DEF AtExporter, history
<1>3. ASSUME ~overlapped, ~badPosted
      PROVE  Stage(q)'
  <2>1. Stage(post[w]) /\ Clean(post[w].config) /\ Ahead(post[w])
    BY <1>2, <1>3 DEF FollowInv, DatabaseInv, NoneFails, OrderInv
  <2>2. post[w].list \in Seq(Id) /\ Distinct(post[w].list)
    BY <1>1, <2>1, Types, PostFields DEF Ahead
  <2>3. /\ i \in Elements(post[w].list) /\ i \in Elements(jobs) /\ i \notin Elements(q.list)
        /\ \A j \in Elements(post[w].list) : j = i \/ j \in Elements(q.list)
        /\ Elements(q.list) \subseteq Elements(post[w].list)
    BY <1>1, <2>1, <2>2, ElementsOfTail, DistinctTail DEF Ahead
  <2>4. collector'[i] = c /\ \A j \in Elements(jobs) : j # i => collector'[j] = collector[j]
    BY <1>1, Types, ElementsTyped
  <2>5. c.keyword = post[w].config[PathOf(i)]
    <3>1. PathOf(i) \in Path
      BY <1>1, CollectorFields DEF PathOf
    <3> QED
      BY <1>1, <2>1, <3>1 DEF Clean, Rule
  <2>6. Treated(q, i)'
    <3>1. Follows(i)
      BY <1>1, <2>1, <2>3 DEF Stage
    <3>2. /\ collector'[i].path = PathOf(i) /\ collector'[i].keyword = post[w].config[PathOf(i)]
          /\ collector'[i].tail = collector[i].tail /\ collector'[i].destroy = collector[i].destroy
      BY <1>1, <2>4, <2>5
    <3>3. q.config = post[w].config /\ q.config[PathOf(i)] # None
      BY <1>1 DEF Same
    <3>4. Counts(i, q.config)'
      BY <3>1, <3>2, <3>3 DEF Counts, Follows, PathOf
    <3> QED
      BY <3>4 DEF Treated
  <2>7. ASSUME NEW j \in Elements(jobs), j # i
        PROVE  IF j \in Elements(q.list) THEN Follows(j)' ELSE Treated(q, j)'
    <3>1. IF j \in Elements(post[w].list) THEN Follows(j) ELSE Treated(post[w], j)
      BY <1>1, <2>1, <2>7 DEF Stage
    <3>2. j \in Elements(post[w].list) <=> j \in Elements(q.list)
      BY <2>3, <2>7
    <3>3. collector'[j] = collector[j]
      BY <2>4, <2>7
    <3>4. Follows(j) => Follows(j)'
      BY <3>3 DEF Follows
    <3>5. Treated(post[w], j) => Treated(q, j)'
      BY <1>1, <3>3 DEF Treated, Counts, Follows, PathOf, Same
    <3> QED
      BY <3>1, <3>2, <3>4, <3>5
  <2>8. \A j \in Elements(jobs)' : IF j \in Elements(q.list) THEN Follows(j)' ELSE Treated(q, j)'
    BY <1>1, <2>3, <2>6, <2>7 DEF Elements
  <2> QED
    BY <1>1, <2>1, <2>8 DEF Stage, Same
<1> QED
  BY <1>1, <1>2, <1>3, insideFollow

LEMMA destroyFollow ==
  ASSUME TypeInv, OrderInv, FollowInv, NEW w \in Worker, destroy(w)
  PROVE  FollowInv'
<1>1. PICK i \in Id, q \in Post, c \in Collector :
        /\ post[w].pc = "update" /\ post[w].list # <<>> /\ i = Head(post[w].list)
        /\ collector[i] \in Collector /\ post[w].config[PathOf(i)] = None
        /\ post' = [post EXCEPT ![w] = q] /\ collector' = [collector EXCEPT ![i] = c]
        /\ q.pc = "update" /\ Same(q, post[w])
        /\ q.list = Tail(post[w].list) /\ q.removed = post[w].removed \cup {PathOf(i)}
        /\ q.failed = post[w].failed
        /\ c.path = PathOf(i) /\ c.keyword = None
        /\ UNCHANGED <<db, version, jobs, file, history>>
  BY destroyStep
<1>2. AtExporter(w) /\ UNCHANGED <<overlapped, badPosted>>
  BY <1>1 DEF AtExporter, history
<1>3. ASSUME ~overlapped, ~badPosted
      PROVE  Stage(q)'
  <2>1. Stage(post[w]) /\ Ahead(post[w])
    BY <1>2, <1>3 DEF FollowInv, OrderInv
  <2>2. post[w].list \in Seq(Id) /\ Distinct(post[w].list)
    BY <1>1, <2>1, Types, PostFields DEF Ahead
  <2>3. /\ i \in Elements(post[w].list) /\ i \in Elements(jobs) /\ i \notin Elements(q.list)
        /\ \A j \in Elements(post[w].list) : j = i \/ j \in Elements(q.list)
        /\ Elements(q.list) \subseteq Elements(post[w].list)
    BY <1>1, <2>1, <2>2, ElementsOfTail, DistinctTail DEF Ahead
  <2>4. collector'[i] = c /\ \A j \in Elements(jobs) : j # i => collector'[j] = collector[j]
    BY <1>1, Types, ElementsTyped
  <2>5. Treated(q, i)'
    BY <1>1, <2>4 DEF Treated, PathOf
  <2>6. ASSUME NEW j \in Elements(jobs), j # i
        PROVE  IF j \in Elements(q.list) THEN Follows(j)' ELSE Treated(q, j)'
    <3>1. IF j \in Elements(post[w].list) THEN Follows(j) ELSE Treated(post[w], j)
      BY <1>1, <2>1, <2>6 DEF Stage
    <3>2. j \in Elements(post[w].list) <=> j \in Elements(q.list)
      BY <2>3, <2>6
    <3>3. collector'[j] = collector[j]
      BY <2>4, <2>6
    <3>4. Follows(j) => Follows(j)'
      BY <3>3 DEF Follows
    <3>5. q.config = post[w].config /\ q.removed = post[w].removed \cup {PathOf(i)}
      BY <1>1 DEF Same
    <3>6. Treated(post[w], j) => Treated(q, j)'
      BY <3>3, <3>5 DEF Treated, Counts, Follows, PathOf
    <3> QED
      BY <3>1, <3>2, <3>4, <3>6
  <2>7. \A j \in Elements(jobs)' : IF j \in Elements(q.list) THEN Follows(j)' ELSE Treated(q, j)'
    BY <1>1, <2>3, <2>5, <2>6 DEF Elements
  <2>8. \A p \in q.removed : q.config[p] = None
    BY <1>1, <2>1 DEF Stage, Same
  <2> QED
    BY <1>1, <2>1, <2>7, <2>8 DEF Stage, Same
<1> QED
  BY <1>1, <1>2, <1>3, insideFollow

(* With all collectors looked at the post goes on; only a bad expression   *)
(* would end it here.                                                      *)
LEMMA afterUpdateFollow ==
  ASSUME TypeInv, DatabaseInv, OrderInv, FollowInv, NEW w \in Worker, afterUpdate(w)
  PROVE  FollowInv'
<1>1. /\ post[w].pc = "update" /\ post[w].list = <<>> /\ AtExporter(w)
      /\ UNCHANGED <<collector, jobs, file, overlapped, badPosted>>
  BY DEF afterUpdate, AtExporter, exporter, history
<1> SUFFICES ASSUME ~overlapped, ~badPosted
             PROVE  FollowInv'
  BY <1>1 DEF FollowInv
<1>2. Stage(post[w]) /\ ~post[w].failed
  BY <1>1 DEF FollowInv, DatabaseInv, NoneFails
<1>3. PICK q \in Post :
        /\ post' = [post EXCEPT ![w] = q] /\ q.pc = "remove" /\ Same(q, post[w])
        /\ q.removed = post[w].removed
  BY <1>2, GotoPost DEF afterUpdate
<1>4. \A j \in Elements(jobs) : Treated(q, j)'
  BY <1>1, <1>2, <1>3, NoElements DEF Stage, Treated, Counts, Follows, PathOf, Same
<1>5. Stage(q)'
  BY <1>1, <1>2, <1>3, <1>4 DEF Stage, Same
<1> QED
  BY <1>1, <1>3, <1>5, insideFollow

LEMMA removeFollow ==
  ASSUME TypeInv, OrderInv, FollowInv, NEW w \in Worker, remove(w)
  PROVE  FollowInv'
<1>1. PICK q \in Post :
        /\ post[w].pc = "remove" /\ post' = [post EXCEPT ![w] = q]
        /\ q.pc = "add" /\ Same(q, post[w])
        /\ \A i \in Elements(jobs') : i \in Elements(jobs) /\ PathOf(i) \notin post[w].removed
        /\ UNCHANGED <<db, version, collector, file, history>>
  BY removeStep
<1>2. AtExporter(w) /\ UNCHANGED <<overlapped, badPosted>>
  BY <1>1 DEF AtExporter, history
<1>3. ASSUME ~overlapped, ~badPosted
      PROVE  Stage(q)'
  <2>1. Stage(post[w])
    BY <1>2, <1>3 DEF FollowInv
  <2>2. \A i \in Elements(jobs') : Counts(i, q.config)'
    BY <1>1, <2>1 DEF Stage, Treated, Counts, Follows, PathOf, Same
  <2> QED
    BY <1>1, <2>1, <2>2 DEF Stage, Same
<1> QED
  BY <1>1, <1>2, <1>3, insideFollow

LEMMA findNewFollow ==
  ASSUME TypeInv, OrderInv, FollowInv, NEW w \in Worker, findNew(w)
  PROVE  FollowInv'
<1>1. PICK q \in Post :
        /\ post[w].pc = "add" /\ post' = [post EXCEPT ![w] = q]
        /\ Same(q, post[w])
        /\ \/ q.pc = "start" /\ q.new \in Missing(w)
           \/ q.pc = "save" /\ Missing(w) = {}
        /\ UNCHANGED <<db, version, exporter, history>>
  BY findNewStep
<1>2. AtExporter(w) /\ UNCHANGED <<collector, jobs, file, overlapped, badPosted>>
  BY <1>1 DEF AtExporter, exporter, history
<1>3. ASSUME ~overlapped, ~badPosted
      PROVE  Stage(q)'
  <2>1. Stage(post[w])
    BY <1>2, <1>3 DEF FollowInv
  <2>2. \A i \in Elements(jobs) : Counts(i, q.config)'
    BY <1>1, <1>2, <2>1 DEF Stage, Counts, Follows, PathOf, Same
  <2>3. q.pc = "start" => q.config[q.new] # None
    BY <1>1 DEF Missing, Same
  <2>4. q.pc = "save" => Covered(q.config)'
    BY <1>1, <1>2 DEF Missing, Covered, PathOf, Same
  <2> QED
    BY <1>1, <1>2, <2>1, <2>2, <2>3, <2>4 DEF Stage, Same
<1> QED
  BY <1>1, <1>2, <1>3, insideFollow

LEMMA startFollow ==
  ASSUME TypeInv, DatabaseInv, OrderInv, FollowInv, NEW w \in Worker, start(w)
  PROVE  FollowInv'
<1>1. PICK i \in Id, q \in Post, c \in Collector :
        /\ post[w].pc = "start" /\ post[w].new \in Path /\ i \notin Elements(jobs)
        /\ post' = [post EXCEPT ![w] = q] /\ collector' = [collector EXCEPT ![i] = c]
        /\ q.pc = "add" /\ Same(q, post[w])
        /\ c.path = post[w].new /\ c.keyword = Rule(post[w].config[post[w].new])
        /\ c.tail /\ ~c.destroy
        /\ jobs' = Append(jobs, i)
        /\ UNCHANGED <<db, version, file, history>>
  BY startStep
<1>2. AtExporter(w) /\ UNCHANGED <<overlapped, badPosted>>
  BY <1>1 DEF AtExporter, history
<1>3. ASSUME ~overlapped, ~badPosted
      PROVE  Stage(q)'
  <2>1. Stage(post[w]) /\ Clean(post[w].config)
    BY <1>2, <1>3 DEF FollowInv, DatabaseInv, NoneFails
  <2>2. collector'[i] = c /\ \A j \in Elements(jobs) : collector'[j] = collector[j]
    BY <1>1, Types, ElementsTyped
  <2>3. Elements(jobs') = Elements(jobs) \cup {i}
    BY <1>1, Types, AppendOne
  <2>4. Counts(i, q.config)'
    BY <1>1, <2>1, <2>2 DEF Stage, Clean, Rule, Counts, Follows, PathOf, Same
  <2>5. \A j \in Elements(jobs) : Counts(j, q.config)'
    BY <1>1, <2>1, <2>2 DEF Stage, Counts, Follows, PathOf, Same
  <2> QED
    BY <1>1, <2>1, <2>3, <2>4, <2>5 DEF Stage, Same
<1> QED
  BY <1>1, <1>2, <1>3, insideFollow

(* The end of a post that was handled, whatever became of the file.        *)
LEMMA saveFollow ==
  ASSUME TypeInv, DatabaseInv, OrderInv, FollowInv, NEW w \in Worker, logKeywordSaveConfig(w)
  PROVE  FollowInv'
<1>1. /\ post[w].pc = "save" /\ AtExporter(w)
      /\ post'[w] = Idle /\ \A v \in Worker : v # w => post'[v] = post[v]
      /\ UNCHANGED <<collector, jobs, overlapped, badPosted>>
  BY saveStep
<1> SUFFICES ASSUME ~overlapped, ~badPosted
             PROVE  FollowInv'
  BY <1>1 DEF FollowInv
<1>2. Stage(post[w]) /\ ~post[w].failed
  BY <1>1 DEF FollowInv, DatabaseInv, NoneFails
<1>3. handled'.config = post[w].config
  <2>1. CASE UNCHANGED file /\ (post[w].failed \/ post[w].load)
    BY <1>2, <2>1 DEF Stage
  <2>2. CASE handled'.config = post[w].config
    BY <2>2
  <2> QED
    BY <2>1, <2>2, saveStep
<1>4. /\ Covered(post[w].config) /\ \A i \in Elements(jobs) : Counts(i, post[w].config)
  BY <1>1, <1>2 DEF Stage
<1>5. (Covered(handled.config) /\ \A i \in Elements(jobs) : Counts(i, handled.config))'
  <2>1. \A i \in Elements(jobs) : Counts(i, handled.config)'
    BY <1>1, <1>3, <1>4 DEF Counts, Follows, PathOf
  <2>2. Covered(handled.config)'
    BY <1>1, <1>3, <1>4 DEF Covered, PathOf
  <2> QED
    BY <1>1, <2>1, <2>2
<1>6. \A v \in Worker : ~AtExporter(v)'
  BY <1>1, IdlePost DEF OrderInv, AloneThere, AtExporter
<1> QED
  BY <1>5, <1>6 DEF FollowInv

(* The collectors that a post finds follow their files.                    *)
LEMMA sendFollow ==
  ASSUME TypeInv, FollowInv, NEW w \in Worker, updateEndpointLogKeyword(w)
  PROVE  FollowInv'
<1>1. PICK q \in Post :
        /\ post' = [post EXCEPT ![w] = q] /\ q.pc = "update" /\ ~q.load
        /\ q.list = jobs /\ q.removed = {}
  BY sendStep
<1>2. /\ UNCHANGED <<collector, jobs, file>>
      /\ overlapped' = (overlapped \/ \E v \in Worker : AtExporter(v))
      /\ badPosted' = (badPosted \/ \E p \in Path : post[w].config[p] \in Bad)
  BY DEF updateEndpointLogKeyword, exporter
<1> SUFFICES ASSUME ~overlapped', ~badPosted'
             PROVE  FollowInv'
  BY DEF FollowInv
<1>3. ~overlapped /\ ~badPosted /\ \A v \in Worker : ~AtExporter(v)
  BY <1>2, Types
<1>4. post'[w] = q /\ \A v \in Worker : v # w => post'[v] = post[v]
  BY <1>1, OnePost
<1>5. AtExporter(w)' /\ \A v \in Worker : v # w => ~AtExporter(v)'
  BY <1>1, <1>3, <1>4 DEF AtExporter
<1>6. \A j \in Elements(jobs) : Follows(j)'
  BY <1>2, <1>3 DEF FollowInv, AtRestThere, Counts, Follows
<1>7. Stage(post[w])'
  BY <1>1, <1>2, <1>4, <1>6 DEF Stage
<1> QED
  BY <1>5, <1>7 DEF FollowInv, AtRestThere

(* What the server does before the post comes to the exporter.             *)
LEMMA beforeFollow ==
  ASSUME TypeInv, FollowInv, NEW w \in Worker,
         changeKeyword(w) \/ getLogKeywordExporterConfig(w) \/ notSent(w)
  PROVE  FollowInv'
<1>1. UNCHANGED <<collector, jobs, file, overlapped, badPosted>>
  BY DEF changeKeyword, getLogKeywordExporterConfig, notSent, exporter, history
<1>2. \A j \in Elements(jobs) : Kept(j)
  BY <1>1 DEF Kept, PathOf, Follows
<1>3. ~AtExporter(w)
  BY DEF changeKeyword, getLogKeywordExporterConfig, notSent, AtExporter
<1>4. ~AtExporter(w)'
  <2>1. CASE changeKeyword(w)
    <3>1. PICK q \in Post : post' = [post EXCEPT ![w] = q] /\ q.pc = "read"
      BY <2>1, GotoPost DEF changeKeyword
    <3> QED
      BY <3>1, OnePost DEF AtExporter
  <2>2. CASE getLogKeywordExporterConfig(w)
    BY <2>2, readStep DEF AtExporter
  <2>3. CASE notSent(w)
    <3>1. post'[w] = Idle
      BY <2>3, Types DEF notSent, End
    <3> QED
      BY <3>1, IdlePost DEF AtExporter
  <2> QED
    BY <2>1, <2>2, <2>3
<1>5. ASSUME NEW v \in Worker, v # w
      PROVE  /\ post'[v].pc = post[v].pc /\ post'[v].load = post[v].load
             /\ post'[v].config = post[v].config /\ post'[v].list = post[v].list
             /\ post'[v].removed = post[v].removed /\ post'[v].new = post[v].new
  <2>1. CASE changeKeyword(w) \/ notSent(w)
    BY <1>5, <2>1, Types DEF changeKeyword, Goto, notSent, End
  <2>2. CASE getLogKeywordExporterConfig(w)
    BY <1>5, <2>2, readOthers
  <2> QED
    BY <2>1, <2>2
<1>6. \A v \in Worker : AtExporter(v)' <=> AtExporter(v)
  BY <1>3, <1>4, <1>5 DEF AtExporter
<1>7. \A v \in Worker : AtExporter(v) =>
        /\ post'[v].pc = post[v].pc /\ post'[v].load = post[v].load
        /\ post'[v].config = post[v].config /\ post'[v].list = post[v].list
        /\ post'[v].removed = post[v].removed /\ post'[v].new = post[v].new
  BY <1>3, <1>5
<1> QED
  BY <1>1, <1>2, <1>6, <1>7, outsideFollow

(* A hit changes no more than a count, and only a goroutine that was told  *)
(* to stop ends.                                                           *)
LEMMA collectorFollow ==
  ASSUME TypeInv, FollowInv, NEW i \in Id, countLine(i) \/ stopTail(i)
  PROVE  FollowInv'
<1>1. UNCHANGED <<jobs, file, post, overlapped, badPosted>>
  BY DEF countLine, stopTail, history
<1>2. ASSUME NEW j \in Elements(jobs)
      PROVE  Kept(j) \/ (~Follows(j) /\ PathOf(j)' = PathOf(j))
  <2>1. CASE j # i
    <3>1. collector'[j] = collector[j]
      BY <2>1, collectorStep, ElementsTyped
    <3> QED
      BY <3>1 DEF Kept, PathOf, Follows
  <2>2. CASE j = i
    BY <2>2, collectorStep DEF Kept, PathOf, Follows
  <2> QED
    BY <2>1, <2>2
<1>3. \A v \in Worker : AtExporter(v)' <=> AtExporter(v)
  BY <1>1 DEF AtExporter
<1> QED
  BY <1>1, <1>2, <1>3, outsideFollow

LEMMA restartFollow ==
  ASSUME TypeInv, FollowInv, restart
  PROVE  FollowInv'
<1>1. PICK w \in Worker, q \in Post :
        /\ post' = [v \in Worker |-> IF v # w THEN Idle ELSE q]
        /\ q.pc = "update" /\ q.config = handled'.config /\ q.removed = {}
  BY restartStep
<1>2. jobs' = <<>>
  BY DEF restart
<1>3. post'[w] = q /\ \A v \in Worker : v # w => post'[v] = Idle
  BY <1>1
<1>4. AtExporter(w)' /\ \A v \in Worker : v # w => ~AtExporter(v)'
  BY <1>1, <1>3, IdlePost DEF AtExporter
<1>5. Stage(post[w])'
  BY <1>1, <1>2, <1>3, NoElements DEF Stage
<1> QED
  BY <1>4, <1>5 DEF FollowInv, AtRestThere

LEMMA InitFollow ==
  ASSUME Init
  PROVE  FollowInv
BY IdlePost, EmptyConfig, NoElements DEF Init, Unreadable, FollowInv, AtExporter, Covered

LEMMA NextFollow ==
  ASSUME TypeInv, DatabaseInv, OrderInv, FollowInv, [Next]_vars
  PROVE  FollowInv'
<1>1. CASE UNCHANGED vars
  <2>1. UNCHANGED <<collector, jobs, file, post, overlapped, badPosted>>
    BY <1>1 DEF vars, exporter, history
  <2>2. \A j \in Elements(jobs) : Kept(j)
    BY <2>1 DEF Kept, PathOf, Follows
  <2>3. \A v \in Worker : AtExporter(v)' <=> AtExporter(v)
    BY <2>1 DEF AtExporter
  <2> QED
    BY <2>1, <2>2, <2>3, outsideFollow
<1>2. CASE Next
  <2>1. ASSUME NEW w \in Worker, changeKeyword(w) \/ Handle(w) \/ notSent(w)
        PROVE  FollowInv'
    BY <2>1, beforeFollow, sendFollow, updateFollow, destroyFollow, afterUpdateFollow,
       removeFollow, findNewFollow, startFollow, saveFollow DEF Handle
  <2> QED
    BY <1>2, <2>1, collectorFollow, restartFollow DEF Next
<1> QED
  BY <1>1, <1>2

THEOREM FollowInvariance == Spec => []FollowInv
<1>1. Init => FollowInv
  BY InitFollow
<1>2. TypeInv /\ DatabaseInv /\ OrderInv /\ FollowInv /\ [Next]_vars => FollowInv'
  BY NextFollow
<1> QED
  BY <1>1, <1>2, TypeInvariance, DatabaseInvariance, OrderInvariance, PTL DEF Spec

(* While posts do not meet in the exporter and none has a bad expression,  *)
(* a post tells only collectors to stop that follow their file, and so can *)
(* hear it: none waits for ever with a collector's lock.                   *)
THEOREM HeardCorrect == Spec => []DestroyIsHeard
<1>1. ASSUME TypeInv, OrderInv, FollowInv, ~overlapped, ~badPosted,
             NEW w \in Worker, NEW i \in Id, Destroying(w, i)
      PROVE  collector[i].tail
  <2>1. /\ post[w].pc = "update" /\ post[w].list # <<>> /\ i = Head(post[w].list)
        /\ AtExporter(w)
    BY <1>1 DEF Destroying, AtExporter
  <2>2. Elements(post[w].list) \subseteq Elements(jobs) /\ Stage(post[w])
    BY <1>1, <2>1 DEF OrderInv, Ahead, FollowInv
  <2>3. i \in Elements(post[w].list)
    BY <1>1, <2>1, Types, PostFields, ElementsOfTail
  <2> QED
    BY <2>1, <2>2, <2>3 DEF Stage, Follows
<1>2. TypeInv /\ OrderInv /\ FollowInv => DestroyIsHeard
  BY <1>1 DEF DestroyIsHeard
<1> QED
  BY <1>2, TypeInvariance, OrderInvariance, FollowInvariance, PTL

(* At most one collector per file, and one for each file that is           *)
(* configured: as many as there are configured files.                      *)
LEMMA AsManyAsConfigured ==
  ASSUME TypeInv, OnePerPath, NEW c, Covered(c), \A i \in Elements(jobs) : Counts(i, c)
  PROVE  Len(jobs) = Cardinality({p \in Path : c[p] # None})
<1> DEFINE S == {p \in Path : c[p] # None}
           f == [k \in 1 .. Len(jobs) |-> PathOf(jobs[k])]
<1>1. jobs \in Seq(Id) /\ Len(jobs) \in Nat /\ Distinct(jobs)
  BY Types DEF TypeInv
<1>2. \A k \in 1 .. Len(jobs) : jobs[k] \in Elements(jobs)
  BY DEF Elements
<1>3. \A i \in Elements(jobs) : PathOf(i) \in S
  BY ElementsTyped, CollectorFields DEF PathOf, Counts
<1>4. f \in [1 .. Len(jobs) -> S]
  BY <1>2, <1>3
<1>5. \A k, l \in 1 .. Len(jobs) : f[k] = f[l] => k = l
  BY <1>1, <1>2 DEF OnePerPath, Distinct
<1>6. \A p \in S : \E k \in 1 .. Len(jobs) : f[k] = p
  BY DEF Covered, Elements
<1>7. ExistsBijection(1 .. Len(jobs), S)
  <2> HIDE DEF f, S
  <2>1. f \in Injection(1 .. Len(jobs), S) /\ f \in Surjection(1 .. Len(jobs), S)
    BY <1>4, <1>5, <1>6 DEF Injection, IsInjective, Surjection
  <2> QED
    BY <2>1 DEF ExistsBijection, Bijection
<1>8. IsFiniteSet(1 .. Len(jobs)) /\ Cardinality(1 .. Len(jobs)) = Len(jobs)
  BY <1>1, InitialSegment
<1> QED
  BY <1>7, <1>8, FS_Bijection

(* What the collectors of an exporter at rest count.                       *)
LEMMA AtRestCounting ==
  ASSUME TypeInv, OrderInv, FollowInv, AtRest, ~overlapped, ~badPosted
  PROVE  Counting(handled.config)
<1>1. Covered(handled.config) /\ \A i \in Elements(jobs) : Counts(i, handled.config)
  BY DEF FollowInv, AtRestThere, AtRest, AtExporter
<1>2. Len(jobs) = Cardinality({p \in Path : handled.config[p] # None})
  BY <1>1, AsManyAsConfigured DEF OrderInv
<1>3. ASSUME NEW p \in Path, handled.config[p] # None
      PROVE  \E i \in Elements(jobs) :
               /\ collector[i].path = p /\ collector[i].keyword = handled.config[p]
               /\ collector[i].tail /\ ~collector[i].destroy
  BY <1>1, <1>3 DEF Covered, Counts, Follows, PathOf
<1> QED
  BY <1>2, <1>3 DEF Counting

(* At rest, if no posts met in the exporter and none had a bad expression, *)
(* the collectors are what was handled last, even if it could not be       *)
(* saved, or what the exporter loaded when it started.                     *)
THEOREM FollowCorrect == Spec => []CollectorsFollowConfig
<1>1. TypeInv /\ OrderInv /\ FollowInv => CollectorsFollowConfig
  BY AtRestCounting DEF CollectorsFollowConfig
<1> QED
  BY <1>1, TypeInvariance, OrderInvariance, FollowInvariance, PTL

(* If every post was begun after the one before had ended, none had a bad  *)
(* expression, all came to their end and none was forgotten by an exporter *)
(* that had failed to save it, then at rest the exporter counts what the   *)
(* database says, and has it saved unless the last writing failed.         *)
THEOREM CountedCorrect == Spec => []DatabaseIsCounted
<1>1. ASSUME TypeInv, DatabaseInv, OrderInv, FollowInv,
             AtRest, ~reordered, ~badPosted, ~unsent
      PROVE  /\ ~overlapped => Counting(db)
             /\ ~unsaved => saved.config = db
  <2>1. handled.config = db
    BY <1>1 DEF DatabaseInv, Known, Carried, AtRest, UnderWay
  <2>2. ~overlapped => Counting(db)
    BY <1>1, <2>1, AtRestCounting
  <2> QED
    BY <1>1, <2>1, <2>2 DEF DatabaseInv
<1>2. TypeInv /\ DatabaseInv /\ OrderInv /\ FollowInv => DatabaseIsCounted
  BY <1>1 DEF DatabaseIsCounted
<1> QED
  BY <1>2, TypeInvariance, DatabaseInvariance, OrderInvariance, FollowInvariance, PTL
=============================================================================
