--------------------------- MODULE AlarmContract ---------------------------
(***************************************************************************)
(* What the alarm tables of monitor-server promise to everybody who reads  *)
(* them (the alarm list, the notification code, the platform): the history *)
(* of alarms is a set of rows, every row belongs to one series (endpoint + *)
(* metric + tags + strategy), a series has at most one open alarm, and the *)
(* life of a row is  unused -> firing -> ok -> deleted  with an optional   *)
(* "closed" that is final.  AlarmFiring.tla is shown to implement it.      *)
(***************************************************************************)
EXTENDS Naturals

CONSTANTS Series,    \* the things an alarm can be about
          AlarmId    \* the ids the alarm table can hand out

VARIABLE alarm       \* alarm[a]: the row with id a

Unused == [series |-> "none", status |-> "unused"]

AlarmRow ==
  {Unused} \cup [series : Series, status : {"firing", "ok", "closed", "deleted"}]

Open(s) == {a \in AlarmId : alarm[a].status = "firing" /\ alarm[a].series = s}

Init == alarm = [a \in AlarmId |-> Unused]

(* A new occurrence: only when the series has no open alarm, on a new id. *)
Raise(a, s) ==
  /\ alarm[a] = Unused
  /\ Open(s) = {}
  /\ alarm' = [alarm EXCEPT ![a] = [series |-> s, status |-> "firing"]]

(* The condition is over: only an open alarm becomes "ok". *)
Resolve(a) ==
  /\ alarm[a].status = "firing"
  /\ alarm' = [alarm EXCEPT ![a].status = "ok"]

(* Somebody closes a set of existing alarms, open or not. *)
Close(A) ==
  /\ A # {}
  /\ \A a \in A : alarm[a].status \in {"firing", "ok", "closed"}
  /\ alarm' = [a \in AlarmId |->
                 IF a \in A THEN [alarm[a] EXCEPT !.status = "closed"] ELSE alarm[a]]

(* The history is trimmed: only alarms that recovered may disappear. *)
Trim(A) ==
  /\ \A a \in A : alarm[a].status = "ok"
  /\ alarm' = [a \in AlarmId |->
                 IF a \in A THEN [alarm[a] EXCEPT !.status = "deleted"] ELSE alarm[a]]

Next ==
  \/ \E a \in AlarmId, s \in Series : Raise(a, s)
  \/ \E a \in AlarmId : Resolve(a)
  \/ \E A \in SUBSET AlarmId : Close(A) \/ Trim(A)

Spec == Init /\ [][Next]_alarm

(* At any time a series has at most one open alarm. *)
OneOpenAlarmPerSeries ==
  \A a, b \in AlarmId :
    /\ alarm[a].status = "firing"
    /\ alarm[b].status = "firing"
    /\ alarm[a].series = alarm[b].series
    => a = b
=============================================================================
