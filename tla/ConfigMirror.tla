---------------------------- MODULE ConfigMirror ----------------------------
(***************************************************************************)
(* What a configuration file or a configured process promises about the    *)
(* database it is generated from.  The source consists of parts that are   *)
(* changed one by one; every change gives a part a higher version.  The    *)
(* copy is written from what was read of the source: it never runs ahead   *)
(* of it, and it only moves forward, unless it is lost altogether or what  *)
(* is written was overtaken by a newer writing while it was on its way.    *)
(***************************************************************************)
EXTENDS Naturals

CONSTANT Part   \* the parts of the source that are read separately

VARIABLES
  source,     \* the versions in the database
  copy,       \* the versions the copy was written from
  overtaken   \* may the next writing be an overtaken one?

AtMost(u, v) == \A p \in Part : u[p] <= v[p]

Init == AtMost(copy, source)

Change ==
  /\ AtMost(source, source')
  /\ UNCHANGED copy

Follow ==
  /\ AtMost(copy, copy') /\ AtMost(copy', source)
  /\ UNCHANGED source

FallBack ==
  /\ overtaken
  /\ AtMost(copy', source)
  /\ UNCHANGED source

Lose ==
  /\ copy' = [p \in Part |-> 0]
  /\ UNCHANGED source

Next == Change \/ Follow \/ FallBack \/ Lose

Spec == Init /\ [][Next]_<<source, copy>>
=============================================================================
