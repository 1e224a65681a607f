----------------------------- MODULE Enumeration -----------------------------
(***************************************************************************)
(* What an iterator over dependent instructions promises: once it is set   *)
(* up there is a goal, the set of instructions to be given, and every one  *)
(* of them is given once, in some order, before the iterator says that     *)
(* there are no more.                                                      *)
(***************************************************************************)
EXTENDS Integers, Sequences, SequencesExt

CONSTANT Items      \* everything that could be given

VARIABLES
  phase,   \* "idle", "giving" or "ended"
  goal,    \* what is to be given
  given    \* what was given so far

vars == <<phase, goal, given>>

Init ==
  /\ phase = "idle"
  /\ goal = {}
  /\ given = <<>>

SetUp ==
  /\ phase = "idle"
  /\ phase' = "giving"
  /\ goal' \in SUBSET Items
  /\ UNCHANGED given

Give ==
  /\ phase = "giving"
  /\ \E x \in goal \ ToSet(given) : given' = Append(given, x)
  /\ UNCHANGED <<phase, goal>>

End ==
  /\ phase = "giving"
  /\ ToSet(given) = goal
  /\ phase' = "ended"
  /\ UNCHANGED <<goal, given>>

\* The iterator was done from the start: there was nothing to give.
NothingToGive ==
  /\ phase = "idle"
  /\ phase' = "ended"
  /\ UNCHANGED <<goal, given>>

Next == SetUp \/ Give \/ End \/ NothingToGive

Spec == Init /\ [][Next]_vars
=============================================================================
