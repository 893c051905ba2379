------------------------------ MODULE TaskQueue ------------------------------
(***************************************************************************)
(* What the runner promises for one task type, whatever the number of      *)
(* masters, the locks they lose and the moment they stop: the tasks form a *)
(* queue with at most one task at a time that is not over, which is        *)
(* started once, handed to a handler at its start or never, and has one    *)
(* outcome; the next is created only after it is over.                     *)
(***************************************************************************)
EXTENDS Naturals, Sequences

VARIABLES outcomes,   \* of the tasks that are over, oldest first
          stage,      \* of the task after them, "none" if there is none yet
          dispatched  \* the tasks, by their number, a handler was given

vars == <<outcomes, stage, dispatched>>

Init == outcomes = <<>> /\ stage = "none" /\ dispatched = {}

Create == /\ stage = "none"
          /\ stage' = "pending"
          /\ UNCHANGED <<outcomes, dispatched>>

\* Started; the read that hands the row to a handler may fail.
Start == /\ stage = "pending"
         /\ stage' = "running"
         /\ dispatched' \in {dispatched, dispatched \cup {Len(outcomes) + 1}}
         /\ UNCHANGED outcomes

\* Finished by its handler, or failed because its lease ran out.
End == /\ stage = "running"
       /\ stage' = "none"
       /\ \E outcome \in {"succeeded", "failed"} : outcomes' = Append(outcomes, outcome)
       /\ UNCHANGED dispatched

Next == Create \/ Start \/ End

Spec == Init /\ [][Next]_vars
=============================================================================
