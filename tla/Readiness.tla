------------------------------ MODULE Readiness ------------------------------
(***************************************************************************)
(* What may be relied on of the snapshots of one run, however the verdicts *)
(* come about.  The evaluator's own is never ready.  Each later one is due *)
(* to a review or to a specialist, and can be ready only if what the run   *)
(* froze is valid, a review was made and, where one is demanded, a         *)
(* specialist has spoken since the last review.                            *)
(***************************************************************************)
CONSTANT NoSnapshot

VARIABLES
  governed,   \* the sources and the policy the run froze are valid
  demanding,  \* its brief demands a specialist
  head        \* the head snapshot: ready, reviewed, by a specialist since

vars == <<governed, demanding, head>>

Init ==
  /\ governed \in BOOLEAN /\ demanding \in BOOLEAN
  /\ head = NoSnapshot

\* The run is scheduled, for what is in force now.
Freeze ==
  /\ head = NoSnapshot /\ head' = NoSnapshot
  /\ governed' \in BOOLEAN /\ demanding' \in BOOLEAN

Assemble(reviewed, specialist) ==
  /\ \E ready \in BOOLEAN :
       /\ ready => governed /\ reviewed /\ (demanding => specialist)
       /\ head' = [ready |-> ready, reviewed |-> reviewed, specialist |-> specialist]
  /\ UNCHANGED <<governed, demanding>>

Evaluate == head = NoSnapshot /\ Assemble(FALSE, FALSE)
Review == head # NoSnapshot /\ Assemble(TRUE, FALSE)
Specialist == head # NoSnapshot /\ Assemble(head.reviewed, TRUE)

Next == Freeze \/ Evaluate \/ Review \/ Specialist

Spec == Init /\ [][Next]_vars
==============================================================================
