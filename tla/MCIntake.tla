------------------------------- MODULE MCIntake -------------------------------
(* Each client acts for a principal of its own; a client that restarts and    *)
(* takes a used key stands for another program of the same principal.         *)
EXTENDS Intake
MCOwn == CHOOSE f \in [Clients -> Actors] : \A c, d \in Clients : f[c] = f[d] => c = d
===============================================================================
