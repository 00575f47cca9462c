---------------------------- MODULE ReleaseGate -----------------------------
(***************************************************************************)
(* What the service promises of a release, whoever asks for it.  An asset  *)
(* climbs three rungs: its present content has a ready assessment, its     *)
(* owner approves that assessment, the asset is released on that approval. *)
(* Whatever changes what the owner saw takes it down again, and so does    *)
(* the revocation of the owner; nothing but a new approval brings it back. *)
(***************************************************************************)
CONSTANTS Assets, Principals

VARIABLES
  owner,     \* the named owner of each asset that has content
  active,    \* the principals whose credential is active
  cleared,   \* the assets whose present content is assessed to be ready
  approved,  \* the assets whose owner approves that assessment
  released   \* the assets released on that approval

vars == <<owner, active, cleared, approved, released>>

Init ==
  /\ owner \in [{} -> Principals]
  /\ active = Principals
  /\ cleared = {}
  /\ approved = {}
  /\ released = {}

Withdraw(S) ==
  /\ approved' = approved \ S
  /\ released' = released \ S

\* New content of a, which may name another owner.
Submit(a, p) ==
  /\ owner' = [b \in DOMAIN owner \cup {a} |-> IF b = a THEN p ELSE owner[b]]
  /\ cleared' = cleared \ {a}
  /\ Withdraw({a})
  /\ UNCHANGED active

\* The assets of S are to be assessed again: on request, or because a source, a
\* policy or the evaluator changed under them.
Reassess(S) ==
  /\ cleared' = cleared \ S
  /\ Withdraw(S)
  /\ UNCHANGED <<owner, active>>

\* A judgment of a, of the evaluator or of a person, asks for a new approval.
Judge(a) ==
  /\ a \in DOMAIN owner
  /\ cleared' \in {cleared \cup {a}, cleared \ {a}}
  /\ Withdraw({a})
  /\ UNCHANGED <<owner, active>>

Approve(a) ==
  /\ a \in cleared
  /\ owner[a] \in active
  /\ approved' = approved \cup {a}
  /\ UNCHANGED <<owner, active, cleared, released>>

Release(a) ==
  /\ a \in approved
  /\ released' = released \cup {a}
  /\ UNCHANGED <<owner, active, cleared, approved>>

Revoke(p) ==
  /\ active' = active \ {p}
  /\ Withdraw({a \in DOMAIN owner : owner[a] = p})
  /\ UNCHANGED <<owner, cleared>>

Next ==
  \/ \E a \in Assets :
       \/ \E p \in Principals : Submit(a, p)
       \/ Judge(a)
       \/ Approve(a)
       \/ Release(a)
  \/ \E S \in SUBSET Assets : Reassess(S)
  \/ \E p \in Principals : Revoke(p)

Spec == Init /\ [][Next]_vars

-----------------------------------------------------------------------------
\* No rung is without the one below it, and an approval is that of an owner whose
\* credential is active.
Ladder ==
  /\ cleared \subseteq DOMAIN owner
  /\ approved \subseteq cleared
  /\ released \subseteq approved
  /\ \A a \in approved : owner[a] \in active
=============================================================================
