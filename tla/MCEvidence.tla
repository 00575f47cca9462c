------------------------------ MODULE MCEvidence ------------------------------
(* Reviews that do one thing each: resolve only, rate a fact, raise a finding. *)
EXTENDS Evidence, TLC

Says(rated, raises) == [rated |-> rated, raises |-> raises]
MCReviews ==
  {Says({}, "none"), Says({[criterion |-> "E2", rating |-> 3]}, "none"), Says({}, "critical")}

\* Where all reviewers are specialists, nothing tells one from another.
ReviewerSymmetry == Permutations(Reviewers)
===============================================================================
