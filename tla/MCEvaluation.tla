---------------------------- MODULE MCEvaluation ----------------------------
(* One item, one mechanical check, and answers that are right, uncertain,   *)
(* silent about the item, incomplete, repetitive, invented or not exact.    *)
EXTENDS Evaluation

Version(consent, supported, outcome) ==
  [consent |-> consent, supported |-> supported, mechanical |-> [e \in Checks |-> outcome]]
MCVersions == {Version(TRUE, TRUE, "pass"), Version(FALSE, TRUE, "fail"), Version(TRUE, FALSE, "fail")}

About(id, i) == [id |-> id, item |-> i, exact |-> TRUE]
Good ==
  [reviewed |-> <<"i1">>, uncertain |-> {}, claims |-> <<About("c1", "i1"), About("c2", "i1")>>]
Short == [Good EXCEPT !.claims = <<About("c1", "i1")>>]
MCExtractions ==
  {Good, Short, [Short EXCEPT !.uncertain = {"i1"}], [Good EXCEPT !.claims = <<>>],
   [Good EXCEPT !.reviewed = <<>>], [Good EXCEPT !.reviewed = <<"i1", "i1">>],
   [Good EXCEPT !.claims[2].item = "i2"], [Good EXCEPT !.claims[2].exact = FALSE],
   [Good EXCEPT !.claims[2].id = "c1"], [Good EXCEPT !.claims[2].id = ""]}
MCFewExtractions == {Short}
=============================================================================
