---------------------------- MODULE MCAssurance ----------------------------
(* Small instances of Assurance: the values its constants take under TLC. *)
EXTENDS Assurance

\* Brief b1 is ann's; where bob exists, b2 is his.
MCOwner ==
  [b \in Briefs |-> IF b = "b2" /\ "bob" \in Principals THEN "bob" ELSE "ann"]
MCNeeds == [b \in Briefs |-> Resources]
MCAdmins == [k \in Resources |-> Principals]

\* A source that lasts, one that a model wrote, and one that expires at the
\* first step of the clock.
Lasting == [generated |-> FALSE, from |-> 0, until |-> 9, covers |-> Briefs]
Generated == [Lasting EXCEPT !.generated = TRUE]
Expiring == [Lasting EXCEPT !.until = 1]

MCLasting == {Lasting}
MCGenerated == {Lasting, Generated}
MCExpiring == {Lasting, Expiring}
=============================================================================
