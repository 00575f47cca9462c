------------------------------ MODULE MCSnapshot ------------------------------
(* A run with four criteria and four examinations besides them, under the   *)
(* weights and floors of config/rubric-1.0.json.                            *)
EXTENDS Snapshot, TLC

MCDimensionOf ==
  [k \in Criteria |-> CASE k \in {"E1", "E2"} -> "E" [] k = "G4" -> "G" [] k = "B1" -> "B"]
MCProfiles ==
  [General |-> [d \in Dimensions |-> CASE d = "E" -> 25 [] d = "G" -> 15 [] d = "B" -> 10]]
Floor(i, d, c, u) == [index |-> i, dimension |-> d, core |-> c, units |-> u]
MCTiers == [Low |-> Floor(80, 60, 75, 90), Standard |-> Floor(85, 70, 75, 95),
            High |-> Floor(90, 75, 90, 100)]

Plain == [profile |-> "General", tier |-> "Low", exclusions |-> {}, specialist |-> FALSE,
          supported |-> TRUE, modalities |-> TRUE, gaps |-> FALSE,
          sourcesValid |-> TRUE, policyValid |-> TRUE]
Special == [Plain EXCEPT !.tier = "Standard", !.specialist = TRUE]
MCContexts ==
  {Plain, Special, [Special EXCEPT !.tier = "High", !.exclusions = {"E1"}],
   [Plain EXCEPT !.sourcesValid = FALSE], [Plain EXCEPT !.policyValid = FALSE],
   [Plain EXCEPT !.gaps = TRUE], [Plain EXCEPT !.gaps = TRUE, !.modalities = FALSE],
   [Plain EXCEPT !.gaps = TRUE, !.supported = FALSE]}

\* A review that judges everything well, and reviews that each touch one thing.
Nothing == [ratings |-> <<>>, outcomes |-> <<>>, gates |-> <<>>, raises |-> {}]
Thorough == [ratings |-> "E2" :> 4 @@ "B1" :> 3,
             outcomes |-> [e \in Examinations \ {"terminology"} |-> "pass"],
             gates |-> "R2" :> "pass", raises |-> {}]
MCReviews ==
  {Nothing, Thorough, [Thorough EXCEPT !.raises = {"critical"}],
   [Nothing EXCEPT !.outcomes = "gap" :> "pass"],
   [Nothing EXCEPT !.ratings = "E1" :> 2], [Nothing EXCEPT !.outcomes = "terminology" :> "pass"],
   [Nothing EXCEPT !.outcomes = "terminology" :> "fail"],
   [Nothing EXCEPT !.gates = "R2" :> "na"], [Nothing EXCEPT !.raises = {"major"}]}
===============================================================================
