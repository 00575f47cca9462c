------------------------------- MODULE MCRubric -------------------------------
(* Inputs of the scoring rule, with the weights and floors of               *)
(* config/rubric-1.0.json restricted to the criteria of each instance.      *)
EXTENDS RubricInputs

DimensionWeights(e, m, g, b) ==
  [d \in Dimensions |-> CASE d = "E" -> e [] d = "M" -> m [] d = "G" -> g [] d = "B" -> b]
MCProfiles ==
  [General |-> DimensionWeights(25, 20, 15, 10), Creative |-> DimensionWeights(10, 15, 15, 25)]
Floor(i, d, c, u) == [index |-> i, dimension |-> d, core |-> c, units |-> u]
MCTiers == [Low |-> Floor(80, 60, 75, 90), Standard |-> Floor(85, 70, 75, 95),
            High |-> Floor(90, 75, 90, 100)]
MCDimensionOf ==
  [k \in Criteria |-> CASE k \in {"E1", "E2"} -> "E" [] k = "B1" -> "B"]

Item(use, rating, evidenced) == [use |-> use, rating |-> rating, evidenced |-> evidenced]
Good == [profile |-> "General", tier |-> "Standard",
         items |-> [k \in Criteria |-> Item("applicable", 4, TRUE)],
         gates |-> [g \in Gates |-> IF g = "R7" THEN "unknown" ELSE "pass"],
         findings |-> {}, planned |-> 2, completed |-> 2,
         criticalPlanned |-> 1, criticalVerified |-> 1,
         inventory |-> TRUE, setup |-> TRUE, specialist |-> FALSE, owner |-> FALSE]

\* Every mix of ratings, gaps and exclusions under two profiles and two tiers.
RatingInputs ==
  {[Good EXCEPT !.profile = p, !.tier = t, !.specialist = TRUE, !.items = items] :
     p \in DOMAIN MCProfiles, t \in {"Low", "High"},
     items \in [Criteria -> {Item("applicable", r, TRUE) : r \in {None, 0, 2, 3, 4}}
                            \cup {Item("excluded", None, FALSE)}]}

\* Counts that pass, fall short, contradict each other or are missing; a
\* setup that cannot be assessed; a key the rubric does not know.
WithCounts(p, c, cp, cv) ==
  [Good EXCEPT !.planned = p, !.completed = c, !.criticalPlanned = cp, !.criticalVerified = cv]
Bases ==
  {Good, WithCounts(20, 18, 1, 1), WithCounts(2, 2, 1, 0), WithCounts(2, 3, 1, 1),
   WithCounts(2, None, 1, 1), WithCounts(0, 0, 0, 0), WithCounts(2, -1, 1, 1),
   [Good EXCEPT !.setup = FALSE],
   [Good EXCEPT !.items = [k \in Criteria \cup {"Z9"} |-> Item("applicable", 4, TRUE)]]}
ItemInputs == {Item("applicable", 4, TRUE), Item("applicable", 2, TRUE), Item("applicable", None, FALSE),
  Item("applicable", 4, FALSE), Item("applicable", 5, TRUE), Item("excluded", None, FALSE),
  Item("claimed", 4, TRUE), Item("odd", 4, TRUE)}
GateInputs ==
  {[Good.gates EXCEPT !["R2"] = r2] : r2 \in {"pass", "na", "fail", "bare"}}
  \cup {[Good.gates EXCEPT !["R1"] = "na"], [Good.gates EXCEPT !["R7"] = "fail"],
        [Good.gates EXCEPT !["R7"] = "pass"]}

\* Every mix of bases, gates and findings for one criterion, flags to be obtained.
RouteInputs ==
  {[base EXCEPT !.tier = t[1], !.profile = t[2], !.items["E1"] = item, !.gates = gates,
                !.findings = f, !.inventory = i] :
     base \in Bases, item \in ItemInputs, gates \in GateInputs,
     t \in {<<"Standard", "General">>, <<"High", "General">>, <<"Odd", "Odd">>},
     f \in {{}, {"major"}, {"major", "critical"}}, i \in BOOLEAN}

MCInputs == RatingInputs \cup RouteInputs
===============================================================================
