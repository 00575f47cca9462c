----------------------------- MODULE RubricInputs -----------------------------
(***************************************************************************)
(* The scoring rule over a set of inputs.  A behaviour starts from any of  *)
(* them and makes the assessment better one judgement at a time: a higher  *)
(* rating, a passed gate, a closed finding, one more examination, a flag   *)
(* obtained.  What calculate() makes of an input is checked in each state, *)
(* what it makes of an improvement in each step.                           *)
(***************************************************************************)
EXTENDS Rubric

CONSTANT Inputs  \* the arguments an assessment is started with

\* What the callers pass: an entry for each criterion of the rubric, perhaps for
\* keys it does not know, and counts that are integers or missing.
ItemEntry == [use : {"applicable", "excluded", "claimed", "odd"},
              rating : Int \cup {None}, evidenced : BOOLEAN]
Count == Int \cup {None}
InputOf(items) ==
  [profile : STRING, tier : STRING, items : {items},
   gates : [Gates -> Judgements \cup {"bare"}], findings : SUBSET {"critical", "major", "minor"},
   planned : Count, completed : Count, criticalPlanned : Count, criticalVerified : Count,
   inventory : BOOLEAN, setup : BOOLEAN, specialist : BOOLEAN, owner : BOOLEAN]
IsInput(x) ==
  /\ x \in InputOf(x.items)
  /\ Criteria \subseteq DOMAIN x.items /\ x.items \in [DOMAIN x.items -> ItemEntry]

ASSUME InputsAssumption == \A x \in Inputs : IsInput(x)

VARIABLE input

Started == input \in Inputs

\* A criterion gets its first recorded rating, or a higher one.
Rate(k) == \E rating \in Ratings :
  /\ input.items[k].use = "applicable"
  /\ k \in Recorded(input) => rating > input.items[k].rating
  /\ input' = [input EXCEPT !.items[k] =
                 [use |-> "applicable", rating |-> rating, evidenced |-> TRUE]]

PassGate(g) == input.gates[g] # "pass" /\ input' = [input EXCEPT !.gates[g] = "pass"]

CloseFinding(f) == f \in input.findings /\ input' = [input EXCEPT !.findings = @ \ {f}]

Examine ==
  /\ CountsKnown(input) /\ 0 <= input.completed /\ input.completed < input.planned
  /\ input' = [input EXCEPT !.completed = @ + 1]

CheckCritical ==
  /\ CountsKnown(input) /\ input.criticalVerified < input.criticalPlanned
  /\ input.criticalVerified < input.completed
  /\ input' = [input EXCEPT !.criticalVerified = @ + 1]

Obtain(flag) == ~input[flag] /\ input' = [input EXCEPT ![flag] = TRUE]

Improve ==
  \/ \E k \in Criteria : Rate(k)
  \/ \E g \in Gates : PassGate(g)
  \/ \E f \in {"critical", "major"} : CloseFinding(f)
  \/ Examine
  \/ CheckCritical
  \/ \E flag \in {"inventory", "setup", "specialist", "owner"} : Obtain(flag)

Improvements == Started /\ [][Improve]_input

----------------------------------------------------------------------------

(* What the release gate relies on, said without the order in which         *)
(* calculate() looks: the content is ready exactly when nothing is wrong    *)
(* with the inputs, every applicable criterion has an evidenced rating of   *)
(* at least 3, the whole inventory is known and enough of it examined,      *)
(* scope and pre-release gates are passed (R1 can never be waived), no      *)
(* critical or major finding is open and the floors of the tier are met.    *)
Requirements(x) ==
  /\ Invalid(x) = {}
  /\ \E k \in Criteria : x.items[k].use = "applicable"
  /\ \A k \in Criteria : x.items[k].use # "excluded" =>
                           x.items[k].rating \in 3..4 /\ x.items[k].evidenced
  /\ x.inventory /\ CountsKnown(x)
  /\ 100 * x.completed >= Tiers[x.tier].units * x.planned
  /\ x.criticalPlanned = x.criticalVerified
  /\ x.gates["R1"] = "pass"
  /\ \A g \in Gates \ {"R1", "R7"} : x.gates[g] \in {"pass", "na"}
  /\ x.gates["R7"] = "fail" => x.owner
  /\ x.findings \cap {"critical", "major"} = {}
  /\ x.tier = "High" => x.specialist
  /\ Lower(x) >= Tiers[x.tier].index * Scale(x)
  /\ \A d \in {DimensionOf[k] : k \in Applicable(x)} :
       LET keys == {k \in Applicable(x) : DimensionOf[k] = d}
           points == SumFunctionOnSet([k \in keys |-> 25 * x.items[k].rating], keys)
       IN  /\ points >= Tiers[x.tier].dimension * Cardinality(keys)
           /\ d \in Core => points >= Tiers[x.tier].core * Cardinality(keys)

\* No route skips a requirement and none asks for more (rubric.py 181-206).
ReadyIffRequirements == Ready(input) <=> Requirements(input)

\* The NOTICE of rubric.py 25, "Bounds are mathematical": whatever the ratings
\* still missing turn out to be, the index lands between the two bounds, and
\* each bound is the index of one such completion.
BoundsEnclose ==
  LET missing == Applicable(input) \ Recorded(input)
      Completed(f) == [input EXCEPT !.items =
        [k \in DOMAIN @ |-> IF k \in missing
           THEN [use |-> "applicable", rating |-> f[k], evidenced |-> TRUE] ELSE @[k]]]
      indices == {Lower(Completed(f)) : f \in [missing -> Ratings]}
  IN  /\ \A i \in indices : Lower(input) <= i /\ i <= Upper(input)
      /\ {Lower(input), Upper(input)} \subseteq indices

Stages == <<"hold_for_correction", "fix_assessment_inputs", "complete_assessment",
  "complete_critical_checks", "revise_major_issues", "revise_criterion_failures",
  "revise_or_expand_review", "awaiting_owner_approval">>
Stage(x) == CHOOSE i \in DOMAIN Stages : Stages[i] = Route(x)

\* Work on an assessment is never punished: a better judgement, another
\* examination or an approval moves the route forward or leaves it, so what
\* was ready stays ready (rubric.py 181-206).
ImprovementNeverStepsBack == [][Stage(input) <= Stage(input')]_input
===============================================================================
