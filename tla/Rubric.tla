-------------------------------- MODULE Rubric --------------------------------
(***************************************************************************)
(* The scoring rule of the assessment, calculate() in assurance/rubric.py: *)
(* rated criteria, gates, findings and examination counts in; bounds on    *)
(* the index, a route, its reasons and the readiness of the content out.   *)
(*                                                                         *)
(* calculate() is a pure function of its keyword arguments; here they are  *)
(* the fields of one record x:                                             *)
(*   profile, tier      names, of which the rubric may know none           *)
(*   items              for each criterion whether it applies, its rating  *)
(*                      and whether method and evidence are recorded       *)
(*   gates              for each gate the judgement entered for it         *)
(*   findings           the severities of the findings still open          *)
(*   planned, completed, criticalPlanned, criticalVerified                 *)
(*   inventory, setup, specialist, owner     the four flags                *)
(*                                                                         *)
(* The code computes with fractions.  Here every quantity is an integer    *)
(* over the common denominator Scale(x), so comparisons stay exact.        *)
(***************************************************************************)
EXTENDS Integers, FiniteSets, Functions

CONSTANTS
  Criteria, Dimensions,
  DimensionOf,  \* the dimension of each criterion
  Core,         \* the dimensions under the stricter floor: E, M and G
  Gates,        \* R1 to R7
  Profiles,     \* for each profile the weight of each dimension
  Tiers,        \* for each tier its floors, in percent
  None          \* Python's None

ASSUME DimensionAssumption ==
  /\ IsFiniteSet(Criteria) /\ IsFiniteSet(Dimensions)
  /\ DimensionOf \in [Criteria -> Dimensions]
  /\ \A d \in Dimensions : Cardinality({k \in Criteria : DimensionOf[k] = d}) <= 4
ASSUME ProfilesAssumption ==
  /\ "General" \in DOMAIN Profiles
  /\ \A p \in DOMAIN Profiles : Profiles[p] \in [Dimensions -> Nat \ {0}]
ASSUME TiersAssumption ==
  /\ "Standard" \in DOMAIN Tiers
  /\ \A t \in DOMAIN Tiers :
       Tiers[t] \in [index: 0..100, dimension: 0..100, core: 0..100, units: 0..100]
\* The owner's two gates, and others, which reviewers judge.
ASSUME GatesAssumption == {"R1", "R7"} \subseteq Gates /\ Gates # {"R1", "R7"}
ASSUME NoneAssumption == None \notin Int

Ratings == 0..4
Judgements == {"pass", "fail", "na", "unknown"}

(* Applicability, ratings and invalid inputs *)

\* A criterion is left out only under an approved exclusion; one that is
\* "claimed" not to apply counts, as does one whose flag is "odd".
Applicable(x) == {k \in Criteria : x.items[k].use # "excluded"}

\* Mutant: range(4).
Recorded_Range4(x) ==
  {k \in Applicable(x) : x.items[k].rating \in 0..3 /\ x.items[k].evidenced}

Recorded(x) ==
  {k \in Applicable(x) : x.items[k].rating \in Ratings /\ x.items[k].evidenced}

Counts(x) == <<x.planned, x.completed, x.criticalPlanned, x.criticalVerified>>
CountsKnown(x) == \A i \in 1..4 : Counts(x)[i] # None

\* The kinds of invalid input.  The code names the criterion or the count too.
Invalid(x) ==
  {r \in {"INVALID_PROFILE", "INVALID_TIER", "INVALID_SETUP", "UNKNOWN_CRITERION", "INVALID_COUNT",
          "INVALID_EXAMINATION_COUNTS", "EXCLUSION_NOT_APPROVED",
          "INVALID_APPLICABILITY", "INVALID_RATING"} :
     \/ r = "INVALID_PROFILE" /\ x.profile \notin DOMAIN Profiles
     \/ r = "INVALID_TIER" /\ x.tier \notin DOMAIN Tiers
     \/ r = "INVALID_SETUP" /\ ~x.setup
     \/ r = "UNKNOWN_CRITERION" /\ ~(DOMAIN x.items \subseteq Criteria)
     \/ r = "INVALID_COUNT" /\ \/ \E i \in 1..4 : Counts(x)[i] # None /\ Counts(x)[i] < 0
                               \/ x.planned = 0
     \/ /\ r = "INVALID_EXAMINATION_COUNTS" /\ CountsKnown(x)
        /\ \/ x.completed > x.planned \/ x.criticalVerified > x.criticalPlanned
           \/ x.criticalPlanned > x.planned \/ x.criticalVerified > x.completed
     \/ r = "EXCLUSION_NOT_APPROVED" /\ \E k \in Criteria : x.items[k].use = "claimed"
     \/ r = "INVALID_APPLICABILITY" /\ \E k \in Criteria : x.items[k].use = "odd"
     \/ /\ r = "INVALID_RATING"
        /\ \E k \in Applicable(x) : x.items[k].rating \notin Ratings \cup {None}}

(* The index, exactly *)

Weights(x) == Profiles[IF x.profile \in DOMAIN Profiles THEN x.profile ELSE "General"]

\* Mutant: the tier of the brief is not looked up.
Floors_Default(x) == Tiers["Standard"]

Floors(x) == Tiers[IF x.tier \in DOMAIN Tiers THEN x.tier ELSE "Standard"]

Within(d, keys) == {k \in keys : DimensionOf[k] = d}
Active(x) == {d \in Dimensions : Within(d, Applicable(x)) # {}}

\* Mutant: a dimension keeps its weight when all its criteria are excluded.
Total_AllDimensions(x) == SumFunctionOnSet(Weights(x), Dimensions)

\* A dimension has one to four criteria, so their number divides 12.
Total(x) == SumFunctionOnSet(Weights(x), Active(x))
Scale(x) == 12 * Total(x)

\* The weighted mean over the active dimensions of a value of the recorded
\* criteria of each, over Scale(x).
Share(x, d) == Weights(x)[d] * (12 \div Cardinality(Within(d, Applicable(x))))
Weighted(x, value) ==
  SumFunctionOnSet(
    [d \in Active(x) |-> Share(x, d) * SumFunctionOnSet(value, Within(d, Recorded(x)))],
    Active(x))
Coverage(x) == Weighted(x, [k \in Recorded(x) |-> 1])
Points(x, keys) == [k \in keys |-> 25 * x.items[k].rating]
Lower(x) == Weighted(x, Points(x, Recorded(x)))
Upper(x) == Lower(x) + 100 * (Scale(x) - Coverage(x))

Rated(x) == Recorded(x) = Applicable(x)
HasPoint(x) == Total(x) > 0 /\ Invalid(x) = {} /\ Rated(x)
UnitsKnown(x) == CountsKnown(x) /\ x.planned > 0 /\ Invalid(x) = {} /\ x.inventory

(* Gates, findings, thresholds *)

\* Mutant: scope and owner approval can be declared not applicable.
EffectiveGate_AnyNA(x, g) ==
  LET entered == IF x.gates[g] \in Judgements THEN x.gates[g] ELSE "unknown"
  IN  IF g # "R7" THEN entered
      ELSE IF x.owner THEN "pass"
      ELSE IF entered = "fail" THEN "fail" ELSE "unknown"

\* A pass without evidence and a not-applicable without an approved exclusion
\* ("bare") are unknown; R7 only ever passes by an approval record.
EffectiveGate(x, g) ==
  LET entered == IF \/ x.gates[g] \notin Judgements
                    \/ g \in {"R1", "R7"} /\ x.gates[g] = "na"
                 THEN "unknown" ELSE x.gates[g]
  IN  IF g # "R7" THEN entered
      ELSE IF x.owner THEN "pass"
      ELSE IF entered = "fail" THEN "fail" ELSE "unknown"

LowCriteria(x) == {k \in Recorded(x) : x.items[k].rating < 3}

Thresholds(x) ==
  {r \in {"INDEX_BELOW_FLOOR", "CONTENT_COVERAGE_BELOW_FLOOR", "DIMENSION_BELOW_FLOOR"} :
     \/ /\ r = "INDEX_BELOW_FLOOR" /\ HasPoint(x)
        /\ Lower(x) < Floors(x).index * Scale(x)
     \/ /\ r = "CONTENT_COVERAGE_BELOW_FLOOR" /\ UnitsKnown(x)
        /\ 100 * x.completed < Floors(x).units * x.planned
     \/ /\ r = "DIMENSION_BELOW_FLOOR"
        /\ \E d \in Active(x) :
             LET keys == Within(d, Applicable(x))
                 floor == IF d \in Core /\ Floors(x).core > Floors(x).dimension
                          THEN Floors(x).core ELSE Floors(x).dimension
             IN  /\ keys \subseteq Recorded(x)
                 /\ SumFunctionOnSet(Points(x, keys), keys) < floor * Cardinality(keys)}

(* The verdict *)

Held(x) ==
  {r \in {"GATE_FAILED", "OPEN_CRITICAL_FINDING"} :
     \/ r = "GATE_FAILED" /\ \E g \in Gates : EffectiveGate(x, g) = "fail"
     \/ r = "OPEN_CRITICAL_FINDING" /\ "critical" \in x.findings}

Unassessed(x) ==
  {r \in {"ALL_EXCLUDED", "INCOMPLETE_RUBRIC", "UNKNOWN_UNIT_COVERAGE"} :
     \/ r = "ALL_EXCLUDED" /\ Total(x) = 0
     \/ r = "INCOMPLETE_RUBRIC" /\ ~Rated(x)
     \/ r = "UNKNOWN_UNIT_COVERAGE" /\ ~UnitsKnown(x)}

Unchecked(x) ==
  {r \in {"UNVERIFIED_CRITICAL_UNITS", "GATE_UNKNOWN", "SPECIALIST_REVIEW_REQUIRED"} :
     \/ /\ r = "UNVERIFIED_CRITICAL_UNITS"
        /\ \/ None \in {x.criticalPlanned, x.criticalVerified}
           \/ x.criticalPlanned # x.criticalVerified
     \/ r = "GATE_UNKNOWN" /\ \E g \in Gates \ {"R7"} : EffectiveGate(x, g) = "unknown"
     \/ r = "SPECIALIST_REVIEW_REQUIRED" /\ x.tier = "High" /\ ~x.specialist}

Majors(x) == {r \in {"OPEN_MAJOR_FINDING"} : "major" \in x.findings}
Weak(x) == {r \in {"CRITERION_BELOW_3"} : LowCriteria(x) # {}}

Reasons(x) ==
  Held(x) \cup Invalid(x) \cup Unassessed(x) \cup Unchecked(x) \cup Majors(x)
    \cup Weak(x) \cup Thresholds(x)
    \cup {r \in {"OWNER_APPROVAL_REQUIRED"} : ~x.owner}

Incomplete(x) == ~HasPoint(x) \/ ~UnitsKnown(x)

\* The first matter that stands in the way.
Route(x) ==
  IF Held(x) # {} THEN "hold_for_correction"
  ELSE IF Invalid(x) # {} THEN "fix_assessment_inputs"
  ELSE IF Incomplete(x) THEN "complete_assessment"
  ELSE IF Unchecked(x) # {} THEN "complete_critical_checks"
  ELSE IF Majors(x) # {} THEN "revise_major_issues"
  ELSE IF Weak(x) # {} THEN "revise_criterion_failures"
  ELSE IF Thresholds(x) # {} THEN "revise_or_expand_review"
  ELSE "awaiting_owner_approval"

Ready(x) == Route(x) = "awaiting_owner_approval"
===============================================================================
