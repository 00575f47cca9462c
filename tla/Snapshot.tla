------------------------------- MODULE Snapshot -------------------------------
(***************************************************************************)
(* What one assessment run knows: the machine's results, the log of human  *)
(* decisions and the head snapshot, which assemble_snapshot() in           *)
(* assurance/service.py rebuilds from the machine's results by replaying   *)
(* the whole log whenever a decision is added.                             *)
(*                                                                         *)
(* The run stays current here; staleness, approval and release are module  *)
(* Assurance, which takes from this module only what a ready snapshot      *)
(* implies.  Pass and fail outcomes, ratings and gates always carry        *)
(* evidence (schemas.py, checkers.py), so evidence is not a field.         *)
(***************************************************************************)
EXTENDS Rubric, Sequences, SequencesExt

CONSTANTS
  Contexts,      \* frozen run configurations: brief, extraction, resources
  Required,      \* the criteria whose examination is critical
  Examinations,  \* the planned examinations that are not of a criterion
  CriticalExaminations,
  Deterministic, ModelChecked,  \* those the worker carries out
  Reviewers, Specialists, Owner,
  Reviews,       \* the payloads a review may bring, but for resolutions
  MaxDecisions   \* bound: how many decisions a run collects

\* The payloads that schemas.py lets through: R1 and R7 are not reviewed.
ASSUME ReviewsAssumption ==
  \A r \in Reviews :
    /\ DOMAIN r.ratings \subseteq Criteria /\ r.ratings \in [DOMAIN r.ratings -> Ratings]
    /\ r.outcomes \in [DOMAIN r.outcomes -> {"pass", "fail", "unknown"}]
    /\ DOMAIN r.gates \subseteq Gates \ {"R1", "R7"} /\ r.gates \in [DOMAIN r.gates -> Judgements]
\* The specialist's examination is planned beside those of the criteria.
ASSUME PlanAssumption == "specialist" \notin Criteria
ASSUME NoResultAssumption ==
  None \notin [Deterministic \cup ModelChecked -> {"pass", "fail", "unknown"}]

VARIABLES
  context,    \* the configuration of the run
  machine,    \* machine_results: an outcome per automatic examination, or None
  decisions,  \* the decisions table, in rowid order
  head        \* the payload of the head snapshot, or None

vars == <<context, machine, decisions, head>>

Outcomes == {"pass", "fail", "unknown"}
Automatic == Deterministic \cup ModelChecked

\* The gaps of the extraction and the modalities that are not text have
\* examinations of their own, the same for all here.
Plan(c) ==
  (Criteria \ c.exclusions) \cup Examinations
    \cup {e \in {"specialist"} : c.specialist} \cup {e \in {"gap"} : c.gaps}
Critical(c) ==
  Plan(c) \cap (Required \cup CriticalExaminations \cup {"specialist", "gap"})

\* What evaluate() can return.  Nothing is judged in content that could not be
\* extracted; the source check follows the sources frozen with the run and the
\* policy checks fail under an invalid policy.
MachineResults(c) ==
  {m \in [Automatic -> Outcomes] :
     IF ~c.supported THEN \A e \in Automatic : m[e] = "unknown"
     ELSE /\ \A e \in Deterministic : m[e] # "unknown"
          /\ m["source-status"] = "pass" <=> c.sourcesValid
          /\ c.policyValid \/ \A e \in Deterministic \cap {"policy-text", "terminology"} :
                                m[e] = "fail"}

(* The replay *)

Item(use, rating) == [use |-> use, rating |-> rating, evidenced |-> rating # None]

\* Before the first decision: E1 and G4 are rated by the machine, each failed
\* check is an open major finding.
Automated(c, m) ==
  [k \in Criteria |->
     CASE k = "E1" /\ k \notin c.exclusions /\ m["source-status"] # "unknown" ->
            Item("applicable", IF m["source-status"] = "pass" THEN 4 ELSE 0)
       [] k = "G4" /\ k \notin c.exclusions -> Item("applicable", 4)
       [] OTHER -> Item("applicable", None)]

Base(c, m) ==
  [items |-> Automated(c, m),
   checks |-> [e \in Plan(c) |-> IF e \in Automatic THEN m[e] ELSE "unknown"],
   gates |-> [g \in Gates |-> "unknown"],
   findings |-> [f \in {<<"check", e>> : e \in {e \in Automatic : m[e] = "fail"}} |->
                   [severity |-> "major", open |-> TRUE]],
   inventory |-> FALSE, specialist |-> FALSE, exclusions |-> c.exclusions]

\* What is on record, with what a decision names put in its place.
Updated(old, new) ==
  [k \in DOMAIN old \cup DOMAIN new |-> IF k \in DOMAIN new THEN new[k] ELSE old[k]]
Rerated(d) == [k \in DOMAIN d.ratings |-> Item("applicable", d.ratings[k])]

ApplyScope(board, d) ==
  [board EXCEPT !.inventory = d.inventory, !.gates["R1"] = "pass",
                !.items = [k \in Criteria |-> IF k \in board.exclusions
                             THEN Item("excluded", None) ELSE @[k]]]

\* Mutant: a later review leaves the specialist's word standing.
ApplyReview_SpecialistKept(board, d) ==
  [board EXCEPT
     !.items = Updated(@, Rerated(d)),
     !.checks = Updated(@, d.outcomes), !.gates = Updated(@, d.gates),
     !.findings = [f \in DOMAIN @ |-> [@[f] EXCEPT !.open = @ /\ f \notin d.closes]]]

ApplyReview(board, d) ==
  LET raised == [f \in {<<"review", d.number, s>> : s \in d.raises} |->
                   [severity |-> f[3], open |-> TRUE]]
      findings == Updated(board.findings, raised)
  IN  [board EXCEPT
         !.specialist = FALSE,
         !.items = Updated(@, Rerated(d)),
         !.checks = Updated(@, d.outcomes),
         !.gates = Updated(@, d.gates),
         !.findings = [f \in DOMAIN findings |->
                         [findings[f] EXCEPT !.open = @ /\ f \notin d.closes]]]

ApplySpecialist(board, d) == [board EXCEPT !.specialist = TRUE]

Apply(board, d) ==
  CASE d.kind = "scope" -> ApplyScope(board, d)
    [] d.kind = "review" -> ApplyReview(board, d)
    [] d.kind = "specialist" -> ApplySpecialist(board, d)

\* Mutant: the log is read without its order, newest first.
Replay_NewestFirst(c, m, log) == FoldLeft(Apply, Base(c, m), Reverse(log))

Replay(c, m, log) ==
  LET boards[i \in 0..Len(log)] ==
        IF i = 0 THEN Base(c, m) ELSE Apply(boards[i - 1], log[i])
  IN  boards[Len(log)]

\* Specialist examinations follow the specialist's decision, those of a
\* criterion its rating.
Checks(board, c) ==
  [e \in Plan(c) |->
     CASE e = "specialist" -> IF board.specialist THEN "pass" ELSE "unknown"
       [] e \in Criteria /\ board.items[e].rating # None ->
            IF board.items[e].rating >= 3 THEN "pass" ELSE "fail"
       [] OTHER -> board.checks[e]]

ScoreInput(board, checks, c) ==
  [profile |-> c.profile, tier |-> c.tier, items |-> board.items, gates |-> board.gates,
   findings |-> {board.findings[f].severity :
                   f \in {f \in DOMAIN board.findings : board.findings[f].open}},
   planned |-> Cardinality(Plan(c)),
   completed |-> Cardinality({e \in Plan(c) : checks[e] \in {"pass", "fail"}}),
   criticalPlanned |-> Cardinality(Critical(c)),
   criticalVerified |-> Cardinality({e \in Critical(c) : checks[e] = "pass"}),
   inventory |-> board.inventory, setup |-> c.supported /\ c.modalities,
   specialist |-> board.specialist, owner |-> FALSE]

Governed(c) == c.sourcesValid /\ c.policyValid
Judged(checks, outcome) == {e \in DOMAIN checks : checks[e] = outcome}

\* Mutant: a failed examination counts as an examination carried out.
Verdict_FailuresPass(x, checks, c) ==
  CASE ~Governed(c) -> "hold_for_correction"
    [] Governed(c) /\ Ready(x) /\ Judged(checks, "unknown") # {} -> "complete_assessment"
    [] OTHER -> Route(x)

\* Mutant: an ungoverned context is reported, but holds nothing back.
Verdict_Ungoverned(x, checks, c) ==
  IF ~Ready(x) THEN Route(x)
  ELSE IF Judged(checks, "unknown") # {} THEN "complete_assessment"
  ELSE IF Judged(checks, "fail") # {} THEN "revise_major_issues"
  ELSE Route(x)

\* The route of the snapshot: the rubric's, held in an ungoverned context and
\* while a planned examination is unknown or failed.
Verdict(x, checks, c) ==
  IF ~Governed(c) THEN "hold_for_correction"
  ELSE IF ~Ready(x) THEN Route(x)
  ELSE IF Judged(checks, "unknown") # {} THEN "complete_assessment"
  ELSE IF Judged(checks, "fail") # {} THEN "revise_major_issues"
  ELSE Route(x)

SnapshotReasons(x, checks, c) ==
  Reasons(x) \cup
  {r \in {"SPECIALIST_REVIEW_REQUIRED", "GOVERNED_CONTEXT_INVALID", "FAILED_EXAMINATIONS",
          "REQUIRED_CHECKS_INCOMPLETE", "FORMAT_OR_EXTRACTION_INCOMPLETE"} :
     \/ r = "SPECIALIST_REVIEW_REQUIRED" /\ c.specialist /\ ~x.specialist
     \/ r = "GOVERNED_CONTEXT_INVALID" /\ ~Governed(c)
     \/ r = "REQUIRED_CHECKS_INCOMPLETE" /\ Judged(checks, "unknown") # {}
     \/ r = "FAILED_EXAMINATIONS" /\ Judged(checks, "fail") # {}
     \/ r = "FORMAT_OR_EXTRACTION_INCOMPLETE" /\ ~x.setup}

AssembleSnapshot(c, m, log) ==
  LET board == Replay(c, m, log)
      checks == Checks(board, c)
      x == ScoreInput(board, checks, c)
      route == Verdict(x, checks, c)
  IN  [items |-> board.items, gates |-> board.gates, findings |-> board.findings,
       checks |-> checks, route |-> route, reasons |-> SnapshotReasons(x, checks, c),
       ready |-> route = "awaiting_owner_approval"]

(* The decisions *)

Init == context \in Contexts /\ machine = None /\ decisions = <<>> /\ head = None

\* The owner approves the examination plan, once, before it is carried out.
Scope(inventory) ==
  /\ decisions = <<>>
  /\ decisions' = <<[kind |-> "scope", inventory |-> inventory]>>
  /\ UNCHANGED <<context, machine, head>>

\* The worker stores its results and the first snapshot.
FinishResult ==
  /\ machine = None /\ decisions # <<>>
  /\ \E m \in MachineResults(context) :
       machine' = m /\ head' = AssembleSnapshot(context, m, decisions)
  /\ UNCHANGED <<context, decisions>>

Decide(d) ==
  /\ head # None
  /\ Len(decisions) < MaxDecisions
  /\ decisions' = Append(decisions, d)
  /\ head' = AssembleSnapshot(context, machine, decisions')
  /\ UNCHANGED <<context, machine>>

OpenFindings == {f \in DOMAIN head.findings : head.findings[f].open}

Decision(p, r, closes) ==
  [kind |-> "review", by |-> p, number |-> Len(decisions) + 1, closes |-> closes,
   ratings |-> r.ratings, outcomes |-> r.outcomes, gates |-> r.gates, raises |-> r.raises]

\* Mutant: any reviewer closes a critical finding.
MayClose_AnyReviewer(p, closes) == closes \subseteq OpenFindings

MayClose(p, closes) ==
  /\ closes \subseteq OpenFindings
  /\ (\E f \in closes : head.findings[f].severity = "critical") => p \in Specialists

Review(p, r, closes) ==
  /\ p \in Reviewers
  /\ closes # {} \/ DOMAIN r.ratings \cup DOMAIN r.outcomes \cup DOMAIN r.gates \cup r.raises # {}
  /\ DOMAIN r.ratings \cap context.exclusions = {}
  /\ DOMAIN r.outcomes \subseteq Plan(context) \ (Criteria \cup {"specialist"})
  /\ (\E g \in DOMAIN r.gates : r.gates[g] = "na") => p = Owner
  /\ MayClose(p, closes)
  /\ Decide(Decision(p, r, closes))

Specialist(p) == p \in Specialists /\ Decide([kind |-> "specialist", by |-> p])

Next ==
  \/ \E inventory \in BOOLEAN : Scope(inventory)
  \/ FinishResult
  \/ \E p \in Reviewers, r \in Reviews :
       \E closes \in (IF head = None THEN {} ELSE SUBSET OpenFindings) : Review(p, r, closes)
  \/ \E p \in Specialists : Specialist(p)

Spec == Init /\ [][Next]_vars

----------------------------------------------------------------------------

\* The reviews that judge a key in one of their fields, and those that close a
\* finding; the last of them, or 0.
Naming(log, field, key) ==
  {i \in DOMAIN log : log[i].kind = "review" /\ key \in DOMAIN log[i][field]}
Closers(log, f) == {i \in DOMAIN log : log[i].kind = "review" /\ f \in log[i].closes}
LastOf(reviews) == IF reviews = {} THEN 0 ELSE Max(reviews)
LastReview(field, key) == LastOf(Naming(decisions, field, key))
LastClosing(f) == LastOf(Closers(decisions, f))

GatesEarned ==
  \A g \in Gates \ {"R1", "R7"} :
    LET i == LastReview("gates", g)
    IN  /\ i # 0
        /\ decisions[i].gates[g] \in {"pass", "na"}
        /\ decisions[i].gates[g] = "na" => decisions[i].by = Owner

RatingsEarned ==
  \A k \in Criteria \ context.exclusions :
    LET i == LastReview("ratings", k)
    IN  IF i # 0 THEN decisions[i].ratings[k] >= 3
        ELSE k = "G4" \/ (k = "E1" /\ machine["source-status"] = "pass")

ExaminationsEarned ==
  \A e \in Plan(context) \ (Criteria \cup {"specialist"}) :
    LET i == LastReview("outcomes", e)
    IN  IF i # 0 THEN decisions[i].outcomes[e] = "pass" ELSE e \in Automatic /\ machine[e] = "pass"

FailuresAnswered ==
  \A e \in Automatic : machine[e] = "fail" => LastClosing(<<"check", e>>) # 0

FindingsSettled ==
  \A i \in DOMAIN decisions : decisions[i].kind = "review" =>
    \A s \in decisions[i].raises \cap {"critical", "major"} :
      LET j == LastClosing(<<"review", i, s>>)
      IN  j > i /\ (s = "critical" => decisions[j].by \in Specialists)

SpecialistSpokeLast ==
  context.specialist \/ context.tier = "High" => Last(decisions).kind = "specialist"

\* Readiness is earned from people and cannot be inherited or talked around.
\* A ready snapshot has, in the log: a complete inventory; for each gate, each
\* applicable criterion and each examination a last judgement that is positive,
\* by a person or, where nobody judged it, by the machine; each waived gate
\* waived by the owner; every major and critical finding, the machine's
\* included, closed, the critical ones by a specialist; and, where one is
\* required, the specialist's word after every review.  (service.py 236-438
\* with 797-921; module Assurance assumes the part of it that it needs.)
ReadinessIsEarned ==
  head # None => (head.ready =>
    /\ Governed(context) /\ context.supported /\ decisions[1].inventory
    /\ GatesEarned /\ RatingsEarned /\ ExaminationsEarned
    /\ FailuresAnswered /\ FindingsSettled
    /\ SpecialistSpokeLast)

\* The reasons appended after scoring (service.py 403-439) and the overrides of
\* the route never part: a snapshot is ready exactly when nothing but the
\* owner's approval is reported missing.
ReasonsExplainSnapshot ==
  head # None => (head.ready <=> head.reasons = {"OWNER_APPROVAL_REQUIRED"})

\* What the last decision names is as it says; the rest is as it was.
Amended ==
  LET d == Last(decisions')
      Named(field) == IF d.kind = "review" THEN d[field] ELSE <<>>
      closes == IF d.kind = "review" THEN d.closes ELSE {}
      Judgement(e) ==
        CASE e = "specialist" -> IF d.kind = "specialist" THEN "pass" ELSE "unknown"
          [] e \in DOMAIN Named("ratings") -> IF d.ratings[e] < 3 THEN "fail" ELSE "pass"
          [] e \in DOMAIN Named("outcomes") -> d.outcomes[e]
          [] OTHER -> head.checks[e]
  IN  /\ \A k \in Criteria : head'.items[k].rating =
           IF k \in DOMAIN Named("ratings") THEN d.ratings[k] ELSE head.items[k].rating
      /\ head'.gates = Updated(head.gates, Named("gates"))
      /\ head'.checks = [e \in Plan(context) |-> Judgement(e)]
      /\ \A f \in DOMAIN head.findings :
           /\ f \in DOMAIN head'.findings
           /\ head'.findings[f].severity = head.findings[f].severity
           /\ head'.findings[f].open = (head.findings[f].open /\ f \notin closes)

\* Rebuilding from the first decision loses and revives nothing: the new
\* snapshot is the one before it with what the new decision names put in its
\* place.  Automatic ratings never return over a reviewer's, a finding once
\* raised stays on record and one once closed stays closed; only the word of
\* the specialist lasts no longer than the next review (service.py 248-377).
ReplayIsIncremental == [][head # None /\ decisions' # decisions => Amended]_vars

\* What a snapshot says to the release control: whether it is ready, whether a
\* review is behind it, and whether a specialist has spoken since the last one.
Summary ==
  IF machine = None THEN <<>>
  ELSE [ready |-> head.ready,
        reviewed |-> \E i \in DOMAIN decisions : decisions[i].kind = "review",
        specialist |-> Last(decisions).kind = "specialist"]

Control ==
  INSTANCE Readiness WITH
    NoSnapshot <- <<>>, governed <- Governed(context),
    demanding <- context.specialist \/ context.tier = "High", head <- Summary

\* Whatever is replayed, patched and scored, the release control may rely on it:
\* the evaluator alone makes nothing ready, and a review takes back what it
\* does not confirm, the word of the specialist included (service.py 236-491).
ImplementsReadiness == Control!Spec
===============================================================================
