-------------------------- MODULE Evaluation_proofs --------------------------
(***************************************************************************)
(* What Evaluation promises for any versions, any answers of a model and   *)
(* any bounds on attempts, runs and restarts.                              *)
(***************************************************************************)
EXTENDS Evaluation, FiniteSetTheorems, TLAPS

States == {"awaiting_scope", "queued", "processing", "completed", "failed", "stale"}

\* The lists of claims that may be compared, and what may be said of them.
ClaimLists ==
  {x.claims : x \in Extractions} \cup
  {FixtureExtraction(reviewed, texts).claims :
     reviewed \in SetToSeqs(Items), texts \in SetToAllKPermutations(Items)}
Said ==
  [claim : ClaimIds \cup UNION {Ids(claims) : claims \in ClaimLists},
   outcome : Outcomes, quotes : {"none", "exact", "invented"}]
\* An answer, a list that is numbered somehow.
ComparisonLists == UNION {[S -> Said] : S \in SUBSET Nat}
Results ==
  [checks : [Checks \cup Items -> Grades],
   claims : {Range(claims) : claims \in ClaimLists} \cup {{}},
   comparisons : {Range(y) : y \in ComparisonLists} \cup {{}},
   error : {"none", "transient", "permanent"}, label : Providers]
RunRow ==
  [version : Versions, provider : Providers, state : States, attempts : Nat,
   results : SUBSET Results]

Typed ==
  /\ runs \in Seq(RunRow) /\ sent \in Seq(Nat) /\ Len(sent) = Len(runs)
  /\ version \in Versions /\ api \in Providers /\ settings \in Settings
  /\ together \in BOOLEAN
  /\ pc \in {"refresh", "claim", "extract", "compare", "finish"}
  /\ pc \in {"extract", "compare", "finish"} => held \in DOMAIN runs
  /\ pc = "compare" => extracted.claims \in ClaimLists
  /\ pc = "finish" => result \in Results

\* A turn compares only what it may send and what it could validate.
TurnFounded ==
  pc = "compare" => Permitted(Run) /\ ValidExtraction(extracted)

\* While API and worker have one provider, what the worker is about to claim,
\* and what it has claimed, was scheduled for that provider.
OneProvider ==
  together =>
    /\ api = settings.provider
    /\ pc = "claim" /\ runs # <<>> => runs[Current].provider = api
    /\ pc \in {"extract", "compare"} => Run.provider = api

\* An attempt sends once for each of its two requests.
AttemptsCounted ==
  /\ \A n \in DOMAIN runs : runs[n].attempts <= MaxAttempts /\ sent[n] <= 2 * runs[n].attempts
  /\ pc = "extract" => sent[held] + 2 <= 2 * Run.attempts
  /\ pc = "compare" => sent[held] + 1 <= 2 * Run.attempts

\* PassRestsOnQuotes of one result.
Quoted(r) ==
  \A i \in Items : r.checks[i] # "unknown" =>
    LET about == {c \in r.claims : c.item = i}
        said(c) == {y \in r.comparisons : y.claim = c.id}
    IN  /\ r.error = "none" /\ about # {}
        /\ \A c \in about :
             /\ said(c) # {} /\ \A y \in said(c) : y.quotes = "exact"
             /\ r.checks[i] = "pass" => \A y \in said(c) : y.outcome = "supported"

ResultsQuoted ==
  /\ \A n \in DOMAIN runs : \A r \in runs[n].results : Quoted(r)
  /\ pc = "finish" => Quoted(result)

IInv == Typed /\ TurnFounded /\ OneProvider /\ AttemptsCounted /\ ConsentWhenTogether
        /\ ResultsQuoted

\* MechanicalResultsKept of one result, and of the one about to be stored.
Kept(r, v) == \A e \in Checks : r.checks[e] = Mechanical(v)[e]
ResultsKept == MechanicalResultsKept /\ (pc = "finish" => Kept(result, Run.version))

-----------------------------------------------------------------------------
(* Sequences *)

LEMMA FunctionIsSeq ==
  ASSUME NEW T, NEW k \in Nat, NEW q \in [1 .. k -> T]
  PROVE  q \in Seq(T) /\ Len(q) = k
OBVIOUS

LEMMA AppendToSeq ==
  ASSUME NEW T, NEW q \in Seq(T), NEW x \in T
  PROVE  LET r == Append(q, x)
         IN  /\ r \in Seq(T) /\ Len(r) = Len(q) + 1
             /\ r[Len(q) + 1] = x /\ \A i \in 1 .. Len(q) : r[i] = q[i]
OBVIOUS

LEMMA ReplaceInSeq ==
  ASSUME NEW T, NEW q \in Seq(T), NEW n \in 1 .. Len(q), NEW x \in T
  PROVE  LET r == [q EXCEPT ![n] = x]
         IN  /\ r \in Seq(T) /\ Len(r) = Len(q)
             /\ r[n] = x
             /\ \A m \in 1 .. Len(q) : m # n => r[m] = q[m]
OBVIOUS

-----------------------------------------------------------------------------
(* What a step does to the runs: a row keeps its version and provider, and is *)
(* rewritten, or a new one follows them                                       *)

Rewritten(n, row) ==
  /\ runs' \in Seq(RunRow) /\ Len(runs') = Len(runs)
  /\ runs'[n] = row /\ \A m \in DOMAIN runs : m # n => runs'[m] = runs[m]
  /\ row.version = runs[n].version /\ row.provider = runs[n].provider

LEMMA RewriteRow ==
  ASSUME Typed, NEW n \in DOMAIN runs, NEW row \in RunRow, runs' = [runs EXCEPT ![n] = row],
         row.version = runs[n].version, row.provider = runs[n].provider
  PROVE  Rewritten(n, row)
<1> HIDE DEF RunRow
<1> QED
  BY ReplaceInSeq DEF Rewritten, Typed

\* The runs follow each other: the older ones keep all but their state.
Followed(provider) ==
  /\ runs' \in Seq(RunRow) /\ Len(runs') = Len(runs) + 1
  /\ sent' \in Seq(Nat) /\ Len(sent') = Len(sent) + 1
  /\ sent'[Len(sent) + 1] = 0 /\ \A n \in DOMAIN sent : sent'[n] = sent[n]
  /\ \A n \in DOMAIN runs :
       /\ runs'[n].version = runs[n].version /\ runs'[n].provider = runs[n].provider
       /\ runs'[n].attempts = runs[n].attempts /\ runs'[n].results = runs[n].results
  /\ runs'[Len(runs) + 1].provider = provider /\ runs'[Len(runs) + 1].attempts = 0
  /\ runs'[Len(runs) + 1].results = {}

LEMMA ScheduledFollows ==
  ASSUME Typed, NEW v \in Versions, NEW provider \in Providers,
         runs' = Scheduled(v, provider), sent' = Append(sent, 0)
  PROVE  Followed(provider)
<1> DEFINE k == Len(runs)
           old == [n \in DOMAIN runs |-> IF n = Current THEN [runs[n] EXCEPT !.state = "stale"]
                                         ELSE runs[n]]
           new == [version |-> v, provider |-> provider, state |-> "awaiting_scope",
                   attempts |-> 0, results |-> {}]
<1>1. runs \in Seq(RunRow) /\ k \in Nat /\ DOMAIN runs = 1 .. k
  BY DEF Typed
<1>2. ASSUME NEW n \in 1 .. k
      PROVE  /\ old[n] \in RunRow
             /\ old[n].version = runs[n].version /\ old[n].provider = runs[n].provider
             /\ old[n].attempts = runs[n].attempts /\ old[n].results = runs[n].results
  <2>1. runs[n] \in RunRow
    BY <1>1
  <2>2. old[n] = [runs[n] EXCEPT !.state = "stale"] \/ old[n] = runs[n]
    BY <1>1
  <2> HIDE DEF old
  <2> QED
    BY <2>1, <2>2 DEF RunRow, States
<1>3. new \in RunRow /\ new.provider = provider /\ new.attempts = 0 /\ new.results = {}
  BY DEF RunRow, States
<1>4. runs' = Append(old, new)
  BY DEF Scheduled
<1> HIDE DEF new
<1>5. old \in Seq(RunRow) /\ Len(old) = k
  <2>1. old \in [1 .. k -> RunRow]
    BY <1>1, <1>2
  <2> HIDE DEF old
  <2> QED
    BY <1>1, <2>1, FunctionIsSeq
<1> HIDE DEF old
<1>6. /\ runs' \in Seq(RunRow) /\ Len(runs') = k + 1
      /\ runs'[k + 1] = new /\ \A n \in 1 .. k : runs'[n] = old[n]
  BY <1>3, <1>4, <1>5, AppendToSeq
<1>7. /\ sent' \in Seq(Nat) /\ Len(sent') = Len(sent) + 1
      /\ sent'[Len(sent) + 1] = 0 /\ \A n \in DOMAIN sent : sent'[n] = sent[n]
  BY AppendToSeq DEF Typed
<1>8. \A n \in DOMAIN runs :
        /\ runs'[n].version = runs[n].version /\ runs'[n].provider = runs[n].provider
        /\ runs'[n].attempts = runs[n].attempts /\ runs'[n].results = runs[n].results
  <2> SUFFICES ASSUME NEW n \in 1 .. k
               PROVE  /\ runs'[n].version = runs[n].version
                      /\ runs'[n].provider = runs[n].provider
                      /\ runs'[n].attempts = runs[n].attempts
                      /\ runs'[n].results = runs[n].results
    BY <1>1
  <2>1. runs'[n] = old[n]
    BY <1>6
  <2> QED
    BY <1>2, <2>1
<1> QED
  BY <1>3, <1>6, <1>7, <1>8 DEF Followed

-----------------------------------------------------------------------------
(* The results evaluate() may hand to finish() *)

Errors == {"none", "transient", "permanent"}

LEMMA ExaminedTyped ==
  ASSUME Typed, held \in DOMAIN runs, NEW judged \in [Items -> Grades]
  PROVE  /\ Examined(judged) \in [Checks \cup Items -> Grades]
         /\ \A i \in Items : Examined(judged)[i] = judged[i]
         /\ \A e \in Checks : Examined(judged)[e] = Mechanical(Run.version)[e]
<1>1. Run.version \in Versions
  <2>1. Run \in RunRow
    BY DEF Typed, Run
  <2> QED
    BY <2>1 DEF RunRow
<1>2. Mechanical(Run.version) \in [Checks -> Grades]
  BY <1>1, VersionsAssumption DEF Mechanical, Unknown, Grades
<1> QED
  BY <1>2, ExaminationsAssumption DEF Examined

LEMMA ResultTyped ==
  ASSUME Typed, NEW checks \in [Checks \cup Items -> Grades],
         NEW claims \in {Range(claims) : claims \in ClaimLists} \cup {{}},
         NEW comparisons \in {Range(y) : y \in ComparisonLists} \cup {{}}, NEW error \in Errors
  PROVE  Result(checks, claims, comparisons, error) \in Results
<1>1. settings.provider \in Providers
  BY DEF Typed, Settings
<1> HIDE DEF Providers
<1> QED
  BY <1>1 DEF Result, Results, Errors

\* After an error no item is judged.
LEMMA ErroredResult ==
  ASSUME Typed, held \in DOMAIN runs, NEW error \in {"transient", "permanent"}
  PROVE  Errored(error) \in Results /\ Quoted(Errored(error)) /\ Kept(Errored(error), Run.version)
<1> DEFINE judged == Unknown(Items)
<1>1. judged \in [Items -> Grades] /\ \A i \in Items : judged[i] = "unknown"
  BY DEF Unknown, Grades
<1>2. /\ Examined(judged) \in [Checks \cup Items -> Grades]
      /\ \A i \in Items : Examined(judged)[i] = "unknown"
      /\ \A e \in Checks : Examined(judged)[e] = Mechanical(Run.version)[e]
  BY <1>1, ExaminedTyped
<1>3. Errored(error).checks = Examined(judged)
  BY DEF Errored, Result
<1>4. Errored(error) \in Results
  BY <1>2, ResultTyped DEF Errored, Errors
<1> QED
  BY <1>2, <1>3, <1>4 DEF Quoted, Kept

LEMMA BrokenResult ==
  ASSUME Typed
  PROVE  Broken \in Results /\ Quoted(Broken)
<1> DEFINE checks == Unknown(Checks \cup Items)
<1>1. checks \in [Checks \cup Items -> Grades] /\ \A i \in Items : checks[i] = "unknown"
  BY DEF Unknown, Grades
<1>2. Broken.checks = checks
  BY DEF Broken, Result
<1>3. Broken \in Results
  BY <1>1, ResultTyped DEF Broken, Errors
<1> QED
  BY <1>1, <1>2, <1>3 DEF Quoted

LEMMA FailureResult ==
  ASSUME Typed, held \in DOMAIN runs, NEW f \in Failures
  PROVE  /\ Outcome(f) \in Results /\ Quoted(Outcome(f))
         /\ "odd" \notin Failures => Kept(Outcome(f), Run.version)
BY FailuresAssumption, ErroredResult, BrokenResult DEF Outcome

\* A valid answer says one thing of a claim, and by_id finds it.
LEMMA SaidOnce ==
  ASSUME NEW claims, NEW y \in ComparisonLists, ValidComparisons(y, claims),
         NEW id \in Ids(claims)
  PROVE  \E k \in DOMAIN y : /\ y[k].claim = id /\ ById(y, id) = y[k] /\ y[k] \in Said
                             /\ \A j \in DOMAIN y : y[j].claim = id => j = k
<1>1. DOMAIN y \subseteq Nat /\ \A k \in DOMAIN y : y[k] \in Said
  BY DEF ComparisonLists
<1>2. /\ DOMAIN Named(y) = DOMAIN y
      /\ \A k \in DOMAIN y : Named(y)[k] = y[k].claim
  BY DEF Named
<1>3. PICK k \in DOMAIN y : y[k].claim = id
  BY <1>2 DEF ValidComparisons, Range
<1>4. ASSUME NEW j \in DOMAIN y, y[j].claim = id
      PROVE  j = k
  BY <1>2, <1>3, <1>4 DEF ValidComparisons, IsInjective
<1> DEFINE Found(m) == y[m].claim = id /\ \A j \in DOMAIN y : y[j].claim = id => j <= m
<1>5. Found(k)
  BY <1>1, <1>3, <1>4
<1>6. (CHOOSE m \in DOMAIN y : Found(m)) = k
  BY <1>4, <1>5
<1> QED
  BY <1>1, <1>3, <1>4, <1>6 DEF ById

\* What is judged of an item rests on the comparison of every claim about it.
LEMMA JudgedOnQuotes ==
  ASSUME NEW i \in Items, NEW x, NEW y \in ComparisonLists, ValidComparisons(y, x.claims)
  PROVE  LET outcome == ItemOutcome(i, x, y)
             about == {c \in Range(x.claims) : c.item = i}
             said(c) == {z \in Range(y) : z.claim = c.id}
         IN  /\ outcome \in Grades
             /\ outcome # "unknown" =>
                  /\ about # {}
                  /\ \A c \in about :
                       /\ said(c) # {} /\ \A z \in said(c) : z.quotes = "exact"
                       /\ outcome = "pass" => \A z \in said(c) : z.outcome = "supported"
<1> DEFINE outcome == ItemOutcome(i, x, y)
           about == {k \in DOMAIN x.claims : x.claims[k].item = i}
           heard == {ById(y, x.claims[k].id).outcome : k \in about}
           said(c) == {z \in Range(y) : z.claim = c.id}
<1>1. /\ outcome \in Grades
      /\ outcome # "unknown" => heard # {} /\ "insufficient_evidence" \notin heard
      /\ outcome = "pass" => "contradicted" \notin heard
  BY DEF ItemOutcome, Grades
<1> HIDE DEF outcome, heard
<1>2. ASSUME outcome # "unknown", NEW k \in about
      PROVE  LET c == x.claims[k]
             IN  /\ said(c) # {} /\ \A z \in said(c) : z.quotes = "exact"
                 /\ outcome = "pass" => \A z \in said(c) : z.outcome = "supported"
  <2> DEFINE id == x.claims[k].id
  <2>1. id \in Ids(x.claims)
    BY <1>2 DEF Ids
  <2>2. PICK n \in DOMAIN y : /\ y[n].claim = id /\ ById(y, id) = y[n] /\ y[n] \in Said
                              /\ \A j \in DOMAIN y : y[j].claim = id => j = n
    BY <2>1, SaidOnce
  <2>3. said(x.claims[k]) = {y[n]}
    BY <2>2 DEF Range
  <2>4. y[n].outcome \in heard
    BY <1>2, <2>2 DEF heard
  <2>5. y[n].quotes = "exact" /\ (outcome = "pass" => y[n].outcome = "supported")
    BY <1>1, <1>2, <2>2, <2>4 DEF ValidComparisons, QuotesHold, Said, Outcomes
  <2> QED
    BY <2>3, <2>5
<1>3. outcome # "unknown" => about # {}
  BY <1>1 DEF heard
<1>4. {c \in Range(x.claims) : c.item = i} = {x.claims[k] : k \in about}
  BY DEF Range
<1> QED
  BY <1>1, <1>2, <1>3, <1>4 DEF outcome

\* What the fixture says of a list of claims, and what a model may answer.
LEMMA ListsNumbered ==
  ASSUME NEW claims \in ClaimLists
  PROVE  DOMAIN claims \subseteq Nat
<1>1. CASE claims \in {x.claims : x \in Extractions}
  BY <1>1, ExtractionsAssumption
<1>2. CASE claims \notin {x.claims : x \in Extractions}
  <2>1. PICK reviewed \in SetToSeqs(Items), texts \in SetToAllKPermutations(Items) :
          claims = FixtureExtraction(reviewed, texts).claims
    BY <1>2 DEF ClaimLists
  <2>2. DOMAIN claims = DOMAIN texts
    BY <2>1 DEF FixtureExtraction
  <2>3. PICK S \in SUBSET Items : DOMAIN texts = 1 .. Cardinality(S)
    BY DEF SetToAllKPermutations, SetToSeqs
  <2>4. Cardinality(S) \in Nat
    BY <2>3, ItemsAssumption, FS_Subset, FS_CardinalityType
  <2> QED
    BY <2>2, <2>3, <2>4
<1> QED
  BY <1>1, <1>2

LEMMA FixtureSaid ==
  ASSUME NEW claims \in ClaimLists, NEW outcomes \in [DOMAIN claims -> Outcomes]
  PROVE  FixtureComparisons(claims, outcomes) \in ComparisonLists
<1> DEFINE y == FixtureComparisons(claims, outcomes)
<1>1. DOMAIN claims \in SUBSET Nat
  BY ListsNumbered
<1>2. ASSUME NEW k \in DOMAIN claims PROVE y[k] \in Said
  <2>1. claims[k].id \in UNION {Ids(c) : c \in ClaimLists} /\ outcomes[k] \in Outcomes
    BY DEF Ids
  <2> QED
    BY <2>1 DEF FixtureComparisons, Said
<1>3. y \in [DOMAIN claims -> Said]
  BY <1>2 DEF FixtureComparisons
<1> QED
  BY <1>1, <1>3 DEF ComparisonLists

LEMMA AnswerSaid == Answers \subseteq ComparisonLists
<1> SUFFICES ASSUME NEW y \in Answers PROVE y \in ComparisonLists
  OBVIOUS
<1>1. PICK n \in 0 .. MaxComparisons : y \in [1 .. n -> Comparisons]
  BY DEF Answers, BoundedSeq, SeqOf
<1>2. 1 .. n \in SUBSET Nat
  BY <1>1
<1>3. Comparisons \subseteq Said
  BY DEF Comparisons, Said
<1>4. y \in [1 .. n -> Said]
  BY <1>1, <1>3
<1> QED
  BY <1>2, <1>4 DEF ComparisonLists

LEMMA ComparedResult ==
  ASSUME Typed, held \in DOMAIN runs, extracted.claims \in ClaimLists,
         NEW y \in ComparisonLists, Compared(y)
  PROVE  result' \in Results /\ Quoted(result') /\ Kept(result', Run.version)
<1>1. CASE ~ValidComparisons(y, extracted.claims)
  BY <1>1, ErroredResult DEF Compared, Goto
<1>2. CASE ValidComparisons(y, extracted.claims)
  <2> DEFINE judged == [i \in Items |-> ItemOutcome(i, extracted, y)]
  <2>1. /\ Range(extracted.claims) \in {Range(claims) : claims \in ClaimLists}
        /\ Range(y) \in {Range(z) : z \in ComparisonLists}
    OBVIOUS
  <2>2. judged \in [Items -> Grades] /\ \A i \in Items : judged[i] = ItemOutcome(i, extracted, y)
    BY <1>2, JudgedOnQuotes
  <2> HIDE DEF judged
  <2>3. /\ Examined(judged) \in [Checks \cup Items -> Grades]
        /\ \A i \in Items : Examined(judged)[i] = ItemOutcome(i, extracted, y)
        /\ \A e \in Checks : Examined(judged)[e] = Mechanical(Run.version)[e]
    BY <2>2, ExaminedTyped
  <2>4. result' = Result(Examined(judged), Range(extracted.claims), Range(y), "none")
    BY <1>2 DEF Compared, Goto, judged
  <2>5. /\ result'.checks = Examined(judged) /\ result'.claims = Range(extracted.claims)
        /\ result'.comparisons = Range(y) /\ result'.error = "none"
    BY <2>4 DEF Result
  <2>6. result' \in Results
    BY <2>1, <2>3, <2>4, ResultTyped DEF Errors
  <2>7. Quoted(result')
    BY <1>2, <2>3, <2>5, JudgedOnQuotes DEF Quoted
  <2> QED
    BY <2>3, <2>5, <2>6, <2>7 DEF Kept
<1> QED
  BY <1>1, <1>2

-----------------------------------------------------------------------------
(* A step of evaluate() *)

EvaluateGoes ==
  /\ UNCHANGED <<runs, version, setup, held>> /\ pc \in {"extract", "compare"}
  /\ \/ /\ pc = "extract" /\ pc' = "compare" /\ Permitted(Run)
        /\ ValidExtraction(extracted') /\ extracted'.claims \in ClaimLists
     \/ /\ pc' = "finish" /\ result' \in Results /\ Quoted(result')
        /\ "odd" \notin Failures => Kept(result', Run.version)
  /\ \/ sent' = sent
     \/ Sends /\ Permitted(Run) /\ sent' = [sent EXCEPT ![held] = @ + 1]

LEMMA EvaluateStep ==
  ASSUME Typed, TurnFounded, Evaluate
  PROVE  EvaluateGoes
<1> USE DEF EvaluateGoes
<1>1. pc \in {"extract", "compare"} /\ UNCHANGED <<runs, version, setup, held>>
  BY DEF Evaluate, EvaluateAlone, ExtractFixture, Extract, ContextLimit, CompareFixture,
         Compare, Goto, Extracted, Compared
<1>2. held \in DOMAIN runs
  BY <1>1 DEF Typed
<1>3. Errored("permanent") \in Results /\ Quoted(Errored("permanent"))
      /\ Kept(Errored("permanent"), Run.version)
  BY <1>2, ErroredResult
<1>4. ASSUME NEW x, Extracted(x), x.claims \in ClaimLists
      PROVE  \/ pc' = "compare" /\ ValidExtraction(extracted') /\ extracted'.claims \in ClaimLists
             \/ pc' = "finish" /\ result' = Errored("permanent")
  BY <1>4 DEF Extracted, Goto
<1>5. CASE EvaluateAlone \/ ContextLimit
  BY <1>1, <1>3, <1>5 DEF EvaluateAlone, ContextLimit, Goto
<1>6. CASE ExtractFixture
  <2>1. PICK reviewed \in SetToSeqs(Items), texts \in SetToAllKPermutations(Items) :
          Extracted(FixtureExtraction(reviewed, texts))
    BY <1>6 DEF ExtractFixture
  <2>2. FixtureExtraction(reviewed, texts).claims \in ClaimLists
    BY DEF ClaimLists
  <2> HIDE DEF FixtureExtraction
  <2> QED
    BY <1>1, <1>3, <1>4, <1>6, <2>1, <2>2 DEF ExtractFixture
<1>7. CASE Extract
  <2>1. ASSUME NEW x \in Extractions PROVE x.claims \in ClaimLists
    BY DEF ClaimLists
  <2>2. CASE \E x \in Extractions : Extracted(x)
    BY <1>1, <1>3, <1>4, <1>7, <2>1, <2>2 DEF Extract
  <2>3. CASE \E f \in Failures : Goto("finish", held, <<>>, Outcome(f))
    BY <1>1, <1>2, <1>7, <2>3, FailureResult DEF Extract, Goto
  <2> QED
    BY <1>7, <2>2, <2>3 DEF Extract
<1>8. CASE CompareFixture
  <2>1. PICK outcomes \in [DOMAIN extracted.claims -> Outcomes] :
          Compared(FixtureComparisons(extracted.claims, outcomes))
    BY <1>8 DEF CompareFixture
  <2> DEFINE y == FixtureComparisons(extracted.claims, outcomes)
  <2>2. extracted.claims \in ClaimLists /\ y \in ComparisonLists
    <3>1. extracted.claims \in ClaimLists
      BY <1>8 DEF CompareFixture, Typed
    <3> QED
      BY <3>1, FixtureSaid
  <2>3. Compared(y)
    BY <2>1
  <2> HIDE DEF y
  <2>4. result' \in Results /\ Quoted(result') /\ Kept(result', Run.version)
    BY <1>2, <2>2, <2>3, ComparedResult
  <2> QED
    BY <1>1, <1>8, <2>3, <2>4 DEF CompareFixture, Compared, Goto
<1>9. CASE Compare
  <2>1. extracted.claims \in ClaimLists /\ Permitted(Run)
    BY <1>9 DEF Compare, Typed, TurnFounded
  <2>2. CASE \E y \in Answers : Compared(y)
    <3>1. PICK y \in Answers : Compared(y)
      BY <2>2
    <3>2. y \in ComparisonLists
      BY AnswerSaid
    <3>3. result' \in Results /\ Quoted(result') /\ Kept(result', Run.version)
      BY <1>2, <2>1, <3>1, <3>2, ComparedResult
    <3> QED
      BY <1>1, <1>9, <2>1, <3>1, <3>3 DEF Compare, Compared, Goto
  <2>3. CASE \E f \in Failures : Goto("finish", held, <<>>, Outcome(f))
    BY <1>1, <1>2, <1>9, <2>1, <2>3, FailureResult DEF Compare, Goto
  <2> QED
    BY <1>9, <2>2, <2>3 DEF Compare
<1> QED
  BY <1>5, <1>6, <1>7, <1>8, <1>9 DEF Evaluate

-----------------------------------------------------------------------------
(* Each kind of step keeps the invariant *)

LEMMA EvaluateKeeps ==
  ASSUME IInv, EvaluateGoes
  PROVE  IInv'
<1>1. /\ UNCHANGED <<runs, version, api, settings, restarts, together, held>>
      /\ pc \in {"extract", "compare"} /\ pc' \in {"compare", "finish"}
      /\ held \in DOMAIN runs /\ runs[held] \in RunRow
  BY DEF EvaluateGoes, setup, IInv, Typed
<1>2. /\ sent' \in Seq(Nat) /\ Len(sent') = Len(sent)
      /\ \A n \in DOMAIN runs : n # held => sent'[n] = sent[n]
      /\ \/ sent'[held] = sent[held]
         \/ sent'[held] = sent[held] + 1 /\ Sends /\ Permitted(Run)
  <2>1. sent \in Seq(Nat) /\ DOMAIN runs = 1 .. Len(sent) /\ sent[held] \in Nat
    BY <1>1 DEF IInv, Typed
  <2>2. CASE sent' = sent
    BY <2>1, <2>2
  <2>3. CASE Sends /\ Permitted(Run) /\ sent' = [sent EXCEPT ![held] = @ + 1]
    <3>1. sent[held] + 1 \in Nat /\ held \in 1 .. Len(sent)
      BY <1>1, <2>1
    <3>2. /\ sent' \in Seq(Nat) /\ Len(sent') = Len(sent)
          /\ sent'[held] = sent[held] + 1
          /\ \A n \in 1 .. Len(sent) : n # held => sent'[n] = sent[n]
      BY <2>1, <2>3, <3>1, ReplaceInSeq
    <3> QED
      BY <2>1, <2>3, <3>2
  <2> QED
    BY <2>2, <2>3 DEF EvaluateGoes
<1>3. Typed'
  BY <1>1, <1>2 DEF EvaluateGoes, IInv, Typed
<1>4. TurnFounded'
  BY <1>1 DEF EvaluateGoes, TurnFounded, Permitted, Run
<1>5. OneProvider'
  BY <1>1 DEF IInv, OneProvider, Run, Current
<1>6. AttemptsCounted'
  <2>1. /\ sent[held] \in Nat /\ runs[held].attempts \in Nat
        /\ sent[held] + 1 <= 2 * runs[held].attempts
        /\ pc = "extract" => sent[held] + 2 <= 2 * runs[held].attempts
        /\ \A n \in DOMAIN runs : sent[n] <= 2 * runs[n].attempts
    BY <1>1 DEF IInv, AttemptsCounted, Typed, RunRow, Run
  <2>2. sent'[held] <= 2 * runs[held].attempts
        /\ (pc' = "compare" => sent'[held] + 1 <= 2 * runs[held].attempts)
    BY <1>1, <1>2, <2>1 DEF EvaluateGoes
  <2> QED
    BY <1>1, <1>2, <2>1, <2>2 DEF IInv, AttemptsCounted, Run
<1>7. ConsentWhenTogether'
  <2>1. ASSUME together, Sends, Permitted(Run)
        PROVE  runs[held].version.consent
    BY <1>1, <2>1 DEF IInv, OneProvider, Sends, Permitted, Run
  <2> QED
    BY <1>1, <1>2, <2>1 DEF IInv, ConsentWhenTogether, TransmittedWithConsent
<1>8. ResultsQuoted'
  BY <1>1 DEF EvaluateGoes, IInv, ResultsQuoted, Quoted
<1> QED
  BY <1>3, <1>4, <1>5, <1>6, <1>7, <1>8 DEF IInv

LEMMA RewrittenKeeps ==
  ASSUME IInv, NEW n \in DOMAIN runs, NEW row \in RunRow, Rewritten(n, row),
         UNCHANGED <<version, sent, setup>>,
         runs[n].attempts <= row.attempts, row.attempts <= MaxAttempts,
         \A r \in row.results : Quoted(r),
         \/ UNCHANGED turn
         \/ pc' = "refresh"
         \/ /\ pc = "claim" /\ pc' = "extract" /\ held' = n /\ n = Current
            /\ row.attempts = runs[n].attempts + 1
  PROVE  IInv'
<1>1. /\ UNCHANGED <<version, sent, api, settings, restarts, together>>
      /\ DOMAIN runs' = DOMAIN runs /\ runs' \in Seq(RunRow) /\ Len(runs') = Len(runs)
      /\ runs'[n] = row /\ \A m \in DOMAIN runs : m # n => runs'[m] = runs[m]
      /\ \A m \in DOMAIN runs :
           /\ runs'[m].version = runs[m].version /\ runs'[m].provider = runs[m].provider
      /\ n \in Nat /\ runs \in Seq(RunRow)
  BY DEF Rewritten, setup, IInv, Typed
<1>2. \/ pc' = pc /\ held' = held /\ extracted' = extracted /\ result' = result
      \/ pc' = "refresh"
      \/ pc = "claim" /\ pc' = "extract" /\ held' = n
  BY DEF turn
<1>3. Typed'
  BY <1>1, <1>2 DEF IInv, Typed
<1>4. TurnFounded'
  BY <1>1, <1>2 DEF IInv, TurnFounded, Permitted, Run, Typed, ValidExtraction
<1>5. OneProvider'
  <2>1. CASE pc' = pc /\ held' = held
    <3>1. runs # <<>> => Current \in DOMAIN runs
      BY DEF IInv, Typed, Current
    <3>2. Current' = Current /\ runs # <<>>
      BY <1>1 DEF Current
    <3> QED
      BY <1>1, <2>1, <3>1, <3>2 DEF IInv, OneProvider, Run, Typed
  <2>2. CASE pc' = "refresh"
    BY <1>1, <2>2 DEF IInv, OneProvider
  <2>3. CASE pc = "claim" /\ pc' = "extract" /\ held' = n /\ n = Current
    BY <1>1, <2>3 DEF IInv, OneProvider, Run
  <2> QED
    BY <2>1, <2>2, <2>3 DEF turn
<1>6. AttemptsCounted'
  <2>1. ASSUME NEW m \in DOMAIN runs
        PROVE  /\ sent[m] \in Nat /\ runs[m].attempts \in Nat /\ runs'[m].attempts \in Nat
               /\ runs[m].attempts <= runs'[m].attempts /\ runs'[m].attempts <= MaxAttempts
               /\ sent[m] <= 2 * runs[m].attempts
    <3>1. runs[m] \in RunRow /\ runs'[m] \in RunRow /\ sent[m] \in Nat
      BY <1>1 DEF IInv, Typed
    <3>2. runs[m].attempts <= MaxAttempts /\ sent[m] <= 2 * runs[m].attempts
      BY DEF IInv, AttemptsCounted
    <3>3. runs[m].attempts \in Nat /\ runs'[m].attempts \in Nat
      BY <3>1 DEF RunRow
    <3>4. runs[m].attempts <= runs'[m].attempts /\ runs'[m].attempts <= MaxAttempts
      BY <1>1, <3>2, <3>3
    <3> QED
      BY <3>1, <3>2, <3>3, <3>4
  <2>2. ASSUME NEW m \in DOMAIN runs PROVE sent[m] <= 2 * runs'[m].attempts
    BY <2>1
  <2>3. CASE pc' = pc /\ held' = held
    <3>1. pc \in {"extract", "compare"} => held \in DOMAIN runs
      BY DEF IInv, Typed
    <3>2. /\ pc = "extract" => sent[held] + 2 <= 2 * runs[held].attempts
          /\ pc = "compare" => sent[held] + 1 <= 2 * runs[held].attempts
      BY DEF IInv, AttemptsCounted, Run
    <3>3. /\ pc = "extract" => sent[held] + 2 <= 2 * runs'[held].attempts
          /\ pc = "compare" => sent[held] + 1 <= 2 * runs'[held].attempts
      BY <2>1, <3>1, <3>2
    <3> QED
      BY <1>1, <2>1, <2>2, <2>3, <3>3 DEF AttemptsCounted, Run
  <2>4. CASE pc' = "refresh"
    BY <1>1, <2>1, <2>2, <2>4 DEF AttemptsCounted
  <2>5. CASE pc' = "extract" /\ held' = n /\ row.attempts = runs[n].attempts + 1
    <3>1. sent[n] + 2 <= 2 * runs'[n].attempts
      BY <1>1, <2>1, <2>5
    <3> QED
      BY <1>1, <2>1, <2>2, <2>5, <3>1 DEF AttemptsCounted, Run
  <2> QED
    BY <2>3, <2>4, <2>5 DEF turn
<1>7. ConsentWhenTogether'
  BY <1>1 DEF IInv, ConsentWhenTogether, TransmittedWithConsent
<1>8. ResultsQuoted'
  BY <1>1, <1>2 DEF IInv, ResultsQuoted, Quoted
<1> QED
  BY <1>3, <1>4, <1>5, <1>6, <1>7, <1>8 DEF IInv

LEMMA FollowedKeeps ==
  ASSUME IInv, NEW provider, Followed(provider), UNCHANGED setup, version' \in Versions,
         \/ UNCHANGED turn /\ provider = api
         \/ pc' = "claim" /\ provider = settings.provider
  PROVE  IInv'
<1>1. /\ UNCHANGED <<api, settings, restarts, together>> /\ runs' \in Seq(RunRow)
      /\ DOMAIN runs \subseteq DOMAIN runs' /\ runs \in Seq(RunRow)
      /\ DOMAIN sent = DOMAIN runs /\ Len(runs') = Len(runs) + 1 /\ Len(runs) \in Nat
      /\ \A n \in DOMAIN runs' : n \notin DOMAIN runs => n = Len(runs) + 1
      /\ \A n \in DOMAIN runs :
           /\ runs'[n].version = runs[n].version /\ runs'[n].provider = runs[n].provider
           /\ runs'[n].attempts = runs[n].attempts /\ runs'[n].results = runs[n].results
           /\ sent'[n] = sent[n]
      /\ runs'[Len(runs) + 1].provider = provider /\ runs'[Len(runs) + 1].attempts = 0
      /\ runs'[Len(runs) + 1].results = {} /\ sent'[Len(runs) + 1] = 0
  BY DEF Followed, setup, IInv, Typed
<1>2. \/ pc' = pc /\ held' = held /\ extracted' = extracted /\ result' = result
      \/ pc' = "claim"
  BY DEF turn
<1>3. Typed'
  BY <1>1, <1>2 DEF IInv, Typed, Followed
<1>4. TurnFounded'
  BY <1>1, <1>2 DEF IInv, TurnFounded, Permitted, Run, Typed, ValidExtraction
<1>5. OneProvider'
  <2>1. Current' = Len(runs) + 1
    BY <1>1 DEF Current
  <2> QED
    BY <1>1, <1>2, <2>1 DEF IInv, OneProvider, Run, Typed, turn
<1>6. AttemptsCounted'
  <2>1. ASSUME NEW n \in DOMAIN runs'
        PROVE  runs'[n].attempts <= MaxAttempts /\ sent'[n] <= 2 * runs'[n].attempts
    BY <1>1, AttemptsAssumption DEF IInv, AttemptsCounted
  <2>2. pc \in {"extract", "compare"} => held \in DOMAIN runs
    BY DEF IInv, Typed
  <2> QED
    BY <1>1, <1>2, <2>1, <2>2 DEF IInv, AttemptsCounted, Run
<1>7. ConsentWhenTogether'
  BY <1>1 DEF IInv, ConsentWhenTogether, TransmittedWithConsent
<1>8. ResultsQuoted'
  BY <1>1, <1>2 DEF IInv, ResultsQuoted, Quoted
<1> QED
  BY <1>3, <1>4, <1>5, <1>6, <1>7, <1>8 DEF IInv

-----------------------------------------------------------------------------
(* The actions *)

LEMMA InitIInv == Init => IInv
<1> SUFFICES ASSUME Init PROVE IInv
  OBVIOUS
<1>1. Typed
  BY DEF Init, Typed, Settings
<1>2. pc = "refresh" /\ runs = <<>> /\ DOMAIN runs = {}
  BY DEF Init
<1>3. OneProvider
  BY <1>2 DEF Init, OneProvider
<1> QED
  BY <1>1, <1>2, <1>3 DEF IInv, TurnFounded, AttemptsCounted, ConsentWhenTogether,
                          TransmittedWithConsent, ResultsQuoted

LEMMA ScheduleKeeps ==
  ASSUME IInv, NEW v \in Versions, NEW provider \in Providers,
         runs' = Scheduled(v, provider), sent' = Append(sent, 0), UNCHANGED setup,
         version' = v,
         \/ UNCHANGED turn /\ provider = api
         \/ pc' = "claim" /\ provider = settings.provider
  PROVE  IInv'
BY ScheduledFollows, FollowedKeeps DEF IInv

\* A claim, a scope or a finish rewrites one row.
LEMMA RowOf ==
  ASSUME IInv, NEW n \in DOMAIN runs
  PROVE  /\ runs[n] \in RunRow /\ runs[n].attempts \in Nat /\ runs[n].state \in States
         /\ runs[n].attempts <= MaxAttempts
         /\ \A r \in runs[n].results : r \in Results /\ Quoted(r)
         /\ \A s \in States : [runs[n] EXCEPT !.state = s] \in RunRow
<1>1. runs[n] \in RunRow
  BY DEF IInv, Typed
<1>2. runs[n].attempts <= MaxAttempts /\ \A r \in runs[n].results : Quoted(r)
  BY DEF IInv, AttemptsCounted, ResultsQuoted
<1> QED
  BY <1>1, <1>2 DEF RunRow

LEMMA StateKeeps ==
  ASSUME IInv, NEW n \in DOMAIN runs, NEW s \in States, runs' = [runs EXCEPT ![n].state = s],
         UNCHANGED <<version, sent, setup>>, UNCHANGED turn \/ pc' = "refresh"
  PROVE  IInv'
<1> DEFINE row == [runs[n] EXCEPT !.state = s]
<1>1. /\ row \in RunRow /\ row.version = runs[n].version /\ row.provider = runs[n].provider
      /\ row.attempts = runs[n].attempts /\ row.results = runs[n].results
  BY RowOf DEF RunRow
<1>2. runs' = [runs EXCEPT ![n] = row]
  BY DEF IInv, Typed
<1> HIDE DEF row
<1>3. Rewritten(n, row)
  BY <1>1, <1>2, RewriteRow DEF IInv
<1>4. runs[n].attempts <= row.attempts /\ row.attempts <= MaxAttempts
      /\ \A r \in row.results : Quoted(r)
  BY <1>1, RowOf
<1> QED
  BY <1>1, <1>3, <1>4, RewrittenKeeps

LEMMA ClaimKeeps ==
  ASSUME IInv, Claim
  PROVE  IInv'
<1> DEFINE n == Current
           row == [runs[n] EXCEPT !.state = "processing", !.attempts = @ + 1]
<1>1. n \in DOMAIN runs
  BY DEF Claim, Waiting, IInv, Typed, Current
<1>2. /\ row \in RunRow /\ row.version = runs[n].version /\ row.provider = runs[n].provider
      /\ row.attempts = runs[n].attempts + 1 /\ row.results = runs[n].results
  <2> HIDE DEF n
  <2>1. runs[n] \in RunRow /\ runs[n].attempts \in Nat
    BY <1>1, RowOf
  <2>2. runs[n].attempts + 1 \in Nat
    BY <2>1
  <2>3. "processing" \in States
    BY DEF States
  <2> QED
    BY <2>1, <2>2, <2>3 DEF RunRow
<1>3. runs' = [runs EXCEPT ![n] = row]
  BY <1>1 DEF IInv, Typed, Claim
<1>4. runs[n].attempts \in Nat /\ runs[n].attempts < MaxAttempts
  BY <1>1, RowOf DEF Claim
<1>5. pc = "claim" /\ pc' = "extract" /\ held' = n /\ UNCHANGED <<version, sent, setup>>
  BY DEF Claim, Goto
<1>6. \A r \in row.results : Quoted(r)
  BY <1>1, <1>2, RowOf
<1>7. n = Current
  OBVIOUS
<1> HIDE DEF row, n
<1>8. Rewritten(n, row)
  BY <1>1, <1>2, <1>3, RewriteRow DEF IInv
<1>9. runs[n].attempts <= row.attempts /\ row.attempts <= MaxAttempts
  BY <1>2, <1>4, AttemptsAssumption
<1> QED
  BY <1>1, <1>2, <1>5, <1>6, <1>7, <1>8, <1>9, RewrittenKeeps

\* The steps that touch neither the runs nor what was sent.
LEMMA TurnKeeps ==
  ASSUME IInv, UNCHANGED <<runs, sent, version>>,
         \/ UNCHANGED setup /\ pc' = "refresh"
         \/ UNCHANGED setup /\ pc' = "claim" /\ (runs = <<>> \/ Fresh(Current, settings.provider))
         \/ /\ api' \in Providers /\ settings' \in Settings
            /\ together' = (together /\ api' = settings'.provider)
            /\ pc' = "refresh" \/ UNCHANGED <<settings, turn>>
  PROVE  IInv'
<1>1. /\ api' \in Providers /\ settings' \in Settings /\ together' \in BOOLEAN
      /\ together' => together /\ api' = settings'.provider
      /\ \/ pc' = "refresh"
         \/ pc' = "claim" /\ (runs = <<>> \/ Fresh(Current, settings.provider))
         \/ pc' = pc /\ held' = held /\ extracted' = extracted /\ result' = result
      /\ settings' = settings \/ pc' = "refresh"
  <2>1. /\ api \in Providers /\ settings \in Settings /\ together \in BOOLEAN
        /\ together => api = settings.provider
    BY DEF IInv, Typed, OneProvider
  <2>2. CASE UNCHANGED setup
    BY <2>1, <2>2 DEF setup, turn
  <2>3. CASE /\ api' \in Providers /\ settings' \in Settings
             /\ together' = (together /\ api' = settings'.provider)
             /\ pc' = "refresh" \/ UNCHANGED <<settings, turn>>
    BY <2>1, <2>3 DEF turn
  <2> QED
    BY <2>2, <2>3
<1>2. Typed'
  BY <1>1 DEF IInv, Typed
<1>3. TurnFounded'
  BY <1>1 DEF IInv, TurnFounded, Permitted, Run, ValidExtraction
<1>4. OneProvider'
  BY <1>1 DEF IInv, OneProvider, Run, Current, Fresh
<1>5. AttemptsCounted'
  BY <1>1 DEF IInv, AttemptsCounted, Run
<1>6. ConsentWhenTogether'
  BY <1>1 DEF IInv, ConsentWhenTogether, TransmittedWithConsent
<1>7. ResultsQuoted'
  BY <1>1 DEF IInv, ResultsQuoted, Quoted
<1> QED
  BY <1>2, <1>3, <1>4, <1>5, <1>6, <1>7 DEF IInv

LEMMA FinishResultKeeps ==
  ASSUME IInv, FinishResult
  PROVE  IInv'
<1> DEFINE n == held
           state == IF result.error = "transient" THEN "failed" ELSE "completed"
           row == [runs[n] EXCEPT !.state = state, !.results = @ \cup {result}]
<1>1. n \in DOMAIN runs /\ result \in Results /\ Quoted(result)
  BY DEF FinishResult, IInv, Typed, ResultsQuoted
<1>2. /\ row \in RunRow /\ row.version = runs[n].version /\ row.provider = runs[n].provider
      /\ row.attempts = runs[n].attempts /\ row.results = runs[n].results \cup {result}
  <2> HIDE DEF n
  <2>1. state \in States
    BY DEF States
  <2> HIDE DEF state
  <2> QED
    BY <1>1, <2>1, RowOf DEF RunRow
<1>3. runs' = [runs EXCEPT ![n] = row]
  BY <1>1 DEF IInv, Typed, FinishResult
<1>4. pc' = "refresh" /\ UNCHANGED <<version, sent, setup>>
  BY DEF FinishResult, Forget, Goto
<1>5. \A r \in row.results : Quoted(r)
  BY <1>1, <1>2, RowOf
<1> HIDE DEF row, n
<1>6. Rewritten(n, row)
  BY <1>1, <1>2, <1>3, RewriteRow DEF IInv
<1>7. runs[n].attempts <= row.attempts /\ row.attempts <= MaxAttempts
  BY <1>1, <1>2, RowOf
<1> QED
  BY <1>1, <1>2, <1>4, <1>5, <1>6, <1>7, RewrittenKeeps

LEMMA NextIInv ==
  ASSUME IInv, [Next]_vars
  PROVE  IInv'
<1>1. CASE UNCHANGED vars
  BY <1>1 DEF vars, IInv, Typed, TurnFounded, Permitted, Run, ValidExtraction, OneProvider,
              Current, AttemptsCounted, ConsentWhenTogether, TransmittedWithConsent,
              ResultsQuoted, Quoted
<1>2. ASSUME NEW v \in Versions, Submit(v) PROVE IInv'
  <2>1. api \in Providers
    BY DEF IInv, Typed
  <2> QED
    BY <1>2, <2>1, ScheduleKeeps DEF Submit
<1>3. CASE Scope
  <2>1. Current \in DOMAIN runs
    BY <1>3 DEF Scope, IInv, Typed, Current
  <2> QED
    BY <1>3, <2>1, StateKeeps DEF Scope, States
<1>4. CASE RefreshStale
  <2>1. version \in Versions /\ settings.provider \in Providers
    BY DEF IInv, Typed, Settings
  <2>2. CASE runs # <<>> /\ ~Fresh(Current, settings.provider)
    BY <1>4, <2>1, <2>2, ScheduleKeeps DEF RefreshStale, Goto
  <2>3. CASE ~(runs # <<>> /\ ~Fresh(Current, settings.provider))
    BY <1>4, <2>3, TurnKeeps DEF RefreshStale, Goto
  <2> QED
    BY <2>2, <2>3
<1>5. CASE ClaimNothing
  <2>1. CASE UNCHANGED runs
    BY <1>5, <2>1, TurnKeeps DEF ClaimNothing, Forget, Goto
  <2>2. CASE Exhausted /\ runs' = [runs EXCEPT ![Current].state = "failed"]
    <3>1. Current \in DOMAIN runs
      BY <2>2 DEF Exhausted, Waiting, IInv, Typed, Current
    <3> QED
      BY <1>5, <2>2, <3>1, StateKeeps DEF ClaimNothing, Forget, Goto, States
  <2> QED
    BY <1>5, <2>1, <2>2 DEF ClaimNothing
<1>6. CASE Evaluate
  BY <1>6, EvaluateStep, EvaluateKeeps DEF IInv
<1>7. CASE FinishDiscard
  <2>1. held \in DOMAIN runs
    BY <1>7 DEF FinishDiscard, IInv, Typed
  <2>2. CASE Run.state = "processing"
    BY <1>7, <2>1, <2>2, StateKeeps DEF FinishDiscard, Forget, Goto, States
  <2>3. CASE Run.state # "processing"
    BY <1>7, <2>3, TurnKeeps DEF FinishDiscard, Forget, Goto
  <2> QED
    BY <2>2, <2>3
<1>8. CASE FinishRetry
  <2>1. held \in DOMAIN runs
    BY <1>8 DEF FinishRetry, IInv, Typed
  <2> QED
    BY <1>8, <2>1, StateKeeps DEF FinishRetry, Forget, Goto, States
<1>9. CASE Crash
  BY <1>9, TurnKeeps DEF Crash, Forget, Goto
<1>10. ASSUME NEW p \in Providers, RestartApi(p) PROVE IInv'
  <2>1. settings \in Settings
    BY DEF IInv, Typed
  <2> QED
    BY <1>10, <2>1, TurnKeeps DEF RestartApi, Restart
<1>11. ASSUME NEW s \in Settings, RestartWorker(s) \/ RestartTogether(s) PROVE IInv'
  <2>1. api \in Providers /\ s.provider \in Providers
    BY DEF IInv, Typed, Settings
  <2> QED
    BY <1>11, <2>1, TurnKeeps DEF RestartWorker, RestartTogether, Restart, Forget, Goto
<1> QED
  BY <1>1, <1>2, <1>3, <1>4, <1>5, <1>6, <1>7, <1>8, <1>9, <1>10, <1>11,
     ClaimKeeps, FinishResultKeeps DEF Next, Finish

THEOREM SpecIInv == Spec => []IInv
<1>1. IInv /\ [Next]_vars => IInv'
  BY NextIInv
<1> QED
  BY InitIInv, <1>1, PTL DEF Spec

-----------------------------------------------------------------------------
(* The properties *)

\* While API and worker have had one provider, nothing of a brief without its
\* owner's consent is sent (checkers.py 322-325, worker.py 16-24).
THEOREM Consent == Spec => []ConsentWhenTogether
<1>1. IInv => ConsentWhenTogether
  BY DEF IInv
<1> QED
  BY <1>1, SpecIInv, PTL

\* No item passes, or fails, without a quote for each claim about it.
THEOREM PassedOnQuotes == Spec => []PassRestsOnQuotes
<1>1. IInv => PassRestsOnQuotes
  BY DEF IInv, ResultsQuoted, Quoted, PassRestsOnQuotes
<1> QED
  BY <1>1, SpecIInv, PTL

\* However many crashes and retries, the content of a run goes out at most twice
\* per attempt.
THEOREM SentAtMostTwicePerAttempt == Spec => []TransmissionsBounded
<1>1. ASSUME IInv, NEW n \in DOMAIN runs
      PROVE  sent[n] <= 2 * MaxAttempts
  <2>1. runs[n].attempts \in Nat /\ runs[n].attempts <= MaxAttempts
    BY <1>1, RowOf
  <2>2. sent[n] \in Nat /\ sent[n] <= 2 * runs[n].attempts
    BY <1>1 DEF IInv, AttemptsCounted, Typed
  <2> QED
    BY <2>1, <2>2, AttemptsAssumption
<1>2. IInv => TransmissionsBounded
  BY <1>1 DEF TransmissionsBounded
<1> QED
  BY <1>2, SpecIInv, PTL

\* A finish adds the worker's result to one row; every other step adds none.
ResultsFrom ==
  \A n \in DOMAIN runs' : \A r \in runs'[n].results :
    \/ n \in DOMAIN runs /\ r \in runs[n].results /\ runs'[n].version = runs[n].version
    \/ pc = "finish" /\ n = held /\ r = result /\ runs'[n].version = Run.version

LEMMA FollowedFrom ==
  ASSUME Typed, NEW provider, Followed(provider)
  PROVE  ResultsFrom /\ \A n \in DOMAIN runs : runs'[n].version = runs[n].version
BY DEF Typed, Followed, ResultsFrom

LEMMA StateFrom ==
  ASSUME Typed, NEW n \in DOMAIN runs, NEW s, runs' = [runs EXCEPT ![n].state = s]
  PROVE  ResultsFrom /\ \A m \in DOMAIN runs : runs'[m].version = runs[m].version
<1>1. ASSUME NEW m \in DOMAIN runs
      PROVE  runs'[m].version = runs[m].version /\ runs'[m].results = runs[m].results
  <2>1. runs[m] \in RunRow /\ DOMAIN runs' = DOMAIN runs
    BY DEF Typed
  <2>2. runs'[m] = runs[m] \/ runs'[m] = [runs[m] EXCEPT !.state = s]
    BY DEF Typed
  <2> QED
    BY <2>1, <2>2 DEF RunRow
<1>2. DOMAIN runs' = DOMAIN runs
  BY DEF Typed
<1> QED
  BY <1>1, <1>2 DEF ResultsFrom

\* Without an answer of a shape request() does not expect, every result the
\* worker holds or stores has the mechanical outcomes of the content.
LEMMA NextResultsKept ==
  ASSUME "odd" \notin Failures, IInv, ResultsKept, [Next]_vars
  PROVE  ResultsKept'
<1> USE DEF ResultsKept
<1>1. ASSUME ResultsFrom, \A n \in DOMAIN runs : runs'[n].version = runs[n].version,
             pc' # "finish" \/ UNCHANGED turn
      PROVE  ResultsKept'
  <2>1. MechanicalResultsKept'
    <3> SUFFICES ASSUME NEW n \in DOMAIN runs', NEW r \in runs'[n].results, NEW e \in Checks
                 PROVE  r.checks[e] = Mechanical(runs'[n].version)[e]
      BY DEF MechanicalResultsKept, Mechanical, Unknown
    <3> QED
      BY <1>1 DEF ResultsFrom, MechanicalResultsKept, Kept
  <2>2. pc' = "finish" => Kept(result, Run.version)'
    <3> SUFFICES ASSUME pc' = "finish" PROVE Kept(result, Run.version)'
      OBVIOUS
    <3>1. pc = "finish" /\ held' = held /\ result' = result /\ held \in DOMAIN runs
      BY <1>1 DEF turn, IInv, Typed
    <3> QED
      BY <1>1, <3>1 DEF Kept, Run, Mechanical, Unknown
  <2> QED
    BY <2>1, <2>2
<1>2. ASSUME UNCHANGED runs, pc' # "finish" \/ UNCHANGED turn
      PROVE  ResultsKept'
  BY <1>1, <1>2 DEF ResultsFrom
<1>3. ASSUME NEW n \in DOMAIN runs, NEW s, runs' = [runs EXCEPT ![n].state = s],
             pc' # "finish" \/ UNCHANGED turn
      PROVE  ResultsKept'
  BY <1>1, <1>3, StateFrom DEF IInv
<1>4. ASSUME NEW v \in Versions, NEW provider \in Providers,
             runs' = Scheduled(v, provider), sent' = Append(sent, 0),
             pc' # "finish" \/ UNCHANGED turn
      PROVE  ResultsKept'
  BY <1>1, <1>4, ScheduledFollows, FollowedFrom DEF IInv
<1>5. runs # <<>> => Current \in DOMAIN runs
  BY DEF IInv, Typed, Current
<1>6. CASE \/ UNCHANGED vars
           \/ Crash
           \/ \E p \in Providers : RestartApi(p)
           \/ \E s \in Settings : RestartWorker(s) \/ RestartTogether(s)
  BY <1>2, <1>6 DEF vars, turn, Crash, RestartApi, RestartWorker, RestartTogether, Restart,
                    Forget, Goto
<1>7. ASSUME NEW v \in Versions, Submit(v) PROVE ResultsKept'
  <2>1. api \in Providers
    BY DEF IInv, Typed
  <2> QED
    BY <1>4, <1>7, <2>1 DEF Submit
<1>8. CASE RefreshStale
  <2>1. version \in Versions /\ settings.provider \in Providers
    BY DEF IInv, Typed, Settings
  <2> QED
    BY <1>2, <1>4, <1>8, <2>1 DEF RefreshStale, Goto
<1>9. CASE Scope
  BY <1>3, <1>5, <1>9 DEF Scope
<1>10. CASE ClaimNothing
  BY <1>2, <1>3, <1>5, <1>10 DEF ClaimNothing, Exhausted, Waiting, Forget, Goto
<1>11. CASE FinishDiscard \/ FinishRetry
  <2>1. held \in DOMAIN runs
    BY <1>11 DEF FinishDiscard, FinishRetry, IInv, Typed
  <2> QED
    BY <1>2, <1>3, <1>11, <2>1 DEF FinishDiscard, FinishRetry, Forget, Goto
<1>12. CASE Claim
  <2>1. DOMAIN runs' = DOMAIN runs /\ pc' # "finish"
    BY <1>12 DEF Claim, Goto, IInv, Typed
  <2>2. ASSUME NEW m \in DOMAIN runs
        PROVE  runs'[m].version = runs[m].version /\ runs'[m].results = runs[m].results
    <3>1. runs[m] \in RunRow
      BY DEF IInv, Typed
    <3> QED
      BY <1>12, <3>1 DEF Claim, RunRow, IInv, Typed
  <2> QED
    BY <1>1, <2>1, <2>2 DEF ResultsFrom
<1>13. CASE FinishResult
  <2>1. DOMAIN runs' = DOMAIN runs /\ pc' # "finish" /\ pc = "finish" /\ held \in DOMAIN runs
    BY <1>13 DEF FinishResult, Forget, Goto, IInv, Typed
  <2>2. ASSUME NEW m \in DOMAIN runs
        PROVE  /\ runs'[m].version = runs[m].version
               /\ runs'[m].results \subseteq runs[m].results \cup (IF m = held THEN {result} ELSE {})
    <3>1. runs[m] \in RunRow
      BY DEF IInv, Typed
    <3> QED
      BY <1>13, <2>1, <3>1 DEF FinishResult, RunRow, IInv, Typed
  <2> QED
    BY <1>1, <2>1, <2>2 DEF ResultsFrom, Run
<1>14. CASE Evaluate
  <2>1. EvaluateGoes
    BY <1>14, EvaluateStep DEF IInv
  <2>2. /\ runs' = runs /\ Run' = Run
        /\ pc' = "finish" => Kept(result', Run.version)
    BY <2>1 DEF EvaluateGoes, Run
  <2> QED
    BY <2>2 DEF MechanicalResultsKept, Kept, Mechanical, Unknown
<1> QED
  BY <1>6, <1>7, <1>8, <1>9, <1>10, <1>11, <1>12, <1>13, <1>14 DEF Next, Finish

\* Whatever fails about the model, a stored result keeps the mechanical outcomes
\* (checkers.py 330-350), but for an answer of an unexpected shape: run shape.
THEOREM MechanicalOutcomesKept ==
  ASSUME "odd" \notin Failures
  PROVE  Spec => []MechanicalResultsKept
<1>1. Init => ResultsKept
  BY DEF Init, ResultsKept, MechanicalResultsKept
<1>2. IInv /\ ResultsKept /\ [Next]_vars => ResultsKept'
  BY NextResultsKept
<1>3. ResultsKept => MechanicalResultsKept
  BY DEF ResultsKept
<1> QED
  BY <1>1, <1>2, <1>3, SpecIInv, PTL DEF Spec

-----------------------------------------------------------------------------
(* Evaluation implements RunLifecycle *)

\* What becomes of a run, worked on or not, is what RunLifecycle allows, through
\* refreshes, restarts with other settings, failed requests, crashes and late
\* results (worker.py, checkers.py evaluate()).
Lifecycle ==
  INSTANCE RunLifecycle WITH
    Assets <- {"asset"}, state <- [a \in {"asset"} |-> [n \in DOMAIN runs |-> runs[n].state]]

\* A run that was followed by another is stale, and nothing revives it.
OlderRetired == \A n \in DOMAIN runs : n # Current => runs[n].state = "stale"

\* The last run moves, or a new one retires it.
LastMoves ==
  /\ Len(runs') = Len(runs) /\ Len(runs) > 0
  /\ \A n \in DOMAIN runs : n # Current => runs'[n].state = runs[n].state
  /\ \/ runs'[Current].state = runs[Current].state
     \/ <<runs[Current].state, runs'[Current].state>> \in Lifecycle!Moves

NewRun ==
  /\ Len(runs') = Len(runs) + 1
  /\ \A n \in DOMAIN runs :
       runs'[n].state = IF n = Current THEN "stale" ELSE runs[n].state
  /\ runs'[Len(runs) + 1].state = "awaiting_scope"

RunsTyped == runs \in Seq(RunRow) /\ Len(runs) \in Nat /\ DOMAIN runs = 1 .. Len(runs)

LEMMA TypedRuns ==
  ASSUME Typed
  PROVE  RunsTyped
BY DEF Typed, RunsTyped

LEMMA OtherRun ==
  ASSUME Typed, NEW v, NEW provider, runs' = Scheduled(v, provider)
  PROVE  NewRun
<1> DEFINE k == Len(runs)
           old == [n \in DOMAIN runs |-> IF n = Current THEN [runs[n] EXCEPT !.state = "stale"]
                                         ELSE runs[n]]
           new == [version |-> v, provider |-> provider, state |-> "awaiting_scope",
                   attempts |-> 0, results |-> {}]
           T == {old[n] : n \in DOMAIN runs} \cup {new}
<1>1. runs \in Seq(RunRow) /\ k \in Nat /\ DOMAIN runs = 1 .. k
  BY TypedRuns DEF RunsTyped
<1>2. ASSUME NEW n \in 1 .. k
      PROVE  old[n].state = IF n = Current THEN "stale" ELSE runs[n].state
  <2>1. runs[n] \in RunRow
    BY <1>1
  <2>2. old[n] = IF n = Current THEN [runs[n] EXCEPT !.state = "stale"] ELSE runs[n]
    BY <1>1
  <2> HIDE DEF old
  <2> QED
    BY <2>1, <2>2 DEF RunRow
<1>3. new.state = "awaiting_scope" /\ new \in T
  OBVIOUS
<1>4. old \in [1 .. k -> T]
  BY <1>1
<1>5. runs' = Append(old, new)
  BY DEF Scheduled
<1> HIDE DEF old, new, T
<1>6. old \in Seq(T) /\ Len(old) = k
  BY <1>1, <1>4, FunctionIsSeq
<1>7. Len(runs') = k + 1 /\ runs'[k + 1] = new /\ \A n \in 1 .. k : runs'[n] = old[n]
  BY <1>3, <1>5, <1>6, AppendToSeq
<1> QED
  BY <1>1, <1>2, <1>3, <1>7 DEF NewRun

\* A run that is not stale is the last, and what rewrites it is a move of it.
LEMMA RowMoves ==
  ASSUME Typed, OlderRetired, NEW n \in DOMAIN runs, runs[n].state # "stale",
         NEW row, runs' = [runs EXCEPT ![n] = row],
         \/ row.state = runs[n].state
         \/ <<runs[n].state, row.state>> \in Lifecycle!Moves
  PROVE  LastMoves
<1>1. RunsTyped /\ n = Current
  BY TypedRuns DEF OlderRetired
<1>2. Len(runs') = Len(runs) /\ Len(runs) > 0
  BY <1>1 DEF RunsTyped, Current
<1>3. runs'[n] = row /\ \A m \in DOMAIN runs : m # n => runs'[m] = runs[m]
  BY <1>1 DEF RunsTyped
<1> QED
  BY <1>1, <1>2, <1>3 DEF LastMoves

LEMMA StateMoves ==
  ASSUME Typed, OlderRetired, NEW n \in DOMAIN runs, NEW s,
         runs' = [runs EXCEPT ![n].state = s],
         <<runs[n].state, s>> \in Lifecycle!Moves
  PROVE  LastMoves
<1> DEFINE row == [runs[n] EXCEPT !.state = s]
<1>1. runs[n] \in RunRow
  BY TypedRuns DEF RunsTyped
<1>2. row.state = s
  BY <1>1 DEF RunRow
<1>3. runs' = [runs EXCEPT ![n] = row]
  BY DEF Typed
<1>4. runs[n].state # "stale"
  BY DEF Lifecycle!Moves
<1> HIDE DEF row
<1> QED
  BY <1>2, <1>3, <1>4, RowMoves

LEMMA ClaimMoves ==
  ASSUME Typed, OlderRetired, Claim
  PROVE  LastMoves
<1> DEFINE n == Current
           row == [runs[n] EXCEPT !.state = "processing", !.attempts = @ + 1]
<1>1. n \in DOMAIN runs /\ runs[n].state \in {"queued", "processing"}
  BY TypedRuns DEF Claim, Waiting, RunsTyped, Current
<1>2. runs[n] \in RunRow
  BY <1>1, TypedRuns DEF RunsTyped
<1>3. row.state = "processing"
  BY <1>2 DEF RunRow
<1>4. runs' = [runs EXCEPT ![n] = row]
  BY <1>1 DEF Claim, Typed
<1>5. runs[n].state = "processing" \/ <<runs[n].state, "processing">> \in Lifecycle!Moves
  BY <1>1 DEF Lifecycle!Moves
<1> HIDE DEF row, n
<1> QED
  BY <1>1, <1>3, <1>4, <1>5, RowMoves

LEMMA ResultMoves ==
  ASSUME Typed, OlderRetired, FinishResult
  PROVE  LastMoves
<1> DEFINE s == IF result.error = "transient" THEN "failed" ELSE "completed"
           row == [runs[held] EXCEPT !.state = s, !.results = @ \cup {result}]
<1>1. held \in DOMAIN runs /\ runs[held].state = "processing"
  BY DEF FinishResult, Accepted, Run, Typed
<1>2. runs[held] \in RunRow
  BY <1>1, TypedRuns DEF RunsTyped
<1>3. row.state = s
  BY <1>2 DEF RunRow
<1>4. runs' = [runs EXCEPT ![held] = row]
  BY <1>1 DEF FinishResult, Typed
<1>5. <<runs[held].state, s>> \in Lifecycle!Moves
  BY <1>1 DEF Lifecycle!Moves
<1> HIDE DEF row, s
<1> QED
  BY <1>1, <1>3, <1>4, <1>5, RowMoves

LEMMA NextMoves ==
  ASSUME Typed, TurnFounded, OlderRetired, [Next]_vars
  PROVE  UNCHANGED runs \/ LastMoves \/ NewRun
<1>1. CASE UNCHANGED vars
  BY <1>1 DEF vars
<1>2. ASSUME NEW v \in Versions, Submit(v) PROVE NewRun
  BY <1>2, OtherRun DEF Submit
<1>3. CASE RefreshStale
  BY <1>3, OtherRun DEF RefreshStale
<1>4. CASE Scope
  <2>1. Current \in DOMAIN runs /\ <<runs[Current].state, "queued">> \in Lifecycle!Moves
    BY <1>4, TypedRuns DEF Scope, RunsTyped, Current, Lifecycle!Moves
  <2> QED
    BY <1>4, <2>1, StateMoves DEF Scope
<1>5. CASE ClaimNothing
  <2>1. CASE Exhausted /\ runs' = [runs EXCEPT ![Current].state = "failed"]
    <3>1. Current \in DOMAIN runs /\ <<runs[Current].state, "failed">> \in Lifecycle!Moves
      BY <2>1, TypedRuns DEF Exhausted, Waiting, RunsTyped, Current, Lifecycle!Moves
    <3> QED
      BY <2>1, <3>1, StateMoves
  <2> QED
    BY <1>5, <2>1 DEF ClaimNothing
<1>6. CASE Evaluate
  BY <1>6, EvaluateStep DEF EvaluateGoes
<1>7. CASE FinishDiscard
  <2>1. CASE Run.state = "processing"
    <3>1. held \in DOMAIN runs /\ <<runs[held].state, "stale">> \in Lifecycle!Moves
      BY <1>7, <2>1 DEF FinishDiscard, Typed, Run, Lifecycle!Moves
    <3>2. runs' = [runs EXCEPT ![held].state = "stale"]
      BY <1>7, <2>1 DEF FinishDiscard
    <3> QED
      BY <3>1, <3>2, StateMoves
  <2> QED
    BY <1>7, <2>1 DEF FinishDiscard
<1>8. CASE FinishRetry
  <2>1. held \in DOMAIN runs /\ <<runs[held].state, "queued">> \in Lifecycle!Moves
    BY <1>8 DEF FinishRetry, Accepted, Typed, Run, Lifecycle!Moves
  <2> QED
    BY <1>8, <2>1, StateMoves DEF FinishRetry
<1>9. CASE Crash
  BY <1>9 DEF Crash
<1>10. ASSUME NEW p \in Providers, RestartApi(p) PROVE UNCHANGED runs
  BY <1>10 DEF RestartApi, Restart
<1>11. ASSUME NEW s \in Settings, RestartWorker(s) \/ RestartTogether(s) PROVE UNCHANGED runs
  BY <1>11 DEF RestartWorker, RestartTogether, Restart
<1> QED
  BY <1>1, <1>2, <1>3, <1>4, <1>5, <1>6, <1>7, <1>8, <1>9, <1>10, <1>11,
     ClaimMoves, ResultMoves DEF Next, Finish

LEMMA RetiredStay ==
  ASSUME Typed, Typed', OlderRetired, UNCHANGED runs \/ LastMoves \/ NewRun
  PROVE  OlderRetired'
<1>1. RunsTyped /\ RunsTyped'
  BY TypedRuns DEF RunsTyped, Typed
<1>2. CASE UNCHANGED runs
  BY <1>2 DEF OlderRetired, Current
<1>3. CASE LastMoves
  BY <1>1, <1>3 DEF LastMoves, RunsTyped, OlderRetired, Current
<1>4. CASE NewRun
  BY <1>1, <1>4 DEF NewRun, RunsTyped, OlderRetired, Current
<1> QED
  BY <1>2, <1>3, <1>4

StatesOf(q) == [n \in DOMAIN q |-> q[n].state]

LEMMA StatesOfRuns ==
  ASSUME NEW q \in Seq(RunRow)
  PROVE  /\ StatesOf(q) \in Seq(States)
         /\ Len(StatesOf(q)) = Len(q) /\ Len(q) \in Nat /\ DOMAIN q = 1 .. Len(q)
         /\ \A n \in 1 .. Len(q) : StatesOf(q)[n] = q[n].state
<1>1. DOMAIN q = 1 .. Len(q) /\ Len(q) \in Nat
  OBVIOUS
<1>2. ASSUME NEW n \in 1 .. Len(q) PROVE q[n].state \in States
  <2>1. q[n] \in RunRow
    BY <1>1
  <2> QED
    BY <2>1 DEF RunRow
<1>3. StatesOf(q) \in [1 .. Len(q) -> States]
  BY <1>1, <1>2 DEF StatesOf
<1>4. StatesOf(q) \in Seq(States) /\ Len(StatesOf(q)) = Len(q)
  BY <1>1, <1>3, FunctionIsSeq
<1> QED
  BY <1>1, <1>4 DEF StatesOf

LEMMA StepRefines ==
  ASSUME Typed, Typed', UNCHANGED runs \/ LastMoves \/ NewRun
  PROVE  Lifecycle!Next \/ UNCHANGED runs
<1> DEFINE s == StatesOf(runs)
           t == StatesOf(runs')
           k == Len(runs)
<1>1. /\ s \in Seq(States) /\ Len(s) = k /\ k \in Nat /\ DOMAIN runs = 1 .. k
      /\ \A n \in 1 .. k : s[n] = runs[n].state
  BY StatesOfRuns DEF Typed
<1>2. /\ t \in Seq(States) /\ Len(t) = Len(runs')
      /\ \A n \in 1 .. Len(runs') : t[n] = runs'[n].state
  BY StatesOfRuns DEF Typed
<1>3. /\ Lifecycle!Unchanged("asset") <=> t = s
      /\ Lifecycle!Progress("asset") <=>
           /\ Len(t) = Len(s) /\ Len(s) > 0
           /\ \A n \in 1 .. Len(s) - 1 : t[n] = s[n]
           /\ <<s[Len(s)], t[Len(s)]>> \in Lifecycle!Moves
      /\ Lifecycle!Supersede("asset") <=>
           /\ Len(t) = Len(s) + 1
           /\ \A n \in 1 .. Len(s) - 1 : t[n] = s[n]
           /\ Len(s) > 0 => t[Len(s)] = "stale"
           /\ t[Len(s) + 1] = "awaiting_scope"
  BY DEF Lifecycle!Unchanged, Lifecycle!Progress, Lifecycle!Supersede,
         Lifecycle!OlderRunsStay, StatesOf
<1>4. Lifecycle!Next <=>
        \/ Lifecycle!Unchanged("asset") \/ Lifecycle!Progress("asset")
        \/ Lifecycle!Unchanged("asset") \/ Lifecycle!Supersede("asset")
  <2>1. [a \in {"asset"} |-> t] \in [{"asset"} -> Seq(Lifecycle!RunStates)]
    BY <1>2 DEF States, Lifecycle!RunStates
  <2> QED
    BY <2>1 DEF Lifecycle!Next, StatesOf
<1> HIDE DEF s, t, k
<1>5. CASE LastMoves
  <2>1. /\ Len(t) = k /\ k > 0 /\ k \in 1 .. k
        /\ \A n \in 1 .. k : n # k => t[n] = s[n]
        /\ t[k] = s[k] \/ <<s[k], t[k]>> \in Lifecycle!Moves
    <3>1. /\ Len(runs') = k /\ k > 0
          /\ \A n \in DOMAIN runs : n # k => runs'[n].state = runs[n].state
          /\ \/ runs'[k].state = runs[k].state
             \/ <<runs[k].state, runs'[k].state>> \in Lifecycle!Moves
      BY <1>5 DEF LastMoves, Current, k
    <3>2. \A n \in 1 .. k : s[n] = runs[n].state /\ t[n] = runs'[n].state
      BY <1>1, <1>2, <3>1
    <3>3. k \in 1 .. k
      BY <1>1, <3>1
    <3> QED
      BY <1>1, <1>2, <3>1, <3>2, <3>3
  <2>2. CASE t[k] = s[k]
    <3>1. t = s
      BY <1>1, <1>2, <2>1, <2>2
    <3> QED
      BY <1>3, <1>4, <3>1
  <2>3. CASE <<s[k], t[k]>> \in Lifecycle!Moves
    <3>1. \A n \in 1 .. k - 1 : t[n] = s[n]
      BY <1>1, <2>1
    <3> QED
      BY <1>1, <1>3, <1>4, <2>1, <2>3, <3>1
  <2> QED
    BY <2>1, <2>2, <2>3
<1>6. CASE NewRun
  <2>1. /\ Len(t) = k + 1
        /\ \A n \in 1 .. k : t[n] = IF n = k THEN "stale" ELSE s[n]
        /\ t[k + 1] = "awaiting_scope"
    BY <1>1, <1>2, <1>6 DEF NewRun, Current, k
  <2>2. /\ \A n \in 1 .. k - 1 : t[n] = s[n]
        /\ k > 0 => t[k] = "stale"
    BY <1>1, <2>1
  <2> QED
    BY <1>1, <1>3, <1>4, <2>1, <2>2
<1> QED
  BY <1>5, <1>6

\* A worker's turn with a model is one of the turns that RunLifecycle knows: what
\* a request, a failure or a restart does to a run is to move it, once, as the
\* queue and the service do, or to leave it to the run that replaces it.
THEOREM EvaluationImplementsLifecycle == Spec => Lifecycle!Spec
<1>1. Init => Lifecycle!Init /\ OlderRetired
  BY DEF Init, Lifecycle!Init, OlderRetired
<1>2. IInv /\ OlderRetired /\ [Next]_vars => OlderRetired'
  BY NextMoves, NextIInv, RetiredStay DEF IInv
<1>3. IInv /\ OlderRetired /\ [Next]_vars =>
        [Lifecycle!Next]_([a \in {"asset"} |-> [n \in DOMAIN runs |-> runs[n].state]])
  BY NextMoves, NextIInv, StepRefines DEF IInv
<1> QED
  BY <1>1, <1>2, <1>3, SpecIInv, PTL DEF Spec, Lifecycle!Spec
=============================================================================
