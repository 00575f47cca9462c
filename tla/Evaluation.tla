------------------------------ MODULE Evaluation ------------------------------
(***************************************************************************)
(* How a worker evaluates a run: the mechanical checks, the two requests   *)
(* to a model provider (assurance/providers.py), the validation of its     *)
(* answers, and what evaluate() in assurance/checkers.py and the worker    *)
(* make of them.                                                           *)
(*                                                                         *)
(* The API and the worker are started with settings of their own.  A run   *)
(* freezes the API's; the worker requests with its own.  The worker's turn *)
(* is refresh, claim, extract, compare, finish, and between any two of     *)
(* them somebody may submit, approve a scope or restart a process.  Leases *)
(* and several workers are module JobQueue.                                *)
(***************************************************************************)
EXTENDS Naturals, FiniteSets, Sequences, SequencesExt

CONSTANTS
  Items,        \* the extracted items of the content
  Checks,       \* the mechanical examinations
  Versions,     \* what may be submitted
  Extractions,  \* the answers a model may give to the first request
  Failures,     \* how a request may fail: "transient", "permanent", "odd"
  MaxAttempts,
  ClaimIds,     \* the identifiers its answer to the second request may name
  MaxComparisons, MaxRuns, MaxRestarts  \* bounds: comparisons in such an answer,
                                        \* runs, restarts with other settings

Grades == {"pass", "fail", "unknown"}

\* A version and its brief's consent, whether its text can be extracted, and
\* what the mechanical examinations say of it.
ASSUME VersionsAssumption ==
  Versions \subseteq [consent : BOOLEAN, supported : BOOLEAN, mechanical : [Checks -> Grades]]

\* An examination is either mechanical or the model's (the plan's strategy).
ASSUME ExaminationsAssumption == Items \cap Checks = {}

\* An extraction's list of items is finite.
ASSUME ItemsAssumption == IsFiniteSet(Items)

ASSUME FailuresAssumption == Failures \subseteq {"transient", "permanent", "odd"}

\* The claims of an answer are a list.
ASSUME ExtractionsAssumption == \A x \in Extractions : DOMAIN x.claims \subseteq Nat

\* CAS_JOB_ATTEMPTS, an int.
ASSUME AttemptsAssumption == MaxAttempts \in Nat

VARIABLES
  runs,      \* the runs of one asset with their job and their machine_results
  version,   \* its latest version
  api,       \* the provider the API was started with
  settings,  \* what the worker was started with
  pc, held,  \* what the worker does next, and for which run
  extracted, \* the validated answer to its first request
  result,    \* what it is about to store
  sent,      \* how many requests went out for each run
  restarts,
  together   \* history: API and worker have had one provider all the time

vars ==
  <<runs, version, api, settings, pc, held, extracted, result, sent, restarts, together>>
turn == <<pc, held, extracted, result>>
setup == <<api, settings, restarts, together>>

Providers == {"disabled", "fixture", "chat"}
Settings == [provider: Providers, allow: BOOLEAN]

Current == Len(runs)
Run == runs[held]

Scheduled(v, provider) ==
  Append([n \in DOMAIN runs |-> IF n = Current THEN [runs[n] EXCEPT !.state = "stale"]
                                ELSE runs[n]],
         [version |-> v, provider |-> provider, state |-> "awaiting_scope",
          attempts |-> 0, results |-> {}])

\* The run is the current one and was scheduled by an evaluator like this one.
Fresh(n, provider) ==
  n = Current /\ runs[n].state # "stale" /\ runs[n].provider = provider

Init ==
  /\ runs = <<>> /\ sent = <<>>
  /\ version \in Versions
  /\ api \in Providers /\ settings \in Settings
  /\ pc = "refresh" /\ held = 0 /\ extracted = <<>> /\ result = <<>>
  /\ restarts = 0 /\ together = (api = settings.provider)

(* The API *)

Submit(v) ==
  /\ Len(runs) < MaxRuns
  /\ version' = v
  /\ runs' = Scheduled(v, api) /\ sent' = Append(sent, 0)
  /\ UNCHANGED <<setup, turn>>

Scope ==
  /\ runs # <<>> /\ Fresh(Current, api)
  /\ runs[Current].state = "awaiting_scope"
  /\ runs' = [runs EXCEPT ![Current].state = "queued"]
  /\ UNCHANGED <<version, sent, setup, turn>>

(* The worker's turn *)

Goto(label, n, x, r) == pc' = label /\ held' = n /\ extracted' = x /\ result' = r
Forget == Goto("refresh", 0, <<>>, <<>>)

\* Mutant: the refresh looks at the stored state of the run alone.
RefreshStale_StoredState ==
  /\ pc = "refresh"
  /\ IF runs # <<>> /\ runs[Current].state = "stale"
     THEN /\ Len(runs) < MaxRuns
          /\ runs' = Scheduled(version, settings.provider) /\ sent' = Append(sent, 0)
     ELSE UNCHANGED <<runs, sent>>
  /\ Goto("claim", 0, <<>>, <<>>)
  /\ UNCHANGED <<version, setup>>

RefreshStale ==
  /\ pc = "refresh"
  /\ IF runs # <<>> /\ ~Fresh(Current, settings.provider)
     THEN /\ Len(runs) < MaxRuns
          /\ runs' = Scheduled(version, settings.provider) /\ sent' = Append(sent, 0)
     ELSE UNCHANGED <<runs, sent>>
  /\ Goto("claim", 0, <<>>, <<>>)
  /\ UNCHANGED <<version, setup>>

\* Queued, or left by a worker that died and whose lease is over.
Waiting == runs # <<>> /\ runs[Current].state \in {"queued", "processing"}
Exhausted == Waiting /\ runs[Current].state = "processing" /\ runs[Current].attempts >= MaxAttempts

\* Mutant: attempts are counted when they fail, not when they start.
Claim_CountsLater ==
  /\ pc = "claim" /\ Waiting /\ runs[Current].attempts < MaxAttempts
  /\ runs' = [runs EXCEPT ![Current].state = "processing"]
  /\ Goto("extract", Current, <<>>, <<>>)
  /\ UNCHANGED <<version, sent, setup>>

Claim ==
  /\ pc = "claim" /\ Waiting /\ runs[Current].attempts < MaxAttempts
  /\ runs' = [runs EXCEPT ![Current].state = "processing", ![Current].attempts = @ + 1]
  /\ Goto("extract", Current, <<>>, <<>>)
  /\ UNCHANGED <<version, sent, setup>>

\* Nothing waits, or a retry's delay or a dead worker's lease is not over.  A
\* lease that is over after the last attempt fails the run.
ClaimNothing ==
  /\ pc = "claim"
  /\ \/ UNCHANGED runs
     \/ Exhausted /\ runs' = [runs EXCEPT ![Current].state = "failed"]
  /\ Forget
  /\ UNCHANGED <<version, sent, setup>>

(* evaluate() *)

Unknown(S) == [e \in S |-> "unknown"]
Mechanical(v) == IF v.supported THEN v.mechanical ELSE Unknown(Checks)

\* Every examination's outcome: the mechanical ones of the content, the judged items.
Examined(judged) ==
  [e \in Checks \cup Items |-> IF e \in Items THEN judged[e] ELSE Mechanical(Run.version)[e]]

\* What is stored; the order of its lists of claims and comparisons is left out.
Result(checks, claims, comparisons, error) ==
  [checks |-> checks, claims |-> claims, comparisons |-> comparisons, error |-> error,
   label |-> settings.provider]

\* Mutant: every examination becomes unknown with the model's.
Errored_LosesAll(error) == Result(Unknown(Checks \cup Items), {}, {}, error)

\* A ProviderError leaves the model's examinations unknown.
Errored(error) == Result(Examined(Unknown(Items)), {}, {}, error)

\* Any other exception leaves everything unknown, and counts as transient.
Broken == Result(Unknown(Checks \cup Items), {}, {}, "transient")

Outcome(failure) == IF failure = "odd" THEN Broken ELSE Errored(failure)

\* Consent is asked of the brief when the run was scheduled for a chat provider.
Permitted(run) == run.version.supported /\ (run.provider = "chat" => run.version.consent)

\* request() sends only with the operator's consent, a key, a URL and a model.
Sends == settings.provider = "chat" /\ settings.allow

\* Evaluation without a provider: blocked, not configured, or not able to send.
EvaluateAlone ==
  /\ pc = "extract"
  /\ ~Permitted(Run) \/ (settings.provider # "fixture" /\ ~Sends)
  /\ Goto("finish", held, <<>>, Errored("permanent"))
  /\ UNCHANGED <<runs, version, sent, setup>>

\* The lists of an answer are sequences: they may repeat an item or an identifier.
ValidExtraction(x) ==
  /\ IsInjective(x.reviewed) /\ Range(x.reviewed) = Items
  /\ x.uncertain \subseteq Items
  /\ IsInjective([k \in DOMAIN x.claims |-> x.claims[k].id])
  /\ \A k \in DOMAIN x.claims :
       x.claims[k].id # "" /\ x.claims[k].item \in Items /\ x.claims[k].exact

Extracted(x) ==
  IF ValidExtraction(x) THEN Goto("compare", held, x, <<>>)
  ELSE Goto("finish", held, <<>>, Errored("permanent"))

\* The fixture reviews every item and makes each that is not blank one claim.
FixtureExtraction(reviewed, texts) ==
  [reviewed |-> reviewed, uncertain |-> {},
   claims |-> [k \in DOMAIN texts |-> [id |-> texts[k], item |-> texts[k], exact |-> TRUE]]]

ExtractFixture ==
  /\ pc = "extract" /\ Permitted(Run) /\ settings.provider = "fixture"
  /\ \E reviewed \in SetToSeqs(Items), texts \in SetToAllKPermutations(Items) :
       Extracted(FixtureExtraction(reviewed, texts))
  /\ UNCHANGED <<runs, version, sent, setup>>

Extract ==
  /\ pc = "extract" /\ Permitted(Run) /\ Sends
  /\ sent' = [sent EXCEPT ![held] = @ + 1]
  /\ \/ \E x \in Extractions : Extracted(x)
     \/ \E f \in Failures : Goto("finish", held, <<>>, Outcome(f))
  /\ UNCHANGED <<runs, version, setup>>

\* The items or the sources are too much for one request: nothing is sent.
ContextLimit ==
  /\ pc \in {"extract", "compare"} /\ Permitted(Run) /\ Sends
  /\ Goto("finish", held, <<>>, Errored("permanent"))
  /\ UNCHANGED <<runs, version, sent, setup>>

Outcomes == {"supported", "contradicted", "insufficient_evidence"}

\* What is said of a claim and its quotes: none, exact ones, or invented ones.
Comparisons ==
  [claim: ClaimIds, outcome: Outcomes, quotes: {"none", "exact", "invented"}]

Named(y) == [k \in DOMAIN y |-> y[k].claim]
Ids(claims) == {claims[k].id : k \in DOMAIN claims}

QuotesHold(y) ==
  \A k \in DOMAIN y :
    /\ y[k].quotes # "invented"
    /\ y[k].outcome # "insufficient_evidence" => y[k].quotes # "none"

\* Mutant: a claim may be compared twice.
ValidComparisons_Repeats(y, claims) == Range(Named(y)) = Ids(claims) /\ QuotesHold(y)

ValidComparisons(y, claims) ==
  IsInjective(Named(y)) /\ Range(Named(y)) = Ids(claims) /\ QuotesHold(y)

\* by_id: of several comparisons of a claim, the last.
ById(y, id) ==
  y[CHOOSE k \in DOMAIN y :
      y[k].claim = id /\ \A j \in DOMAIN y : y[j].claim = id => j <= k]

ItemOutcome(i, x, y) ==
  LET about == {k \in DOMAIN x.claims : x.claims[k].item = i}
      said == {ById(y, x.claims[k].id).outcome : k \in about}
  IN  IF i \in x.uncertain \/ said = {} \/ "insufficient_evidence" \in said THEN "unknown"
      ELSE IF "contradicted" \in said THEN "fail" ELSE "pass"

Compared(y) ==
  Goto("finish", held, <<>>,
    IF ValidComparisons(y, extracted.claims)
    THEN Result(Examined([i \in Items |-> ItemOutcome(i, extracted, y)]),
                Range(extracted.claims), Range(y), "none")
    ELSE Errored("permanent"))

\* The answer to the second request may leave a claim out, repeat one, or name
\* one that nobody made.
Answers == BoundedSeq(Comparisons, MaxComparisons)

\* The fixture compares each claim once, and quotes whatever it judges.
FixtureComparisons(claims, outcomes) ==
  [k \in DOMAIN claims |->
    [claim |-> claims[k].id, outcome |-> outcomes[k],
     quotes |-> IF outcomes[k] = "insufficient_evidence" THEN "none" ELSE "exact"]]

CompareFixture ==
  /\ pc = "compare" /\ settings.provider = "fixture"
  /\ \E outcomes \in [DOMAIN extracted.claims -> Outcomes] :
       Compared(FixtureComparisons(extracted.claims, outcomes))
  /\ UNCHANGED <<runs, version, sent, setup>>

Compare ==
  /\ pc = "compare" /\ Sends
  /\ sent' = [sent EXCEPT ![held] = @ + 1]
  /\ \/ \E y \in Answers : Compared(y)
     \/ \E f \in Failures : Goto("finish", held, <<>>, Outcome(f))
  /\ UNCHANGED <<runs, version, setup>>

(* finish() *)

Accepted == Run.state = "processing" /\ Fresh(held, settings.provider)

FinishDiscard ==
  /\ pc = "finish" /\ ~Accepted
  /\ runs' = IF Run.state = "processing" THEN [runs EXCEPT ![held].state = "stale"] ELSE runs
  /\ Forget
  /\ UNCHANGED <<version, sent, setup>>

Retries == result.error = "transient" /\ Run.attempts < MaxAttempts

FinishRetry ==
  /\ pc = "finish" /\ Accepted /\ Retries
  /\ runs' = [runs EXCEPT ![held].state = "queued"]
  /\ Forget
  /\ UNCHANGED <<version, sent, setup>>

FinishResult ==
  /\ pc = "finish" /\ Accepted /\ ~Retries
  /\ runs' = [runs EXCEPT
       ![held].state = IF result.error = "transient" THEN "failed" ELSE "completed",
       ![held].results = @ \cup {result}]
  /\ Forget
  /\ UNCHANGED <<version, sent, setup>>

(* Crashes and restarts *)

Crash ==
  /\ pc # "refresh"
  /\ Forget
  /\ UNCHANGED <<runs, version, sent, setup>>

Restart ==
  /\ restarts < MaxRestarts /\ restarts' = restarts + 1
  /\ together' = (together /\ api' = settings'.provider)
  /\ UNCHANGED <<runs, version, sent>>

RestartApi(p) == api' = p /\ UNCHANGED <<settings, turn>> /\ Restart

RestartWorker(s) == settings' = s /\ Forget /\ UNCHANGED api /\ Restart

\* Processes restarted together and with the same settings, as the comment on
\* the evaluator's fingerprint (settings.py 7-8) asks.
RestartTogether(s) == settings' = s /\ api' = s.provider /\ Forget /\ Restart

Evaluate ==
  EvaluateAlone \/ ExtractFixture \/ Extract \/ ContextLimit \/ CompareFixture \/ Compare

Finish == FinishDiscard \/ FinishRetry \/ FinishResult

Next ==
  \/ \E v \in Versions : Submit(v)
  \/ Scope
  \/ RefreshStale \/ Claim \/ ClaimNothing \/ Evaluate \/ Finish \/ Crash
  \/ \E p \in Providers : RestartApi(p)
  \/ \E s \in Settings : RestartWorker(s) \/ RestartTogether(s)

Spec == Init /\ [][Next]_vars

-----------------------------------------------------------------------------
(* Properties *)

\* Content goes to a model provider only when the brief's owner agreed to it,
\* in whatever order submissions, restarts and the worker's steps come.
TransmittedWithConsent ==
  \A n \in DOMAIN runs : sent[n] > 0 => runs[n].version.consent

\* It does when API and worker are always restarted together: a run scheduled
\* for another provider is then replaced by a refresh before its claim, between
\* whatever steps of a turn the restart came (checkers.py 322-325, worker.py 16-24).
ConsentWhenTogether == together => TransmittedWithConsent

\* Whatever fails about the model, a stored result has the mechanical outcomes
\* of the content, those of a run that failed after its last attempt included.
\* True as long as no answer has a shape that request() does not expect.
MechanicalResultsKept ==
  \A n \in DOMAIN runs : \A r \in runs[n].results :
    \A e \in Checks : r.checks[e] = Mechanical(runs[n].version)[e]

\* An item passes only with a claim about it, and with whatever is said of any
\* claim about it, once or more often, that it is supported, by a quote that is
\* in a source; after an error no item is judged.
PassRestsOnQuotes ==
  \A n \in DOMAIN runs : \A r \in runs[n].results :
    \A i \in Items : r.checks[i] # "unknown" =>
      LET about == {c \in r.claims : c.item = i}
          said(c) == {y \in r.comparisons : y.claim = c.id}
      IN  /\ r.error = "none" /\ about # {}
          /\ \A c \in about :
               /\ said(c) # {} /\ \A y \in said(c) : y.quotes = "exact"
               /\ r.checks[i] = "pass" => \A y \in said(c) : y.outcome = "supported"

\* Through crashes, lost answers and retries the content of a run goes out at
\* most twice for each attempt it is allowed.
TransmissionsBounded == \A n \in DOMAIN runs : sent[n] <= 2 * MaxAttempts
===============================================================================
