------------------------------- MODULE Evidence -------------------------------
(***************************************************************************)
(* What reviewers write into the runs of one asset while its sources       *)
(* change: evidence, and decisions that cite it (add_evidence, review and  *)
(* specialist in assurance/service.py).  A reviewer reads a run, and acts  *)
(* on what was read later, when the sources may have been decided anew or  *)
(* have expired, another reviewer may have decided, and the run may have   *)
(* been replaced by one that reads the same.                               *)
(*                                                                         *)
(* A snapshot is the one before with the last decision put in its place,   *)
(* which is what Snapshot!ReplayIsIncremental says of the replay in        *)
(* assemble_snapshot.  Runs, evidence and findings are numbered as they    *)
(* are created, 0 stands for none.                                         *)
(***************************************************************************)
EXTENDS Integers, Sequences, FiniteSets

CONSTANTS
  Sources,      \* the keys the asset's brief names
  Reviewers, Specialists,
  Factual,      \* criteria about facts: E2, E3, M1, M2
  Criteria,
  Exclusions,   \* criteria the brief excludes
  Reviews,      \* what a review may say: the ratings it gives, the finding it raises
  MaxRev,       \* bound: revisions of a source
  MaxRuns, MaxEvidence, MaxDecisions, MaxFindings   \* bounds

ASSUME ConstantsAssumption ==
  /\ Factual \subseteq Criteria /\ Exclusions \subseteq Criteria
  /\ Specialists \subseteq Reviewers
  /\ Reviews \subseteq
       [rated : SUBSET [criterion : Criteria, rating : 0 .. 4],
        raises : {"none", "major", "critical"}]

VARIABLES
  heads,     \* heads[s]: revision and status of the source's latest version
  expired,   \* sources whose latest version is past its effective dates
  runs,      \* the asset's runs, the last one current
  evidence,
  findings,  \* every finding ever raised, with the one it is related to
  desk       \* desk[r]: the run and the snapshot reviewer r has read

governance == <<heads, expired>>
record == <<evidence, findings>>
vars == <<heads, expired, runs, evidence, findings, desk>>

Current == Len(runs)
InForce(s) == heads[s].status = "approved" /\ s \notin expired

(* Runs *)

\* A run freezes what its sources are when it is scheduled.
NewRun(hs, ex) ==
  [state |-> "unfinished", log |-> <<>>, snapshots |-> <<>>,
   context |-> [s \in Sources |-> [rev |-> hs[s].rev,
                                   valid |-> hs[s].status = "approved" /\ s \notin ex]]]

Schedule(hs, ex) ==
  /\ Len(runs) < MaxRuns
  /\ runs' = Append([n \in DOMAIN runs |-> [runs[n] EXCEPT !.state = "stale"]], NewRun(hs, ex))

Fresh(n) ==
  /\ n = Current /\ runs[n].state # "stale"
  /\ \A s \in Sources :
       /\ runs[n].context[s].rev = heads[s].rev
       /\ runs[n].context[s].valid => InForce(s)

\* A new version of a source has a period of its own.
PutResource(s) ==
  /\ heads[s].rev < MaxRev
  /\ heads' = [heads EXCEPT ![s] = [rev |-> @.rev + 1, status |-> "candidate"]]
  /\ expired' = expired \ {s}
  /\ Schedule(heads', expired')
  /\ UNCHANGED <<record, desk>>

ResourceDecision(s, status) ==
  /\ heads[s].rev < MaxRev
  /\ heads' = [heads EXCEPT ![s] = [rev |-> @.rev + 1, status |-> status]]
  /\ Schedule(heads', expired)
  /\ UNCHANGED <<expired, record, desk>>

Expire(s) ==
  /\ expired' = expired \cup {s}
  /\ s \notin expired
  /\ UNCHANGED <<heads, runs, record, desk>>

\* By request, for a new version of the content, or by a worker's refresh.
Reassess == Schedule(heads, expired) /\ UNCHANGED <<governance, record, desk>>

\* The worker's result: a first snapshot, of nothing but the machine's findings,
\* which no reviewer's criterion rests on.
FinishResult ==
  /\ Fresh(Current) /\ runs[Current].state = "unfinished"
  /\ runs' = [runs EXCEPT ![Current].state = "completed",
       ![Current].snapshots = <<[ratings |-> [k \in {} |-> 0], open |-> {}, specialist |-> FALSE]>>]
  /\ UNCHANGED <<governance, record, desk>>

(* Reviewers *)

\* get_run shows the head snapshot of any run, a replaced one included.
GetRun(r, n) ==
  /\ desk' = [desk EXCEPT ![r] = [run |-> n, snapshot |-> Len(runs[n].snapshots)]]
  /\ UNCHANGED <<governance, runs, record>>

\* Mutant: any source of the run will do.
Citable_AnySource(n, s) == s \in DOMAIN runs[n].context

\* A source is quoted only if the run froze it as valid.
Citable(n, s) == s \in DOMAIN runs[n].context /\ runs[n].context[s].valid

\* Evidence may be added before the run is completed.
AddEvidence(r, source) ==
  LET n == desk[r].run
  IN  /\ n # 0 /\ Fresh(n)
      /\ source # "none" => Citable(n, source)
      /\ Len(evidence) < MaxEvidence
      /\ evidence' = Append(evidence, [run |-> n, source |-> source])
      /\ UNCHANGED <<governance, runs, findings, desk>>

Latest(n) == runs[n].snapshots[Len(runs[n].snapshots)]

\* Mutant: any snapshot of the current run will do.
ExactSnapshot_AnySnapshot(r) ==
  LET n == desk[r].run
  IN  /\ n # 0 /\ Fresh(n) /\ runs[n].state = "completed"
      /\ desk[r].snapshot \in DOMAIN runs[n].snapshots

\* The run is current, completed, and shows what the reviewer has read.
ExactSnapshot(r) ==
  LET n == desk[r].run
  IN  /\ n # 0 /\ Fresh(n) /\ runs[n].state = "completed"
      /\ desk[r].snapshot = Len(runs[n].snapshots)

\* Mutant: evidence of any run will do.
OfThisRun_AnyRun(n, e) == e \in DOMAIN evidence

OfThisRun(n, e) == e \in DOMAIN evidence /\ evidence[e].run = n

\* A passing judgement about facts needs a quoted source among its evidence.
Supported(k, rating, cited) ==
  k \in Factual /\ rating >= 3 => \E e \in cited : evidence[e].source # "none"

Decisions == UNION {{<<n, i>> : i \in DOMAIN runs[n].log} : n \in DOMAIN runs}

\* add_decision and assemble_snapshot.
Decided(n, decision, snapshot) ==
  /\ Cardinality(Decisions) < MaxDecisions
  /\ runs' = [runs EXCEPT ![n].log = Append(@, decision),
                          ![n].snapshots = Append(@, snapshot)]

\* A finding may be related to one that the snapshot shows, whatever became of it.
Shown(n) == {f \in DOMAIN findings : findings[f].run = n}

\* The ratings of a snapshot when a review has given its own, each on what it cites.
Rated(before, rated, cites) ==
  [k \in DOMAIN before \cup {q.criterion : q \in rated} |->
     IF \E q \in rated : q.criterion = k
     THEN LET q == CHOOSE p \in rated : p.criterion = k
          IN  [rating |-> q.rating, evidence |-> cites[q]]
     ELSE before[k]]

\* One review rates criteria, raises a finding and resolves others, or does some
\* of it.  Each rating cites evidence of its own; noted is what the finding and
\* the resolutions cite.
Review(r, rated, raises, cites, noted, related, resolves) ==
  LET n == desk[r].run
      new == IF raises = "none" THEN {} ELSE {Len(findings) + 1}
      cited == noted \cup UNION {cites[q] : q \in rated}
  IN  /\ ExactSnapshot(r)
      /\ rated # {} \/ raises # "none" \/ resolves # {}
      /\ noted # {} <=> raises # "none" \/ resolves # {}
      /\ \A p, q \in rated : p.criterion = q.criterion => p = q
      /\ \A e \in cited : OfThisRun(n, e)
      /\ \A q \in rated : /\ q.criterion \notin Exclusions /\ cites[q] # {}
                          /\ Supported(q.criterion, q.rating, cites[q])
      /\ related # 0 => raises # "none" /\ related \in Shown(n)
      /\ resolves \subseteq Latest(n).open
      /\ (\E f \in resolves : findings[f].severity = "critical") => r \in Specialists
      /\ Len(findings) + Cardinality(new) <= MaxFindings
      /\ findings' = IF new = {} THEN findings
                     ELSE Append(findings, [run |-> n, severity |-> raises, related |-> related])
      /\ Decided(n, [by |-> r, kind |-> "review", on |-> desk[r].snapshot, cited |-> cited,
                     rated |-> rated, raised |-> new, resolved |-> resolves],
           [ratings |-> Rated(Latest(n).ratings, rated, cites),
            open |-> (Latest(n).open \ resolves) \cup new,
            specialist |-> FALSE])
      /\ UNCHANGED <<governance, evidence, desk>>

Specialist(r) ==
  LET n == desk[r].run
  IN  /\ r \in Specialists /\ ExactSnapshot(r)
      /\ Decided(n, [by |-> r, kind |-> "specialist", on |-> desk[r].snapshot, cited |-> {},
                     rated |-> {}, raised |-> {}, resolved |-> {}],
                 [Latest(n) EXCEPT !.specialist = TRUE])
      /\ UNCHANGED <<governance, record, desk>>

Init ==
  /\ heads \in [Sources -> [rev : {1}, status : {"candidate", "approved"}]]
  /\ expired = {}
  /\ runs = <<NewRun(heads, {})>>
  /\ evidence = <<>> /\ findings = <<>>
  /\ desk = [r \in Reviewers |-> [run |-> 0, snapshot |-> 0]]

Next ==
  \/ \E s \in Sources :
       \/ PutResource(s) \/ Expire(s)
       \/ \E status \in {"approved", "revoked"} : ResourceDecision(s, status)
  \/ Reassess \/ FinishResult
  \/ \E r \in Reviewers :
       \/ \E n \in DOMAIN runs : GetRun(r, n)
       \/ \E source \in Sources \cup {"none"} : AddEvidence(r, source)
       \/ \E review \in Reviews, noted \in SUBSET (DOMAIN evidence),
            related \in 0 .. Len(findings) + 1, resolves \in SUBSET (DOMAIN findings) :
            \E cites \in [review.rated -> SUBSET (DOMAIN evidence)] :
              Review(r, review.rated, review.raises, cites, noted, related, resolves)
       \/ Specialist(r)

Spec == Init /\ [][Next]_vars

-----------------------------------------------------------------------------
(* Properties *)

Unchanged(n) ==
  \A s \in Sources : /\ runs[n].context[s].rev = heads[s].rev
                     /\ runs[n].context[s].valid => InForce(s)

\* While nothing the run froze has changed, every passing judgement about facts
\* that its snapshot shows rests on a quote from a source that is approved and
\* in force now, whoever added the quote, before whichever decision, and to
\* whatever run of the asset the reviewer was reading (service.py 745-784, 836-847).
FactualRatingsGoverned ==
  \A n \in DOMAIN runs : runs[n].snapshots # <<>> /\ Unchanged(n) =>
    \A k \in Factual \cap DOMAIN Latest(n).ratings : Latest(n).ratings[k].rating >= 3 =>
      \E e \in Latest(n).ratings[k].evidence :
        evidence[e].source # "none" /\ InForce(evidence[e].source)

\* What a decision cites was recorded in the same run, by anybody; a finding
\* leads back, through those it is related to, to one raised on its own in that
\* run; and what is open was raised there (service.py 826-835, 880-892).
RecordTraceable ==
  /\ \A n \in DOMAIN runs :
       /\ \A i \in DOMAIN runs[n].log : \A e \in runs[n].log[i].cited : evidence[e].run = n
       /\ runs[n].snapshots # <<>> => \A f \in Latest(n).open : findings[f].run = n
  /\ \A f \in DOMAIN findings : findings[f].related # 0 =>
       findings[f].related < f /\ findings[findings[f].related].run = findings[f].run

\* After is what was read, amended by what the decision says and by nothing else.
Amends(decision, read, after) ==
  LET rated == {q.criterion : q \in decision.rated}
  IN  /\ DOMAIN after.ratings = DOMAIN read.ratings \cup rated
      /\ \A q \in decision.rated : after.ratings[q.criterion].rating = q.rating
      /\ \A k \in DOMAIN after.ratings \ rated : after.ratings[k] = read.ratings[k]
      /\ after.open = (read.open \ decision.resolved) \cup decision.raised

\* Nobody overrules, or puts their name to, what they have not seen: of every
\* decision ever recorded, what the run showed after it is what its own author
\* had on the desk, amended by that decision.  Else, of two people who decide on
\* one snapshot, the later would replace ratings they never saw, and a specialist
\* would vouch for judgements nobody showed them (service.py 803-804, 923-933).
AmendsWhatWasRead ==
  \A n \in DOMAIN runs : \A i \in DOMAIN runs[n].log :
    LET decision == runs[n].log[i]
    IN  Amends(decision, runs[n].snapshots[decision.on], runs[n].snapshots[i + 1])
=============================================================================
