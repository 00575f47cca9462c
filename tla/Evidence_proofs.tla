--------------------------- MODULE Evidence_proofs ---------------------------
(***************************************************************************)
(* What Evidence promises, for any sources, reviewers, criteria and        *)
(* reviews, and any bounds.                                                *)
(***************************************************************************)
EXTENDS Evidence, TLAPS

Statuses == {"candidate", "approved", "revoked"}
RatingRow == [criterion : Criteria, rating : 0 .. 4]
Decision ==
  [by : Reviewers, kind : {"review", "specialist"}, on : Nat, cited : SUBSET Nat,
   rated : SUBSET RatingRow, raised : SUBSET Nat, resolved : SUBSET Nat]
RatingsOf(K) == [K -> [rating : 0 .. 4, evidence : SUBSET Nat]]
Snapshot ==
  [ratings : UNION {RatingsOf(K) : K \in SUBSET Criteria}, open : SUBSET Nat,
   specialist : BOOLEAN]
RunRow ==
  [state : {"unfinished", "completed", "stale"}, log : Seq(Decision),
   snapshots : Seq(Snapshot), context : [Sources -> [rev : Int, valid : BOOLEAN]]]

\* A completed run has a snapshot to review.
Run == {r \in RunRow : r.state = "completed" => r.snapshots # <<>>}

Typed ==
  /\ heads \in [Sources -> [rev : Int, status : Statuses]]
  /\ runs \in Seq(Run) /\ runs # <<>>
  /\ evidence \in Seq([run : Nat, source : Sources \cup {"none"}])
  /\ findings \in Seq([run : Nat, severity : {"major", "critical"}, related : Nat])
  /\ desk \in [Reviewers -> [run : Nat, snapshot : Nat]]
  /\ \A r \in Reviewers : desk[r].run # 0 => desk[r].run \in DOMAIN runs

\* A piece of evidence belongs to a run that exists, and quotes a source only if
\* the run froze it as valid.
EvidenceFounded ==
  \A e \in DOMAIN evidence :
    /\ evidence[e].run \in DOMAIN runs
    /\ evidence[e].source # "none" =>
         /\ evidence[e].source \in Sources
         /\ runs[evidence[e].run].context[evidence[e].source].valid

InRun(n, S) == \A e \in S : e \in DOMAIN evidence /\ evidence[e].run = n

\* What a decision cites belongs to its run, and a passing factual rating of any
\* snapshot cites a quote of that run.
CitesFounded ==
  \A n \in DOMAIN runs : \A i \in DOMAIN runs[n].log : InRun(n, runs[n].log[i].cited)

\* The same of the evidence ev and findings fs a snapshot was made with.
Founded(n, snapshot, ev, fs) ==
  /\ \A f \in snapshot.open : f \in DOMAIN fs /\ fs[f].run = n
  /\ \A k \in Factual \cap DOMAIN snapshot.ratings : snapshot.ratings[k].rating >= 3 =>
       \E e \in snapshot.ratings[k].evidence :
         e \in DOMAIN ev /\ ev[e].run = n /\ ev[e].source # "none"

SnapshotsFounded ==
  \A n \in DOMAIN runs : \A i \in DOMAIN runs[n].snapshots :
    Founded(n, runs[n].snapshots[i], evidence, findings)

FindingsFounded ==
  \A f \in DOMAIN findings : findings[f].related # 0 =>
    /\ findings[f].related < f /\ findings[f].related \in DOMAIN findings
    /\ findings[findings[f].related].run = findings[f].run

IInv == Typed /\ EvidenceFounded /\ CitesFounded /\ SnapshotsFounded /\ FindingsFounded

-----------------------------------------------------------------------------
(* What a step may do: nothing recorded is changed or lost, what is new is founded *)

RunsGrow ==
  /\ DOMAIN runs \subseteq DOMAIN runs'
  /\ \A n \in DOMAIN runs : runs'[n].context = runs[n].context

EvidenceGrows ==
  /\ DOMAIN evidence \subseteq DOMAIN evidence'
  /\ \A e \in DOMAIN evidence : evidence'[e] = evidence[e]

FindingsGrow ==
  /\ DOMAIN findings \subseteq DOMAIN findings'
  /\ \A f \in DOMAIN findings : findings'[f] = findings[f]

NewEvidenceFounded ==
  \A e \in DOMAIN evidence' : e \notin DOMAIN evidence =>
    /\ evidence'[e].run \in DOMAIN runs
    /\ evidence'[e].source # "none" =>
         /\ evidence'[e].source \in Sources
         /\ runs[evidence'[e].run].context[evidence'[e].source].valid

NewCitesFounded ==
  \A n \in DOMAIN runs' : \A i \in DOMAIN runs'[n].log :
    \/ n \in DOMAIN runs /\ i \in DOMAIN runs[n].log /\ runs'[n].log[i] = runs[n].log[i]
    \/ InRun(n, runs'[n].log[i].cited)

NewSnapshotsFounded ==
  \A n \in DOMAIN runs' : \A i \in DOMAIN runs'[n].snapshots :
    \/ /\ n \in DOMAIN runs /\ i \in DOMAIN runs[n].snapshots
       /\ runs'[n].snapshots[i] = runs[n].snapshots[i]
    \/ Founded(n, runs'[n].snapshots[i], evidence', findings')

NewFindingsFounded ==
  \A f \in DOMAIN findings' : f \notin DOMAIN findings /\ findings'[f].related # 0 =>
    /\ findings'[f].related < f /\ findings'[f].related \in DOMAIN findings
    /\ findings[findings'[f].related].run = findings'[f].run

FoundedStep ==
  /\ RunsGrow /\ EvidenceGrows /\ FindingsGrow
  /\ NewEvidenceFounded /\ NewCitesFounded /\ NewSnapshotsFounded /\ NewFindingsFounded

LEMMA FoundedStepKeeps ==
  ASSUME IInv, Typed', FoundedStep
  PROVE  IInv'
<1> USE DEF IInv, FoundedStep
<1>1. EvidenceFounded'
  BY DEF EvidenceFounded, RunsGrow, EvidenceGrows, NewEvidenceFounded
<1>2. CitesFounded'
  <2> SUFFICES ASSUME NEW n \in DOMAIN runs', NEW i \in DOMAIN runs'[n].log,
                      NEW e \in runs'[n].log[i].cited
               PROVE  e \in DOMAIN evidence' /\ evidence'[e].run = n
    BY DEF CitesFounded, InRun
  <2>1. e \in DOMAIN evidence /\ evidence[e].run = n
    BY DEF CitesFounded, NewCitesFounded, InRun
  <2> QED
    BY <2>1 DEF EvidenceGrows
<1>3. SnapshotsFounded'
  <2> SUFFICES ASSUME NEW n \in DOMAIN runs', NEW i \in DOMAIN runs'[n].snapshots
               PROVE  Founded(n, runs'[n].snapshots[i], evidence', findings')
    BY DEF SnapshotsFounded
  <2>1. CASE /\ n \in DOMAIN runs /\ i \in DOMAIN runs[n].snapshots
             /\ runs'[n].snapshots[i] = runs[n].snapshots[i]
    <3>1. Founded(n, runs[n].snapshots[i], evidence, findings)
      BY <2>1 DEF SnapshotsFounded
    <3> QED
      BY <2>1, <3>1 DEF Founded, EvidenceGrows, FindingsGrow
  <2> QED
    BY <2>1 DEF NewSnapshotsFounded
<1>4. FindingsFounded'
  BY DEF FindingsFounded, FindingsGrow, NewFindingsFounded
<1> QED
  BY <1>1, <1>2, <1>3, <1>4

-----------------------------------------------------------------------------
(* Governance moves *)

LEMMA FunctionIsSeq ==
  ASSUME NEW T, NEW k \in Nat, NEW q \in [1 .. k -> T]
  PROVE  q \in Seq(T) /\ Len(q) = k
OBVIOUS

LEMMA AppendToSeq ==
  ASSUME NEW T, NEW q \in Seq(T), NEW x \in T
  PROVE  LET r == Append(q, x)
         IN  /\ r \in Seq(T) /\ DOMAIN r = 1 .. Len(q) + 1
             /\ r[Len(q) + 1] = x /\ \A i \in 1 .. Len(q) : r[i] = q[i]
OBVIOUS

LEMMA AppendedLast ==
  ASSUME NEW T, NEW q \in Seq(T), NEW x
  PROVE  Append(q, x)[Len(Append(q, x))] = x
OBVIOUS

LEMMA ReplaceInSeq ==
  ASSUME NEW T, NEW q \in Seq(T), NEW n \in 1 .. Len(q), NEW x \in T
  PROVE  LET r == [q EXCEPT ![n] = x]
         IN  /\ r \in Seq(T)
             /\ Len(r) = Len(q)
             /\ r[n] = x
             /\ \A m \in 1 .. Len(q) : m # n => r[m] = q[m]
OBVIOUS

Heads == [Sources -> [rev : Int, status : Statuses]]

LEMMA NewRunTyped ==
  ASSUME NEW hs \in Heads, NEW ex
  PROVE  /\ NewRun(hs, ex) \in Run
         /\ NewRun(hs, ex).log = <<>> /\ NewRun(hs, ex).snapshots = <<>>
<1>1. [s \in Sources |-> [rev |-> hs[s].rev,
                          valid |-> hs[s].status = "approved" /\ s \notin ex]]
        \in [Sources -> [rev : Int, valid : BOOLEAN]]
  <2>1. ASSUME NEW s \in Sources
        PROVE  /\ hs[s].rev \in Int
               /\ (hs[s].status = "approved" /\ s \notin ex) \in BOOLEAN
    BY DEF Heads
  <2> QED
    BY <2>1
<1>2. <<>> \in Seq(Decision) /\ <<>> \in Seq(Snapshot)
  OBVIOUS
<1> QED
  BY <1>1, <1>2 DEF NewRun, Run, RunRow

\* The replaced runs keep all but their state, and the new one is empty.
LEMMA ScheduleIsFounded ==
  ASSUME IInv, NEW hs \in Heads, NEW ex, Schedule(hs, ex), heads' = hs,
         UNCHANGED <<record, desk>>
  PROVE  Typed' /\ FoundedStep
<1> DEFINE k == Len(runs)
           old == [n \in DOMAIN runs |-> [runs[n] EXCEPT !.state = "stale"]]
           new == NewRun(hs, ex)
<1>1. runs \in Seq(Run) /\ k \in Nat /\ DOMAIN runs = 1 .. k
  BY DEF IInv, Typed
<1>2. ASSUME NEW n \in 1 .. k
      PROVE  /\ old[n] \in Run /\ old[n].context = runs[n].context
             /\ old[n].log = runs[n].log /\ old[n].snapshots = runs[n].snapshots
  <2>1. runs[n] \in RunRow
    BY <1>1 DEF Run
  <2>2. old[n] = [runs[n] EXCEPT !.state = "stale"]
    BY <1>1
  <2> HIDE DEF old
  <2>3. old[n].state = "stale" /\ old[n] \in RunRow
    BY <2>1, <2>2 DEF RunRow
  <2> QED
    BY <2>1, <2>2, <2>3 DEF Run, RunRow
<1>3. old \in Seq(Run) /\ Len(old) = k
  <2>1. old \in [1 .. k -> Run]
    BY <1>1, <1>2
  <2> QED
    BY <1>1, <2>1, FunctionIsSeq
<1>4. new \in Run /\ new.log = <<>> /\ new.snapshots = <<>>
  BY NewRunTyped
<1>5. runs' = Append(old, new)
  BY DEF Schedule
<1> HIDE DEF old, new
<1>6. /\ runs' \in Seq(Run) /\ DOMAIN runs' = 1 .. k + 1
      /\ runs'[k + 1] = new /\ \A n \in 1 .. k : runs'[n] = old[n]
  BY <1>1, <1>3, <1>4, <1>5
<1>7. Typed'
  <2>1. runs' # <<>>
    BY <1>1, <1>6
  <2> QED
    BY <1>1, <1>6, <2>1 DEF IInv, Typed, record, Heads
<1>8. RunsGrow
  BY <1>1, <1>2, <1>6 DEF RunsGrow
<1>9. /\ EvidenceGrows /\ FindingsGrow /\ NewEvidenceFounded /\ NewFindingsFounded
  BY DEF record, EvidenceGrows, FindingsGrow, NewEvidenceFounded, NewFindingsFounded
<1>10. ASSUME NEW n \in 1 .. k + 1
       PROVE  \/ /\ n \in DOMAIN runs
                 /\ runs'[n].log = runs[n].log /\ runs'[n].snapshots = runs[n].snapshots
              \/ runs'[n].log = <<>> /\ runs'[n].snapshots = <<>>
  BY <1>1, <1>2, <1>4, <1>6
<1>11. NewCitesFounded /\ NewSnapshotsFounded
  <2>1. \A i \in DOMAIN <<>> : FALSE
    OBVIOUS
  <2> QED
    BY <1>6, <1>10, <2>1 DEF NewCitesFounded, NewSnapshotsFounded
<1> QED
  BY <1>7, <1>8, <1>9, <1>11 DEF FoundedStep

\* A step that writes no run and records nothing.
LEMMA IdleIsFounded ==
  ASSUME IInv, UNCHANGED <<runs, record>>
  PROVE  FoundedStep
BY DEF record, FoundedStep, RunsGrow, EvidenceGrows, FindingsGrow, NewEvidenceFounded,
       NewCitesFounded, NewSnapshotsFounded, NewFindingsFounded

LEMMA GovernanceSteps ==
  ASSUME IInv,
         \/ \E s \in Sources :
              \/ PutResource(s) \/ Expire(s)
              \/ \E status \in {"approved", "revoked"} : ResourceDecision(s, status)
         \/ Reassess
  PROVE  Typed' /\ FoundedStep
<1> USE DEF IInv, Typed, Heads
<1>1. ASSUME NEW s \in Sources, PutResource(s)
      PROVE  Typed' /\ FoundedStep
  <2>1. heads' \in Heads
    BY <1>1 DEF PutResource, Statuses
  <2> QED
    BY <1>1, <2>1, ScheduleIsFounded DEF PutResource
<1>2. ASSUME NEW s \in Sources, NEW status \in {"approved", "revoked"},
             ResourceDecision(s, status)
      PROVE  Typed' /\ FoundedStep
  <2>1. heads' \in Heads
    BY <1>2 DEF ResourceDecision, Statuses
  <2> QED
    BY <1>2, <2>1, ScheduleIsFounded DEF ResourceDecision
<1>3. ASSUME NEW s \in Sources, Expire(s)
      PROVE  Typed' /\ FoundedStep
  BY <1>3, IdleIsFounded DEF Expire, record
<1>4. ASSUME Reassess
      PROVE  Typed' /\ FoundedStep
  BY <1>4, ScheduleIsFounded DEF Reassess, governance
<1> QED
  BY <1>1, <1>2, <1>3, <1>4

-----------------------------------------------------------------------------
(* The worker's result and what reviewers write *)

\* Giving run n the content of r, which keeps its context and adds founded rows.
LEMMA RunStepIsFounded ==
  ASSUME IInv, NEW n \in DOMAIN runs, NEW r \in Run, runs' = [runs EXCEPT ![n] = r],
         r.context = runs[n].context,
         \A i \in DOMAIN r.log :
           \/ i \in DOMAIN runs[n].log /\ r.log[i] = runs[n].log[i]
           \/ InRun(n, r.log[i].cited),
         \A i \in DOMAIN r.snapshots :
           \/ i \in DOMAIN runs[n].snapshots /\ r.snapshots[i] = runs[n].snapshots[i]
           \/ Founded(n, r.snapshots[i], evidence', findings')
  PROVE  /\ runs' \in Seq(Run) /\ runs' # <<>> /\ DOMAIN runs' = DOMAIN runs
         /\ RunsGrow /\ NewCitesFounded /\ NewSnapshotsFounded
<1>1. runs \in Seq(Run) /\ DOMAIN runs = 1 .. Len(runs)
  BY DEF IInv, Typed
<1>2. /\ runs' \in Seq(Run) /\ Len(runs') = Len(runs) /\ runs'[n] = r
      /\ \A m \in 1 .. Len(runs) : m # n => runs'[m] = runs[m]
  BY <1>1, ReplaceInSeq
<1>3. DOMAIN runs' = DOMAIN runs
  BY <1>1, <1>2
<1>4. RunsGrow /\ runs' # <<>>
  BY <1>1, <1>2, <1>3 DEF RunsGrow
<1>5. NewCitesFounded
  BY <1>1, <1>2, <1>3 DEF NewCitesFounded
<1>6. NewSnapshotsFounded
  BY <1>1, <1>2, <1>3 DEF NewSnapshotsFounded
<1> QED
  BY <1>2, <1>3, <1>4, <1>5, <1>6

LEMMA SameRecord ==
  ASSUME UNCHANGED evidence
  PROVE  EvidenceGrows /\ NewEvidenceFounded
BY DEF EvidenceGrows, NewEvidenceFounded

LEMMA SameFindings ==
  ASSUME UNCHANGED findings
  PROVE  FindingsGrow /\ NewFindingsFounded
BY DEF FindingsGrow, NewFindingsFounded

LEMMA FinishIsFounded ==
  ASSUME IInv, FinishResult
  PROVE  Typed' /\ FoundedStep
<1> DEFINE n == Current
           snap == [ratings |-> [k \in {} |-> 0], open |-> {}, specialist |-> FALSE]
           r == [runs[n] EXCEPT !.state = "completed", !.snapshots = <<snap>>]
<1>1. runs \in Seq(Run) /\ Len(runs) \in Nat /\ DOMAIN runs = 1 .. Len(runs)
  BY DEF IInv, Typed
<1>2. n \in DOMAIN runs /\ runs[n] \in Run
  <2>1. runs # <<>>
    BY DEF IInv, Typed
  <2> QED
    BY <1>1, <2>1 DEF Current
<1>3. snap \in Snapshot /\ snap.open = {} /\ DOMAIN snap.ratings = {}
  <2>1. [k \in {} |-> 0] \in RatingsOf({})
    BY DEF RatingsOf
  <2>2. [k \in {} |-> 0] \in UNION {RatingsOf(K) : K \in SUBSET Criteria}
    BY <2>1
  <2> QED
    BY <2>2 DEF Snapshot
<1> HIDE DEF snap
<1>4. <<snap>> \in Seq(Snapshot) /\ DOMAIN <<snap>> = {1} /\ <<snap>>[1] = snap
  BY <1>3
<1>5. /\ r \in Run /\ r.context = runs[n].context /\ r.log = runs[n].log
      /\ r.snapshots = <<snap>>
  BY <1>2, <1>4 DEF Run, RunRow
<1>6. runs' = [runs EXCEPT ![n] = r]
  BY <1>2 DEF FinishResult, snap
<1> HIDE DEF r, n
<1>7. Founded(n, snap, evidence', findings')
  BY <1>3 DEF Founded
<1>8. /\ runs' \in Seq(Run) /\ runs' # <<>> /\ DOMAIN runs' = DOMAIN runs
      /\ RunsGrow /\ NewCitesFounded /\ NewSnapshotsFounded
  BY <1>2, <1>4, <1>5, <1>6, <1>7, RunStepIsFounded
<1>9. Typed'
  BY <1>8 DEF IInv, Typed, FinishResult, governance, record
<1>10. UNCHANGED evidence /\ UNCHANGED findings
  BY DEF FinishResult, record
<1> QED
  BY <1>8, <1>9, <1>10, SameRecord, SameFindings DEF FoundedStep

LEMMA GetRunIsFounded ==
  ASSUME IInv, NEW r \in Reviewers, NEW n \in DOMAIN runs, GetRun(r, n)
  PROVE  Typed' /\ FoundedStep
<1>1. n \in Nat /\ Len(runs[n].snapshots) \in Nat
  BY DEF IInv, Typed, Run, RunRow
<1>2. desk' \in [Reviewers -> [run : Nat, snapshot : Nat]]
  BY <1>1 DEF IInv, Typed, GetRun
<1>3. \A x \in Reviewers : desk'[x].run # 0 => desk'[x].run \in DOMAIN runs'
  BY DEF IInv, Typed, GetRun, record
<1> QED
  BY <1>2, <1>3, IdleIsFounded DEF IInv, Typed, GetRun, governance, record

LEMMA AddEvidenceIsFounded ==
  ASSUME IInv, NEW r \in Reviewers, NEW source \in Sources \cup {"none"},
         AddEvidence(r, source)
  PROVE  Typed' /\ FoundedStep
<1> DEFINE n == desk[r].run
           new == [run |-> n, source |-> source]
           k == Len(evidence)
           Piece == [run : Nat, source : Sources \cup {"none"}]
<1>1. /\ n \in DOMAIN runs /\ n \in Nat
      /\ source # "none" => source \in Sources /\ runs[n].context[source].valid
  BY DEF AddEvidence, Citable, IInv, Typed
<1>2. evidence \in Seq(Piece) /\ k \in Nat /\ DOMAIN evidence = 1 .. k
  BY DEF IInv, Typed
<1>3. new \in Piece /\ new.run = n /\ new.source = source
  BY <1>1
<1>4. evidence' = Append(evidence, new)
  BY DEF AddEvidence
<1> HIDE DEF new
<1>5. /\ evidence' \in Seq(Piece) /\ DOMAIN evidence' = 1 .. k + 1
      /\ evidence'[k + 1] = new /\ \A e \in 1 .. k : evidence'[e] = evidence[e]
  BY <1>2, <1>3, <1>4
<1>6. EvidenceGrows /\ NewEvidenceFounded
  BY <1>1, <1>2, <1>3, <1>5 DEF EvidenceGrows, NewEvidenceFounded
<1>7. UNCHANGED <<governance, runs, findings, desk>>
  BY DEF AddEvidence
<1>8. RunsGrow /\ NewCitesFounded /\ NewSnapshotsFounded
  BY <1>7 DEF RunsGrow, NewCitesFounded, NewSnapshotsFounded
<1>9. Typed'
  BY <1>5, <1>7 DEF IInv, Typed, governance
<1> QED
  BY <1>6, <1>7, <1>8, <1>9, SameFindings DEF FoundedStep

LEMMA DecidedIsFounded ==
  ASSUME IInv, NEW n \in DOMAIN runs, NEW decision \in Decision, NEW snapshot \in Snapshot,
         Decided(n, decision, snapshot), InRun(n, decision.cited),
         Founded(n, snapshot, evidence', findings')
  PROVE  /\ runs' \in Seq(Run) /\ runs' # <<>> /\ DOMAIN runs' = DOMAIN runs
         /\ RunsGrow /\ NewCitesFounded /\ NewSnapshotsFounded
<1> DEFINE log == Append(runs[n].log, decision)
           snapshots == Append(runs[n].snapshots, snapshot)
           r == [runs[n] EXCEPT !.log = log, !.snapshots = snapshots]
<1>1. runs[n] \in Run /\ runs[n].log \in Seq(Decision) /\ runs[n].snapshots \in Seq(Snapshot)
  <2>1. runs[n] \in Run
    BY DEF IInv, Typed
  <2> QED
    BY <2>1 DEF Run, RunRow
<1>2. /\ log \in Seq(Decision)
      /\ \A i \in DOMAIN log :
           \/ i \in DOMAIN runs[n].log /\ log[i] = runs[n].log[i]
           \/ log[i] = decision
  BY <1>1
<1>3. /\ snapshots \in Seq(Snapshot) /\ snapshots # <<>>
      /\ \A i \in DOMAIN snapshots :
           \/ i \in DOMAIN runs[n].snapshots /\ snapshots[i] = runs[n].snapshots[i]
           \/ snapshots[i] = snapshot
  <2>1. /\ snapshots \in Seq(Snapshot) /\ DOMAIN snapshots = 1 .. Len(runs[n].snapshots) + 1
        /\ snapshots[Len(runs[n].snapshots) + 1] = snapshot
        /\ \A i \in 1 .. Len(runs[n].snapshots) : snapshots[i] = runs[n].snapshots[i]
    BY <1>1, AppendToSeq
  <2>2. /\ Len(runs[n].snapshots) \in Nat
        /\ DOMAIN runs[n].snapshots = 1 .. Len(runs[n].snapshots)
    BY <1>1
  <2> HIDE DEF snapshots
  <2>3. snapshots # <<>>
    BY <2>1, <2>2
  <2> QED
    BY <2>1, <2>2, <2>3
<1>4. runs' = [runs EXCEPT ![n] = r]
  BY <1>1 DEF Decided, Run, RunRow
<1> HIDE DEF log, snapshots
<1>5. r \in Run /\ r.context = runs[n].context /\ r.log = log /\ r.snapshots = snapshots
  BY <1>1, <1>2, <1>3 DEF Run, RunRow
<1> HIDE DEF r
<1>6. \A i \in DOMAIN r.log :
        \/ i \in DOMAIN runs[n].log /\ r.log[i] = runs[n].log[i]
        \/ InRun(n, r.log[i].cited)
  BY <1>2, <1>5
<1>7. \A i \in DOMAIN r.snapshots :
        \/ i \in DOMAIN runs[n].snapshots /\ r.snapshots[i] = runs[n].snapshots[i]
        \/ Founded(n, r.snapshots[i], evidence', findings')
  BY <1>3, <1>5
<1> QED
  BY <1>4, <1>5, <1>6, <1>7, RunStepIsFounded

\* What the reviewer reads is a run with a snapshot, typed and founded.
LEMMA ReadSnapshot ==
  ASSUME IInv, NEW r \in Reviewers, ExactSnapshot(r)
  PROVE  /\ desk[r].run \in DOMAIN runs
         /\ Latest(desk[r].run) \in Snapshot
         /\ Founded(desk[r].run, Latest(desk[r].run), evidence, findings)
<1> DEFINE n == desk[r].run
<1>1. n \in DOMAIN runs /\ runs[n] \in Run
  BY DEF ExactSnapshot, IInv, Typed
<1>2. /\ runs[n].snapshots \in Seq(Snapshot)
      /\ Len(runs[n].snapshots) \in DOMAIN runs[n].snapshots
  BY <1>1 DEF ExactSnapshot, Run, RunRow, IInv, Typed
<1> QED
  BY <1>1, <1>2 DEF Latest, IInv, SnapshotsFounded

LEMMA SpecialistIsFounded ==
  ASSUME IInv, NEW r \in Reviewers, Specialist(r)
  PROVE  Typed' /\ FoundedStep
<1> DEFINE n == desk[r].run
           decision == [by |-> r, kind |-> "specialist", on |-> desk[r].snapshot, cited |-> {},
                        rated |-> {}, raised |-> {}, resolved |-> {}]
           snapshot == [Latest(n) EXCEPT !.specialist = TRUE]
<1>1. /\ n \in DOMAIN runs /\ Latest(n) \in Snapshot
      /\ Founded(n, Latest(n), evidence, findings)
  BY ReadSnapshot DEF Specialist
<1>2. UNCHANGED evidence /\ UNCHANGED findings /\ UNCHANGED <<governance, desk>>
  BY DEF Specialist, record
<1>3. decision \in Decision /\ InRun(n, decision.cited)
  BY DEF Decision, InRun, IInv, Typed
<1>4. /\ snapshot \in Snapshot /\ snapshot.open = Latest(n).open
      /\ snapshot.ratings = Latest(n).ratings
  BY <1>1 DEF Snapshot
<1>5. Founded(n, snapshot, evidence', findings')
  BY <1>1, <1>2, <1>4 DEF Founded
<1>6. Decided(n, decision, snapshot)
  BY DEF Specialist
<1> HIDE DEF n, decision, snapshot
<1>7. /\ runs' \in Seq(Run) /\ runs' # <<>> /\ DOMAIN runs' = DOMAIN runs
      /\ RunsGrow /\ NewCitesFounded /\ NewSnapshotsFounded
  BY <1>1, <1>3, <1>4, <1>5, <1>6, DecidedIsFounded
<1>8. Typed'
  BY <1>2, <1>7 DEF IInv, Typed, governance
<1> QED
  BY <1>2, <1>7, <1>8, SameRecord, SameFindings DEF FoundedStep

\* A review raises at most one finding, the next, related to one of its run.
LEMMA RaisedIsFounded ==
  ASSUME IInv, NEW n \in DOMAIN runs, NEW raises \in {"none", "major", "critical"},
         NEW related \in Nat,
         related # 0 => related \in Shown(n),
         findings' = IF raises = "none" THEN findings
                     ELSE Append(findings, [run |-> n, severity |-> raises, related |-> related])
  PROVE  /\ findings' \in Seq([run : Nat, severity : {"major", "critical"}, related : Nat])
         /\ FindingsGrow /\ NewFindingsFounded
         /\ raises # "none" =>
              Len(findings) + 1 \in DOMAIN findings' /\ findings'[Len(findings) + 1].run = n
<1> DEFINE Finding == [run : Nat, severity : {"major", "critical"}, related : Nat]
           k == Len(findings)
           new == [run |-> n, severity |-> raises, related |-> related]
<1>1. findings \in Seq(Finding) /\ k \in Nat /\ DOMAIN findings = 1 .. k /\ n \in Nat
  BY DEF IInv, Typed
<1>2. CASE raises = "none"
  BY <1>1, <1>2, SameFindings
<1>3. CASE raises # "none"
  <2>1. new \in Finding /\ new.run = n /\ new.related = related
    BY <1>1, <1>3
  <2>2. findings' = Append(findings, new)
    BY <1>3
  <2> HIDE DEF new, Finding
  <2>3. /\ findings' \in Seq(Finding) /\ DOMAIN findings' = 1 .. k + 1
        /\ findings'[k + 1] = new /\ \A f \in 1 .. k : findings'[f] = findings[f]
    BY <1>1, <2>1, <2>2, AppendToSeq
  <2>4. FindingsGrow
    BY <1>1, <2>3 DEF FindingsGrow
  <2>5. NewFindingsFounded
    BY <1>1, <2>1, <2>3 DEF NewFindingsFounded, Shown
  <2> QED
    BY <1>3, <2>1, <2>3, <2>4, <2>5 DEF Finding
<1> QED
  BY <1>2, <1>3

\* Ratings after a review: the ones it gives, on what it cites, and the others.
RatedCriteria(rated) == {q.criterion : q \in rated}

RatedWell(before, rated, cites, K) ==
  LET after == Rated(before, rated, cites)
      L == DOMAIN before \cup RatedCriteria(rated)
  IN  /\ L \in SUBSET Criteria /\ after \in RatingsOf(L)
      /\ \A k \in L :
           \/ k \in K /\ k \notin RatedCriteria(rated) /\ after[k] = before[k]
           \/ \E q \in rated :
                q.criterion = k /\ after[k] = [rating |-> q.rating, evidence |-> cites[q]]

LEMMA RatedTyped ==
  ASSUME NEW rated \in SUBSET RatingRow, NEW cites \in [rated -> SUBSET Nat],
         NEW before, NEW K \in SUBSET Criteria, before \in RatingsOf(K)
  PROVE  RatedWell(before, rated, cites, K)
<1> DEFINE after == Rated(before, rated, cites)
           L == DOMAIN before \cup RatedCriteria(rated)
<1>1. DOMAIN before = K
  BY DEF RatingsOf
<1>2. L \in SUBSET Criteria
  BY <1>1 DEF RatedCriteria, RatingRow
<1>3. ASSUME NEW k \in L
      PROVE  /\ \/ k \in K /\ k \notin RatedCriteria(rated) /\ after[k] = before[k]
                \/ \E q \in rated :
                     q.criterion = k /\ after[k] = [rating |-> q.rating, evidence |-> cites[q]]
             /\ after[k] \in [rating : 0 .. 4, evidence : SUBSET Nat]
  <2>1. CASE \E q \in rated : q.criterion = k
    <3> DEFINE c == CHOOSE q \in rated : q.criterion = k
    <3>1. c \in rated /\ c.criterion = k
      BY <2>1
    <3>2. after[k] = [rating |-> c.rating, evidence |-> cites[c]]
      BY <2>1 DEF Rated, RatedCriteria
    <3> HIDE DEF c
    <3>3. c.rating \in 0 .. 4 /\ cites[c] \in SUBSET Nat
      BY <3>1 DEF RatingRow
    <3> QED
      BY <3>1, <3>2, <3>3
  <2>2. CASE ~\E q \in rated : q.criterion = k
    <3>1. k \in K /\ k \notin RatedCriteria(rated) /\ after[k] = before[k]
      BY <1>1, <2>2 DEF Rated, RatedCriteria
    <3> QED
      BY <3>1 DEF RatingsOf
  <2> QED
    BY <2>1, <2>2
<1>4. after = [k \in L |-> after[k]]
  BY DEF Rated, RatedCriteria
<1> HIDE DEF L, after
<1>5. after \in RatingsOf(L)
  BY <1>3, <1>4 DEF RatingsOf
<1> QED
  BY <1>2, <1>3, <1>5 DEF L, after, RatedWell

LEMMA NumbersTyped ==
  ASSUME IInv
  PROVE  /\ DOMAIN evidence \subseteq Nat /\ DOMAIN findings \subseteq Nat
         /\ Len(findings) + 1 \in Nat
         /\ \A r \in Reviewers : desk[r].snapshot \in Nat
BY DEF IInv, Typed

LEMMA ReviewIsFounded ==
  ASSUME IInv, NEW r \in Reviewers,
         NEW rated \in SUBSET RatingRow,
         NEW raises \in {"none", "major", "critical"},
         NEW cites \in [rated -> SUBSET (DOMAIN evidence)],
         NEW noted \in SUBSET (DOMAIN evidence), NEW related \in Nat,
         NEW resolves \in SUBSET (DOMAIN findings),
         Review(r, rated, raises, cites, noted, related, resolves)
  PROVE  Typed' /\ FoundedStep
<1> DEFINE n == desk[r].run
           cited == noted \cup UNION {cites[q] : q \in rated}
           before == Latest(n).ratings
           ratings == Rated(before, rated, cites)
           new == IF raises = "none" THEN {} ELSE {Len(findings) + 1}
           open == (Latest(n).open \ resolves) \cup new
           decision == [by |-> r, kind |-> "review", on |-> desk[r].snapshot, cited |-> cited,
                        rated |-> rated, raised |-> new, resolved |-> resolves]
           snapshot == [ratings |-> ratings, open |-> open, specialist |-> FALSE]
<1>1. /\ n \in DOMAIN runs /\ Latest(n) \in Snapshot
      /\ Founded(n, Latest(n), evidence, findings)
  BY ReadSnapshot DEF Review
<1>2. UNCHANGED evidence /\ UNCHANGED <<governance, desk>>
  BY DEF Review
<1>3. /\ cited \in SUBSET Nat /\ cites \in [rated -> SUBSET Nat]
      /\ \A e \in cited : OfThisRun(n, e)
  <2>1. DOMAIN evidence \subseteq Nat
    BY DEF IInv, Typed
  <2>2. \A e \in cited : OfThisRun(n, e)
    BY DEF Review
  <2> QED
    BY <2>1, <2>2
<1> HIDE DEF cited
<1>d. new \in SUBSET Nat /\ resolves \in SUBSET Nat /\ desk[r].snapshot \in Nat
  BY NumbersTyped
<1>4. decision \in Decision /\ InRun(n, decision.cited)
  <2> HIDE DEF n, new
  <2> QED
    BY <1>3, <1>d DEF OfThisRun, Decision, InRun
<1>5. /\ findings' \in Seq([run : Nat, severity : {"major", "critical"}, related : Nat])
      /\ FindingsGrow /\ NewFindingsFounded
      /\ raises # "none" =>
           Len(findings) + 1 \in DOMAIN findings' /\ findings'[Len(findings) + 1].run = n
  <2>1. related # 0 => related \in Shown(n)
    BY DEF Review
  <2>2. findings' = IF raises = "none" THEN findings
                    ELSE Append(findings, [run |-> n, severity |-> raises, related |-> related])
    BY DEF Review
  <2> QED
    BY <1>1, <2>1, <2>2, RaisedIsFounded
<1>6. PICK K \in SUBSET Criteria : before \in RatingsOf(K)
  BY <1>1 DEF Snapshot
<1>7. /\ DOMAIN ratings \in SUBSET Criteria /\ ratings \in RatingsOf(DOMAIN ratings)
      /\ \A k \in DOMAIN ratings :
           \/ k \in DOMAIN before /\ ratings[k] = before[k]
           \/ \E q \in rated :
                q.criterion = k /\ ratings[k] = [rating |-> q.rating, evidence |-> cites[q]]
  <2>1. DOMAIN ratings = DOMAIN before \cup RatedCriteria(rated) /\ DOMAIN before = K
    BY <1>6 DEF Rated, RatedCriteria, RatingsOf
  <2> HIDE DEF before
  <2>2. RatedWell(before, rated, cites, K)
    BY <1>3, <1>6, RatedTyped
  <2> QED
    BY <2>1, <2>2 DEF RatedWell
<1>8. Decided(n, decision, snapshot)
  BY DEF Review, cited
<1> HIDE DEF ratings
<1>9. /\ open \in SUBSET Nat
      /\ \A f \in open : f \in DOMAIN findings' /\ findings'[f].run = n
  <2>1. Latest(n).open \in SUBSET Nat /\ Len(findings) + 1 \in Nat
    BY <1>1 DEF Snapshot, IInv, Typed
  <2>2. \A f \in Latest(n).open : f \in DOMAIN findings' /\ findings'[f].run = n
    BY <1>1, <1>5 DEF Founded, FindingsGrow
  <2> QED
    BY <1>5, <2>1, <2>2
<1>10. ASSUME NEW k \in Factual \cap DOMAIN ratings, ratings[k].rating >= 3
       PROVE  \E e \in ratings[k].evidence :
                e \in DOMAIN evidence /\ evidence[e].run = n /\ evidence[e].source # "none"
  <2>1. CASE k \in DOMAIN before /\ ratings[k] = before[k]
    BY <1>1, <1>10, <2>1 DEF Founded
  <2>2. ASSUME NEW q \in rated, q.criterion = k,
               ratings[k] = [rating |-> q.rating, evidence |-> cites[q]]
        PROVE  \E e \in cites[q] :
                 e \in DOMAIN evidence /\ evidence[e].run = n /\ evidence[e].source # "none"
    <3>1. k \in Factual /\ q.rating >= 3 /\ Supported(q.criterion, q.rating, cites[q])
      BY <1>10, <2>2 DEF Review
    <3>2. \A e \in cites[q] : OfThisRun(n, e)
      BY <1>3, <2>2 DEF cited
    <3> QED
      BY <2>2, <3>1, <3>2 DEF Supported, OfThisRun
  <2> QED
    BY <1>7, <2>1, <2>2
<1> HIDE DEF n, before, ratings, open, decision
<1>11. /\ snapshot \in Snapshot /\ snapshot.open = open /\ snapshot.ratings = ratings
  BY <1>7, <1>9 DEF Snapshot
<1>12. Founded(n, snapshot, evidence', findings')
  BY <1>2, <1>9, <1>10, <1>11 DEF Founded
<1>13. /\ runs' \in Seq(Run) /\ runs' # <<>> /\ DOMAIN runs' = DOMAIN runs
       /\ RunsGrow /\ NewCitesFounded /\ NewSnapshotsFounded
  BY <1>1, <1>4, <1>8, <1>11, <1>12, DecidedIsFounded
<1>14. Typed'
  BY <1>2, <1>5, <1>13 DEF IInv, Typed, governance
<1> QED
  BY <1>2, <1>5, <1>13, <1>14, SameRecord DEF FoundedStep

-----------------------------------------------------------------------------
(* The invariant *)

LEMMA NextKeepsIInv ==
  ASSUME IInv, [Next]_vars
  PROVE  IInv'
<1>1. Typed' /\ FoundedStep
  <2>1. CASE UNCHANGED vars
    BY <2>1, IdleIsFounded DEF vars, record, IInv, Typed
  <2>2. CASE \/ \E s \in Sources :
                  \/ PutResource(s) \/ Expire(s)
                  \/ \E status \in {"approved", "revoked"} : ResourceDecision(s, status)
             \/ Reassess
    BY <2>2, GovernanceSteps
  <2>3. CASE FinishResult
    BY <2>3, FinishIsFounded
  <2>4. ASSUME NEW r \in Reviewers, NEW n \in DOMAIN runs, GetRun(r, n)
        PROVE  Typed' /\ FoundedStep
    BY <2>4, GetRunIsFounded
  <2>5. ASSUME NEW r \in Reviewers, NEW source \in Sources \cup {"none"},
               AddEvidence(r, source)
        PROVE  Typed' /\ FoundedStep
    BY <2>5, AddEvidenceIsFounded
  <2>6. ASSUME NEW r \in Reviewers, NEW review \in Reviews,
               NEW noted \in SUBSET (DOMAIN evidence), NEW related \in 0 .. Len(findings) + 1,
               NEW resolves \in SUBSET (DOMAIN findings),
               NEW cites \in [review.rated -> SUBSET (DOMAIN evidence)],
               Review(r, review.rated, review.raises, cites, noted, related, resolves)
        PROVE  Typed' /\ FoundedStep
    <3>1. /\ review.rated \in SUBSET RatingRow
          /\ review.raises \in {"none", "major", "critical"}
      BY ConstantsAssumption DEF RatingRow
    <3>2. related \in Nat
      OBVIOUS
    <3> QED
      BY <2>6, <3>1, <3>2, ReviewIsFounded
  <2>7. ASSUME NEW r \in Reviewers, Specialist(r)
        PROVE  Typed' /\ FoundedStep
    BY <2>7, SpecialistIsFounded
  <2> QED
    BY <2>1, <2>2, <2>3, <2>4, <2>5, <2>6, <2>7 DEF Next
<1> QED
  BY <1>1, FoundedStepKeeps

LEMMA InitIInv == Init => IInv
<1> SUFFICES ASSUME Init PROVE IInv
  OBVIOUS
<1>1. heads \in Heads
  BY DEF Init, Heads, Statuses
<1> DEFINE new == NewRun(heads, {})
<1>2. new \in Run /\ new.log = <<>> /\ new.snapshots = <<>>
  BY <1>1, NewRunTyped
<1>3. runs = <<new>>
  BY DEF Init
<1> HIDE DEF new
<1>4. runs \in Seq(Run) /\ runs # <<>> /\ DOMAIN runs = {1} /\ runs[1] = new
  BY <1>2, <1>3
<1>5. Typed
  BY <1>1, <1>4 DEF Init, Typed, Heads
<1>6. DOMAIN evidence = {} /\ DOMAIN findings = {}
  BY DEF Init
<1>7. \A i \in DOMAIN <<>> : FALSE
  OBVIOUS
<1> QED
  BY <1>2, <1>4, <1>5, <1>6, <1>7
     DEF IInv, EvidenceFounded, CitesFounded, SnapshotsFounded, FindingsFounded

LEMMA SpecIInv == Spec => []IInv
BY InitIInv, NextKeepsIInv, PTL DEF Spec

-----------------------------------------------------------------------------
(* Theorems *)

\* Whatever reviewers do in whatever order, a passing judgement about facts shown
\* while its run's sources are as the run froze them rests on a quote from a
\* source in force (service.py add_evidence and review).
THEOREM FactsStayGoverned == Spec => []FactualRatingsGoverned
<1>1. ASSUME IInv, NEW n \in DOMAIN runs, runs[n].snapshots # <<>>, Unchanged(n),
             NEW k \in Factual \cap DOMAIN Latest(n).ratings, Latest(n).ratings[k].rating >= 3
      PROVE  \E e \in Latest(n).ratings[k].evidence :
               evidence[e].source # "none" /\ InForce(evidence[e].source)
  <2>1. Len(runs[n].snapshots) \in DOMAIN runs[n].snapshots
    <3>1. runs[n] \in Run
      BY <1>1 DEF IInv, Typed
    <3>2. runs[n].snapshots \in Seq(Snapshot)
      BY <3>1 DEF Run, RunRow
    <3> QED
      BY <1>1, <3>2
  <2>2. Founded(n, Latest(n), evidence, findings)
    BY <1>1, <2>1 DEF IInv, SnapshotsFounded, Latest
  <2>3. PICK e \in Latest(n).ratings[k].evidence :
          e \in DOMAIN evidence /\ evidence[e].run = n /\ evidence[e].source # "none"
    BY <1>1, <2>2 DEF Founded
  <2>4. evidence[e].source \in Sources /\ runs[n].context[evidence[e].source].valid
    BY <1>1, <2>3 DEF IInv, EvidenceFounded
  <2> QED
    BY <1>1, <2>3, <2>4 DEF Unchanged
<1>2. IInv => FactualRatingsGoverned
  BY <1>1 DEF FactualRatingsGoverned
<1> QED
  BY <1>2, SpecIInv, PTL

\* Evidence cited, findings related and findings open are those of the run they
\* are recorded in (service.py review).
THEOREM RecordStaysTraceable == Spec => []RecordTraceable
<1>1. ASSUME IInv, NEW n \in DOMAIN runs, runs[n].snapshots # <<>>
      PROVE  \A f \in Latest(n).open : findings[f].run = n
  <2>1. runs[n] \in Run
    BY <1>1 DEF IInv, Typed
  <2>2. runs[n].snapshots \in Seq(Snapshot)
    BY <2>1 DEF Run, RunRow
  <2>3. Founded(n, Latest(n), evidence, findings)
    BY <1>1, <2>2 DEF IInv, SnapshotsFounded, Latest
  <2> QED
    BY <2>3 DEF Founded
<1>2. IInv => RecordTraceable
  BY <1>1 DEF RecordTraceable, IInv, CitesFounded, InRun, FindingsFounded
<1> QED
  BY <1>2, SpecIInv, PTL

-----------------------------------------------------------------------------
(* What decisions amend *)

\* Every decision of a run made one snapshot, which amends the one its author read.
History(run) ==
  /\ run.state = "unfinished" => run.snapshots = <<>>
  /\ run.snapshots = <<>> => run.log = <<>>
  /\ run.snapshots # <<>> => Len(run.snapshots) = Len(run.log) + 1
  /\ \A i \in DOMAIN run.log :
       /\ run.log[i].on \in DOMAIN run.snapshots
       /\ Amends(run.log[i], run.snapshots[run.log[i].on], run.snapshots[i + 1])

HInv == \A n \in DOMAIN runs : History(runs[n])

\* Replaced runs keep their history, and the new one has none yet.
LEMMA HistoryOnSchedule ==
  ASSUME IInv, HInv, NEW hs, NEW ex, Schedule(hs, ex)
  PROVE  HInv'
<1> DEFINE old == [m \in DOMAIN runs |-> [runs[m] EXCEPT !.state = "stale"]]
           new == NewRun(hs, ex)
<1>1. runs \in Seq(Run) /\ DOMAIN runs = 1 .. Len(runs) /\ Len(runs) \in Nat
  BY DEF IInv, Typed
<1>2. ASSUME NEW n \in DOMAIN runs
      PROVE  History(old[n])
  <2>1. runs[n] \in RunRow /\ History(runs[n])
    BY <1>1 DEF Run, HInv
  <2>2. old[n].log = runs[n].log /\ old[n].snapshots = runs[n].snapshots /\ old[n].state = "stale"
    BY <2>1 DEF RunRow
  <2> QED
    BY <2>1, <2>2 DEF History
<1>3. History(new)
  BY DEF History, NewRun
<1>4. old \in Seq({old[m] : m \in DOMAIN runs}) /\ Len(old) = Len(runs)
  BY <1>1
<1>5. runs' = Append(old, new)
  BY DEF Schedule
<1> HIDE DEF old, new
<1>6. /\ DOMAIN runs' = 1 .. Len(runs) + 1 /\ runs'[Len(runs) + 1] = new
      /\ \A n \in 1 .. Len(runs) : runs'[n] = old[n]
  BY <1>1, <1>4, <1>5
<1> QED
  BY <1>1, <1>2, <1>3, <1>6 DEF HInv

\* A decision on the newest snapshot, as both kinds are.
LEMMA HistoryOnDecision ==
  ASSUME IInv, HInv, NEW r \in Reviewers, ExactSnapshot(r),
         NEW decision \in Decision, decision.on = desk[r].snapshot, NEW snapshot \in Snapshot,
         Decided(desk[r].run, decision, snapshot),
         Amends(decision, Latest(desk[r].run), snapshot)
  PROVE  HInv'
<1> DEFINE n == desk[r].run
           log == runs[n].log
           snapshots == runs[n].snapshots
<1>1. /\ runs \in Seq(Run) /\ n \in DOMAIN runs /\ runs[n] \in Run /\ runs[n] \in RunRow
      /\ runs[n].state = "completed" /\ decision.on = Len(snapshots)
  <2>1. runs \in Seq(Run) /\ n \in DOMAIN runs
    BY DEF ExactSnapshot, IInv, Typed
  <2> QED
    BY <2>1 DEF ExactSnapshot, Run
<1>2. log \in Seq(Decision) /\ snapshots \in Seq(Snapshot) /\ snapshots # <<>> /\ History(runs[n])
  BY <1>1 DEF Run, RunRow, HInv
<1>3. Len(snapshots) = Len(log) + 1 /\ Len(log) \in Nat
  BY <1>2 DEF History
<1>4. runs' = [runs EXCEPT ![n].log = Append(@, decision), ![n].snapshots = Append(@, snapshot)]
  BY DEF Decided
<1>5. /\ DOMAIN runs' = DOMAIN runs /\ \A m \in DOMAIN runs : m # n => runs'[m] = runs[m]
      /\ runs'[n].log = Append(log, decision) /\ runs'[n].snapshots = Append(snapshots, snapshot)
      /\ runs'[n].state = "completed"
  BY <1>1, <1>4 DEF RunRow
<1>a. Amends(decision, snapshots[Len(snapshots)], snapshot)
  BY DEF Latest
<1> HIDE DEF n, log, snapshots
<1>6. History(runs'[n])
  <2> DEFINE more == Append(log, decision)
             after == Append(snapshots, snapshot)
  <2>1. /\ Len(more) = Len(log) + 1 /\ DOMAIN more = 1 .. Len(log) + 1
        /\ more[Len(log) + 1] = decision /\ \A i \in 1 .. Len(log) : more[i] = log[i]
    BY <1>2
  <2>2. /\ Len(after) = Len(snapshots) + 1 /\ DOMAIN after = 1 .. Len(snapshots) + 1
        /\ after[Len(snapshots) + 1] = snapshot
        /\ \A i \in 1 .. Len(snapshots) : after[i] = snapshots[i]
    BY <1>2
  <2> HIDE DEF more, after
  <2>3. ASSUME NEW i \in 1 .. Len(log)
        PROVE  more[i].on \in DOMAIN after /\ Amends(more[i], after[more[i].on], after[i + 1])
    <3>1. /\ log[i].on \in DOMAIN snapshots
          /\ Amends(log[i], snapshots[log[i].on], snapshots[i + 1])
      BY <1>2, <1>5 DEF History, HInv, log, snapshots
    <3>2. /\ DOMAIN snapshots = 1 .. Len(snapshots) /\ Len(snapshots) \in Nat
          /\ i \in Nat /\ i + 1 \in 1 .. Len(snapshots)
      BY <1>2, <1>3
    <3>3. log[i].on \in 1 .. Len(snapshots)
      BY <3>1, <3>2
    <3>4. /\ more[i] = log[i] /\ after[log[i].on] = snapshots[log[i].on]
          /\ after[i + 1] = snapshots[i + 1]
      BY <2>1, <2>2, <3>2, <3>3
    <3>5. log[i].on \in DOMAIN after
      BY <2>2, <3>2, <3>3
    <3> QED
      BY <3>1, <3>4, <3>5
  <2>4. /\ more[Len(log) + 1].on \in DOMAIN after
        /\ Amends(more[Len(log) + 1], after[more[Len(log) + 1].on], after[Len(log) + 2])
    <3>1. decision.on \in 1 .. Len(snapshots)
      BY <1>1, <1>3
    <3>2. Len(log) + 2 = Len(snapshots) + 1
      BY <1>3
    <3> QED
      BY <1>1, <1>3, <1>a, <2>1, <2>2, <3>1, <3>2
  <2>5. \A i \in DOMAIN more :
          more[i].on \in DOMAIN after /\ Amends(more[i], after[more[i].on], after[i + 1])
    <3>1. ASSUME NEW i \in DOMAIN more
          PROVE  i \in 1 .. Len(log) \/ i = Len(log) + 1
      BY <1>3, <2>1
    <3>2. Len(log) + 1 + 1 = Len(log) + 2
      BY <1>3
    <3> QED
      BY <2>3, <2>4, <3>1, <3>2
  <2>6. after # <<>> /\ Len(after) = Len(more) + 1
    BY <1>3, <2>1, <2>2
  <2>7. runs'[n].log = more /\ runs'[n].snapshots = after
    BY <1>5 DEF more, after
  <2> QED
    BY <1>5, <2>5, <2>6, <2>7 DEF History
<1> QED
  BY <1>5, <1>6 DEF HInv

\* What a review leaves is what was there, amended by what it says.
LEMMA ReviewAmends ==
  ASSUME NEW before \in Snapshot, NEW rated \in SUBSET RatingRow,
         NEW cites \in [rated -> SUBSET Nat],
         \A p, q \in rated : p.criterion = q.criterion => p = q,
         NEW decision, decision.rated = rated,
         NEW after, after.ratings = Rated(before.ratings, rated, cites),
         after.open = (before.open \ decision.resolved) \cup decision.raised
  PROVE  Amends(decision, before, after)
<1>1. PICK K \in SUBSET Criteria : before.ratings \in RatingsOf(K)
  BY DEF Snapshot
<1>2. RatedWell(before.ratings, rated, cites, K)
  BY <1>1, RatedTyped
<1>3. /\ DOMAIN after.ratings = DOMAIN before.ratings \cup RatedCriteria(rated)
      /\ DOMAIN before.ratings = K
  BY <1>1 DEF Rated, RatedCriteria, RatingsOf
<1>4. \A k \in DOMAIN after.ratings :
        \/ k \notin RatedCriteria(rated) /\ after.ratings[k] = before.ratings[k]
        \/ \E q \in rated : q.criterion = k /\ after.ratings[k].rating = q.rating
  <2> TAKE k \in DOMAIN after.ratings
  <2>1. CASE k \notin RatedCriteria(rated) /\ after.ratings[k] = before.ratings[k]
    BY <2>1
  <2>2. ASSUME NEW q \in rated, q.criterion = k,
               after.ratings[k] = [rating |-> q.rating, evidence |-> cites[q]]
        PROVE  \E p \in rated : p.criterion = k /\ after.ratings[k].rating = p.rating
    <3>1. after.ratings[k].rating = q.rating
      BY <2>2
    <3> QED
      BY <2>2, <3>1
  <2>3. after.ratings[k] = Rated(before.ratings, rated, cites)[k]
    OBVIOUS
  <2>4. \/ k \notin RatedCriteria(rated) /\ Rated(before.ratings, rated, cites)[k] = before.ratings[k]
        \/ \E q \in rated :
             /\ q.criterion = k
             /\ Rated(before.ratings, rated, cites)[k] = [rating |-> q.rating, evidence |-> cites[q]]
    BY <1>2, <1>3 DEF RatedWell
  <2> QED
    BY <2>1, <2>2, <2>3, <2>4
<1>5. ASSUME NEW q \in rated
      PROVE  after.ratings[q.criterion].rating = q.rating
  <2>1. q.criterion \in RatedCriteria(rated) /\ q.criterion \in DOMAIN after.ratings
    BY <1>3 DEF RatedCriteria
  <2>2. PICK p \in rated : p.criterion = q.criterion /\ after.ratings[q.criterion].rating = p.rating
    BY <1>4, <2>1
  <2> QED
    BY <2>2
<1>6. \A k \in DOMAIN after.ratings \ RatedCriteria(rated) : after.ratings[k] = before.ratings[k]
  BY <1>4 DEF RatedCriteria
<1> QED
  BY <1>3, <1>5, <1>6 DEF Amends, RatedCriteria

LEMMA HistoryOnReview ==
  ASSUME IInv, HInv, NEW r \in Reviewers,
         NEW rated \in SUBSET RatingRow, NEW raises,
         NEW cites \in [rated -> SUBSET (DOMAIN evidence)],
         NEW noted \in SUBSET (DOMAIN evidence), NEW related,
         NEW resolves \in SUBSET (DOMAIN findings),
         Review(r, rated, raises, cites, noted, related, resolves)
  PROVE  HInv'
<1> DEFINE n == desk[r].run
           cited == noted \cup UNION {cites[q] : q \in rated}
           new == IF raises = "none" THEN {} ELSE {Len(findings) + 1}
           ratings == Rated(Latest(n).ratings, rated, cites)
           open == (Latest(n).open \ resolves) \cup new
           decision == [by |-> r, kind |-> "review", on |-> desk[r].snapshot, cited |-> cited,
                        rated |-> rated, raised |-> new, resolved |-> resolves]
           snapshot == [ratings |-> ratings, open |-> open, specialist |-> FALSE]
<1>1. ExactSnapshot(r) /\ Decided(n, decision, snapshot)
      /\ \A p, q \in rated : p.criterion = q.criterion => p = q
  BY DEF Review
<1>2. n \in DOMAIN runs /\ Latest(n) \in Snapshot
  BY <1>1, ReadSnapshot
<1>3. cited \in SUBSET Nat /\ new \in SUBSET Nat /\ resolves \in SUBSET Nat
      /\ desk[r].snapshot \in Nat /\ cites \in [rated -> SUBSET Nat]
  BY NumbersTyped
<1> HIDE DEF cited, new
<1>4. decision \in Decision /\ decision.on = desk[r].snapshot
  BY <1>3 DEF Decision
<1>5. PICK K \in SUBSET Criteria : Latest(n).ratings \in RatingsOf(K)
  BY <1>2 DEF Snapshot
<1>6. /\ ratings \in RatingsOf(DOMAIN ratings) /\ DOMAIN ratings \in SUBSET Criteria
  <2>1. RatedWell(Latest(n).ratings, rated, cites, K)
    BY <1>3, <1>5, RatedTyped
  <2>2. DOMAIN ratings = DOMAIN Latest(n).ratings \cup RatedCriteria(rated)
    BY DEF Rated, RatedCriteria
  <2> QED
    BY <2>1, <2>2 DEF RatedWell
<1> HIDE DEF ratings
<1>7. open \in SUBSET Nat
  BY <1>2, <1>3 DEF Snapshot
<1> HIDE DEF open
<1>8. snapshot \in Snapshot /\ snapshot.ratings = ratings /\ snapshot.open = open
  BY <1>6, <1>7 DEF Snapshot
<1>9. decision.rated = rated /\ decision.raised = new /\ decision.resolved = resolves
  OBVIOUS
<1> HIDE DEF decision, snapshot
<1>10. Amends(decision, Latest(n), snapshot)
  BY <1>1, <1>2, <1>3, <1>8, <1>9, ReviewAmends DEF ratings, open
<1> QED
  BY <1>1, <1>4, <1>8, <1>10, HistoryOnDecision

LEMMA HistoryOnSpecialist ==
  ASSUME IInv, HInv, NEW r \in Reviewers, Specialist(r)
  PROVE  HInv'
<1> DEFINE n == desk[r].run
           decision == [by |-> r, kind |-> "specialist", on |-> desk[r].snapshot, cited |-> {},
                        rated |-> {}, raised |-> {}, resolved |-> {}]
           snapshot == [Latest(n) EXCEPT !.specialist = TRUE]
<1>1. ExactSnapshot(r) /\ Decided(n, decision, snapshot)
  BY DEF Specialist
<1>2. Latest(n) \in Snapshot
  BY <1>1, ReadSnapshot
<1>3. decision \in Decision /\ decision.on = desk[r].snapshot
  BY DEF Decision, IInv, Typed
<1>4. /\ snapshot \in Snapshot /\ snapshot.open = Latest(n).open
      /\ snapshot.ratings = Latest(n).ratings
  BY <1>2 DEF Snapshot
<1>5. Amends(decision, Latest(n), snapshot)
  BY <1>4 DEF Amends
<1> QED
  BY <1>1, <1>3, <1>4, <1>5, HistoryOnDecision

LEMMA HistoryOnFinish ==
  ASSUME IInv, HInv, FinishResult
  PROVE  HInv'
<1> DEFINE n == Current
<1>1. /\ runs \in Seq(Run) /\ n \in DOMAIN runs /\ runs[n] \in RunRow
      /\ runs[n].state = "unfinished"
  BY DEF FinishResult, IInv, Typed, Run, Current
<1>2. runs[n].log = <<>>
  BY <1>1 DEF HInv, History
<1>3. /\ DOMAIN runs' = DOMAIN runs /\ \A m \in DOMAIN runs : m # n => runs'[m] = runs[m]
      /\ runs'[n].state = "completed" /\ runs'[n].log = <<>>
      /\ \E x : runs'[n].snapshots = <<x>>
  BY <1>1, <1>2 DEF FinishResult, RunRow
<1>4. History(runs'[n])
  <2>1. PICK x : runs'[n].snapshots = <<x>>
    BY <1>3
  <2>2. <<x>> # <<>> /\ Len(<<x>>) = 1 /\ Len(<<>>) = 0 /\ DOMAIN <<>> = {}
    OBVIOUS
  <2> QED
    BY <1>3, <2>1, <2>2 DEF History
<1> QED
  BY <1>3, <1>4 DEF HInv

LEMMA NextKeepsHInv ==
  ASSUME IInv, HInv, [Next]_vars
  PROVE  HInv'
<1>1. ASSUME UNCHANGED runs PROVE HInv'
  BY <1>1 DEF HInv
<1>2. CASE \/ UNCHANGED vars
           \/ \E s \in Sources : Expire(s)
           \/ \E r \in Reviewers :
                \/ \E m \in DOMAIN runs : GetRun(r, m)
                \/ \E source \in Sources \cup {"none"} : AddEvidence(r, source)
  BY <1>1, <1>2 DEF vars, Expire, GetRun, AddEvidence
<1>3. CASE \/ \E s \in Sources :
                \/ PutResource(s)
                \/ \E status \in {"approved", "revoked"} : ResourceDecision(s, status)
           \/ Reassess
  BY <1>3, HistoryOnSchedule DEF PutResource, ResourceDecision, Reassess
<1>4. CASE FinishResult
  BY <1>4, HistoryOnFinish
<1>5. ASSUME NEW r \in Reviewers, NEW review \in Reviews,
             NEW noted \in SUBSET (DOMAIN evidence), NEW related,
             NEW resolves \in SUBSET (DOMAIN findings),
             NEW cites \in [review.rated -> SUBSET (DOMAIN evidence)],
             Review(r, review.rated, review.raises, cites, noted, related, resolves)
      PROVE  HInv'
  <2>1. review.rated \in SUBSET RatingRow
    BY ConstantsAssumption DEF RatingRow
  <2> QED
    BY <1>5, <2>1, HistoryOnReview
<1>6. ASSUME NEW r \in Reviewers, Specialist(r)
      PROVE  HInv'
  BY <1>6, HistoryOnSpecialist
<1> QED
  BY <1>2, <1>3, <1>4, <1>5, <1>6 DEF Next

LEMMA InitHInv == Init => HInv
<1> SUFFICES ASSUME Init PROVE HInv
  OBVIOUS
<1>1. /\ NewRun(heads, {}).state = "unfinished" /\ NewRun(heads, {}).log = <<>>
      /\ NewRun(heads, {}).snapshots = <<>>
  BY DEF NewRun
<1>2. DOMAIN runs = {1} /\ runs[1] = NewRun(heads, {}) /\ DOMAIN <<>> = {}
  BY DEF Init
<1> QED
  BY <1>1, <1>2 DEF HInv, History

\* What every decision left is what its author had read, amended by it, however
\* the decisions of others come in between (service.py 803-804, 923-933).
THEOREM NobodyOverruledUnseen == Spec => []AmendsWhatWasRead
<1>1. IInv /\ HInv /\ [Next]_vars => IInv' /\ HInv'
  BY NextKeepsIInv, NextKeepsHInv
<1>2. Init => IInv /\ HInv
  BY InitIInv, InitHInv
<1>3. HInv => AmendsWhatWasRead
  BY DEF HInv, History, AmendsWhatWasRead
<1> QED
  BY <1>1, <1>2, <1>3, PTL DEF Spec
=============================================================================
