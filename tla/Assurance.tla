------------------------------ MODULE Assurance ------------------------------
(***************************************************************************)
(* The release control of the content assurance service: governed sources  *)
(* and policies, content versions, assessment runs, snapshots, owner       *)
(* approvals and local releases, as assurance/service.py keeps them.       *)
(*                                                                         *)
(* Every mutation of the service is one BEGIN IMMEDIATE transaction, so    *)
(* one action.  API processes, the assessment worker, the operator and the *)
(* clock interleave between transactions.  The lease protocol by which     *)
(* workers share the job of a run is module JobQueue; here a run is        *)
(* claimed, finished, retried or given up.                                 *)
(*                                                                         *)
(* Rows are numbered instead of carrying a uuid: the runs of an asset, the *)
(* snapshots of a run and the approvals are sequences, 0 is SQL NULL.      *)
(***************************************************************************)
EXTENDS Naturals, Sequences

CONSTANTS
  Assets, Briefs, Resources, Principals, Evaluators,
  Owner,            \* the named owner of each brief
  Needs,            \* the source and policy keys of each brief
  SpecialistBriefs, \* the briefs that declare specialist requirements
  Approvers, Submitters, Reviewers, Specialists,  \* the holders of each role
  Admins,           \* for each resource key, the human admins of its kind
  Payloads,         \* what a registered resource version may say
  MaxTime, MaxRev, MaxRuns, RunCap, MaxSnaps, MaxApprovals, MaxDeploys \* bounds

ASSUME OwnerAssumption == Owner \in [Briefs -> Principals]
ASSUME NeedsAssumption == Needs \in [Briefs -> SUBSET Resources]
ASSUME AdminsAssumption == Admins \in [Resources -> SUBSET Principals]
ASSUME PayloadsAssumption ==
  Payloads \subseteq [generated: BOOLEAN, from: Nat, until: Nat, covers: SUBSET Briefs]

\* Three of the bounds, which ReschedulingSettles adds up.
ASSUME BoundsAssumption == MaxTime \in Nat /\ MaxRuns \in Nat /\ MaxDeploys \in Nat

VARIABLES
  now,        \* the clock
  active,     \* the principals whose credential is active
  evaluator,  \* the evaluator fingerprint the API and the worker run with
  deploys,    \* how often either was restarted with another fingerprint
  heads,      \* resource_heads, joined with the resource version it names
  versions,   \* for each asset the brief of each content version
  latest,     \* assets.latest_version_id
  current,    \* assets.current_run_id
  runs,       \* for each asset its runs, each with its frozen configuration
  approvals,  \* the approvals table
  releases,   \* the releases table
  released    \* assets.released_id

vars == <<now, active, evaluator, deploys, heads, versions, latest, current,
          runs, approvals, releases, released>>
contentVars == <<versions, latest>>
governanceVars == <<now, active, evaluator, deploys, heads>>
recordVars == <<approvals, releases>>

-----------------------------------------------------------------------------
(* The rows *)

Processes == {"api", "worker"}
RunStates ==
  {"awaiting_scope", "queued", "processing", "completed", "failed", "stale"}

Resource == [version: Nat, rev: Nat, payload: Payloads,
             status: {"candidate", "approved", "revoked"}]

\* A dependency row of a run, with the resource its configuration froze.
Dependency == [key: Resources, res: Resource, valid: BOOLEAN]

\* What a snapshot's payload says of readiness and of the decisions under it.
Snapshot == [ready: BOOLEAN, reviewed: BOOLEAN, specialist: BOOLEAN]

Run == [version: Nat, brief: Briefs, evaluator: Evaluators,
        deps: SUBSET Dependency, state: RunStates,
        head: Nat, snaps: Seq(Snapshot)]

Approval == [asset: Assets, run: Nat, version: Nat, snap: Nat, actor: Principals]
Release == [asset: Assets, run: Nat, version: Nat, snap: Nat, approval: Nat,
            actor: Principals]

-----------------------------------------------------------------------------
(* Governed sources and policies *)

\* An absent effective_until is an `until` the clock does not reach.
ResourceValid(res, brief, at) ==
  /\ res.status = "approved"
  /\ ~res.payload.generated
  /\ res.payload.from <= at /\ at < res.payload.until
  /\ brief \in res.payload.covers

Freeze(hs, brief) ==
  {[key |-> k, res |-> hs[k], valid |-> ResourceValid(hs[k], brief, now)] :
     k \in Needs[brief]}

Governed(run) == \A d \in run.deps : d.valid

-----------------------------------------------------------------------------
(* Scheduling and freshness of runs *)

NewRun(version, brief, hs, e) ==
  [version |-> version, brief |-> brief, evaluator |-> e,
   deps |-> Freeze(hs, brief), state |-> "awaiting_scope",
   head |-> 0, snaps |-> <<>>]

Retired(a) ==
  IF current[a] = 0 THEN runs[a]
  ELSE [runs[a] EXCEPT ![current[a]].state = "stale"]

\* Mutant: scheduling leaves the release pointer alone.
Schedule_PointerKept(S, bs, ls, hs, e) ==
  /\ runs' = [a \in Assets |->
       IF a \in S THEN Append(Retired(a), NewRun(ls[a], bs[a][ls[a]], hs, e))
       ELSE runs[a]]
  /\ current' = [a \in Assets |->
       IF a \in S THEN Len(runs[a]) + 1 ELSE current[a]]
  /\ UNCHANGED released

\* schedule() for every asset of S: bs and ls are the versions and the latest
\* version of each asset, hs the resource heads, when it runs.
Schedule(S, bs, ls, hs, e) ==
  /\ runs' = [a \in Assets |->
       IF a \in S THEN Append(Retired(a), NewRun(ls[a], bs[a][ls[a]], hs, e))
       ELSE runs[a]]
  /\ current' = [a \in Assets |->
       IF a \in S THEN Len(runs[a]) + 1 ELSE current[a]]
  /\ released' = [a \in Assets |-> IF a \in S THEN 0 ELSE released[a]]

\* Mutant: expiry of a frozen resource is not looked at.
Fresh_ExpiryIgnored(a, n, e) ==
  /\ latest[a] = runs[a][n].version /\ current[a] = n
  /\ runs[a][n].state # "stale" /\ runs[a][n].evaluator = e
  /\ \A d \in runs[a][n].deps : heads[d.key].rev = d.res.rev

\* Mutant: a resource must be valid now even if it never was for this run.
Fresh_ValidOnly(a, n, e) ==
  /\ Fresh_ExpiryIgnored(a, n, e)
  /\ \A d \in runs[a][n].deps :
       ResourceValid(heads[d.key], runs[a][n].brief, now)

Fresh(a, n, e) ==
  LET run == runs[a][n]
  IN  /\ latest[a] = run.version
      /\ current[a] = n
      /\ run.state # "stale"
      /\ run.evaluator = e
      /\ \A d \in run.deps :
           /\ heads[d.key].version = d.res.version
           /\ heads[d.key].rev = d.res.rev
           /\ d.valid => ResourceValid(heads[d.key], run.brief, now)

\* Mutant: only finished assessments are invalidated.
Dependents_Completed(k) ==
  {a \in Assets : /\ current[a] # 0
                  /\ runs[a][current[a]].state = "completed"
                  /\ \E d \in runs[a][current[a]].deps : d.key = k}

Dependents(k) ==
  {a \in Assets : current[a] # 0 /\ \E d \in runs[a][current[a]].deps : d.key = k}

InvalidateDependents(k) ==
  /\ \A a \in Dependents(k) : Len(runs[a]) < MaxRuns
  /\ Schedule(Dependents(k), versions, latest, heads', evaluator["api"])

-----------------------------------------------------------------------------
\* Briefs name registered keys only: each has a first version by now, which
\* its administrator may have approved before any content depends on it.
Registered ==
  [version: {1}, rev: {1}, payload: Payloads, status: {"candidate"}]
    \cup {r \in [version: {1}, rev: {2}, payload: Payloads, status: {"approved"}] :
            ~r.payload.generated}

Init ==
  /\ now = 0
  /\ active = Principals
  /\ \E e \in Evaluators : evaluator = [p \in Processes |-> e]
  /\ deploys = 0
  /\ heads \in [Resources -> Registered]
  /\ versions = [a \in Assets |-> <<>>]
  /\ latest = [a \in Assets |-> 0]
  /\ current = [a \in Assets |-> 0]
  /\ runs = [a \in Assets |-> <<>>]
  /\ approvals = <<>>
  /\ releases = <<>>
  /\ released = [a \in Assets |-> 0]

(* Resource administration *)

PutResource(p, k, payload) ==
  /\ p \in active \cap Admins[k]
  /\ heads[k].rev < MaxRev
  /\ heads' = [heads EXCEPT ![k] =
       [version |-> @.version + 1, rev |-> @.rev + 1,
        payload |-> payload, status |-> "candidate"]]
  /\ InvalidateDependents(k)
  /\ UNCHANGED <<now, active, evaluator, deploys, contentVars, recordVars>>

\* The request names a resource version; only the head's is accepted.
ResourceDecision(p, k, status) ==
  /\ p \in active \cap Admins[k]
  /\ heads[k].rev < MaxRev
  /\ status = "approved" => ~heads[k].payload.generated
  /\ heads' = [heads EXCEPT ![k].status = status, ![k].rev = @ + 1]
  /\ InvalidateDependents(k)
  /\ UNCHANGED <<now, active, evaluator, deploys, contentVars, recordVars>>

(* Content *)

Submit(p, a, brief) ==
  /\ p \in active \cap Submitters
  /\ Len(runs[a]) < MaxRuns
  /\ versions' = [versions EXCEPT ![a] = Append(@, brief)]
  /\ latest' = [latest EXCEPT ![a] = Len(versions[a]) + 1]
  /\ Schedule({a}, versions', latest', heads, evaluator["api"])
  /\ UNCHANGED <<governanceVars, recordVars>>

Reassess(p, a) ==
  /\ p \in active \cap Submitters
  /\ latest[a] # 0
  /\ Len(runs[a]) < MaxRuns
  /\ Schedule({a}, versions, latest, heads, evaluator["api"])
  /\ UNCHANGED <<governanceVars, contentVars, recordVars>>

(* Human decisions about run n of asset a *)

SetRunState(a, n, state) ==
  /\ runs' = [runs EXCEPT ![a][n].state = state]
  /\ UNCHANGED <<governanceVars, contentVars, current, recordVars, released>>

\* Mutant: an executed plan can be approved again.
Scope_AnyState(p, a, n) ==
  /\ Fresh(a, n, evaluator["api"])
  /\ p \in active \cap Approvers /\ p = Owner[runs[a][n].brief]
  /\ SetRunState(a, n, "queued")

Scope(p, a, n) ==
  /\ Fresh(a, n, evaluator["api"])
  /\ p \in active \cap Approvers /\ p = Owner[runs[a][n].brief]
  /\ runs[a][n].state = "awaiting_scope"
  /\ SetRunState(a, n, "queued")

\* The snapshot a decision or a finished job produces.  Whether it is ready is
\* the rubric's verdict, which can only be positive in a governed context, for
\* gates that a review has judged and after the specialist where one is needed.
AssembleSnapshot(a, n, snapshot, state) ==
  LET run == runs[a][n]
  IN  /\ snapshot.ready =>
           /\ Governed(run)
           /\ snapshot.reviewed
           /\ run.brief \in SpecialistBriefs => snapshot.specialist
      /\ runs' = [runs EXCEPT ![a][n] =
           [run EXCEPT !.snaps = Append(@, snapshot),
                       !.head = Len(run.snaps) + 1, !.state = state]]
      /\ released' = [released EXCEPT ![a] = IF current[a] = n THEN 0 ELSE @]
      /\ UNCHANGED <<governanceVars, contentVars, current, recordVars>>

\* Mutant: any snapshot of the run will do.
ExactSnapshot_Any(a, n, s) ==
  /\ Fresh(a, n, evaluator["api"])
  /\ runs[a][n].state = "completed"

\* _exact_snapshot: the request names snapshot s of run n.
ExactSnapshot(a, n, s) ==
  /\ Fresh(a, n, evaluator["api"])
  /\ runs[a][n].state = "completed"
  /\ runs[a][n].head = s

Review(p, a, n, s, ready) ==
  /\ p \in active \cap Reviewers
  /\ ExactSnapshot(a, n, s)
  /\ s < MaxSnaps
  /\ AssembleSnapshot(a, n,
       [ready |-> ready, reviewed |-> TRUE, specialist |-> FALSE], "completed")

Specialist(p, a, n, s, ready) ==
  /\ p \in active \cap Specialists
  /\ ExactSnapshot(a, n, s)
  /\ s < MaxSnaps
  /\ AssembleSnapshot(a, n,
       [ready |-> ready, reviewed |-> runs[a][n].snaps[s].reviewed,
        specialist |-> TRUE], "completed")

\* Mutant: what the owner approves need not be ready.
Approve_NotReady(p, a, n, s) ==
  /\ ExactSnapshot(a, n, s)
  /\ p \in active \cap Approvers /\ p = Owner[runs[a][n].brief]
  /\ Len(approvals) < MaxApprovals
  /\ approvals' = Append(approvals,
       [asset |-> a, run |-> n, version |-> runs[a][n].version,
        snap |-> s, actor |-> p])
  /\ UNCHANGED <<governanceVars, contentVars, current, runs, releases, released>>

Approve(p, a, n, s) ==
  /\ ExactSnapshot(a, n, s)
  /\ p \in active \cap Approvers /\ p = Owner[runs[a][n].brief]
  /\ runs[a][n].snaps[s].ready
  /\ Len(approvals) < MaxApprovals
  /\ approvals' = Append(approvals,
       [asset |-> a, run |-> n, version |-> runs[a][n].version,
        snap |-> s, actor |-> p])
  /\ UNCHANGED <<governanceVars, contentVars, current, runs, releases, released>>

(* Release *)

\* Mutant: the credential of the releasing owner is not checked again.
MayRelease_Revoked(p, i) ==
  LET ap == approvals[i]
      run == runs[ap.asset][ap.run]
  IN  /\ ExactSnapshot(ap.asset, ap.run, ap.snap)
      /\ p = Owner[run.brief] /\ ap.actor = p
      /\ run.snaps[ap.snap].ready

\* Every check of release(), for principal p citing approval i together with
\* the version and the snapshot that approval was given for.
MayRelease(p, i) ==
  LET ap == approvals[i]
      a == ap.asset
      n == current[a]
      run == runs[a][n]
  IN  /\ p \in active \cap Approvers
      /\ n # 0
      /\ ExactSnapshot(a, n, ap.snap)
      /\ p = Owner[run.brief]
      /\ ap.version = latest[a] /\ ap.version = run.version
      /\ ap.run = n /\ ap.actor = p
      /\ run.snaps[ap.snap].ready
      /\ \A d \in run.deps : ResourceValid(d.res, run.brief, now)

ReleasesOf(i) == {j \in DOMAIN releases : releases[j].approval = i}

\* A repeated request returns the existing release and changes nothing.
ReleaseContent(p, i) ==
  /\ MayRelease(p, i)
  /\ ReleasesOf(i) = {}
  /\ LET ap == approvals[i]
     IN  /\ releases' = Append(releases,
              [asset |-> ap.asset, run |-> ap.run, version |-> ap.version,
               snap |-> ap.snap, approval |-> i, actor |-> p])
         /\ released' = [released EXCEPT ![ap.asset] = Len(releases) + 1]
  /\ UNCHANGED <<governanceVars, contentVars, current, runs, approvals>>

(* The worker *)

\* Mutant: a run already marked stale is taken to have its successor.
RefreshStale_NotStale ==
  LET stale == {a \in Assets :
        /\ current[a] # 0 /\ runs[a][current[a]].state # "stale"
        /\ ~Fresh(a, current[a], evaluator["worker"])}
  IN  /\ stale # {}
      /\ \A a \in stale : Len(runs[a]) < RunCap
      /\ Schedule(stale, versions, latest, heads, evaluator["worker"])
      /\ UNCHANGED <<governanceVars, contentVars, recordVars>>

\* Bounded by RunCap, which a correct worker never reaches.
RefreshStale ==
  LET stale == {a \in Assets :
        current[a] # 0 /\ ~Fresh(a, current[a], evaluator["worker"])}
  IN  /\ stale # {}
      /\ \A a \in stale : Len(runs[a]) < RunCap
      /\ Schedule(stale, versions, latest, heads, evaluator["worker"])
      /\ UNCHANGED <<governanceVars, contentVars, recordVars>>

CurrentRunIs(a, state) == current[a] # 0 /\ runs[a][current[a]].state = state

Claim(a) ==
  /\ CurrentRunIs(a, "queued")
  /\ SetRunState(a, current[a], "processing")

\* The sweep of claim(): the last attempt's lease has run out.
Exhaust(a) ==
  /\ CurrentRunIs(a, "processing")
  /\ SetRunState(a, current[a], "failed")

FinishDiscard(a) ==
  /\ CurrentRunIs(a, "processing")
  /\ ~Fresh(a, current[a], evaluator["worker"])
  /\ SetRunState(a, current[a], "stale")

FinishRetry(a) ==
  /\ CurrentRunIs(a, "processing")
  /\ Fresh(a, current[a], evaluator["worker"])
  /\ SetRunState(a, current[a], "queued")

\* Mutant: the job's new state is written to the run.
FinishResult_JobState(a, state) ==
  /\ CurrentRunIs(a, "processing")
  /\ Fresh(a, current[a], evaluator["worker"])
  /\ AssembleSnapshot(a, current[a],
       [ready |-> FALSE, reviewed |-> FALSE, specialist |-> FALSE],
       IF state = "completed" THEN "done" ELSE state)

\* No review can have judged a gate yet, so the first snapshot is never ready.
FinishResult(a, state) ==
  /\ CurrentRunIs(a, "processing")
  /\ Fresh(a, current[a], evaluator["worker"])
  /\ AssembleSnapshot(a, current[a],
       [ready |-> FALSE, reviewed |-> FALSE, specialist |-> FALSE], state)

(* The operator and the clock *)

\* Mutant: the revoked owner's releases stay in place.
UserRevoke_PointerKept(p) ==
  /\ p \in active
  /\ active' = active \ {p}
  /\ UNCHANGED <<now, evaluator, deploys, heads, contentVars, current, runs,
                 recordVars, released>>

\* Mutant: revoking twice activates the credential again.
UserRevoke_Toggle(p) ==
  /\ active' = (active \ {p}) \cup ({p} \ active)
  /\ released' = [a \in Assets |->
       IF released[a] # 0 /\ approvals[releases[released[a]].approval].actor = p
       THEN 0 ELSE released[a]]
  /\ UNCHANGED <<now, evaluator, deploys, heads, contentVars, current, runs,
                 recordVars>>

UserRevoke(p) ==
  /\ p \in active
  /\ active' = active \ {p}
  /\ released' = [a \in Assets |->
       IF released[a] # 0 /\ approvals[releases[released[a]].approval].actor = p
       THEN 0 ELSE released[a]]
  /\ UNCHANGED <<now, evaluator, deploys, heads, contentVars, current, runs,
                 recordVars>>

Redeploy(process, e) ==
  /\ deploys < MaxDeploys
  /\ evaluator[process] # e
  /\ evaluator' = [evaluator EXCEPT ![process] = e]
  /\ deploys' = deploys + 1
  /\ UNCHANGED <<now, active, heads, contentVars, current, runs, recordVars,
                 released>>

Tick ==
  /\ now < MaxTime
  /\ now' = now + 1
  /\ UNCHANGED <<active, evaluator, deploys, heads, contentVars, current, runs,
                 recordVars, released>>

-----------------------------------------------------------------------------
ResourceAction ==
  \E p \in Principals, k \in Resources :
    \/ \E payload \in Payloads : PutResource(p, k, payload)
    \/ \E status \in {"approved", "revoked"} : ResourceDecision(p, k, status)

ContentAction ==
  \E p \in Principals, a \in Assets :
    \/ \E brief \in Briefs : Submit(p, a, brief)
    \/ Reassess(p, a)

DecisionAction ==
  \E p \in Principals, a \in Assets : \E n \in DOMAIN runs[a] :
    \/ Scope(p, a, n)
    \/ \E s \in DOMAIN runs[a][n].snaps :
         \/ \E ready \in BOOLEAN : Review(p, a, n, s, ready)
         \/ \E ready \in BOOLEAN : Specialist(p, a, n, s, ready)
         \/ Approve(p, a, n, s)

ReleaseAction ==
  \E p \in Principals : \E i \in DOMAIN approvals : ReleaseContent(p, i)

WorkerAction ==
  \/ RefreshStale
  \/ \E a \in Assets :
       \/ Claim(a)
       \/ Exhaust(a)
       \/ FinishDiscard(a)
       \/ FinishRetry(a)
       \/ FinishResult(a, "completed")
       \/ FinishResult(a, "failed")

OperatorAction ==
  \/ \E p \in Principals : UserRevoke(p)
  \/ \E process \in Processes, e \in Evaluators : Redeploy(process, e)

Next ==
  \/ ResourceAction
  \/ ContentAction
  \/ DecisionAction
  \/ ReleaseAction
  \/ WorkerAction
  \/ OperatorAction
  \/ Tick

Spec == Init /\ [][Next]_vars

\* Every turn of the worker's loop begins with a refresh.
LiveSpec == Spec /\ WF_vars(RefreshStale)

-----------------------------------------------------------------------------
(* What the service shows *)

\* GET /v1/assets: the release pointer, hidden while the run is not fresh.
VisibleRelease(a) ==
  IF current[a] # 0 /\ ~Fresh(a, current[a], evaluator["api"]) THEN 0
  ELSE released[a]

\* The outer release_eligible of GET /v1/runs.
ReleaseEligible(a, n) ==
  LET run == runs[a][n]
  IN  /\ Fresh(a, n, evaluator["api"])
      /\ run.head # 0 /\ run.snaps[run.head].ready
      /\ \E i \in DOMAIN approvals :
           /\ approvals[i].asset = a /\ approvals[i].run = n
           /\ approvals[i].snap = run.head
           /\ approvals[i].actor \in active

-----------------------------------------------------------------------------
(* Properties *)

\* Every row has the columns and every pointer the range the schema gives it.
TypeOK ==
  /\ now \in Nat
  /\ active \subseteq Principals
  /\ evaluator \in [Processes -> Evaluators]
  /\ deploys \in Nat
  /\ heads \in [Resources -> Resource]
  /\ versions \in [Assets -> Seq(Briefs)]
  /\ latest \in [Assets -> Nat]
  /\ current \in [Assets -> Nat]
  /\ runs \in [Assets -> Seq(Run)]
  /\ approvals \in Seq(Approval)
  /\ releases \in Seq(Release)
  /\ released \in [Assets -> Nat]

\* Whatever happened since a release, the asset's release pointer names a
\* release of its latest version, of the snapshot at the head of its current,
\* completed run, that is ready and was approved by the owner of that version's
\* brief, whose credential is still active: every edit, review, governance
\* change, reassessment and revocation withdraws the pointer in its own
\* transaction (service.py schedule and assemble_snapshot, cli.py user-revoke).
ReleaseInForce(a) ==
  LET rel == releases[released[a]]
      run == runs[a][current[a]]
  IN  /\ rel.asset = a
      /\ rel.run = current[a] /\ rel.version = latest[a] /\ rel.snap = run.head
      /\ run.state = "completed"
      /\ run.snaps[run.head].ready
      /\ rel.actor = Owner[versions[a][latest[a]]]
      /\ rel.actor \in active

ReleasedInForce == \A a \in Assets : released[a] # 0 => ReleaseInForce(a)

\* The current run of an asset never lags behind governance: what it froze for
\* each key of its brief is the resource head itself, version, revision, status
\* and all.  put_resource and resource_decision reschedule every dependent in
\* the transaction that moves the head, so no decision is taken, and nothing is
\* released, on a superseded or revoked source.
CurrentRunSeesHeads ==
  \A a \in Assets : current[a] # 0 =>
    LET run == runs[a][current[a]]
    IN  /\ run.version = latest[a] /\ run.brief = versions[a][latest[a]]
        /\ {d.key : d \in run.deps} = Needs[run.brief]
        /\ \A d \in run.deps : d.res = heads[d.key]

\* A release the asset view shows rests on sources and policies that are, now,
\* approved, in force and applicable to the brief of the latest version, although
\* expiry is never written to the database by anything but a later refresh.
VisibleReleaseGoverned ==
  \A a \in Assets : VisibleRelease(a) # 0 =>
    LET brief == versions[a][latest[a]]
    IN  \A k \in Needs[brief] : ResourceValid(heads[k], brief, now)

\* get_run and release() judge by separate code: the run view says eligible
\* exactly when some principal could at this moment release, or repeat the
\* release of, an approval given for that run's head snapshot.
EligibleIffReleasable ==
  \A a \in Assets : \A n \in DOMAIN runs[a] :
    ReleaseEligible(a, n) <=>
      \E i \in DOMAIN approvals :
        /\ approvals[i].asset = a /\ approvals[i].run = n
        /\ \E p \in Principals : MayRelease(p, i)

\* A release request repeated after a lost answer is told "released" only while
\* the asset still is: nothing withdraws the pointer and leaves the approval
\* usable, even with several approvals and releases of one snapshot.
ReplayStillReleased ==
  \A p \in Principals : \A i \in DOMAIN approvals :
    MayRelease(p, i) /\ ReleasesOf(i) # {} => released[approvals[i].asset] # 0

\* The refresh does not reschedule for ever: an asset gets at most one run per
\* request, plus one per clock step, restart and disagreement between the
\* processes.  A resource that is invalid when a run is scheduled fails that run
\* instead of making it stale at once (the comment in service.py fresh).
ReschedulingSettles ==
  \A a \in Assets : Len(runs[a]) <= MaxRuns + MaxTime + MaxDeploys + 1

\* An approval whose snapshot was replaced, whose run was superseded or whose
\* owner was revoked is dead for good: no sequence of later operations, reviews
\* or reassessments of the same content brings it back.
Standing(i) ==
  LET ap == approvals[i]
  IN  /\ current[ap.asset] = ap.run
      /\ runs[ap.asset][ap.run].state = "completed"
      /\ runs[ap.asset][ap.run].head = ap.snap
      /\ ap.actor \in active

DeadApprovalStaysDead ==
  [][\A i \in DOMAIN approvals : ~Standing(i) => ~Standing(i)']_vars

\* The whole service, human decisions included, moves runs only as RunLifecycle
\* allows: no decision reopens a finished run, and a superseded one is dead.
Lifecycle ==
  INSTANCE RunLifecycle WITH
    state <- [a \in Assets |-> [n \in DOMAIN runs[a] |-> runs[a][n].state]]

ImplementsLifecycle == Lifecycle!Spec

\* What the rows say of the variables of ReleaseGate: an asset is approved while
\* one of its approvals stands.
OwnerNow ==
  [a \in {b \in Assets : latest[b] # 0} |-> Owner[versions[a][latest[a]]]]

Cleared ==
  {a \in Assets :
     /\ current[a] # 0 /\ runs[a][current[a]].state = "completed"
     /\ runs[a][current[a]].snaps[runs[a][current[a]].head].ready}

Approved ==
  {a \in Assets : \E i \in DOMAIN approvals : approvals[i].asset = a /\ Standing(i)}

Released == {a \in Assets : released[a] # 0}

Gate ==
  INSTANCE ReleaseGate WITH
    owner <- OwnerNow, cleared <- Cleared, approved <- Approved, released <- Released

\* The service is the release gate of ReleaseGate: every request, judgment, change
\* of governance, refresh and revocation moves owner, readiness, approval and
\* release together, in its one transaction, and no other way (service.py
\* schedule, assemble_snapshot, approve and release, cli.py user-revoke).
ImplementsReleaseGate == Gate!Spec

\* An expired source, or a worker restarted with another evaluator, never leaves
\* an asset with a dead run: the refresh replaces it by one the worker accepts.
CurrentRunFresh(a, answer) ==
  current[a] # 0 /\ Fresh(a, current[a], evaluator["worker"]) = answer

StaleRunReplaced ==
  \A a \in Assets :
    CurrentRunFresh(a, FALSE) ~> CurrentRunFresh(a, TRUE)

=============================================================================
