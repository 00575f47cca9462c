-------------------------- MODULE Assurance_proofs --------------------------
(***************************************************************************)
(* What holds of Assurance for every value of its constants.               *)
(***************************************************************************)
EXTENDS Assurance, TLAPS

-----------------------------------------------------------------------------
(* Type correctness *)

\* Every column of the rows that make up the state, apart from their pointers.
Indexed ==
  /\ TypeOK
  /\ \A a \in Assets :
       /\ latest[a] = Len(versions[a])
       /\ current[a] = Len(runs[a])
       /\ current[a] # 0 => latest[a] # 0

LEMMA AppendedIndices ==
  ASSUME NEW T, NEW q \in Seq(T), NEW x
  PROVE  /\ Len(q) + 1 \in DOMAIN Append(q, x) /\ Append(q, x)[Len(q) + 1] = x
         /\ \A i \in DOMAIN q : i \in DOMAIN Append(q, x) /\ Append(q, x)[i] = q[i]
         /\ \A i \in DOMAIN Append(q, x) :
              \/ i \in DOMAIN q /\ Append(q, x)[i] = q[i]
              \/ Append(q, x)[i] = x
OBVIOUS

LEMMA FreezeType ==
  ASSUME NEW hs \in [Resources -> Resource], NEW b \in Briefs
  PROVE  Freeze(hs, b) \in SUBSET Dependency
<1> SUFFICES ASSUME NEW k \in Needs[b]
             PROVE  [key |-> k, res |-> hs[k],
                     valid |-> ResourceValid(hs[k], b, now)] \in Dependency
  BY DEF Freeze
<1>1. k \in Resources
  BY NeedsAssumption
<1>2. hs[k] \in Resource
  BY <1>1
<1>3. ResourceValid(hs[k], b, now) \in BOOLEAN
  BY DEF ResourceValid
<1> QED
  BY <1>1, <1>2, <1>3 DEF Dependency

LEMMA NewRunType ==
  ASSUME NEW v \in Nat, NEW b \in Briefs, NEW hs \in [Resources -> Resource],
         NEW e \in Evaluators
  PROVE  NewRun(v, b, hs, e) \in Run
BY FreezeType DEF NewRun, Run, RunStates, Snapshot

LEMMA ReplaceInSeq ==
  ASSUME NEW T, NEW q \in Seq(T), NEW n \in 1 .. Len(q), NEW x \in T
  PROVE  LET r == [q EXCEPT ![n] = x]
         IN  /\ r \in Seq(T)
             /\ Len(r) = Len(q)
             /\ r[n] = x
             /\ \A m \in 1 .. Len(q) : m # n => r[m] = q[m]
OBVIOUS

\* Writing one run of one asset leaves every other run as it was.
LEMMA ReplaceRun ==
  ASSUME Indexed, NEW a \in Assets, NEW n \in DOMAIN runs[a], NEW r \in Run,
         runs' = [runs EXCEPT ![a] = [@ EXCEPT ![n] = r]]
  PROVE  /\ runs' \in [Assets -> Seq(Run)]
         /\ \A c \in Assets : Len(runs'[c]) = Len(runs[c])
         /\ runs'[a][n] = r
         /\ \A c \in Assets : \A m \in DOMAIN runs[c] :
              c # a \/ m # n => runs'[c][m] = runs[c][m]
<1> runs \in [Assets -> Seq(Run)]
  BY DEF Indexed, TypeOK
<1> runs[a] \in Seq(Run) /\ n \in 1 .. Len(runs[a])
  OBVIOUS
<1>1. /\ runs'[a] = [runs[a] EXCEPT ![n] = r]
      /\ \A c \in Assets : c # a => runs'[c] = runs[c]
      /\ DOMAIN runs' = Assets
  OBVIOUS
<1>2. /\ runs'[a] \in Seq(Run) /\ Len(runs'[a]) = Len(runs[a])
      /\ runs'[a][n] = r
      /\ \A m \in 1 .. Len(runs[a]) : m # n => runs'[a][m] = runs[a][m]
  BY <1>1, ReplaceInSeq
<1>3. runs' = [c \in Assets |-> runs'[c]]
  OBVIOUS
<1>4. \A c \in Assets : runs'[c] \in Seq(Run) /\ Len(runs'[c]) = Len(runs[c])
  BY <1>1, <1>2
<1> QED
  BY <1>1, <1>2, <1>3, <1>4

\* Everything a run keeps when only its state changes.
SameButState(r, s) ==
  /\ r.version = s.version /\ r.brief = s.brief
  /\ r.evaluator = s.evaluator /\ r.deps = s.deps
  /\ r.head = s.head /\ r.snaps = s.snaps

\* The state of run m of a once a new run is scheduled.
RetiredState(a, m) == IF m = current[a] THEN "stale" ELSE runs[a][m].state

LEMMA RetiredRuns ==
  ASSUME Indexed, NEW a \in Assets
  PROVE  /\ Retired(a) \in Seq(Run)
         /\ Len(Retired(a)) = Len(runs[a])
         /\ \A m \in 1 .. Len(runs[a]) :
              /\ SameButState(Retired(a)[m], runs[a][m])
              /\ Retired(a)[m].state = RetiredState(a, m)
<1> /\ runs[a] \in Seq(Run) /\ current[a] = Len(runs[a])
  BY DEF Indexed, TypeOK
<1>1. CASE current[a] = 0
  <2>1. Retired(a) = runs[a] /\ \A m \in 1 .. Len(runs[a]) : FALSE
    BY <1>1 DEF Retired
  <2> QED
    BY <2>1
<1>2. CASE current[a] # 0
  <2> DEFINE n == current[a]
             r == [runs[a][n] EXCEPT !.state = "stale"]
  <2>1. n \in 1 .. Len(runs[a])
    BY <1>2
  <2>2. r \in Run /\ SameButState(r, runs[a][n]) /\ r.state = "stale"
    <3>1. runs[a][n] \in Run
      BY <2>1
    <3> HIDE DEF n
    <3> QED
      BY <3>1 DEF Run, RunStates, SameButState
  <2>3. Retired(a) = [runs[a] EXCEPT ![n] = r]
    BY <1>2, <2>1 DEF Retired
  <2>4. \A m : RetiredState(a, m) = IF m = n THEN "stale" ELSE runs[a][m].state
    BY DEF RetiredState
  <2> HIDE DEF n, r
  <2> QED
    BY <2>1, <2>2, <2>3, <2>4, ReplaceInSeq DEF SameButState
<1> QED
  BY <1>1, <1>2

\* What schedule() does to the runs and the pointers: the assets of S have a new
\* run and no release, and the others are left alone.
Rescheduled(S, bs, ls, hs, e) ==
  /\ runs' \in [Assets -> Seq(Run)]
  /\ current' \in [Assets -> Nat]
  /\ released' \in [Assets -> Nat]
  /\ \A a \in Assets \ S : /\ runs'[a] = runs[a]
                           /\ current'[a] = current[a]
                           /\ released'[a] = released[a]
  /\ \A a \in S :
       /\ Len(runs'[a]) = Len(runs[a]) + 1
       /\ current'[a] = Len(runs[a]) + 1
       /\ released'[a] = 0
       /\ runs'[a][Len(runs[a]) + 1] = NewRun(ls[a], bs[a][ls[a]], hs, e)
       /\ \A m \in 1 .. Len(runs[a]) :
            /\ SameButState(runs'[a][m], runs[a][m])
            /\ runs'[a][m].state = RetiredState(a, m)

LEMMA ScheduleEffect ==
  ASSUME Indexed, NEW S \in SUBSET Assets,
         NEW bs \in [Assets -> Seq(Briefs)], NEW ls \in [Assets -> Nat],
         \A a \in S : ls[a] \in 1 .. Len(bs[a]),
         NEW hs \in [Resources -> Resource], NEW e \in Evaluators,
         Schedule(S, bs, ls, hs, e)
  PROVE  Rescheduled(S, bs, ls, hs, e)
<1> /\ runs \in [Assets -> Seq(Run)] /\ current \in [Assets -> Nat]
    /\ released \in [Assets -> Nat]
  BY DEF Indexed, TypeOK
<1> DEFINE new(a) == NewRun(ls[a], bs[a][ls[a]], hs, e)
<1>1. ASSUME NEW a \in S
      PROVE  new(a) \in Run
  <2>1. ls[a] \in Nat /\ bs[a] \in Seq(Briefs) /\ ls[a] \in 1 .. Len(bs[a])
    OBVIOUS
  <2>2. bs[a][ls[a]] \in Briefs
    BY <2>1
  <2> QED
    BY <2>1, <2>2, NewRunType
<1>2. ASSUME NEW a \in S
      PROVE  /\ runs'[a] = Append(Retired(a), new(a))
             /\ current'[a] = Len(runs[a]) + 1 /\ released'[a] = 0
  BY DEF Schedule
<1>3. ASSUME NEW a \in Assets \ S
      PROVE  /\ runs'[a] = runs[a] /\ current'[a] = current[a]
             /\ released'[a] = released[a]
  BY DEF Schedule
<1> HIDE DEF new
<1>4. ASSUME NEW a \in S
      PROVE  /\ runs'[a] \in Seq(Run)
             /\ Len(runs'[a]) = Len(runs[a]) + 1
             /\ runs'[a][Len(runs[a]) + 1] = new(a)
             /\ \A m \in 1 .. Len(runs[a]) :
                  /\ SameButState(runs'[a][m], runs[a][m])
                  /\ runs'[a][m].state = RetiredState(a, m)
  <2>1. /\ Retired(a) \in Seq(Run) /\ Len(Retired(a)) = Len(runs[a])
        /\ \A m \in 1 .. Len(runs[a]) :
             /\ SameButState(Retired(a)[m], runs[a][m])
             /\ Retired(a)[m].state = RetiredState(a, m)
    BY RetiredRuns
  <2>2. /\ new(a) \in Run
        /\ runs'[a] = Append(Retired(a), new(a))
    BY <1>1, <1>2
  <2>3. /\ runs'[a] \in Seq(Run)
        /\ Len(runs'[a]) = Len(runs[a]) + 1
        /\ runs'[a][Len(runs[a]) + 1] = new(a)
    BY <2>1, <2>2
  <2>4. \A m \in 1 .. Len(runs[a]) : runs'[a][m] = Retired(a)[m]
    BY <2>1, <2>2
  <2> QED
    BY <2>1, <2>3, <2>4
<1>5. /\ runs' = [a \in Assets |-> runs'[a]]
      /\ current' = [a \in Assets |-> current'[a]]
      /\ released' = [a \in Assets |-> released'[a]]
  BY DEF Schedule
<1>6. runs' \in [Assets -> Seq(Run)]
  BY <1>3, <1>4, <1>5
<1>7. current' \in [Assets -> Nat] /\ released' \in [Assets -> Nat]
  <2>1. ASSUME NEW a \in Assets
        PROVE  current'[a] \in Nat /\ released'[a] \in Nat
    <3>1. Len(runs[a]) \in Nat
      OBVIOUS
    <3>2. CASE a \in S
      BY <1>2, <3>1, <3>2
    <3>3. CASE a \notin S
      BY <1>3, <3>3
    <3> QED
      BY <3>2, <3>3
  <2> QED
    BY <1>5, <2>1
<1> QED
  BY <1>2, <1>3, <1>4, <1>6, <1>7 DEF new, Rescheduled

-----------------------------------------------------------------------------
(* The kinds of steps, as far as the invariant tells them apart *)

\* The worker would replace the current run.
Outdated(a) == current[a] # 0 /\ ~Fresh(a, current[a], evaluator["worker"])

\* A transaction that moves heads or versions and reschedules what they affect.
ScheduleOf(S, e) ==
  /\ versions' \in [Assets -> Seq(Briefs)]
  /\ latest' \in [Assets -> Nat]
  /\ heads' \in [Resources -> Resource]
  /\ Schedule(S, versions', latest', heads', e)
  /\ \A a \in S : latest'[a] # 0 /\ latest'[a] = Len(versions'[a])
  /\ \A a \in Assets \ S :
       /\ versions'[a] = versions[a] /\ latest'[a] = latest[a]
       /\ current[a] # 0 => \A d \in runs[a][current[a]].deps :
                              heads'[d.key] = heads[d.key]
  /\ \/ \A a \in S : Len(runs[a]) < MaxRuns
     \/ (\A a \in S : Outdated(a)) /\ e = evaluator["worker"]
  /\ UNCHANGED <<now, active, evaluator, deploys, approvals, releases>>

ScheduleStep == \E S \in SUBSET Assets, e \in Evaluators : ScheduleOf(S, e)

\* The current run of one asset is replaced by r.
Rewrite(a, r) ==
  /\ current[a] # 0
  /\ runs' = [runs EXCEPT ![a] = [@ EXCEPT ![current[a]] = r]]
  /\ UNCHANGED <<now, active, evaluator, deploys, heads, versions, latest,
                 current, approvals, releases>>

\* A current run moves between the states that carry no result.  Only the result
\* of an outdated run is discarded.
StateStep ==
  \E a \in Assets, r \in Run :
    /\ Rewrite(a, r)
    /\ SameButState(r, runs[a][current[a]])
    /\ <<runs[a][current[a]].state, r.state>> \in Lifecycle!Moves
    /\ r.state # "completed"
    /\ r.state = "stale" => Outdated(a)
    /\ released' = released

\* The worker's snapshot knows of no decision; a reviewer's takes back what a
\* specialist said, and a specialist's keeps what was reviewed.
NextSnapshot(run, snapshot) ==
  /\ snapshot.ready => /\ snapshot.reviewed
                       /\ run.brief \in SpecialistBriefs => snapshot.specialist
  /\ \/ /\ run.state = "processing"
        /\ ~snapshot.reviewed /\ ~snapshot.specialist
     \/ /\ run.head \in DOMAIN run.snaps
        /\ \/ snapshot.reviewed /\ ~snapshot.specialist
           \/ /\ snapshot.reviewed = run.snaps[run.head].reviewed
              /\ snapshot.specialist

\* A current run gets its first snapshot, from the worker, or its next one, from
\* a reviewer or specialist; its asset loses its release.
SnapshotStep ==
  \E a \in Assets, r \in Run, snapshot \in Snapshot :
    LET run == runs[a][current[a]]
    IN  /\ Rewrite(a, r)
        /\ r.version = run.version /\ r.brief = run.brief
        /\ r.evaluator = run.evaluator /\ r.deps = run.deps
        /\ r.snaps = Append(run.snaps, snapshot)
        /\ r.head = Len(run.snaps) + 1
        /\ snapshot.ready => Governed(run)
        /\ NextSnapshot(run, snapshot)
        /\ \/ /\ run.state = "processing" /\ r.state \in {"completed", "failed"}
              /\ ~snapshot.ready
           \/ run.state = "completed" /\ r.state = "completed"
        /\ released' = [released EXCEPT ![a] = 0]

\* A run is worked on and judged without touching the approvals and releases.
LEMMA RewritesKeepRecords ==
  ASSUME StateStep \/ SnapshotStep
  PROVE  UNCHANGED <<approvals, releases>>
<1>1. CASE StateStep
  <2> PICK a \in Assets, r \in Run : Rewrite(a, r)
    BY <1>1, Zenon DEF StateStep
  <2> QED
    BY DEF Rewrite
<1>2. CASE SnapshotStep
  <2> PICK a \in Assets, r \in Run : Rewrite(a, r)
    BY <1>2, Zenon DEF SnapshotStep
  <2> QED
    BY DEF Rewrite
<1> QED
  BY <1>1, <1>2

ApproveStep ==
  \E p \in Principals, a \in Assets : \E n \in DOMAIN runs[a] :
    \E s \in DOMAIN runs[a][n].snaps : Approve(p, a, n, s)

RevokeStep == \E p \in Principals : UserRevoke(p)

\* Nothing but the clock or the configuration of a process moves, by one.
IdleStep ==
  /\ \/ now' = now /\ deploys' = deploys /\ evaluator' = evaluator
     \/ now < MaxTime /\ now' = now + 1 /\ deploys' = deploys
     \/ deploys < MaxDeploys /\ deploys' = deploys + 1 /\ now' = now
  /\ now' \in Nat /\ deploys' \in Nat /\ evaluator' \in [Processes -> Evaluators]
  /\ UNCHANGED <<active, heads, versions, latest, current, runs, approvals,
                 releases, released>>

LEMMA ResourceSteps ==
  ASSUME Indexed, CurrentRunSeesHeads, ResourceAction
  PROVE  ScheduleStep
<1> /\ heads \in [Resources -> Resource] /\ versions \in [Assets -> Seq(Briefs)]
    /\ latest \in [Assets -> Nat] /\ evaluator \in [Processes -> Evaluators]
  BY DEF Indexed, TypeOK
<1>1. evaluator["api"] \in Evaluators
  BY DEF Processes
<1>2. ASSUME NEW k \in Resources, InvalidateDependents(k),
             heads' \in [Resources -> Resource],
             \A j \in Resources \ {k} : heads'[j] = heads[j],
             UNCHANGED <<now, active, evaluator, deploys, contentVars, recordVars>>
      PROVE  ScheduleStep
  <2> DEFINE S == Dependents(k)
  <2>1. S \in SUBSET Assets /\ \A a \in S : current[a] # 0
    BY DEF Dependents
  <2>2. versions' = versions /\ latest' = latest
    BY <1>2 DEF contentVars
  <2>3. Schedule(S, versions', latest', heads', evaluator["api"])
    BY <1>2, <2>2 DEF InvalidateDependents
  <2>4. \A a \in S : latest'[a] # 0 /\ latest'[a] = Len(versions'[a])
    BY <2>1, <2>2 DEF Indexed
  <2>5. ASSUME NEW a \in Assets \ S, current[a] # 0,
               NEW d \in runs[a][current[a]].deps
        PROVE  heads'[d.key] = heads[d.key]
    <3>1. d.key # k
      BY <2>5 DEF Dependents
    <3>2. runs[a][current[a]] \in Run
      BY <2>5 DEF Indexed, TypeOK
    <3>3. d.key \in Resources
      BY <3>2 DEF Run, Dependency
    <3> QED
      BY <1>2, <3>1, <3>3
  <2>6. UNCHANGED <<now, active, evaluator, deploys, approvals, releases>>
    BY <1>2 DEF recordVars
  <2>7. \A a \in S : Len(runs[a]) < MaxRuns
    BY <1>2 DEF InvalidateDependents
  <2> HIDE DEF S
  <2> QED
    BY <1>1, <1>2, <2>1, <2>2, <2>3, <2>4, <2>5, <2>6, <2>7 DEF ScheduleStep, ScheduleOf
<1>3. ASSUME NEW p \in Principals, NEW k \in Resources, NEW payload \in Payloads,
             PutResource(p, k, payload)
      PROVE  ScheduleStep
  <2>1. heads' \in [Resources -> Resource]
    <3> DEFINE r == [version |-> heads[k].version + 1, rev |-> heads[k].rev + 1,
                     payload |-> payload, status |-> "candidate"]
    <3>1. heads[k] \in Resource
      OBVIOUS
    <3>2. heads[k].version \in Nat /\ heads[k].rev \in Nat
      BY <3>1 DEF Resource
    <3>3. r \in Resource
      BY <3>2 DEF Resource
    <3>4. heads' = [heads EXCEPT ![k] = r]
      BY <1>3 DEF PutResource
    <3> HIDE DEF r
    <3> QED
      BY <3>3, <3>4
  <2>2. \A j \in Resources \ {k} : heads'[j] = heads[j]
    BY <1>3 DEF PutResource
  <2> QED
    BY <1>2, <1>3, <2>1, <2>2 DEF PutResource
<1>4. ASSUME NEW p \in Principals, NEW k \in Resources,
             NEW status \in {"approved", "revoked"}, ResourceDecision(p, k, status)
      PROVE  ScheduleStep
  <2>1. heads' \in [Resources -> Resource]
    <3> DEFINE h == heads[k]
               r == [h EXCEPT !.status = status, !.rev = h.rev + 1]
    <3>1. h \in Resource
      OBVIOUS
    <3>2. r \in Resource
      <4> HIDE DEF h
      <4>1. h.rev + 1 \in Nat /\ status \in {"candidate", "approved", "revoked"}
        BY <3>1 DEF Resource
      <4> QED
        BY <3>1, <4>1 DEF Resource
    <3>3. heads' = [heads EXCEPT ![k] = r]
      BY <1>4, <3>1 DEF ResourceDecision, Resource
    <3> HIDE DEF r
    <3> QED
      BY <3>2, <3>3
  <2>2. \A j \in Resources \ {k} : heads'[j] = heads[j]
    BY <1>4 DEF ResourceDecision
  <2> QED
    BY <1>2, <1>4, <2>1, <2>2 DEF ResourceDecision
<1> QED
  BY <1>3, <1>4 DEF ResourceAction

\* New content of an asset reschedules that asset alone.
LEMMA SubmitSchedules ==
  ASSUME Indexed, NEW p \in Principals, NEW a \in Assets, NEW brief \in Briefs,
         Submit(p, a, brief)
  PROVE  evaluator["api"] \in Evaluators /\ ScheduleOf({a}, evaluator["api"])
<1> /\ heads \in [Resources -> Resource] /\ versions \in [Assets -> Seq(Briefs)]
    /\ latest \in [Assets -> Nat] /\ evaluator \in [Processes -> Evaluators]
  BY DEF Indexed, TypeOK
<1>1. /\ versions' \in [Assets -> Seq(Briefs)]
      /\ versions'[a] = Append(versions[a], brief)
      /\ \A c \in Assets \ {a} : versions'[c] = versions[c]
  BY DEF Submit
<1>2. /\ latest' \in [Assets -> Nat]
      /\ latest'[a] = Len(versions[a]) + 1
      /\ \A c \in Assets \ {a} : latest'[c] = latest[c]
  BY DEF Submit
<1>3. latest'[a] # 0 /\ latest'[a] = Len(versions'[a])
  BY <1>1, <1>2
<1>4. heads' = heads
  BY DEF Submit, governanceVars
<1>5. Schedule({a}, versions', latest', heads', evaluator["api"])
  BY <1>4 DEF Submit
<1>6. UNCHANGED <<now, active, evaluator, deploys, approvals, releases>>
  BY DEF Submit, governanceVars, recordVars
<1>7. Len(runs[a]) < MaxRuns
  BY DEF Submit
<1>8. evaluator["api"] \in Evaluators
  BY DEF Processes
<1> QED
  BY <1>1, <1>2, <1>3, <1>4, <1>5, <1>6, <1>7, <1>8 DEF ScheduleOf

LEMMA ContentSteps ==
  ASSUME Indexed, ContentAction
  PROVE  ScheduleStep
<1> /\ heads \in [Resources -> Resource] /\ versions \in [Assets -> Seq(Briefs)]
    /\ latest \in [Assets -> Nat] /\ evaluator \in [Processes -> Evaluators]
  BY DEF Indexed, TypeOK
<1>1. evaluator["api"] \in Evaluators
  BY DEF Processes
<1>2. ASSUME NEW p \in Principals, NEW a \in Assets, NEW brief \in Briefs,
             Submit(p, a, brief)
      PROVE  ScheduleStep
  <2>1. {a} \in SUBSET Assets /\ ScheduleOf({a}, evaluator["api"])
    BY <1>2, SubmitSchedules
  <2> QED
    BY <1>1, <2>1 DEF ScheduleStep
<1>3. ASSUME NEW p \in Principals, NEW a \in Assets, Reassess(p, a)
      PROVE  ScheduleStep
  <2>1. versions' = versions /\ latest' = latest /\ heads' = heads
    BY <1>3 DEF Reassess, governanceVars, contentVars
  <2>2. Schedule({a}, versions', latest', heads', evaluator["api"])
    BY <1>3, <2>1 DEF Reassess
  <2>3. latest'[a] # 0 /\ latest'[a] = Len(versions'[a])
    BY <1>3, <2>1 DEF Reassess, Indexed
  <2>4. UNCHANGED <<now, active, evaluator, deploys, approvals, releases>>
    BY <1>3 DEF Reassess, governanceVars, recordVars
  <2>5. {a} \in SUBSET Assets /\ Len(runs[a]) < MaxRuns
    BY <1>3 DEF Reassess
  <2> QED
    BY <1>1, <2>1, <2>2, <2>3, <2>4, <2>5 DEF ScheduleStep, ScheduleOf
<1> QED
  BY <1>2, <1>3 DEF ContentAction

LEMMA SetStateSteps ==
  ASSUME Indexed, NEW a \in Assets, NEW st \in RunStates, current[a] # 0,
         st # "completed", st = "stale" => Outdated(a),
         <<runs[a][current[a]].state, st>> \in Lifecycle!Moves,
         SetRunState(a, current[a], st)
  PROVE  StateStep
<1> DEFINE r == [runs[a][current[a]] EXCEPT !.state = st]
<1>1. runs[a][current[a]] \in Run
  BY DEF Indexed, TypeOK
<1>2. r \in Run /\ SameButState(r, runs[a][current[a]]) /\ r.state = st
  BY <1>1 DEF Run, SameButState
<1>3. Rewrite(a, r) /\ released' = released
  BY DEF Rewrite, SetRunState, governanceVars, contentVars, recordVars
<1> HIDE DEF r
<1>4. /\ Rewrite(a, r) /\ SameButState(r, runs[a][current[a]])
      /\ <<runs[a][current[a]].state, r.state>> \in Lifecycle!Moves
      /\ r.state # "completed" /\ (r.state = "stale" => Outdated(a))
      /\ released' = released
  BY <1>2, <1>3
<1> QED
  BY <1>2, <1>4, Zenon DEF StateStep

LEMMA AssembleSteps ==
  ASSUME Indexed, NEW a \in Assets, NEW st \in RunStates, current[a] # 0,
         NEW snapshot \in Snapshot, AssembleSnapshot(a, current[a], snapshot, st),
         NextSnapshot(runs[a][current[a]], snapshot),
         \/ /\ runs[a][current[a]].state = "processing"
            /\ st \in {"completed", "failed"} /\ ~snapshot.ready
         \/ runs[a][current[a]].state = "completed" /\ st = "completed"
  PROVE  SnapshotStep
<1> DEFINE run == runs[a][current[a]]
           r == [run EXCEPT !.snaps = Append(@, snapshot),
                            !.head = Len(run.snaps) + 1, !.state = st]
<1>1. run \in Run
  BY DEF Indexed, TypeOK
<1>2. run.snaps \in Seq(Snapshot)
  BY <1>1 DEF Run
<1>3. Append(run.snaps, snapshot) \in Seq(Snapshot) /\ Len(run.snaps) + 1 \in Nat
  <2> HIDE DEF run
  <2> QED
    BY <1>2
<1>4. /\ r \in Run
      /\ r.version = run.version /\ r.brief = run.brief
      /\ r.evaluator = run.evaluator /\ r.deps = run.deps
      /\ r.snaps = Append(run.snaps, snapshot)
      /\ r.head = Len(run.snaps) + 1 /\ r.state = st
  <2> HIDE DEF run
  <2> QED
    BY <1>1, <1>3 DEF Run
<1>5. /\ Rewrite(a, r)
      /\ released' = [released EXCEPT ![a] = 0]
      /\ snapshot.ready => Governed(run)
      /\ NextSnapshot(run, snapshot)
  BY DEF Rewrite, AssembleSnapshot, governanceVars, contentVars, recordVars
<1>6. \/ run.state = "processing" /\ r.state \in {"completed", "failed"} /\ ~snapshot.ready
      \/ run.state = "completed" /\ r.state = "completed"
  BY <1>4
<1> HIDE DEF r
<1> QED
  BY <1>4, <1>5, <1>6, Zenon DEF SnapshotStep

LEMMA DecisionSteps ==
  ASSUME Indexed, DecisionAction
  PROVE  StateStep \/ SnapshotStep \/ ApproveStep
<1> PICK p \in Principals, a \in Assets : \E n \in DOMAIN runs[a] :
      \/ Scope(p, a, n)
      \/ \E s \in DOMAIN runs[a][n].snaps :
           \/ \E ready \in BOOLEAN : Review(p, a, n, s, ready)
           \/ \E ready \in BOOLEAN : Specialist(p, a, n, s, ready)
           \/ Approve(p, a, n, s)
  BY DEF DecisionAction
<1> PICK n \in DOMAIN runs[a] :
      \/ Scope(p, a, n)
      \/ \E s \in DOMAIN runs[a][n].snaps :
           \/ \E ready \in BOOLEAN : Review(p, a, n, s, ready)
           \/ \E ready \in BOOLEAN : Specialist(p, a, n, s, ready)
           \/ Approve(p, a, n, s)
  OBVIOUS
<1>1. n \in 1 .. Len(runs[a]) /\ n # 0 /\ runs[a][n] \in Run
  BY DEF Indexed, TypeOK
<1>2. CASE Scope(p, a, n)
  <2>1. /\ current[a] = n
        /\ runs[a][current[a]].state = "awaiting_scope"
        /\ SetRunState(a, current[a], "queued")
    BY <1>2 DEF Scope, Fresh
  <2> QED
    BY <1>1, <2>1, SetStateSteps DEF RunStates, Lifecycle!Moves
<1>3. ASSUME NEW s \in DOMAIN runs[a][n].snaps, NEW ready \in BOOLEAN,
             Review(p, a, n, s, ready)
      PROVE  SnapshotStep
  <2> DEFINE snapshot == [ready |-> ready, reviewed |-> TRUE, specialist |-> FALSE]
  <2>1. /\ current[a] = n /\ runs[a][current[a]].state = "completed"
        /\ AssembleSnapshot(a, current[a], snapshot, "completed")
    BY <1>3 DEF Review, ExactSnapshot, Fresh
  <2>2. snapshot \in Snapshot
    BY DEF Snapshot
  <2>3. runs[a][n].head \in DOMAIN runs[a][n].snaps
    BY <1>3 DEF Review, ExactSnapshot
  <2>4. NextSnapshot(runs[a][current[a]], snapshot)
    BY <2>1, <2>3 DEF NextSnapshot, AssembleSnapshot
  <2> QED
    BY <1>1, <2>1, <2>2, <2>4, AssembleSteps DEF RunStates
<1>4. ASSUME NEW s \in DOMAIN runs[a][n].snaps, NEW ready \in BOOLEAN,
             Specialist(p, a, n, s, ready)
      PROVE  SnapshotStep
  <2> DEFINE snapshot == [ready |-> ready, reviewed |-> runs[a][n].snaps[s].reviewed,
                          specialist |-> TRUE]
  <2>1. /\ current[a] = n /\ runs[a][current[a]].state = "completed"
        /\ AssembleSnapshot(a, current[a], snapshot, "completed")
    BY <1>4 DEF Specialist, ExactSnapshot, Fresh
  <2>2. runs[a][n].snaps \in Seq(Snapshot)
    BY <1>1 DEF Run
  <2>3. runs[a][n].snaps[s] \in Snapshot
    BY <2>2
  <2>4. snapshot \in Snapshot
    BY <2>3 DEF Snapshot
  <2>5. /\ runs[a][n].head \in DOMAIN runs[a][n].snaps
        /\ snapshot.reviewed = runs[a][n].snaps[runs[a][n].head].reviewed
    BY <1>4 DEF Specialist, ExactSnapshot
  <2>6. NextSnapshot(runs[a][current[a]], snapshot)
    BY <2>1, <2>5 DEF NextSnapshot, AssembleSnapshot
  <2> QED
    BY <1>1, <2>1, <2>4, <2>6, AssembleSteps DEF RunStates
<1> QED
  BY <1>2, <1>3, <1>4 DEF ApproveStep

LEMMA WorkerSteps ==
  ASSUME Indexed, WorkerAction
  PROVE  ScheduleStep \/ StateStep \/ SnapshotStep
<1>1. CASE RefreshStale
  <2> DEFINE S == {a \in Assets :
                    current[a] # 0 /\ ~Fresh(a, current[a], evaluator["worker"])}
             e == evaluator["worker"]
  <2>1. S \in SUBSET Assets /\ e \in Evaluators
    BY DEF Indexed, TypeOK, Processes
  <2>2. UNCHANGED <<now, active, evaluator, deploys, heads, versions, latest,
                    approvals, releases>>
    BY <1>1 DEF RefreshStale, governanceVars, contentVars, recordVars
  <2>3. Schedule(S, versions', latest', heads', e)
    BY <1>1, <2>2 DEF RefreshStale
  <2>4. \A a \in S : latest'[a] # 0 /\ latest'[a] = Len(versions'[a])
    BY <2>2 DEF Indexed
  <2>5. /\ versions' \in [Assets -> Seq(Briefs)] /\ latest' \in [Assets -> Nat]
        /\ heads' \in [Resources -> Resource]
    BY <2>2 DEF Indexed, TypeOK
  <2>6. \A a \in S : Outdated(a)
    BY DEF Outdated
  <2> HIDE DEF S
  <2> QED
    BY <2>1, <2>2, <2>3, <2>4, <2>5, <2>6 DEF ScheduleStep, ScheduleOf
<1>2. ASSUME NEW a \in Assets,
             Claim(a) \/ Exhaust(a) \/ FinishDiscard(a) \/ FinishRetry(a)
      PROVE  StateStep
  <2>1. /\ current[a] # 0
        /\ \E st \in {"processing", "failed", "stale", "queued"} :
             /\ SetRunState(a, current[a], st)
             /\ <<runs[a][current[a]].state, st>> \in Lifecycle!Moves
             /\ st = "stale" => Outdated(a)
    BY <1>2 DEF Claim, Exhaust, FinishDiscard, FinishRetry, CurrentRunIs, Outdated,
       Lifecycle!Moves
  <2> QED
    BY <2>1, SetStateSteps DEF RunStates
<1>3. ASSUME NEW a \in Assets, NEW st \in {"completed", "failed"},
             FinishResult(a, st)
      PROVE  SnapshotStep
  <2> DEFINE snapshot == [ready |-> FALSE, reviewed |-> FALSE, specialist |-> FALSE]
  <2>1. /\ current[a] # 0 /\ runs[a][current[a]].state = "processing"
        /\ AssembleSnapshot(a, current[a], snapshot, st)
    BY <1>3 DEF FinishResult, CurrentRunIs
  <2>2. snapshot \in Snapshot
    BY DEF Snapshot
  <2>3. NextSnapshot(runs[a][current[a]], snapshot)
    BY <2>1 DEF NextSnapshot
  <2> QED
    BY <2>1, <2>2, <2>3, AssembleSteps DEF RunStates
<1> QED
  BY <1>1, <1>2, <1>3 DEF WorkerAction

\* Every step of the service is of one of these kinds.
LEMMA Steps ==
  ASSUME Indexed, CurrentRunSeesHeads, [Next]_vars
  PROVE  \/ ScheduleStep
         \/ StateStep
         \/ SnapshotStep
         \/ ApproveStep
         \/ ReleaseAction
         \/ RevokeStep
         \/ IdleStep
<1>1. ASSUME NEW process \in Processes, NEW e \in Evaluators, Redeploy(process, e)
      PROVE  IdleStep
  BY <1>1 DEF Redeploy, IdleStep, contentVars, recordVars, Indexed, TypeOK
<1>2. CASE OperatorAction
  BY <1>1, <1>2 DEF OperatorAction, RevokeStep
<1>3. CASE Tick
  BY <1>3 DEF Tick, IdleStep, contentVars, recordVars, Indexed, TypeOK
<1>4. CASE UNCHANGED vars
  BY <1>4 DEF vars, IdleStep, Indexed, TypeOK
<1> QED
  BY <1>2, <1>3, <1>4, ResourceSteps, ContentSteps, DecisionSteps, WorkerSteps
  DEF Next

-----------------------------------------------------------------------------
(* What each kind of step does to the runs *)

LEMMA ScheduledRuns ==
  ASSUME Indexed, NEW S \in SUBSET Assets, NEW e \in Evaluators, ScheduleOf(S, e)
  PROVE  /\ runs' \in [Assets -> Seq(Run)]
         /\ current' \in [Assets -> Nat]
         /\ released' \in [Assets -> Nat]
         /\ \A a \in Assets \ S : /\ runs'[a] = runs[a]
                                  /\ current'[a] = current[a]
                                  /\ released'[a] = released[a]
         /\ \A a \in S :
              /\ Len(runs'[a]) = Len(runs[a]) + 1
              /\ current'[a] = Len(runs[a]) + 1
              /\ released'[a] = 0
              /\ runs'[a][Len(runs[a]) + 1] =
                   NewRun(latest'[a], versions'[a][latest'[a]], heads', e)
              /\ \A m \in 1 .. Len(runs[a]) :
                   /\ SameButState(runs'[a][m], runs[a][m])
                   /\ runs'[a][m].state = RetiredState(a, m)
<1>1. \A a \in S : latest'[a] \in 1 .. Len(versions'[a])
  BY DEF ScheduleOf
<1>2. /\ versions' \in [Assets -> Seq(Briefs)] /\ latest' \in [Assets -> Nat]
      /\ heads' \in [Resources -> Resource]
      /\ Schedule(S, versions', latest', heads', e)
  BY DEF ScheduleOf
<1>3. Rescheduled(S, versions', latest', heads', e)
  BY <1>1, <1>2, ScheduleEffect
<1> QED
  BY <1>3 DEF Rescheduled

LEMMA ScheduledCurrent ==
  ASSUME Indexed, NEW S \in SUBSET Assets, NEW e \in Evaluators, ScheduleOf(S, e),
         NEW a \in S
  PROVE  runs'[a][current'[a]] =
           NewRun(latest'[a], versions'[a][latest'[a]], heads', e)
<1>1. current'[a] = Len(runs[a]) + 1
  BY ScheduledRuns
<1>2. runs'[a][Len(runs[a]) + 1] =
        NewRun(latest'[a], versions'[a][latest'[a]], heads', e)
  BY ScheduledRuns
<1> QED
  BY <1>1, <1>2

LEMMA RewrittenRuns ==
  ASSUME Indexed, NEW a \in Assets, NEW r \in Run, Rewrite(a, r)
  PROVE  /\ runs' \in [Assets -> Seq(Run)]
         /\ \A c \in Assets : Len(runs'[c]) = Len(runs[c])
         /\ runs'[a][current[a]] = r
         /\ \A c \in Assets : \A m \in DOMAIN runs[c] :
              c # a \/ m # current[a] => runs'[c][m] = runs[c][m]
         /\ \A c \in Assets : c # a => runs'[c] = runs[c]
         /\ runs[a][current[a]] \in Run
<1>1. /\ runs \in [Assets -> Seq(Run)] /\ runs[a] \in Seq(Run)
      /\ current[a] \in 1 .. Len(runs[a])
  BY DEF Indexed, TypeOK, Rewrite
<1>2. runs' = [runs EXCEPT ![a] = [@ EXCEPT ![current[a]] = r]]
  BY DEF Rewrite
<1>3. runs[a][current[a]] \in Run /\ current[a] \in DOMAIN runs[a]
  BY <1>1
<1>4. \A c \in Assets : c # a => runs'[c] = runs[c]
  BY <1>1, <1>2
<1> QED
  BY <1>2, <1>3, <1>4, ReplaceRun

\* A run keeps its version, brief, frozen resources and snapshots for ever.
SameBasis(r, s) ==
  /\ r.version = s.version /\ r.brief = s.brief
  /\ r.evaluator = s.evaluator /\ r.deps = s.deps
  /\ \A k \in DOMAIN s.snaps : k \in DOMAIN r.snaps /\ r.snaps[k] = s.snaps[k]

RunsKept ==
  \A a \in Assets : \A n \in DOMAIN runs[a] :
    n \in DOMAIN runs'[a] /\ SameBasis(runs'[a][n], runs[a][n])

LEMMA ScheduleKeepsRuns ==
  ASSUME Indexed, ScheduleStep
  PROVE  RunsKept
<1> PICK S \in SUBSET Assets, e \in Evaluators : ScheduleOf(S, e)
  BY DEF ScheduleStep
<1> SUFFICES ASSUME NEW a \in Assets, NEW n \in DOMAIN runs[a]
             PROVE  n \in DOMAIN runs'[a] /\ SameBasis(runs'[a][n], runs[a][n])
  BY DEF RunsKept
<1>1. runs[a] \in Seq(Run)
  BY DEF Indexed, TypeOK
<1>2. CASE a \in S
  <2>1. /\ runs'[a] \in Seq(Run) /\ Len(runs'[a]) = Len(runs[a]) + 1
        /\ \A m \in 1 .. Len(runs[a]) : SameButState(runs'[a][m], runs[a][m])
    BY <1>2, ScheduledRuns
  <2>2. n \in 1 .. Len(runs[a]) /\ n \in DOMAIN runs'[a]
    BY <1>1, <2>1
  <2>3. SameButState(runs'[a][n], runs[a][n])
    BY <2>1, <2>2
  <2> QED
    BY <2>2, <2>3 DEF SameButState, SameBasis
<1>3. CASE a \notin S
  <2>1. runs'[a] = runs[a]
    BY <1>3, ScheduledRuns
  <2> QED
    BY <2>1 DEF SameBasis
<1> QED
  BY <1>2, <1>3

LEMMA RewriteKeepsRuns ==
  ASSUME Indexed, NEW a \in Assets, NEW r \in Run, Rewrite(a, r),
         SameBasis(r, runs[a][current[a]])
  PROVE  RunsKept
<1> SUFFICES ASSUME NEW c \in Assets, NEW n \in DOMAIN runs[c]
             PROVE  n \in DOMAIN runs'[c] /\ SameBasis(runs'[c][n], runs[c][n])
  BY DEF RunsKept
<1>1. /\ runs[c] \in Seq(Run) /\ runs'[c] \in Seq(Run)
      /\ Len(runs'[c]) = Len(runs[c])
  BY RewrittenRuns DEF Indexed, TypeOK
<1>2. n \in DOMAIN runs'[c]
  BY <1>1
<1>3. CASE c = a /\ n = current[a]
  BY <1>2, <1>3, RewrittenRuns
<1>4. CASE c # a \/ n # current[a]
  BY <1>2, <1>4, RewrittenRuns DEF SameBasis
<1> QED
  BY <1>3, <1>4

LEMMA StateKeepsRuns ==
  ASSUME Indexed, StateStep
  PROVE  RunsKept
BY RewriteKeepsRuns DEF StateStep, SameButState, SameBasis

LEMMA SnapshotKeepsRuns ==
  ASSUME Indexed, SnapshotStep
  PROVE  RunsKept
<1> PICK a \in Assets, r \in Run, snapshot \in Snapshot :
      LET run == runs[a][current[a]]
      IN  /\ Rewrite(a, r)
          /\ r.version = run.version /\ r.brief = run.brief
          /\ r.evaluator = run.evaluator /\ r.deps = run.deps
          /\ r.snaps = Append(run.snaps, snapshot)
  BY DEF SnapshotStep
<1>1. runs[a][current[a]].snaps \in Seq(Snapshot)
  BY RewrittenRuns DEF Run
<1>2. SameBasis(r, runs[a][current[a]])
  BY <1>1 DEF SameBasis
<1> QED
  BY <1>2, RewriteKeepsRuns

LEMMA StepKeepsRuns ==
  ASSUME Indexed, CurrentRunSeesHeads, [Next]_vars
  PROVE  RunsKept
<1>1. ASSUME runs' = runs
      PROVE  RunsKept
  BY <1>1 DEF RunsKept, SameBasis
<1>2. ApproveStep \/ ReleaseAction \/ RevokeStep \/ IdleStep => runs' = runs
  BY DEF ApproveStep, Approve, ReleaseAction, ReleaseContent, RevokeStep,
         UserRevoke, IdleStep
<1> QED
  BY <1>1, <1>2, Steps, ScheduleKeepsRuns, StateKeepsRuns, SnapshotKeepsRuns

-----------------------------------------------------------------------------
(* Every step keeps the types *)

LEMMA InitIndexed ==
  ASSUME Init
  PROVE  Indexed
<1>1. evaluator \in [Processes -> Evaluators]
  BY DEF Init
<1>2. heads \in [Resources -> Resource]
  <2>1. Registered \subseteq Resource
    BY DEF Registered, Resource
  <2> QED
    BY <2>1 DEF Init
<1>3. /\ versions \in [Assets -> Seq(Briefs)] /\ runs \in [Assets -> Seq(Run)]
      /\ approvals \in Seq(Approval) /\ releases \in Seq(Release)
  BY DEF Init
<1>4. /\ now \in Nat /\ active \subseteq Principals /\ deploys \in Nat
      /\ latest \in [Assets -> Nat] /\ current \in [Assets -> Nat]
      /\ released \in [Assets -> Nat]
  BY DEF Init
<1>5. \A a \in Assets : /\ latest[a] = Len(versions[a])
                        /\ current[a] = Len(runs[a])
                        /\ current[a] # 0 => latest[a] # 0
  BY DEF Init
<1> QED
  BY <1>1, <1>2, <1>3, <1>4, <1>5 DEF Indexed, TypeOK

LEMMA ScheduleIndexed ==
  ASSUME Indexed, ScheduleStep
  PROVE  Indexed'
<1> PICK S \in SUBSET Assets, e \in Evaluators : ScheduleOf(S, e)
  BY DEF ScheduleStep
<1>1. TypeOK'
  BY ScheduledRuns DEF Indexed, TypeOK, ScheduleOf
<1>2. ASSUME NEW a \in Assets
      PROVE  /\ latest'[a] = Len(versions'[a])
             /\ current'[a] = Len(runs'[a])
             /\ current'[a] # 0 => latest'[a] # 0
  <2>1. CASE a \in S
    <3>1. /\ Len(runs'[a]) = Len(runs[a]) + 1
          /\ current'[a] = Len(runs[a]) + 1
      BY <2>1, ScheduledRuns
    <3>2. latest'[a] # 0 /\ latest'[a] = Len(versions'[a])
      BY <2>1 DEF ScheduleOf
    <3> QED
      BY <3>1, <3>2
  <2>2. CASE a \notin S
    <3>1. runs'[a] = runs[a] /\ current'[a] = current[a]
      BY <2>2, ScheduledRuns
    <3>2. versions'[a] = versions[a] /\ latest'[a] = latest[a]
      BY <2>2 DEF ScheduleOf
    <3> QED
      BY <3>1, <3>2 DEF Indexed
  <2> QED
    BY <2>1, <2>2
<1> QED
  BY <1>1, <1>2 DEF Indexed

LEMMA RewriteIndexed ==
  ASSUME Indexed, NEW a \in Assets, NEW r \in Run, Rewrite(a, r),
         released' \in [Assets -> Nat]
  PROVE  Indexed'
<1>1. /\ runs' \in [Assets -> Seq(Run)]
      /\ \A c \in Assets : Len(runs'[c]) = Len(runs[c])
  BY RewrittenRuns
<1>2. TypeOK'
  BY <1>1 DEF Indexed, TypeOK, Rewrite
<1> QED
  BY <1>1, <1>2 DEF Indexed, Rewrite

LEMMA ApproveIndexed ==
  ASSUME Indexed, ApproveStep
  PROVE  /\ Indexed'
         /\ approvals' \in Seq(Approval)
<1> PICK p \in Principals, a \in Assets : \E n \in DOMAIN runs[a] :
      \E s \in DOMAIN runs[a][n].snaps : Approve(p, a, n, s)
  BY DEF ApproveStep
<1> PICK n \in DOMAIN runs[a] :
      \E s \in DOMAIN runs[a][n].snaps : Approve(p, a, n, s)
  OBVIOUS
<1> PICK s \in DOMAIN runs[a][n].snaps : Approve(p, a, n, s)
  OBVIOUS
<1> DEFINE ap == [asset |-> a, run |-> n, version |-> runs[a][n].version,
                  snap |-> s, actor |-> p]
<1>1. n \in Nat /\ runs[a][n] \in Run
  BY DEF Indexed, TypeOK
<1>2. s \in Nat /\ runs[a][n].version \in Nat
  BY <1>1 DEF Run
<1>3. ap \in Approval
  BY <1>1, <1>2 DEF Approval
<1>4. /\ approvals' = Append(approvals, ap)
      /\ UNCHANGED <<now, active, evaluator, deploys, heads, versions, latest,
                     current, runs, releases, released>>
  BY DEF Approve, governanceVars, contentVars
<1> HIDE DEF ap
<1>5. approvals' \in Seq(Approval)
  BY <1>3, <1>4 DEF Indexed, TypeOK
<1> QED
  BY <1>4, <1>5 DEF Indexed, TypeOK

\* The row a release adds, and what its checks have established.
\* What ReleaseContent(p, i) does, seen from the tables.
ReleasedFor(p, i) ==
  LET ap == approvals[i]
      a == ap.asset
      rel == [asset |-> a, run |-> ap.run, version |-> ap.version,
              snap |-> ap.snap, approval |-> i, actor |-> p]
  IN  /\ a \in Assets /\ ap \in Approval /\ rel \in Release
      /\ MayRelease(p, i)
      /\ releases' = Append(releases, rel)
      /\ releases' \in Seq(Release)
      /\ released' = [released EXCEPT ![a] = Len(releases) + 1]
      /\ released' \in [Assets -> Nat]
      /\ UNCHANGED <<now, active, evaluator, deploys, heads, versions,
                     latest, current, runs, approvals>>

LEMMA ReleaseEffect ==
  ASSUME Indexed, NEW p \in Principals, NEW i \in DOMAIN approvals,
         ReleaseContent(p, i)
  PROVE  ReleasedFor(p, i)
<1> DEFINE ap == approvals[i]
           a == ap.asset
           rel == [asset |-> a, run |-> ap.run, version |-> ap.version,
                   snap |-> ap.snap, approval |-> i, actor |-> p]
<1>1. i \in Nat /\ ap \in Approval
  BY DEF Indexed, TypeOK
<1>2. a \in Assets /\ rel \in Release
  BY <1>1 DEF Approval, Release
<1>3. /\ releases' = Append(releases, rel)
      /\ released' = [released EXCEPT ![a] = Len(releases) + 1]
      /\ MayRelease(p, i)
      /\ UNCHANGED <<now, active, evaluator, deploys, heads, versions,
                     latest, current, runs, approvals>>
  BY DEF ReleaseContent, governanceVars, contentVars
<1> HIDE DEF ap, a, rel
<1>4. releases' \in Seq(Release) /\ released' \in [Assets -> Nat]
  BY <1>2, <1>3 DEF Indexed, TypeOK
<1> QED
  BY <1>1, <1>2, <1>3, <1>4 DEF ap, a, rel, ReleasedFor

LEMMA ReleaseIndexed ==
  ASSUME Indexed, ReleaseAction
  PROVE  Indexed'
<1> PICK p \in Principals, i \in DOMAIN approvals : ReleaseContent(p, i)
  BY DEF ReleaseAction
<1>1. /\ releases' \in Seq(Release) /\ released' \in [Assets -> Nat]
      /\ UNCHANGED <<now, active, evaluator, deploys, heads, versions,
                     latest, current, runs, approvals>>
  <2>1. ReleasedFor(p, i)
    BY ReleaseEffect
  <2> QED
    BY <2>1 DEF ReleasedFor
<1> QED
  BY <1>1 DEF Indexed, TypeOK

LEMMA RevokeIndexed ==
  ASSUME Indexed, RevokeStep
  PROVE  Indexed'
<1> PICK p \in Principals : UserRevoke(p)
  BY DEF RevokeStep
<1>1. released' \in [Assets -> Nat]
  BY DEF UserRevoke, Indexed, TypeOK
<1>2. /\ active' \subseteq Principals
      /\ UNCHANGED <<now, evaluator, deploys, heads, versions, latest, current,
                     runs, approvals, releases>>
  BY DEF UserRevoke, contentVars, recordVars, Indexed, TypeOK
<1> QED
  BY <1>1, <1>2 DEF Indexed, TypeOK

LEMMA IdleIndexed ==
  ASSUME Indexed, IdleStep
  PROVE  Indexed'
BY DEF Indexed, TypeOK, IdleStep

LEMMA StepIndexed ==
  ASSUME Indexed, CurrentRunSeesHeads, [Next]_vars
  PROVE  Indexed'
<1>1. CASE StateStep
  BY <1>1, RewriteIndexed DEF StateStep, Indexed, TypeOK
<1>2. CASE SnapshotStep
  <2> PICK a \in Assets, r \in Run : /\ Rewrite(a, r)
                                   /\ released' = [released EXCEPT ![a] = 0]
    BY <1>2 DEF SnapshotStep
  <2>1. released' \in [Assets -> Nat]
    BY DEF Indexed, TypeOK
  <2> QED
    BY <2>1, RewriteIndexed
<1> QED
  BY <1>1, <1>2, Steps, ScheduleIndexed, ApproveIndexed, ReleaseIndexed,
     RevokeIndexed, IdleIndexed

-----------------------------------------------------------------------------
(* Every step keeps the current runs in line with the resource heads *)

LEMMA FreezeSees ==
  ASSUME NEW b \in Briefs, NEW hs \in [Resources -> Resource]
  PROVE  /\ {d.key : d \in Freeze(hs, b)} = Needs[b]
         /\ \A d \in Freeze(hs, b) : d.res = hs[d.key]
<1> DEFINE row(k) == [key |-> k, res |-> hs[k],
                      valid |-> ResourceValid(hs[k], b, now)]
<1>1. \A k : row(k).key = k /\ row(k).res = hs[k]
  OBVIOUS
<1>2. Freeze(hs, b) = {row(k) : k \in Needs[b]}
  BY DEF Freeze
<1> HIDE DEF row
<1>3. {d.key : d \in {row(k) : k \in Needs[b]}} = Needs[b]
  BY <1>1
<1>4. \A d \in {row(k) : k \in Needs[b]} : d.res = hs[d.key]
  BY <1>1
<1> QED
  BY <1>2, <1>3, <1>4

\* The part of CurrentRunSeesHeads about one asset, in the next state.
SeesHeads(a) ==
  current[a] # 0 =>
    LET run == runs[a][current[a]]
    IN  /\ run.version = latest[a] /\ run.brief = versions[a][latest[a]]
        /\ {d.key : d \in run.deps} = Needs[run.brief]
        /\ \A d \in run.deps : d.res = heads[d.key]

LEMMA ScheduleSeesHeads ==
  ASSUME Indexed, CurrentRunSeesHeads, ScheduleStep
  PROVE  CurrentRunSeesHeads'
<1> PICK S \in SUBSET Assets, e \in Evaluators : ScheduleOf(S, e)
  BY DEF ScheduleStep
<1> SUFFICES ASSUME NEW a \in Assets
             PROVE  SeesHeads(a)'
  BY DEF SeesHeads, CurrentRunSeesHeads
<1>1. CASE a \in S
  <2> DEFINE b == versions'[a][latest'[a]]
             new == NewRun(latest'[a], b, heads', e)
  <2>1. runs'[a][current'[a]] = new
    BY <1>1, ScheduledCurrent
  <2>2. b \in Briefs
    <3>1. /\ versions'[a] \in Seq(Briefs) /\ latest'[a] \in Nat
          /\ latest'[a] # 0 /\ latest'[a] = Len(versions'[a])
      BY <1>1 DEF ScheduleOf
    <3> QED
      BY <3>1
  <2>3. heads' \in [Resources -> Resource]
    BY DEF ScheduleOf
  <2>4. new.version = latest'[a] /\ new.brief = b /\ new.deps = Freeze(heads', b)
    BY DEF NewRun
  <2> HIDE DEF new
  <2>5. /\ {d.key : d \in new.deps} = Needs[new.brief]
        /\ \A d \in new.deps : d.res = heads'[d.key]
    BY <2>2, <2>3, <2>4, FreezeSees
  <2> QED
    BY <2>1, <2>4, <2>5 DEF SeesHeads
<1>2. CASE a \notin S
  <2>1. /\ runs'[a] = runs[a] /\ current'[a] = current[a]
        /\ versions'[a] = versions[a] /\ latest'[a] = latest[a]
    <3>1. runs'[a] = runs[a] /\ current'[a] = current[a]
      BY <1>2, ScheduledRuns
    <3> QED
      BY <1>2, <3>1 DEF ScheduleOf
  <2>2. current[a] # 0 => \A d \in runs[a][current[a]].deps :
                            heads'[d.key] = heads[d.key]
    BY <1>2 DEF ScheduleOf
  <2> QED
    BY <2>1, <2>2 DEF SeesHeads, CurrentRunSeesHeads
<1> QED
  BY <1>1, <1>2

LEMMA RewriteSeesHeads ==
  ASSUME Indexed, CurrentRunSeesHeads, NEW a \in Assets, NEW r \in Run,
         Rewrite(a, r), SameBasis(r, runs[a][current[a]])
  PROVE  CurrentRunSeesHeads'
<1> SUFFICES ASSUME NEW c \in Assets
             PROVE  SeesHeads(c)'
  BY DEF SeesHeads, CurrentRunSeesHeads
<1>1. UNCHANGED <<heads, versions, latest, current>>
  BY DEF Rewrite
<1>2. CASE c = a
  <2>1. runs'[a][current[a]] = r
    BY RewrittenRuns
  <2> QED
    BY <1>1, <1>2, <2>1 DEF SeesHeads, CurrentRunSeesHeads, SameBasis
<1>3. CASE c # a
  <2>1. runs'[c] = runs[c]
    BY <1>3, RewrittenRuns
  <2> QED
    BY <1>1, <2>1 DEF SeesHeads, CurrentRunSeesHeads
<1> QED
  BY <1>2, <1>3

LEMMA SnapshotBasis ==
  ASSUME Indexed, NEW a \in Assets, NEW r \in Run, NEW snapshot \in Snapshot,
         Rewrite(a, r),
         r.version = runs[a][current[a]].version,
         r.brief = runs[a][current[a]].brief,
         r.evaluator = runs[a][current[a]].evaluator,
         r.deps = runs[a][current[a]].deps,
         r.snaps = Append(runs[a][current[a]].snaps, snapshot)
  PROVE  SameBasis(r, runs[a][current[a]])
<1>1. runs[a][current[a]].snaps \in Seq(Snapshot)
  BY RewrittenRuns DEF Run
<1> QED
  BY <1>1 DEF SameBasis

LEMMA StepSeesHeads ==
  ASSUME Indexed, CurrentRunSeesHeads, [Next]_vars
  PROVE  CurrentRunSeesHeads'
<1>1. CASE StateStep
  BY <1>1, RewriteSeesHeads DEF StateStep, SameButState, SameBasis
<1>2. CASE SnapshotStep
  BY <1>2, RewriteSeesHeads, SnapshotBasis DEF SnapshotStep
<1>3. ASSUME UNCHANGED <<heads, versions, latest, current, runs>>
      PROVE  CurrentRunSeesHeads'
  BY <1>3 DEF CurrentRunSeesHeads
<1>4. ApproveStep => UNCHANGED <<heads, versions, latest, current, runs>>
  BY DEF ApproveStep, Approve, governanceVars, contentVars
<1>5. ReleaseAction => UNCHANGED <<heads, versions, latest, current, runs>>
  BY DEF ReleaseAction, ReleaseContent, governanceVars, contentVars
<1>6. RevokeStep \/ IdleStep => UNCHANGED <<heads, versions, latest, current, runs>>
  BY DEF RevokeStep, UserRevoke, IdleStep, contentVars
<1> QED
  BY <1>1, <1>2, <1>3, <1>4, <1>5, <1>6, Steps, ScheduleSeesHeads

LEMMA Grounded ==
  Spec => [](Indexed /\ CurrentRunSeesHeads)
<1>1. Init => Indexed /\ CurrentRunSeesHeads
  BY InitIndexed DEF Init, CurrentRunSeesHeads
<1>2. Indexed /\ CurrentRunSeesHeads /\ [Next]_vars
        => (Indexed /\ CurrentRunSeesHeads)'
  BY StepIndexed, StepSeesHeads
<1> QED
  BY <1>1, <1>2, PTL DEF Spec

\* Every row keeps its columns and every pointer its range, whatever the
\* number of assets, principals, resources and runs.
THEOREM TypeCorrect == Spec => []TypeOK
<1>1. Indexed => TypeOK
  BY DEF Indexed
<1> QED
  BY <1>1, Grounded, PTL

\* What a current run froze is what governance says now, for any number of
\* assets that share any number of sources and policies (put_resource,
\* resource_decision and submit reschedule in the same transaction).
THEOREM GovernanceReachesRuns == Spec => []CurrentRunSeesHeads
BY Grounded, PTL

-----------------------------------------------------------------------------
(* The refresh reschedules no more often than something happened *)

\* The run the worker would keep is the one more run an asset may have had.
Spare(a) ==
  IF current[a] # 0 /\ Fresh(a, current[a], evaluator["worker"]) THEN 1 ELSE 0

Settled(a) == Len(runs[a]) <= MaxRuns + now + deploys + Spare(a)

AllSettled ==
  /\ now <= MaxTime /\ deploys <= MaxDeploys
  /\ \A a \in Assets : Settled(a)

\* An event adds one to the account, which pays for the spare run if it was used.
LEMMA SpareSpent ==
  ASSUME NEW k \in Nat, NEW m \in Nat, NEW x \in Nat, NEW y \in Nat, NEW t \in {0, 1},
         k <= m + x + y + t,
         NEW x1 \in Nat, NEW y1 \in Nat, x1 + y1 = x + y + 1, NEW t1 \in {0, 1}
  PROVE  k <= m + x1 + y1 + t1
OBVIOUS

LEMMA Counts ==
  ASSUME Indexed, NEW a \in Assets
  PROVE  /\ Len(runs[a]) \in Nat /\ now \in Nat /\ deploys \in Nat
         /\ Spare(a) \in {0, 1}
         /\ MaxRuns \in Nat /\ MaxTime \in Nat /\ MaxDeploys \in Nat
<1>1. runs[a] \in Seq(Run) /\ now \in Nat /\ deploys \in Nat
  BY DEF Indexed, TypeOK
<1> QED
  BY <1>1, BoundsAssumption DEF Spare

\* An asset whose current run the worker keeps has the spare run to its account.
LEMMA KeptSettles ==
  ASSUME Indexed, AllSettled, NEW a \in Assets,
         now' = now, deploys' = deploys, Len(runs'[a]) = Len(runs[a]),
         Spare(a) = 1 => Spare(a)' = 1, Spare(a)' \in {0, 1}
  PROVE  Settled(a)'
<1>1. Len(runs[a]) <= MaxRuns + now + deploys + Spare(a)
  BY DEF AllSettled, Settled
<1>2. Spare(a) <= Spare(a)'
  BY Counts
<1> QED
  BY <1>1, <1>2, Counts DEF Settled

\* A run is fresh for the process that schedules it, whatever it froze: a
\* resource that is already invalid is not what makes it stale.
LEMMA NewRunFresh ==
  ASSUME Indexed, NEW S \in SUBSET Assets, NEW e \in Evaluators, ScheduleOf(S, e),
         e = evaluator["worker"], NEW a \in S
  PROVE  Spare(a)' = 1
<1> DEFINE b == versions'[a][latest'[a]]
           new == NewRun(latest'[a], b, heads', e)
<1>1. current'[a] # 0 /\ runs'[a][current'[a]] = new
  <2>1. Len(runs[a]) \in Nat
    BY Counts
  <2>2. current'[a] = Len(runs[a]) + 1
    BY ScheduledRuns
  <2>3. runs'[a][current'[a]] = new
    BY ScheduledCurrent
  <2> QED
    BY <2>1, <2>2, <2>3
<1>2. /\ new.version = latest'[a] /\ new.brief = b /\ new.deps = Freeze(heads', b)
      /\ new.state # "stale" /\ new.evaluator = e
  BY DEF NewRun
<1>3. ASSUME NEW d \in Freeze(heads', b)
      PROVE  /\ heads'[d.key].version = d.res.version
             /\ heads'[d.key].rev = d.res.rev
             /\ d.valid => ResourceValid(heads'[d.key], b, now)
  BY DEF Freeze
<1>4. evaluator' = evaluator /\ now' = now
  BY DEF ScheduleOf
<1> HIDE DEF new
<1>5. Fresh(a, current[a], evaluator["worker"])'
  BY <1>1, <1>2, <1>3, <1>4 DEF Fresh, ResourceValid
<1> QED
  BY <1>1, <1>5 DEF Spare

LEMMA ScheduleSettles ==
  ASSUME Indexed, AllSettled, ScheduleStep
  PROVE  AllSettled'
<1> PICK S \in SUBSET Assets, e \in Evaluators : ScheduleOf(S, e)
  BY DEF ScheduleStep
<1>1. now' = now /\ deploys' = deploys /\ evaluator' = evaluator
  BY DEF ScheduleOf
<1>2. ASSUME NEW a \in Assets
      PROVE  Settled(a)'
  <2>1. Spare(a)' \in {0, 1}
    BY DEF Spare
  <2>2. CASE a \notin S
    <3>1. runs'[a] = runs[a] /\ current'[a] = current[a]
      BY <2>2, ScheduledRuns
    <3>2. /\ latest'[a] = latest[a]
          /\ current[a] # 0 => \A d \in runs[a][current[a]].deps :
                                 heads'[d.key] = heads[d.key]
      BY <2>2 DEF ScheduleOf
    <3>3. Spare(a) = 1 => Spare(a)' = 1
      BY <1>1, <3>1, <3>2 DEF Spare, Fresh, ResourceValid
    <3> QED
      BY <1>1, <2>1, <3>1, <3>3, KeptSettles
  <2>3. CASE a \in S
    <3>1. Len(runs'[a]) = Len(runs[a]) + 1
      BY <2>3, ScheduledRuns
    <3>2. CASE Len(runs[a]) < MaxRuns
      BY <1>1, <2>1, <3>1, <3>2, Counts DEF Settled
    <3>3. CASE Outdated(a) /\ e = evaluator["worker"]
      <4>1. Spare(a) = 0
        BY <3>3 DEF Outdated, Spare
      <4>2. Spare(a)' = 1
        BY <2>3, <3>3, NewRunFresh
      <4>3. Len(runs[a]) <= MaxRuns + now + deploys + Spare(a)
        BY DEF AllSettled, Settled
      <4> QED
        BY <1>1, <3>1, <4>1, <4>2, <4>3, Counts DEF Settled
    <3> QED
      BY <2>3, <3>2, <3>3 DEF ScheduleOf
  <2> QED
    BY <2>2, <2>3
<1> QED
  BY <1>1, <1>2 DEF AllSettled

\* Replacing a current run settles as long as a run the worker keeps stays one.
LEMMA RewriteSettles ==
  ASSUME Indexed, AllSettled, NEW a \in Assets, NEW r \in Run, Rewrite(a, r),
         SameBasis(r, runs[a][current[a]]),
         r.state = "stale" => Outdated(a)
  PROVE  AllSettled'
<1>1. /\ now' = now /\ deploys' = deploys /\ evaluator' = evaluator
      /\ heads' = heads /\ latest' = latest /\ current' = current
  BY DEF Rewrite
<1>2. ASSUME NEW c \in Assets
      PROVE  Settled(c)'
  <2>1. Len(runs'[c]) = Len(runs[c])
    BY RewrittenRuns
  <2>2. Spare(c) = 1 => Spare(c)' = 1
    <3>1. CASE c = a
      <4>1. runs'[a][current[a]] = r
        BY RewrittenRuns
      <4> QED
        BY <1>1, <3>1, <4>1 DEF Spare, Fresh, ResourceValid, SameBasis, Outdated
    <3>2. CASE c # a
      <4>1. runs'[c] = runs[c]
        BY <3>2, RewrittenRuns
      <4> QED
        BY <1>1, <4>1 DEF Spare, Fresh, ResourceValid
    <3> QED
      BY <3>1, <3>2
  <2>3. Spare(c)' \in {0, 1}
    BY DEF Spare
  <2> QED
    BY <1>1, <2>1, <2>2, <2>3, KeptSettles
<1> QED
  BY <1>1, <1>2 DEF AllSettled

LEMMA IdleSettles ==
  ASSUME Indexed, AllSettled, IdleStep
  PROVE  AllSettled'
<1>1. ASSUME NEW a \in Assets
      PROVE  Settled(a)'
  <2>1. Len(runs[a]) <= MaxRuns + now + deploys + Spare(a) /\ runs'[a] = runs[a]
    BY DEF AllSettled, Settled, IdleStep
  <2>2. Spare(a)' \in {0, 1}
    BY DEF Spare
  <2>3. CASE now' = now /\ deploys' = deploys /\ evaluator' = evaluator
    <3>1. Spare(a)' = Spare(a)
      BY <2>3 DEF IdleStep, Spare, Fresh, ResourceValid
    <3> QED
      BY <2>1, <2>3, <3>1 DEF Settled
  <2>a. /\ Len(runs[a]) \in Nat /\ now \in Nat /\ deploys \in Nat /\ MaxRuns \in Nat
        /\ Spare(a) \in {0, 1}
    BY Counts
  <2>b. CASE now' + deploys' = now + deploys + 1 /\ now' \in Nat /\ deploys' \in Nat
    <3>1. Len(runs'[a]) <= MaxRuns + now' + deploys' + Spare(a)'
      BY <2>1, <2>2, <2>a, <2>b, SpareSpent
    <3> QED
      BY <3>1, Zenon DEF Settled
  <2>4. CASE now' = now + 1 /\ deploys' = deploys
    BY <2>4, <2>a, <2>b
  <2>5. CASE deploys' = deploys + 1 /\ now' = now
    BY <2>5, <2>a, <2>b
  <2> QED
    BY <2>3, <2>4, <2>5 DEF IdleStep
<1>2. now \in Nat /\ deploys \in Nat /\ MaxTime \in Nat /\ MaxDeploys \in Nat
  BY BoundsAssumption DEF Indexed, TypeOK
<1>3. now' <= MaxTime /\ deploys' <= MaxDeploys
  BY <1>2 DEF IdleStep, AllSettled
<1> QED
  BY <1>1, <1>3 DEF AllSettled

LEMMA StepSettles ==
  ASSUME Indexed, CurrentRunSeesHeads, AllSettled, [Next]_vars
  PROVE  AllSettled'
<1>1. CASE StateStep
  BY <1>1, RewriteSettles DEF StateStep, SameButState, SameBasis
<1>2. CASE SnapshotStep
  BY <1>2, RewriteSettles, SnapshotBasis DEF SnapshotStep
<1>3. ASSUME UNCHANGED <<now, deploys, evaluator, heads, latest, current, runs>>
      PROVE  AllSettled'
  BY <1>3 DEF AllSettled, Settled, Spare, Fresh, ResourceValid
<1>4. CASE ApproveStep \/ ReleaseAction \/ RevokeStep
  <2>1. UNCHANGED <<now, deploys, evaluator, heads, latest, current, runs>>
    BY <1>4 DEF ApproveStep, Approve, ReleaseAction, ReleaseContent, RevokeStep,
       UserRevoke, governanceVars, contentVars
  <2> QED
    BY <1>3, <2>1
<1> QED
  BY <1>1, <1>2, <1>4, Steps, ScheduleSettles, IdleSettles

\* However requests, reviews, the clock, restarts and the refreshes of two
\* processes that disagree interleave, an asset never has more runs than requests
\* were admitted, plus one for each tick and restart, plus one: a refresh is paid
\* for by the event that made the run stale (service.py fresh and refresh_stale).
THEOREM RefreshSettles == Spec => []ReschedulingSettles
<1>1. Init => AllSettled
  BY BoundsAssumption DEF Init, AllSettled, Settled, Spare
<1>2. Indexed /\ CurrentRunSeesHeads /\ AllSettled /\ [Next]_vars => AllSettled'
  BY StepSettles
<1>3. ASSUME Indexed, AllSettled, NEW a \in Assets
      PROVE  Len(runs[a]) <= MaxRuns + MaxTime + MaxDeploys + 1
  <2>1. /\ now <= MaxTime /\ deploys <= MaxDeploys
        /\ Len(runs[a]) <= MaxRuns + now + deploys + Spare(a)
    BY <1>3 DEF AllSettled, Settled
  <2>2. /\ Len(runs[a]) \in Nat /\ now \in Nat /\ deploys \in Nat
        /\ Spare(a) \in {0, 1}
        /\ MaxRuns \in Nat /\ MaxTime \in Nat /\ MaxDeploys \in Nat
    BY <1>3, Counts
  <2> QED
    BY <2>1, <2>2
<1>4. Indexed /\ AllSettled => ReschedulingSettles
  BY <1>3 DEF ReschedulingSettles
<1> QED
  BY <1>1, <1>2, <1>4, Grounded, PTL DEF Spec

-----------------------------------------------------------------------------
(* The service implements RunLifecycle *)

LEMMA FunctionIsSeq ==
  ASSUME NEW T, NEW k \in Nat, NEW f \in [1 .. k -> T]
  PROVE  f \in Seq(T) /\ Len(f) = k
OBVIOUS

StatesOf(rs) == [a \in Assets |-> [n \in DOMAIN rs[a] |-> rs[a][n].state]]

LEMMA RunStatesOf ==
  ASSUME NEW rs \in [Assets -> Seq(Run)], NEW a \in Assets
  PROVE  /\ StatesOf(rs)[a] \in Seq(RunStates)
         /\ Len(StatesOf(rs)[a]) = Len(rs[a]) /\ Len(rs[a]) \in Nat
         /\ \A n \in 1 .. Len(rs[a]) : StatesOf(rs)[a][n] = rs[a][n].state
<1>1. DOMAIN rs[a] = 1 .. Len(rs[a]) /\ Len(rs[a]) \in Nat /\ rs[a] \in Seq(Run)
  OBVIOUS
<1>2. \A n \in 1 .. Len(rs[a]) : rs[a][n].state \in RunStates
  <2>1. \A n \in 1 .. Len(rs[a]) : rs[a][n] \in Run
    BY <1>1
  <2> QED
    BY <2>1 DEF Run
<1>3. StatesOf(rs)[a] = [n \in 1 .. Len(rs[a]) |-> rs[a][n].state]
  BY <1>1 DEF StatesOf
<1>4. StatesOf(rs)[a] \in [1 .. Len(rs[a]) -> RunStates]
  BY <1>2, <1>3
<1> QED
  BY <1>1, <1>3, <1>4, FunctionIsSeq

\* An asset none of whose runs moves.
LEMMA UnchangedStates ==
  ASSUME NEW a \in Assets, runs'[a] = runs[a]
  PROVE  Lifecycle!Unchanged(a)
BY DEF Lifecycle!Unchanged

LEMMA ScheduleRefines ==
  ASSUME Indexed, ScheduleStep, NEW a \in Assets
  PROVE  Lifecycle!Unchanged(a) \/ Lifecycle!Supersede(a)
<1> PICK S \in SUBSET Assets, e \in Evaluators : ScheduleOf(S, e)
  BY DEF ScheduleStep
<1> DEFINE s == StatesOf(runs)[a]
           t == StatesOf(runs')[a]
           k == Len(runs[a])
<1>1. CASE a \notin S
  <2>1. runs'[a] = runs[a]
    BY <1>1, ScheduledRuns
  <2> QED
    BY <2>1, UnchangedStates
<1>2. CASE a \in S
  <2>1. /\ runs \in [Assets -> Seq(Run)] /\ runs' \in [Assets -> Seq(Run)]
        /\ current[a] = k
    BY ScheduledRuns DEF Indexed, TypeOK
  <2>2. /\ s \in Seq(RunStates) /\ Len(s) = k /\ k \in Nat
        /\ \A n \in 1 .. k : s[n] = runs[a][n].state
    BY <2>1, RunStatesOf
  <2>3. /\ Len(t) = Len(runs'[a])
        /\ \A n \in 1 .. Len(runs'[a]) : t[n] = runs'[a][n].state
    BY <2>1, RunStatesOf
  <2>4. /\ Len(runs'[a]) = k + 1
        /\ \A n \in 1 .. k :
             runs'[a][n].state = IF n = k THEN "stale" ELSE runs[a][n].state
    <3>1. /\ Len(runs'[a]) = Len(runs[a]) + 1
          /\ \A n \in 1 .. Len(runs[a]) : runs'[a][n].state = RetiredState(a, n)
      BY <1>2, ScheduledRuns
    <3>2. \A n : RetiredState(a, n) = IF n = k THEN "stale" ELSE runs[a][n].state
      BY <2>1 DEF RetiredState
    <3> QED
      BY <3>1, <3>2
  <2>5. runs'[a][k + 1].state = "awaiting_scope"
    <3>1. runs'[a][k + 1] = NewRun(latest'[a], versions'[a][latest'[a]], heads', e)
      BY <1>2, ScheduledRuns
    <3> QED
      BY <3>1 DEF NewRun
  <2>6. Lifecycle!Supersede(a) <=>
          /\ Len(t) = Len(s) + 1
          /\ \A n \in 1 .. Len(s) - 1 : t[n] = s[n]
          /\ Len(s) > 0 => t[Len(s)] = "stale"
          /\ t[Len(s) + 1] = "awaiting_scope"
    BY DEF Lifecycle!Supersede, Lifecycle!OlderRunsStay, StatesOf
  <2> HIDE DEF s, t, k
  <2> QED
    BY <2>2, <2>3, <2>4, <2>5, <2>6
<1> QED
  BY <1>1, <1>2

LEMMA RewriteRefines ==
  ASSUME Indexed, NEW a \in Assets, NEW r \in Run, Rewrite(a, r),
         \/ <<runs[a][current[a]].state, r.state>> \in Lifecycle!Moves
         \/ runs[a][current[a]].state = r.state,
         NEW c \in Assets
  PROVE  Lifecycle!Unchanged(c) \/ Lifecycle!Progress(c)
<1> DEFINE s == StatesOf(runs)[a]
           t == StatesOf(runs')[a]
           k == Len(runs[a])
<1>1. CASE c # a
  <2>1. runs'[c] = runs[c]
    BY <1>1, RewrittenRuns
  <2> QED
    BY <2>1, UnchangedStates
<1>2. CASE c = a
  <2>1. /\ runs \in [Assets -> Seq(Run)] /\ runs' \in [Assets -> Seq(Run)]
        /\ current[a] = k /\ current[a] # 0
    BY RewrittenRuns DEF Indexed, TypeOK, Rewrite
  <2>2. /\ s \in Seq(RunStates) /\ Len(s) = k /\ k \in Nat
        /\ \A n \in 1 .. k : s[n] = runs[a][n].state
    BY <2>1, RunStatesOf
  <2>3. /\ t \in Seq(RunStates) /\ Len(t) = k
        /\ \A n \in 1 .. k : t[n] = runs'[a][n].state
    <3>1. Len(runs'[a]) = k
      BY RewrittenRuns
    <3> QED
      BY <2>1, <3>1, RunStatesOf
  <2>4. \A n \in 1 .. k : n # k => t[n] = s[n]
    <3>1. \A n \in 1 .. k : n # k => runs'[a][n] = runs[a][n]
      BY <2>1, RewrittenRuns
    <3> HIDE DEF s, t, k
    <3> QED
      BY <2>2, <2>3, <3>1
  <2>5. t[k] = r.state /\ s[k] = runs[a][k].state /\ k \in 1 .. k
    <3>1. runs'[a][k] = r
      BY <2>1, RewrittenRuns
    <3> HIDE DEF s, t, k
    <3> QED
      BY <2>1, <2>2, <2>3, <3>1
  <2>6. /\ Lifecycle!Unchanged(a) <=> t = s
        /\ Lifecycle!Progress(a) <=>
             /\ Len(t) = Len(s) /\ Len(s) > 0
             /\ \A n \in 1 .. Len(s) - 1 : t[n] = s[n]
             /\ <<s[Len(s)], t[Len(s)]>> \in Lifecycle!Moves
    BY DEF Lifecycle!Unchanged, Lifecycle!Progress, Lifecycle!OlderRunsStay, StatesOf
  <2> HIDE DEF s, t, k
  <2>7. CASE t[k] = s[k]
    <3>1. \A n \in 1 .. k : t[n] = s[n]
      BY <2>4, <2>7
    <3>2. t = s
      BY <2>2, <2>3, <3>1
    <3> QED
      BY <1>2, <2>6, <3>2
  <2>8. CASE <<s[k], t[k]>> \in Lifecycle!Moves
    <3>1. \A n \in 1 .. k - 1 : t[n] = s[n]
      BY <2>2, <2>4
    <3> QED
      BY <1>2, <2>2, <2>3, <2>5, <2>6, <2>8, <3>1
  <2> QED
    BY <2>1, <2>5, <2>7, <2>8
<1> QED
  BY <1>1, <1>2

LEMMA StateRefines ==
  ASSUME Indexed, StateStep, NEW c \in Assets
  PROVE  Lifecycle!Unchanged(c) \/ Lifecycle!Progress(c)
BY RewriteRefines DEF StateStep

LEMMA SnapshotRefines ==
  ASSUME Indexed, SnapshotStep, NEW c \in Assets
  PROVE  Lifecycle!Unchanged(c) \/ Lifecycle!Progress(c)
<1> PICK a \in Assets, r \in Run :
      /\ Rewrite(a, r)
      /\ \/ /\ runs[a][current[a]].state = "processing"
            /\ r.state \in {"completed", "failed"}
         \/ runs[a][current[a]].state = "completed" /\ r.state = "completed"
  BY DEF SnapshotStep
<1>1. \/ <<runs[a][current[a]].state, r.state>> \in Lifecycle!Moves
      \/ runs[a][current[a]].state = r.state
  BY DEF Lifecycle!Moves
<1> QED
  BY <1>1, RewriteRefines

\* Every operation of the service, the humans' and the worker's, on any number of
\* assets at once, moves runs only as RunLifecycle allows (service.py schedule,
\* scope, claim, finish and assemble_snapshot).
THEOREM ServiceImplementsLifecycle == Spec => ImplementsLifecycle
<1>1. Init => Lifecycle!Init
  BY DEF Init, Lifecycle!Init
<1>2. ASSUME Indexed, CurrentRunSeesHeads, [Next]_vars
      PROVE  Lifecycle!Next \/ UNCHANGED runs
  <2>1. StatesOf(runs') \in [Assets -> Seq(Lifecycle!RunStates)]
    <3>1. Indexed'
      BY <1>2, StepIndexed
    <3>2. runs' \in [Assets -> Seq(Run)]
      BY <3>1 DEF Indexed, TypeOK
    <3>3. \A a \in Assets : StatesOf(runs')[a] \in Seq(RunStates)
      BY <3>2, RunStatesOf
    <3> QED
      BY <3>3 DEF StatesOf, RunStates, Lifecycle!RunStates
  <2>2. CASE ScheduleStep
    <3>1. \A a \in Assets : Lifecycle!Unchanged(a) \/ Lifecycle!Supersede(a)
      BY <1>2, <2>2, ScheduleRefines
    <3> QED
      BY <2>1, <3>1 DEF Lifecycle!Next, StatesOf
  <2>3. CASE StateStep \/ SnapshotStep
    <3>1. \A a \in Assets : Lifecycle!Unchanged(a) \/ Lifecycle!Progress(a)
      BY <1>2, <2>3, StateRefines, SnapshotRefines
    <3> QED
      BY <2>1, <3>1 DEF Lifecycle!Next, StatesOf
  <2>4. CASE ApproveStep \/ ReleaseAction \/ RevokeStep \/ IdleStep
    BY <2>4 DEF ApproveStep, Approve, ReleaseAction, ReleaseContent, RevokeStep,
       UserRevoke, IdleStep
  <2> QED
    BY <1>2, <2>2, <2>3, <2>4, Steps
<1>3. Indexed /\ CurrentRunSeesHeads /\ [Next]_vars =>
        [Lifecycle!Next]_([a \in Assets |-> [n \in DOMAIN runs[a] |-> runs[a][n].state]])
  BY <1>2
<1> QED
  BY <1>1, <1>3, Grounded, PTL DEF Spec, ImplementsLifecycle, Lifecycle!Spec

-----------------------------------------------------------------------------
(***************************************************************************)
(* The release theorems: what a release pointer, a standing approval and a *)
(* visible release guarantee, for every value of the constants.            *)
(***************************************************************************)

-----------------------------------------------------------------------------
(* The inductive invariant *)

\* An approval was given by the owner of its run's brief, for one of its
\* snapshots; a release cites an approval of its actor.
ApprovalsFounded ==
  \A i \in DOMAIN approvals :
    LET ap == approvals[i]
    IN  /\ ap.run \in DOMAIN runs[ap.asset]
        /\ ap.snap \in DOMAIN runs[ap.asset][ap.run].snaps
        /\ ap.actor = Owner[runs[ap.asset][ap.run].brief]

ReleasesFounded ==
  \A j \in DOMAIN releases :
    /\ releases[j].approval \in DOMAIN approvals
    /\ releases[j].actor = approvals[releases[j].approval].actor

\* ReleasedInForce, with the ranges of the pointers it follows.
PointerFounded(a) ==
  /\ released[a] \in DOMAIN releases
  /\ current[a] # 0
  /\ runs[a][current[a]].head \in DOMAIN runs[a][current[a]].snaps
  /\ ReleaseInForce(a)

PointersFounded == \A a \in Assets : released[a] # 0 => PointerFounded(a)

\* No snapshot is ready whose run froze an invalid source or policy.
ReadyGoverned ==
  \A a \in Assets : \A n \in DOMAIN runs[a] :
    \A s \in DOMAIN runs[a][n].snaps :
      runs[a][n].snaps[s].ready => Governed(runs[a][n])

\* An approval that was used and can still be used has its asset released.
UsedStandingReleased ==
  \A i \in DOMAIN approvals :
    Standing(i) /\ ReleasesOf(i) # {} => released[approvals[i].asset] # 0

IInv ==
  /\ Indexed
  /\ CurrentRunSeesHeads
  /\ ApprovalsFounded
  /\ ReleasesFounded
  /\ PointersFounded
  /\ ReadyGoverned
  /\ UsedStandingReleased

-----------------------------------------------------------------------------
(* Every step keeps approvals, releases and release pointers founded *)

LEMMA ApprovalTyped ==
  ASSUME Indexed, NEW i \in DOMAIN approvals
  PROVE  /\ approvals[i] \in Approval /\ approvals[i].asset \in Assets
         /\ i \in 1 .. Len(approvals)
<1>1. approvals \in Seq(Approval)
  BY DEF Indexed, TypeOK
<1>2. approvals[i] \in Approval /\ i \in 1 .. Len(approvals)
  BY <1>1
<1> QED
  BY <1>2 DEF Approval

\* Approvals and releases stay founded while runs only grow.
LEMMA RecordsKept ==
  ASSUME Indexed, ApprovalsFounded, ReleasesFounded, RunsKept,
         UNCHANGED <<approvals, releases>>
  PROVE  ApprovalsFounded' /\ ReleasesFounded'
<1>1. ASSUME NEW i \in DOMAIN approvals
      PROVE  LET ap == approvals[i]
             IN  /\ ap.run \in DOMAIN runs'[ap.asset]
                 /\ ap.snap \in DOMAIN runs'[ap.asset][ap.run].snaps
                 /\ ap.actor = Owner[runs'[ap.asset][ap.run].brief]
  <2>1. approvals[i].asset \in Assets
    BY ApprovalTyped
  <2> QED
    BY <2>1 DEF ApprovalsFounded, RunsKept, SameBasis
<1> QED
  BY <1>1 DEF ApprovalsFounded, ReleasesFounded

LEMMA ScheduleFounded ==
  ASSUME IInv, ScheduleStep
  PROVE  ApprovalsFounded' /\ ReleasesFounded' /\ PointersFounded'
<1>1. UNCHANGED <<active, approvals, releases>>
  BY DEF ScheduleStep, ScheduleOf
<1>2. ApprovalsFounded' /\ ReleasesFounded'
  BY <1>1, RecordsKept, ScheduleKeepsRuns DEF IInv
<1> PICK S \in SUBSET Assets, e \in Evaluators : ScheduleOf(S, e)
  BY DEF ScheduleStep
<1>3. ASSUME NEW a \in Assets, released'[a] # 0
      PROVE  PointerFounded(a)'
  <2>1. a \notin S
    BY <1>3, ScheduledRuns DEF IInv
  <2>2. /\ runs'[a] = runs[a] /\ current'[a] = current[a]
        /\ released'[a] = released[a]
    BY <2>1, ScheduledRuns DEF IInv
  <2>3. versions'[a] = versions[a] /\ latest'[a] = latest[a]
    BY <2>1 DEF ScheduleOf
  <2>4. PointerFounded(a)
    BY <1>3, <2>2 DEF IInv, PointersFounded
  <2> QED
    BY <1>1, <2>2, <2>3, <2>4 DEF PointerFounded, ReleaseInForce
<1> QED
  BY <1>2, <1>3 DEF PointersFounded

\* A pointer is founded as long as nothing it follows moves.
LEMMA PointerKept ==
  ASSUME NEW a \in Assets, PointersFounded, released[a] # 0,
         UNCHANGED <<active, releases, current, latest, versions>>,
         released'[a] = released[a], runs'[a] = runs[a]
  PROVE  PointerFounded(a)'
BY DEF PointersFounded, PointerFounded, ReleaseInForce

LEMMA StateFounded ==
  ASSUME IInv, StateStep
  PROVE  PointersFounded'
<1> PICK a \in Assets, r \in Run :
      /\ Rewrite(a, r)
      /\ SameButState(r, runs[a][current[a]])
      /\ r.state # "completed" /\ runs[a][current[a]].state # "completed"
      /\ released' = released
  BY DEF StateStep, Lifecycle!Moves
<1> SUFFICES ASSUME NEW c \in Assets, released'[c] # 0
             PROVE  PointerFounded(c)'
  BY DEF PointersFounded
<1>1. c # a
  BY DEF IInv, PointersFounded, PointerFounded, ReleaseInForce
<1>2. runs'[c] = runs[c]
  BY <1>1, RewrittenRuns DEF IInv
<1> QED
  BY <1>2, PointerKept DEF Rewrite, IInv

LEMMA SnapshotFounded ==
  ASSUME IInv, SnapshotStep
  PROVE  PointersFounded'
<1> PICK a \in Assets, r \in Run : /\ Rewrite(a, r)
                                 /\ released' = [released EXCEPT ![a] = 0]
  BY DEF SnapshotStep
<1> SUFFICES ASSUME NEW c \in Assets, released'[c] # 0
             PROVE  PointerFounded(c)'
  BY DEF PointersFounded
<1>1. c # a /\ released'[c] = released[c]
  BY DEF IInv, Indexed, TypeOK
<1>2. runs'[c] = runs[c]
  BY <1>1, RewrittenRuns DEF IInv
<1> QED
  BY <1>1, <1>2, PointerKept DEF Rewrite, IInv

LEMMA ApproveFounded ==
  ASSUME IInv, ApproveStep
  PROVE  ApprovalsFounded' /\ ReleasesFounded' /\ PointersFounded'
<1> PICK p \in Principals, a \in Assets : \E n \in DOMAIN runs[a] :
      \E s \in DOMAIN runs[a][n].snaps : Approve(p, a, n, s)
  BY DEF ApproveStep
<1> PICK n \in DOMAIN runs[a] :
      \E s \in DOMAIN runs[a][n].snaps : Approve(p, a, n, s)
  OBVIOUS
<1> PICK s \in DOMAIN runs[a][n].snaps : Approve(p, a, n, s)
  OBVIOUS
<1> DEFINE ap == [asset |-> a, run |-> n, version |-> runs[a][n].version,
                  snap |-> s, actor |-> p]
<1>1. /\ approvals' = Append(approvals, ap)
      /\ UNCHANGED <<active, versions, latest, current, runs, releases, released>>
  BY DEF Approve, governanceVars, contentVars
<1>2. /\ ap.run \in DOMAIN runs[ap.asset]
      /\ ap.snap \in DOMAIN runs[ap.asset][ap.run].snaps
      /\ ap.actor = Owner[runs[ap.asset][ap.run].brief]
  BY DEF Approve
<1> HIDE DEF ap
<1>3. approvals \in Seq(Approval) /\ approvals' \in Seq(Approval)
  BY ApproveIndexed DEF IInv, Indexed, TypeOK
<1>4. ASSUME NEW i \in DOMAIN approvals'
      PROVE  \/ i \in DOMAIN approvals /\ approvals'[i] = approvals[i]
             \/ approvals'[i] = ap
  BY <1>1, <1>3, AppendedIndices
<1>5. ASSUME NEW i \in DOMAIN approvals
      PROVE  i \in DOMAIN approvals' /\ approvals'[i] = approvals[i]
  BY <1>1, <1>3, AppendedIndices
<1>6. ApprovalsFounded'
  BY <1>1, <1>2, <1>4 DEF ApprovalsFounded, IInv
<1>7. ReleasesFounded'
  BY <1>1, <1>5 DEF ReleasesFounded, IInv
<1>8. PointersFounded'
  BY <1>1, PointerKept DEF PointersFounded, IInv
<1> QED
  BY <1>6, <1>7, <1>8

LEMMA ReleaseFounded ==
  ASSUME IInv, ReleaseAction
  PROVE  ApprovalsFounded' /\ ReleasesFounded' /\ PointersFounded'
<1> PICK p \in Principals, i \in DOMAIN approvals : ReleaseContent(p, i)
  BY DEF ReleaseAction
<1> DEFINE ap == approvals[i]
           a == ap.asset
           rel == [asset |-> a, run |-> ap.run, version |-> ap.version,
                   snap |-> ap.snap, approval |-> i, actor |-> p]
<1>1. /\ a \in Assets /\ ap \in Approval /\ rel \in Release
      /\ MayRelease(p, i)
      /\ releases' = Append(releases, rel)
      /\ releases' \in Seq(Release)
      /\ released' = [released EXCEPT ![a] = Len(releases) + 1]
      /\ UNCHANGED <<active, versions, latest, current, runs, approvals>>
  <2>1. ReleasedFor(p, i)
    BY ReleaseEffect DEF IInv
  <2> QED
    BY <2>1 DEF ReleasedFor
<1>2. /\ p \in active /\ current[a] # 0 /\ ap.run = current[a]
      /\ runs[a][current[a]].state = "completed"
      /\ runs[a][current[a]].head = ap.snap
      /\ p = Owner[runs[a][current[a]].brief]
      /\ ap.version = latest[a] /\ ap.actor = p
      /\ runs[a][current[a]].snaps[ap.snap].ready
  <2>1. MayRelease(p, i)
    BY <1>1
  <2>2. /\ p \in active /\ current[a] # 0
        /\ p = Owner[runs[a][current[a]].brief]
        /\ ap.version = latest[a] /\ ap.run = current[a] /\ ap.actor = p
        /\ runs[a][current[a]].snaps[ap.snap].ready
        /\ ExactSnapshot(a, current[a], ap.snap)
    BY <2>1, Zenon DEF MayRelease
  <2> HIDE DEF a, ap
  <2> QED
    BY <2>2 DEF ExactSnapshot
<1>3. runs[a][current[a]].brief = versions[a][latest[a]]
  <2> HIDE DEF a, ap, rel
  <2>1. a \in Assets /\ current[a] # 0
    BY <1>1, <1>2
  <2>2. CurrentRunSeesHeads
    BY DEF IInv
  <2> QED
    BY <2>1, <2>2 DEF CurrentRunSeesHeads
<1>4. ap.snap \in DOMAIN runs[a][current[a]].snaps
  <2> HIDE DEF rel
  <2>1. ap.snap \in DOMAIN runs[a][ap.run].snaps
    BY Zenon DEF IInv, ApprovalsFounded
  <2> HIDE DEF a, ap
  <2>2. ap.run = current[a]
    BY <1>2
  <2> QED
    BY <2>1, <2>2
<1>5. /\ rel.asset = a /\ rel.run = ap.run /\ rel.version = ap.version
      /\ rel.snap = ap.snap /\ rel.approval = i /\ rel.actor = p
  OBVIOUS
<1>6. releases \in Seq(Release) /\ released \in [Assets -> Nat]
  BY DEF IInv, Indexed, TypeOK
<1> HIDE DEF rel
<1>7. /\ Len(releases) + 1 \in DOMAIN releases'
      /\ releases'[Len(releases) + 1] = rel
      /\ \A j \in DOMAIN releases : j \in DOMAIN releases' /\ releases'[j] = releases[j]
      /\ \A j \in DOMAIN releases' : j \in DOMAIN releases \/ releases'[j] = rel
  BY <1>1, <1>6, AppendedIndices
<1>8. ApprovalsFounded'
  BY <1>1 DEF IInv, ApprovalsFounded
<1>9. ASSUME NEW j \in DOMAIN releases'
      PROVE  /\ releases'[j].approval \in DOMAIN approvals
             /\ releases'[j].actor = approvals[releases'[j].approval].actor
  <2>1. CASE j \in DOMAIN releases
    <3>1. releases'[j] = releases[j]
      BY <1>7, <2>1
    <3>2. ReleasesFounded
      BY DEF IInv
    <3> QED
      BY <2>1, <3>1, <3>2 DEF ReleasesFounded
  <2>2. CASE releases'[j] = rel
    <3>1. ap = approvals[i]
      OBVIOUS
    <3> HIDE DEF a, ap
    <3> QED
      BY <1>2, <1>5, <2>2, <3>1
  <2> QED
    BY <1>7, <2>1, <2>2
<1>10. ASSUME NEW c \in Assets, released'[c] # 0
       PROVE  PointerFounded(c)'
  <2>1. CASE c = a
    <3>1. released'[c] = Len(releases) + 1
      BY <1>1, <1>6, <2>1
    <3> HIDE DEF a, ap
    <3> QED
      BY <1>1, <1>2, <1>3, <1>4, <1>5, <1>7, <2>1, <3>1
      DEF PointerFounded, ReleaseInForce
  <2>2. CASE c # a
    <3>1. released'[c] = released[c]
      BY <1>1, <1>6, <2>2
    <3>2. PointerFounded(c)
      BY <1>10, <3>1 DEF IInv, PointersFounded
    <3> QED
      BY <1>1, <1>7, <3>1, <3>2 DEF PointerFounded, ReleaseInForce
  <2> QED
    BY <2>1, <2>2
<1> QED
  BY <1>1, <1>8, <1>9, <1>10 DEF PointersFounded, ReleasesFounded

LEMMA RevokeFounded ==
  ASSUME IInv, RevokeStep
  PROVE  ApprovalsFounded' /\ ReleasesFounded' /\ PointersFounded'
<1> PICK p \in Principals : UserRevoke(p)
  BY DEF RevokeStep
<1>1. /\ active' = active \ {p}
      /\ UNCHANGED <<versions, latest, current, runs, approvals, releases>>
  BY DEF UserRevoke, contentVars, recordVars
<1>2. ApprovalsFounded' /\ ReleasesFounded'
  BY <1>1 DEF IInv, ApprovalsFounded, ReleasesFounded
<1>3. ASSUME NEW a \in Assets, released'[a] # 0
      PROVE  PointerFounded(a)'
  <2>1. /\ released'[a] = released[a]
        /\ approvals[releases[released[a]].approval].actor # p
    BY <1>3 DEF UserRevoke
  <2>2. PointerFounded(a)
    BY <1>3, <2>1 DEF IInv, PointersFounded
  <2>3. releases[released[a]].actor # p
    BY <2>1, <2>2 DEF PointerFounded, IInv, ReleasesFounded
  <2>4. releases[released[a]].actor \in active
    BY <2>2 DEF PointerFounded, ReleaseInForce
  <2>5. ReleaseInForce(a)'
    BY <1>1, <2>1, <2>2, <2>3, <2>4 DEF PointerFounded, ReleaseInForce
  <2>6. /\ released[a] \in DOMAIN releases /\ current[a] # 0
        /\ runs[a][current[a]].head \in DOMAIN runs[a][current[a]].snaps
    BY <2>2 DEF PointerFounded
  <2> QED
    BY <1>1, <2>1, <2>5, <2>6 DEF PointerFounded
<1> QED
  BY <1>2, <1>3 DEF PointersFounded

LEMMA StepFounded ==
  ASSUME IInv, [Next]_vars
  PROVE  ApprovalsFounded' /\ ReleasesFounded' /\ PointersFounded'
<1>1. CASE StateStep \/ SnapshotStep
  <2>1. UNCHANGED <<approvals, releases>>
    BY <1>1, RewritesKeepRecords
  <2>2. ApprovalsFounded' /\ ReleasesFounded'
    BY <2>1, RecordsKept, StepKeepsRuns DEF IInv
  <2>3. PointersFounded'
    BY <1>1, StateFounded, SnapshotFounded, Zenon
  <2> QED
    BY <2>2, <2>3
<1>2. CASE IdleStep
  BY <1>2, PointerKept DEF IdleStep, IInv, ApprovalsFounded, ReleasesFounded,
     PointersFounded
<1> QED
  BY <1>1, <1>2, Steps, ScheduleFounded, ApproveFounded, ReleaseFounded,
     RevokeFounded DEF IInv

-----------------------------------------------------------------------------
(* Every step keeps ready snapshots governed *)

\* The part of ReadyGoverned about one run.
ReadyIn(run) == \A s \in DOMAIN run.snaps : run.snaps[s].ready => Governed(run)

LEMMA ScheduleReady ==
  ASSUME IInv, ScheduleStep
  PROVE  ReadyGoverned'
<1> PICK S \in SUBSET Assets, e \in Evaluators : ScheduleOf(S, e)
  BY DEF ScheduleStep
<1> SUFFICES ASSUME NEW a \in Assets, NEW n \in DOMAIN runs'[a]
             PROVE  ReadyIn(runs'[a][n])
  BY DEF ReadyGoverned, ReadyIn, Governed
<1>1. CASE a \notin S
  <2>1. runs'[a] = runs[a]
    BY <1>1, ScheduledRuns DEF IInv
  <2>2. ReadyGoverned
    BY DEF IInv
  <2> QED
    BY <2>1, <2>2 DEF ReadyGoverned, ReadyIn, Governed
<1>2. CASE a \in S
  <2>1. /\ runs'[a] \in Seq(Run) /\ Len(runs'[a]) = Len(runs[a]) + 1
        /\ runs'[a][Len(runs[a]) + 1] =
             NewRun(latest'[a], versions'[a][latest'[a]], heads', e)
        /\ \A m \in 1 .. Len(runs[a]) : SameButState(runs'[a][m], runs[a][m])
    BY <1>2, ScheduledRuns DEF IInv
  <2>2. runs[a] \in Seq(Run)
    BY DEF IInv, Indexed, TypeOK
  <2>3. CASE n = Len(runs[a]) + 1
    BY <2>1, <2>3 DEF NewRun, ReadyIn
  <2>4. CASE n \in 1 .. Len(runs[a])
    BY <2>1, <2>2, <2>4 DEF IInv, ReadyGoverned, ReadyIn, Governed, SameButState
  <2> QED
    BY <2>1, <2>2, <2>3, <2>4
<1> QED
  BY <1>1, <1>2

LEMMA RewriteReady ==
  ASSUME IInv, NEW a \in Assets, NEW r \in Run, Rewrite(a, r), ReadyIn(r)
  PROVE  ReadyGoverned'
<1> SUFFICES ASSUME NEW c \in Assets, NEW n \in DOMAIN runs'[c]
             PROVE  ReadyIn(runs'[c][n])
  BY DEF ReadyGoverned, ReadyIn, Governed
<1>1. /\ runs[c] \in Seq(Run) /\ runs'[c] \in Seq(Run)
      /\ Len(runs'[c]) = Len(runs[c])
  BY RewrittenRuns DEF IInv, Indexed, TypeOK
<1>2. n \in DOMAIN runs[c]
  BY <1>1
<1>3. CASE c = a /\ n = current[a]
  BY <1>3, RewrittenRuns DEF IInv
<1>4. CASE c # a \/ n # current[a]
  <2>1. runs'[c][n] = runs[c][n]
    BY <1>2, <1>4, RewrittenRuns DEF IInv
  <2> QED
    BY <1>2, <2>1 DEF IInv, ReadyGoverned, ReadyIn, Governed
<1> QED
  BY <1>3, <1>4

LEMMA CurrentReady ==
  ASSUME IInv, NEW a \in Assets, current[a] # 0
  PROVE  runs[a][current[a]] \in Run /\ ReadyIn(runs[a][current[a]])
<1>1. runs[a] \in Seq(Run) /\ current[a] \in 1 .. Len(runs[a])
  BY DEF IInv, Indexed, TypeOK
<1> QED
  BY <1>1 DEF IInv, ReadyGoverned, ReadyIn

LEMMA SnapshotReady ==
  ASSUME IInv, SnapshotStep
  PROVE  ReadyGoverned'
<1> PICK a \in Assets, r \in Run, snapshot \in Snapshot :
      /\ Rewrite(a, r)
      /\ r.deps = runs[a][current[a]].deps
      /\ r.snaps = Append(runs[a][current[a]].snaps, snapshot)
      /\ snapshot.ready => Governed(runs[a][current[a]])
  BY DEF SnapshotStep
<1> DEFINE run == runs[a][current[a]]
<1>1. run \in Run /\ ReadyIn(run)
  BY CurrentReady DEF Rewrite
<1>2. run.snaps \in Seq(Snapshot)
  BY <1>1 DEF Run
<1>3. Governed(r) <=> Governed(run)
  BY DEF Governed
<1> HIDE DEF run
<1>4. ASSUME NEW s \in DOMAIN r.snaps, r.snaps[s].ready
      PROVE  Governed(r)
  <2> r.snaps = Append(run.snaps, snapshot) /\ (snapshot.ready => Governed(run))
    BY DEF run
  <2>1. CASE s = Len(run.snaps) + 1
    BY <1>2, <1>3, <1>4, <2>1
  <2>2. CASE s \in DOMAIN run.snaps
    BY <1>1, <1>2, <1>3, <1>4, <2>2 DEF ReadyIn
  <2> QED
    BY <1>2, <2>1, <2>2
<1>5. ReadyIn(r)
  BY <1>4 DEF ReadyIn
<1> QED
  BY <1>5, RewriteReady

LEMMA StepReady ==
  ASSUME IInv, [Next]_vars
  PROVE  ReadyGoverned'
<1>1. CASE StateStep
  <2> PICK a \in Assets, r \in Run : /\ Rewrite(a, r)
                                   /\ SameButState(r, runs[a][current[a]])
    BY <1>1 DEF StateStep
  <2>1. ReadyIn(r)
    BY CurrentReady DEF Rewrite, ReadyIn, Governed, SameButState
  <2> QED
    BY <2>1, RewriteReady
<1>2. ASSUME runs' = runs
      PROVE  ReadyGoverned'
  BY <1>2 DEF IInv, ReadyGoverned, Governed
<1>3. ApproveStep \/ ReleaseAction \/ RevokeStep \/ IdleStep => runs' = runs
  BY DEF ApproveStep, Approve, ReleaseAction, ReleaseContent, RevokeStep,
         UserRevoke, IdleStep
<1> QED
  BY <1>1, <1>2, <1>3, Steps, ScheduleReady, SnapshotReady DEF IInv

-----------------------------------------------------------------------------
(* An approval that stands after a step stood before it *)

\* What a step that leaves approval i standing has not done.
Survives(i) ==
  Standing(i)' =>
    /\ Standing(i)
    /\ released[approvals[i].asset] # 0 => released'[approvals[i].asset] # 0

LEMMA ScheduleSurvives ==
  ASSUME IInv, NEW i \in DOMAIN approvals, ScheduleStep
  PROVE  Survives(i)
<1> PICK S \in SUBSET Assets, e \in Evaluators : ScheduleOf(S, e)
  BY DEF ScheduleStep
<1> DEFINE a == approvals[i].asset
<1>1. a \in Assets
  BY ApprovalTyped DEF IInv
<1>2. approvals' = approvals /\ active' = active
  BY DEF ScheduleOf
<1>3. CASE a \in S
  <2>1. runs'[a][current'[a]].state = "awaiting_scope"
    <3>1. runs'[a][current'[a]] =
            NewRun(latest'[a], versions'[a][latest'[a]], heads', e)
      BY <1>3, ScheduledCurrent DEF IInv
    <3> QED
      BY <3>1 DEF NewRun
  <2> QED
    BY <1>2, <2>1 DEF Survives, Standing
<1>4. CASE a \notin S
  <2>1. /\ runs'[a] = runs[a] /\ current'[a] = current[a]
        /\ released'[a] = released[a]
    BY <1>1, <1>4, ScheduledRuns DEF IInv
  <2> QED
    BY <1>2, <2>1 DEF Survives, Standing
<1> QED
  BY <1>3, <1>4

\* Rewriting a current run ends every approval of it that r does not carry on.
LEMMA RewriteSurvives ==
  ASSUME IInv, NEW i \in DOMAIN approvals, NEW a \in Assets, NEW r \in Run,
         Rewrite(a, r),
         r.state # "completed" \/ r.head = Len(runs[a][current[a]].snaps) + 1,
         \A c \in Assets : c # a => released'[c] = released[c]
  PROVE  Survives(i)
<1> DEFINE ap == approvals[i]
<1>1. ap \in Approval /\ ap.asset \in Assets
  BY ApprovalTyped DEF IInv
<1>2. UNCHANGED <<approvals, active, current>>
  BY DEF Rewrite
<1>3. CASE ap.asset = a
  <2>1. SUFFICES ASSUME ap.run = current[a], r.state = "completed", r.head = ap.snap
                 PROVE  FALSE
    BY <1>2, <1>3, RewrittenRuns DEF Survives, Standing, IInv
  <2>2. runs[a][current[a]].snaps \in Seq(Snapshot)
    BY RewrittenRuns DEF IInv, Run
  <2>3. ap.snap \in 1 .. Len(runs[a][current[a]].snaps)
    BY <1>3, <2>1, <2>2 DEF IInv, ApprovalsFounded
  <2> QED
    BY <2>1, <2>2, <2>3
<1>4. CASE ap.asset # a
  <2>1. runs'[ap.asset] = runs[ap.asset]
    BY <1>1, <1>4, RewrittenRuns DEF IInv
  <2> QED
    BY <1>1, <1>2, <1>4, <2>1 DEF Survives, Standing
<1> QED
  BY <1>3, <1>4

LEMMA RevokeSurvives ==
  ASSUME IInv, NEW i \in DOMAIN approvals, RevokeStep
  PROVE  Survives(i)
<1> PICK p \in Principals : UserRevoke(p)
  BY DEF RevokeStep
<1> DEFINE ap == approvals[i]
           a == ap.asset
<1>1. a \in Assets
  BY ApprovalTyped DEF IInv
<1>2. /\ active' = active \ {p}
      /\ UNCHANGED <<versions, latest, current, runs, approvals, releases>>
  BY DEF UserRevoke, contentVars, recordVars
<1> SUFFICES ASSUME Standing(i)'
             PROVE  /\ Standing(i)
                    /\ released[a] # 0 => released'[a] # 0
  BY DEF Survives
<1>3. Standing(i) /\ ap.actor # p
  BY <1>2 DEF Standing
<1>4. ASSUME released[a] # 0
      PROVE  released'[a] # 0
  <2>1. PointerFounded(a)
    <3>1. PointersFounded
      BY DEF IInv
    <3> QED
      BY <1>1, <1>4, <3>1 DEF PointersFounded
  <2>2. releases[released[a]].actor = Owner[runs[a][current[a]].brief]
    BY <1>1, <2>1 DEF PointerFounded, ReleaseInForce, IInv, CurrentRunSeesHeads
  <2>3. ap.actor = Owner[runs[a][current[a]].brief]
    BY <1>3 DEF Standing, IInv, ApprovalsFounded
  <2>4. approvals[releases[released[a]].approval].actor # p
    BY <1>3, <2>1, <2>2, <2>3 DEF PointerFounded, IInv, ReleasesFounded
  <2> QED
    <3>1. released'[a] = IF /\ released[a] # 0
                            /\ approvals[releases[released[a]].approval].actor = p
                         THEN 0 ELSE released[a]
      BY <1>1 DEF UserRevoke
    <3> QED
      BY <1>4, <2>4, <3>1
<1> QED
  BY <1>3, <1>4

LEMMA ReleaseSurvives ==
  ASSUME IInv, NEW i \in DOMAIN approvals, ReleaseAction
  PROVE  Survives(i)
<1> PICK p \in Principals, j \in DOMAIN approvals : ReleaseContent(p, j)
  BY DEF ReleaseAction
<1>1. /\ released' = [released EXCEPT ![approvals[j].asset] = Len(releases) + 1]
      /\ UNCHANGED <<active, current, runs, approvals>>
  <2>1. ReleasedFor(p, j)
    BY ReleaseEffect DEF IInv
  <2> QED
    BY <2>1 DEF ReleasedFor
<1>2. approvals[i].asset \in Assets /\ released \in [Assets -> Nat]
  BY ApprovalTyped DEF IInv, Indexed, TypeOK
<1>3. Len(releases) + 1 # 0
  BY DEF IInv, Indexed, TypeOK
<1> QED
  BY <1>1, <1>2, <1>3 DEF Survives, Standing

LEMMA StepSurvives ==
  ASSUME IInv, [Next]_vars, NEW i \in DOMAIN approvals
  PROVE  Survives(i)
<1>1. CASE StateStep
  <2> PICK a \in Assets, r \in Run : /\ Rewrite(a, r) /\ r.state # "completed"
                                   /\ released' = released
    BY <1>1 DEF StateStep
  <2> QED
    BY RewriteSurvives
<1>2. CASE SnapshotStep
  <2> PICK a \in Assets, r \in Run :
        /\ Rewrite(a, r) /\ r.head = Len(runs[a][current[a]].snaps) + 1
        /\ released' = [released EXCEPT ![a] = 0]
    BY <1>2 DEF SnapshotStep
  <2>1. \A c \in Assets : c # a => released'[c] = released[c]
    BY DEF IInv, Indexed, TypeOK
  <2> QED
    BY <2>1, RewriteSurvives
<1>3. CASE ApproveStep
  <2>1. /\ UNCHANGED <<active, current, runs, released>>
        /\ \E ap : approvals' = Append(approvals, ap)
    BY <1>3 DEF ApproveStep, Approve, governanceVars
  <2>2. approvals \in Seq(Approval) /\ i \in 1 .. Len(approvals)
    BY ApprovalTyped DEF IInv, Indexed, TypeOK
  <2>3. approvals'[i] = approvals[i]
    BY <2>1, <2>2
  <2> QED
    BY <2>1, <2>3 DEF Survives, Standing
<1>4. CASE IdleStep
  BY <1>4 DEF IdleStep, Survives, Standing
<1> QED
  BY <1>1, <1>2, <1>3, <1>4, Steps, ScheduleSurvives, RevokeSurvives,
     ReleaseSurvives DEF IInv

LEMMA StepUsedStanding ==
  ASSUME IInv, [Next]_vars
  PROVE  UsedStandingReleased'
<1> SUFFICES ASSUME NEW i \in DOMAIN approvals', Standing(i)', (ReleasesOf(i) # {})'
             PROVE  released'[approvals'[i].asset] # 0
  BY DEF UsedStandingReleased
<1>1. CASE ApproveStep
  <2>1. releases' = releases /\ released' = released
    BY <1>1 DEF ApproveStep, Approve
  <2>2. PICK j \in DOMAIN releases : releases[j].approval = i
    BY <2>1 DEF ReleasesOf
  <2>3. i \in DOMAIN approvals
    BY <2>2 DEF IInv, ReleasesFounded
  <2>4. Standing(i) /\ ReleasesOf(i) # {}
    BY <2>2, <2>3, StepSurvives DEF Survives, ReleasesOf
  <2>5. approvals'[i] = approvals[i]
    <3>1. \E ap : approvals' = Append(approvals, ap)
      BY <1>1 DEF ApproveStep, Approve
    <3>2. approvals \in Seq(Approval) /\ i \in 1 .. Len(approvals)
      BY <2>3, ApprovalTyped DEF IInv, Indexed, TypeOK
    <3> QED
      BY <3>1, <3>2
  <2> QED
    BY <2>1, <2>3, <2>4, <2>5 DEF IInv, UsedStandingReleased
<1>2. CASE ReleaseAction
  <2> PICK p \in Principals, j \in DOMAIN approvals : ReleaseContent(p, j)
    BY <1>2 DEF ReleaseAction
  <2> DEFINE rel == [asset |-> approvals[j].asset, run |-> approvals[j].run,
                     version |-> approvals[j].version, snap |-> approvals[j].snap,
                     approval |-> j, actor |-> p]
  <2>1. /\ approvals' = approvals
        /\ releases' = Append(releases, rel)
        /\ releases \in Seq(Release) /\ rel \in Release
        /\ released' = [released EXCEPT ![approvals[j].asset] = Len(releases) + 1]
        /\ released \in [Assets -> Nat]
    <3>1. ReleasedFor(p, j)
      BY ReleaseEffect DEF IInv
    <3>2. releases \in Seq(Release) /\ released \in [Assets -> Nat]
      BY DEF IInv, Indexed, TypeOK
    <3> QED
      BY <3>1, <3>2 DEF ReleasedFor
  <2>2. rel.approval = j
    OBVIOUS
  <2> HIDE DEF rel
  <2>3. i \in DOMAIN approvals /\ approvals[i].asset \in Assets
    BY <2>1, ApprovalTyped DEF IInv
  <2>4. CASE i = j
    BY <2>1, <2>3, <2>4
  <2>5. CASE i # j
    <3>1. PICK k \in DOMAIN releases' : releases'[k].approval = i
      BY DEF ReleasesOf
    <3>2. k \in DOMAIN releases /\ releases[k].approval = i
      BY <2>1, <2>2, <2>5, <3>1
    <3>3. ReleasesOf(i) # {}
      BY <3>2 DEF ReleasesOf
    <3> QED
      BY <2>1, <2>3, <3>3, StepSurvives DEF Survives, IInv, UsedStandingReleased
  <2> QED
    BY <2>4, <2>5
<1>3. ASSUME UNCHANGED <<approvals, releases>>
      PROVE  released'[approvals'[i].asset] # 0
  <2>1. i \in DOMAIN approvals /\ ReleasesOf(i) # {}
    <3>1. ReleasesOf(i)' = ReleasesOf(i)
      BY <1>3 DEF ReleasesOf
    <3> QED
      BY <1>3, <3>1
  <2>2. Survives(i)
    BY <2>1, StepSurvives
  <2>3. Standing(i) => released[approvals[i].asset] # 0
    BY <2>1 DEF IInv, UsedStandingReleased
  <2> QED
    BY <1>3, <2>2, <2>3 DEF Survives
<1>4. StateStep \/ SnapshotStep => UNCHANGED <<approvals, releases>>
  BY RewritesKeepRecords
<1>5. ScheduleStep \/ RevokeStep \/ IdleStep => UNCHANGED <<approvals, releases>>
  BY DEF ScheduleStep, ScheduleOf, RevokeStep, UserRevoke, IdleStep, recordVars
<1> QED
  BY <1>1, <1>2, <1>3, <1>4, <1>5, Steps DEF IInv

-----------------------------------------------------------------------------
(* The theorems *)

LEMMA InitIInv ==
  ASSUME Init
  PROVE  IInv
<1>1. ReadyGoverned /\ ApprovalsFounded /\ ReleasesFounded /\ UsedStandingReleased
  BY DEF Init, ReadyGoverned, ApprovalsFounded, ReleasesFounded, UsedStandingReleased
<1>2. PointersFounded /\ CurrentRunSeesHeads
  BY DEF Init, PointersFounded, CurrentRunSeesHeads
<1> QED
  BY <1>1, <1>2, InitIndexed DEF IInv

LEMMA StepIInv ==
  ASSUME IInv, [Next]_vars
  PROVE  IInv'
BY StepIndexed, StepSeesHeads, StepFounded, StepReady, StepUsedStanding DEF IInv

LEMMA Founded == Spec => []IInv
<1>1. IInv /\ [Next]_vars => IInv'
  BY StepIInv
<1> QED
  BY <1>1, InitIInv, PTL DEF Spec

\* A release pointer names a release of the latest version, of the ready head
\* snapshot of the current completed run, by the active owner of that version's
\* brief: no edit, review, governance change, refresh or revocation of any
\* asset or principal leaves one behind (service.py schedule and
\* assemble_snapshot, cli.py user-revoke).
THEOREM ReleaseStaysInForce == Spec => []ReleasedInForce
<1>1. IInv => ReleasedInForce
  BY DEF IInv, PointersFounded, PointerFounded, ReleasedInForce
<1> QED
  BY <1>1, Founded, PTL

\* A release request that is answered with the existing release finds its asset
\* still released, however many approvals and releases a snapshot has
\* (service.py release, the lookup of an existing row).
THEOREM ReplayIsTruthful == Spec => []ReplayStillReleased
<1>1. ASSUME IInv, NEW p \in Principals, NEW i \in DOMAIN approvals,
             MayRelease(p, i), ReleasesOf(i) # {}
      PROVE  released[approvals[i].asset] # 0
  <2>1. Standing(i)
    BY <1>1 DEF MayRelease, ExactSnapshot, Standing
  <2> QED
    BY <1>1, <2>1 DEF IInv, UsedStandingReleased
<1>2. IInv => ReplayStillReleased
  BY <1>1 DEF ReplayStillReleased
<1> QED
  BY <1>2, Founded, PTL

\* What an asset view shows as released rests on sources and policies that are
\* approved, in force at this moment and applicable, although nothing is written
\* when one of them expires (api.py asset_get, service.py fresh).
THEOREM VisibleReleaseIsGoverned == Spec => []VisibleReleaseGoverned
<1>1. ASSUME IInv, NEW a \in Assets, VisibleRelease(a) # 0,
             NEW k \in Needs[versions[a][latest[a]]]
      PROVE  ResourceValid(heads[k], versions[a][latest[a]], now)
  <2> DEFINE run == runs[a][current[a]]
  <2>1. released[a] # 0
    BY <1>1 DEF VisibleRelease
  <2>2. PointerFounded(a)
    BY <1>1, <2>1 DEF IInv, PointersFounded
  <2>3. Fresh(a, current[a], evaluator["api"])
    BY <1>1, <2>2 DEF VisibleRelease, PointerFounded
  <2>4. Governed(run)
    <3>1. run.head \in DOMAIN run.snaps /\ run.snaps[run.head].ready
      BY <2>2 DEF PointerFounded, ReleaseInForce
    <3>2. ReadyIn(run)
      BY <1>1, <2>2, CurrentReady DEF PointerFounded
    <3> QED
      BY <3>1, <3>2 DEF ReadyIn
  <2>5. /\ run.brief = versions[a][latest[a]]
        /\ {d.key : d \in run.deps} = Needs[run.brief]
    BY <1>1, <2>2 DEF IInv, CurrentRunSeesHeads, PointerFounded
  <2>6. PICK d \in run.deps : d.key = k
    BY <1>1, <2>5
  <2> QED
    BY <2>3, <2>4, <2>5, <2>6 DEF Fresh, Governed
<1>2. IInv => VisibleReleaseGoverned
  BY <1>1 DEF VisibleReleaseGoverned
<1> QED
  BY <1>2, Founded, PTL

\* An approval that stopped standing never stands again: not by another review
\* of the same content, a reassessment or any step of another asset (service.py
\* _exact_snapshot, schedule and assemble_snapshot).
THEOREM ApprovalDiesOnce == Spec => DeadApprovalStaysDead
<1>1. ASSUME IInv, [Next]_vars, NEW i \in DOMAIN approvals, ~Standing(i)
      PROVE  ~Standing(i)'
  BY <1>1, StepSurvives DEF Survives
<1>2. IInv /\ [Next]_vars
        => [\A i \in DOMAIN approvals : ~Standing(i) => ~Standing(i)']_vars
  BY <1>1
<1> QED
  BY <1>2, Founded, PTL DEF Spec, DeadApprovalStaysDead

-----------------------------------------------------------------------------
(* The run view and the release check agree *)

\* A run has no snapshot before its result, and a ready one only as long as it is
\* completed, or has been superseded since.
Phased(run) ==
  /\ run.state \in {"awaiting_scope", "queued", "processing"} => run.snaps = <<>>
  /\ \A s \in DOMAIN run.snaps :
       run.snaps[s].ready => run.state \in {"completed", "stale"}

RunsPhased == \A a \in Assets : \A n \in DOMAIN runs[a] : Phased(runs[a][n])

\* An approval names the version of its run and a principal who may approve.
ApprovalsAccurate ==
  \A i \in DOMAIN approvals :
    /\ approvals[i].version = runs[approvals[i].asset][approvals[i].run].version
    /\ approvals[i].actor \in Approvers

LEMMA SchedulePhased ==
  ASSUME IInv, RunsPhased, ScheduleStep
  PROVE  RunsPhased'
<1> PICK S \in SUBSET Assets, e \in Evaluators : ScheduleOf(S, e)
  BY DEF ScheduleStep
<1> SUFFICES ASSUME NEW a \in Assets, NEW n \in DOMAIN runs'[a]
             PROVE  Phased(runs'[a][n])
  BY DEF RunsPhased, Phased
<1>1. CASE a \notin S
  <2>1. runs'[a] = runs[a]
    BY <1>1, ScheduledRuns DEF IInv
  <2> QED
    BY <2>1 DEF RunsPhased
<1>2. CASE a \in S
  <2>1. /\ runs'[a] \in Seq(Run) /\ Len(runs'[a]) = Len(runs[a]) + 1
        /\ runs'[a][Len(runs[a]) + 1] =
             NewRun(latest'[a], versions'[a][latest'[a]], heads', e)
        /\ \A m \in 1 .. Len(runs[a]) :
             /\ SameButState(runs'[a][m], runs[a][m])
             /\ runs'[a][m].state = RetiredState(a, m)
    BY <1>2, ScheduledRuns DEF IInv
  <2>2. runs[a] \in Seq(Run)
    BY DEF IInv, Indexed, TypeOK
  <2>3. CASE n = Len(runs[a]) + 1
    BY <2>1, <2>3 DEF NewRun, Phased
  <2>4. CASE n \in 1 .. Len(runs[a])
    <3>1. Phased(runs[a][n])
      BY <2>2, <2>4 DEF RunsPhased
    <3>2. runs'[a][n].snaps = runs[a][n].snaps
      BY <2>1, <2>4 DEF SameButState
    <3>3. runs'[a][n].state \in {"stale", runs[a][n].state}
      BY <2>1, <2>4 DEF RetiredState
    <3> QED
      BY <3>1, <3>2, <3>3 DEF Phased
  <2> QED
    BY <2>1, <2>2, <2>3, <2>4
<1> QED
  BY <1>1, <1>2

LEMMA RewritePhased ==
  ASSUME IInv, RunsPhased, NEW a \in Assets, NEW r \in Run, Rewrite(a, r), Phased(r)
  PROVE  RunsPhased'
<1> SUFFICES ASSUME NEW c \in Assets, NEW n \in DOMAIN runs'[c]
             PROVE  Phased(runs'[c][n])
  BY DEF RunsPhased, Phased
<1>1. /\ runs[c] \in Seq(Run) /\ runs'[c] \in Seq(Run)
      /\ Len(runs'[c]) = Len(runs[c])
  BY RewrittenRuns DEF IInv, Indexed, TypeOK
<1>2. n \in DOMAIN runs[c]
  BY <1>1
<1>3. CASE c = a /\ n = current[a]
  BY <1>3, RewrittenRuns DEF IInv
<1>4. CASE c # a \/ n # current[a]
  <2>1. runs'[c][n] = runs[c][n]
    BY <1>2, <1>4, RewrittenRuns DEF IInv
  <2> QED
    BY <1>2, <2>1 DEF RunsPhased
<1> QED
  BY <1>3, <1>4

LEMMA CurrentPhased ==
  ASSUME IInv, RunsPhased, NEW a \in Assets, current[a] # 0
  PROVE  runs[a][current[a]] \in Run /\ Phased(runs[a][current[a]])
<1>1. runs[a] \in Seq(Run) /\ current[a] \in 1 .. Len(runs[a])
  BY DEF IInv, Indexed, TypeOK
<1> QED
  BY <1>1 DEF RunsPhased

LEMMA StatePhased ==
  ASSUME IInv, RunsPhased, StateStep
  PROVE  RunsPhased'
<1> PICK a \in Assets, r \in Run :
      /\ Rewrite(a, r)
      /\ SameButState(r, runs[a][current[a]])
      /\ <<runs[a][current[a]].state, r.state>> \in Lifecycle!Moves
  BY DEF StateStep
<1>1. Phased(runs[a][current[a]])
  BY CurrentPhased DEF Rewrite
<1>2. runs[a][current[a]].state \in {"awaiting_scope", "queued", "processing"}
  BY DEF Lifecycle!Moves
<1>3. r.snaps = <<>>
  BY <1>1, <1>2 DEF Phased, SameButState
<1>4. Phased(r)
  BY <1>3 DEF Phased
<1> QED
  BY <1>4, RewritePhased

LEMMA SnapshotPhased ==
  ASSUME IInv, RunsPhased, SnapshotStep
  PROVE  RunsPhased'
<1> PICK a \in Assets, r \in Run, snapshot \in Snapshot :
      /\ Rewrite(a, r)
      /\ r.snaps = Append(runs[a][current[a]].snaps, snapshot)
      /\ \/ /\ runs[a][current[a]].state = "processing"
            /\ r.state \in {"completed", "failed"} /\ ~snapshot.ready
         \/ runs[a][current[a]].state = "completed" /\ r.state = "completed"
  BY DEF SnapshotStep
<1>1. Phased(runs[a][current[a]])
  BY CurrentPhased DEF Rewrite
<1>2. CASE r.state = "completed"
  BY <1>2, RewritePhased DEF Phased
<1>3. CASE /\ runs[a][current[a]].state = "processing" /\ ~snapshot.ready
           /\ r.state \in {"completed", "failed"}
  <2>1. r.snaps = <<snapshot>>
    <3>1. runs[a][current[a]].snaps = <<>>
      BY <1>1, <1>3 DEF Phased
    <3> QED
      BY <3>1
  <2>2. \A s \in DOMAIN r.snaps : ~r.snaps[s].ready
    BY <1>3, <2>1
  <2> QED
    BY <1>3, <2>2, RewritePhased DEF Phased
<1> QED
  BY <1>2, <1>3

LEMMA StepPhased ==
  ASSUME IInv, RunsPhased, [Next]_vars
  PROVE  RunsPhased'
<1>1. ASSUME runs' = runs
      PROVE  RunsPhased'
  BY <1>1 DEF RunsPhased
<1>2. ApproveStep \/ ReleaseAction \/ RevokeStep \/ IdleStep => runs' = runs
  BY DEF ApproveStep, Approve, ReleaseAction, ReleaseContent, RevokeStep,
         UserRevoke, IdleStep
<1> QED
  BY <1>1, <1>2, Steps, SchedulePhased, StatePhased, SnapshotPhased DEF IInv

LEMMA StepAccurate ==
  ASSUME IInv, ApprovalsAccurate, [Next]_vars
  PROVE  ApprovalsAccurate'
<1>1. ASSUME NEW i \in DOMAIN approvals
      PROVE  /\ approvals[i].version = runs'[approvals[i].asset][approvals[i].run].version
             /\ approvals[i].actor \in Approvers
  <2>1. approvals[i].asset \in Assets
    BY ApprovalTyped DEF IInv
  <2>2. approvals[i].run \in DOMAIN runs[approvals[i].asset]
    BY DEF IInv, ApprovalsFounded
  <2>3. RunsKept
    BY StepKeepsRuns DEF IInv
  <2> QED
    BY <2>1, <2>2, <2>3 DEF ApprovalsAccurate, RunsKept, SameBasis
<1>2. CASE approvals' = approvals
  BY <1>1, <1>2 DEF ApprovalsAccurate
<1>3. CASE ApproveStep
  <2> PICK p \in Principals, a \in Assets : \E n \in DOMAIN runs[a] :
        \E s \in DOMAIN runs[a][n].snaps : Approve(p, a, n, s)
    BY <1>3 DEF ApproveStep
  <2> PICK n \in DOMAIN runs[a] :
        \E s \in DOMAIN runs[a][n].snaps : Approve(p, a, n, s)
    OBVIOUS
  <2> PICK s \in DOMAIN runs[a][n].snaps : Approve(p, a, n, s)
    OBVIOUS
  <2> DEFINE ap == [asset |-> a, run |-> n, version |-> runs[a][n].version,
                    snap |-> s, actor |-> p]
  <2>1. approvals' = Append(approvals, ap) /\ runs' = runs /\ p \in Approvers
    BY DEF Approve
  <2>2. /\ ap.version = runs[ap.asset][ap.run].version
        /\ ap.actor \in Approvers
    BY <2>1
  <2> HIDE DEF ap
  <2>3. approvals \in Seq(Approval)
    BY DEF IInv, Indexed, TypeOK
  <2>4. \A i \in DOMAIN approvals' :
          \/ i \in DOMAIN approvals /\ approvals'[i] = approvals[i]
          \/ approvals'[i] = ap
    BY <2>1, <2>3, AppendedIndices
  <2>5. ASSUME NEW i \in DOMAIN approvals'
        PROVE  /\ approvals'[i].version = runs'[approvals'[i].asset][approvals'[i].run].version
               /\ approvals'[i].actor \in Approvers
    <3>1. CASE approvals'[i] = ap
      BY <2>1, <2>2, <3>1
    <3>2. CASE i \in DOMAIN approvals /\ approvals'[i] = approvals[i]
      BY <1>1, <3>2
    <3> QED
      BY <2>4, <3>1, <3>2
  <2> QED
    BY <2>5, Zenon DEF ApprovalsAccurate
<1>4. ScheduleStep \/ StateStep \/ SnapshotStep => approvals' = approvals
  BY RewritesKeepRecords DEF ScheduleStep, ScheduleOf
<1>5. ReleaseAction \/ RevokeStep \/ IdleStep => approvals' = approvals
  BY DEF ReleaseAction, ReleaseContent, RevokeStep, UserRevoke, recordVars, IdleStep
<1> QED
  BY <1>2, <1>3, <1>4, <1>5, Steps DEF IInv

\* The run view says eligible exactly when some principal may release, or repeat
\* the release of, an approval of the run's head snapshot: the two are decided by
\* separate code (service.py get_run and release), one of which checks roles,
\* versions and the validity of the frozen resources that the other does not.
THEOREM EligibleMeansReleasable == Spec => []EligibleIffReleasable
<1>1. Init => RunsPhased /\ ApprovalsAccurate
  BY DEF Init, RunsPhased, ApprovalsAccurate
<1>2. IInv /\ RunsPhased /\ ApprovalsAccurate /\ [Next]_vars
        => RunsPhased' /\ ApprovalsAccurate'
  BY StepPhased, StepAccurate
<1>3. ASSUME IInv, RunsPhased, ApprovalsAccurate, NEW a \in Assets,
             NEW n \in DOMAIN runs[a], ReleaseEligible(a, n)
      PROVE  \E i \in DOMAIN approvals :
               /\ approvals[i].asset = a /\ approvals[i].run = n
               /\ \E p \in Principals : MayRelease(p, i)
  <2> DEFINE run == runs[a][n]
  <2>1. PICK i \in DOMAIN approvals :
          /\ approvals[i].asset = a /\ approvals[i].run = n
          /\ approvals[i].snap = run.head /\ approvals[i].actor \in active
    BY <1>3 DEF ReleaseEligible
  <2> DEFINE p == approvals[i].actor
  <2>2. /\ Fresh(a, n, evaluator["api"]) /\ current[a] = n /\ n # 0
        /\ latest[a] = run.version /\ run.state # "stale" /\ run.snaps[run.head].ready
    <3>1. runs[a] \in Seq(Run)
      BY <1>3 DEF IInv, Indexed, TypeOK
    <3>2. n # 0
      BY <3>1
    <3> QED
      BY <1>3, <3>2 DEF ReleaseEligible, Fresh
  <2>3. run.head \in DOMAIN run.snaps /\ p = Owner[run.brief]
    BY <1>3, <2>1 DEF IInv, ApprovalsFounded
  <2>4. run.state = "completed"
    BY <1>3, <2>2, <2>3 DEF RunsPhased, Phased
  <2>5. p \in Approvers /\ approvals[i].version = run.version
    BY <1>3, <2>1 DEF ApprovalsAccurate
  <2>6. Governed(run)
    BY <1>3, <2>2, <2>3 DEF IInv, ReadyGoverned
  <2>7. \A d \in run.deps : d.res = heads[d.key]
    BY <1>3, <2>2 DEF IInv, CurrentRunSeesHeads
  <2>8. \A d \in run.deps : ResourceValid(d.res, run.brief, now)
    BY <2>2, <2>6, <2>7 DEF Governed, Fresh
  <2>9. p \in Principals
    BY <1>3, ApprovalTyped DEF IInv, Approval
  <2>10. MayRelease(p, i)
    BY <2>1, <2>2, <2>3, <2>4, <2>5, <2>8 DEF MayRelease, ExactSnapshot
  <2> QED
    BY <2>1, <2>9, <2>10
<1>4. ASSUME IInv, NEW a \in Assets, NEW n \in DOMAIN runs[a],
             NEW i \in DOMAIN approvals, approvals[i].asset = a, approvals[i].run = n,
             NEW p \in Principals, MayRelease(p, i)
      PROVE  ReleaseEligible(a, n)
  <2>1. /\ Fresh(a, n, evaluator["api"]) /\ runs[a][n].head = approvals[i].snap
        /\ runs[a][n].snaps[approvals[i].snap].ready
        /\ approvals[i].actor \in active
    BY <1>4 DEF MayRelease, ExactSnapshot
  <2>2. approvals[i].snap \in DOMAIN runs[a][n].snaps
    BY <1>4 DEF IInv, ApprovalsFounded
  <2>3. approvals[i].snap # 0
    <3>1. runs[a][n] \in Run
      BY <1>4 DEF IInv, Indexed, TypeOK
    <3>2. runs[a][n].snaps \in Seq(Snapshot)
      BY <3>1 DEF Run
    <3> QED
      BY <2>2, <3>2
  <2> QED
    BY <1>4, <2>1, <2>3 DEF ReleaseEligible
<1>5. IInv /\ RunsPhased /\ ApprovalsAccurate => EligibleIffReleasable
  BY <1>3, <1>4 DEF EligibleIffReleasable
<1> QED
  BY <1>1, <1>2, <1>5, Founded, PTL DEF Spec

-----------------------------------------------------------------------------
(***************************************************************************)
(* The service implements ReleaseGate.                                     *)
(***************************************************************************)

\* What the mapping says of one asset.
IsCleared(a) ==
  /\ current[a] # 0 /\ runs[a][current[a]].state = "completed"
  /\ runs[a][current[a]].snaps[runs[a][current[a]].head].ready

IsApproved(a) == \E i \in DOMAIN approvals : approvals[i].asset = a /\ Standing(i)

IsReleased(a) == released[a] # 0

LEMMA Rungs ==
  /\ Cleared = {a \in Assets : IsCleared(a)}
  /\ Approved = {a \in Assets : IsApproved(a)}
  /\ Released = {a \in Assets : IsReleased(a)}
  /\ Cleared' = {a \in Assets : IsCleared(a)'}
  /\ Approved' = {a \in Assets : IsApproved(a)'}
  /\ Released' = {a \in Assets : IsReleased(a)'}
BY DEF Cleared, Approved, Released, IsCleared, IsApproved, IsReleased

\* An asset that no step touches stays on its rung.
LEMMA RungsKept ==
  ASSUME NEW a \in Assets, UNCHANGED <<active, approvals>>,
         runs'[a] = runs[a], current'[a] = current[a], released'[a] = released[a]
  PROVE  /\ IsCleared(a)' <=> IsCleared(a)
         /\ IsApproved(a)' <=> IsApproved(a)
         /\ IsReleased(a)' <=> IsReleased(a)
<1>1. \A i \in DOMAIN approvals :
        approvals[i].asset = a => (Standing(i)' <=> Standing(i))
  BY DEF Standing
<1>2. IsApproved(a)' <=> IsApproved(a)
  BY <1>1 DEF IsApproved
<1> QED
  BY <1>2 DEF IsCleared, IsReleased

LEMMA OwnersKept ==
  ASSUME UNCHANGED <<versions, latest>>
  PROVE  OwnerNow' = OwnerNow
BY DEF OwnerNow

LEMMA OwnerOfCurrent ==
  ASSUME Indexed, NEW a \in Assets, current[a] # 0
  PROVE  a \in DOMAIN OwnerNow /\ OwnerNow[a] = Owner[versions[a][latest[a]]]
<1>1. latest[a] # 0
  BY DEF Indexed
<1> QED
  BY <1>1 DEF OwnerNow

\* A standing approval is the current owner's.
LEMMA StandingIsOwners ==
  ASSUME IInv, NEW i \in DOMAIN approvals, Standing(i)
  PROVE  /\ approvals[i].asset \in DOMAIN OwnerNow
         /\ OwnerNow[approvals[i].asset] = approvals[i].actor
         /\ approvals[i].actor \in active
<1> DEFINE a == approvals[i].asset
           run == runs[a][current[a]]
<1>1. a \in Assets /\ CurrentRunSeesHeads /\ Indexed /\ ApprovalsFounded
  BY ApprovalTyped DEF IInv
<1>2. /\ current[a] = approvals[i].run /\ approvals[i].actor \in active
      /\ approvals[i].run \in DOMAIN runs[a]
      /\ approvals[i].actor = Owner[run.brief]
  BY <1>1 DEF Standing, ApprovalsFounded
<1>3. current[a] # 0
  <2>1. runs[a] \in Seq(Run)
    BY <1>1 DEF Indexed, TypeOK
  <2> QED
    BY <1>2, <2>1
<1>4. run.brief = versions[a][latest[a]]
  BY <1>1, <1>3 DEF CurrentRunSeesHeads
<1> QED
  BY <1>1, <1>2, <1>3, <1>4, OwnerOfCurrent

\* Rescheduling takes the assets it reschedules off the ladder, and no other.
LEMMA ScheduleWithdraws ==
  ASSUME IInv, NEW S \in SUBSET Assets, NEW e \in Evaluators, ScheduleOf(S, e)
  PROVE  /\ Cleared' = Cleared \ S
         /\ Approved' = Approved \ S
         /\ Released' = Released \ S
         /\ active' = active
<1>1. Indexed /\ UNCHANGED <<active, approvals>>
  BY DEF IInv, ScheduleOf
<1>2. ASSUME NEW a \in S
      PROVE  ~IsCleared(a)' /\ ~IsApproved(a)' /\ ~IsReleased(a)'
  <2>1. runs'[a][current'[a]].state = "awaiting_scope" /\ released'[a] = 0
    <3>1. runs'[a][current'[a]] =
            NewRun(latest'[a], versions'[a][latest'[a]], heads', e)
      BY <1>1, ScheduledCurrent
    <3>2. released'[a] = 0
      BY <1>1, ScheduledRuns
    <3> QED
      BY <3>1, <3>2 DEF NewRun
  <2> QED
    BY <2>1 DEF IsCleared, IsApproved, IsReleased, Standing
<1>3. ASSUME NEW a \in Assets \ S
      PROVE  /\ IsCleared(a)' <=> IsCleared(a)
             /\ IsApproved(a)' <=> IsApproved(a)
             /\ IsReleased(a)' <=> IsReleased(a)
  <2>1. /\ runs'[a] = runs[a] /\ current'[a] = current[a]
        /\ released'[a] = released[a]
    BY <1>1, ScheduledRuns
  <2> QED
    BY <1>1, <2>1, RungsKept
<1> QED
  BY <1>1, <1>2, <1>3, Rungs


\* One lemma for each step of the service: the step of the gate it is.
LEMMA SubmitIsGates ==
  ASSUME IInv, NEW p \in Principals, NEW a \in Assets, NEW brief \in Briefs,
         Submit(p, a, brief)
  PROVE  Gate!Submit(a, Owner[brief])
<1>1. Indexed /\ ScheduleOf({a}, evaluator["api"]) /\ evaluator["api"] \in Evaluators
  BY SubmitSchedules DEF IInv
<1>2. /\ Cleared' = Cleared \ {a} /\ Approved' = Approved \ {a}
      /\ Released' = Released \ {a} /\ active' = active
  BY <1>1, ScheduleWithdraws
<1>3. /\ versions' = [versions EXCEPT ![a] = Append(@, brief)]
      /\ latest' = [latest EXCEPT ![a] = Len(versions[a]) + 1]
      /\ versions \in [Assets -> Seq(Briefs)] /\ latest \in [Assets -> Nat]
  BY <1>1 DEF Submit, Indexed, TypeOK
<1>4. latest'[a] # 0 /\ versions'[a][latest'[a]] = brief
  <2>1. /\ latest'[a] = Len(versions[a]) + 1 /\ versions[a] \in Seq(Briefs)
        /\ versions'[a] = Append(versions[a], brief)
    BY <1>3
  <2> QED
    BY <2>1
<1>5. \A c \in Assets \ {a} : versions'[c] = versions[c] /\ latest'[c] = latest[c]
  BY <1>3
<1>6. OwnerNow' = [b \in DOMAIN OwnerNow \cup {a} |->
                     IF b = a THEN Owner[brief] ELSE OwnerNow[b]]
  <2>1. {b \in Assets : latest'[b] # 0} = {b \in Assets : latest[b] # 0} \cup {a}
    BY <1>4, <1>5
  <2>2. ASSUME NEW b \in {c \in Assets : latest'[c] # 0}
        PROVE  Owner[versions'[b][latest'[b]]] =
                 IF b = a THEN Owner[brief] ELSE Owner[versions[b][latest[b]]]
    BY <1>4, <1>5
  <2>3. /\ OwnerNow' = [b \in {c \in Assets : latest'[c] # 0} |->
                          Owner[versions'[b][latest'[b]]]]
        /\ OwnerNow = [b \in {c \in Assets : latest[c] # 0} |->
                         Owner[versions[b][latest[b]]]]
    BY DEF OwnerNow
  <2> QED
    BY <2>1, <2>2, <2>3
<1> QED
  BY <1>2, <1>6 DEF Gate!Submit, Gate!Withdraw

LEMMA ScheduleIsGates ==
  ASSUME IInv, ScheduleStep, UNCHANGED <<versions, latest>>
  PROVE  \E S \in SUBSET Assets : Gate!Reassess(S)
<1> PICK S \in SUBSET Assets, e \in Evaluators : ScheduleOf(S, e)
  BY DEF ScheduleStep
<1>1. Gate!Reassess(S)
  BY ScheduleWithdraws, OwnersKept DEF Gate!Reassess, Gate!Withdraw
<1> QED
  BY <1>1

\* Work on a run that has no result yet moves no asset on the ladder.
LEMMA StateIsGates ==
  ASSUME IInv, StateStep
  PROVE  UNCHANGED <<OwnerNow, active, Cleared, Approved, Released>>
<1> PICK a \in Assets, r \in Run :
      /\ Rewrite(a, r)
      /\ r.state # "completed" /\ runs[a][current[a]].state # "completed"
      /\ released' = released
  BY DEF StateStep, Lifecycle!Moves
<1>1. Indexed /\ UNCHANGED <<active, versions, latest, current, approvals>>
  BY DEF IInv, Rewrite
<1>2. ASSUME NEW c \in Assets
      PROVE  /\ IsCleared(c)' <=> IsCleared(c)
             /\ IsApproved(c)' <=> IsApproved(c)
             /\ IsReleased(c)' <=> IsReleased(c)
  <2>1. CASE c # a
    <3>1. runs'[c] = runs[c]
      BY <1>1, <2>1, RewrittenRuns
    <3> QED
      BY <1>1, <3>1, RungsKept
  <2>2. CASE c = a
    <3>1. runs'[a][current[a]] = r
      BY <1>1, RewrittenRuns
    <3>2. ~IsCleared(a) /\ ~IsCleared(a)'
      BY <1>1, <3>1 DEF IsCleared
    <3>3. ~IsApproved(a) /\ ~IsApproved(a)'
      BY <1>1, <3>1 DEF IsApproved, Standing
    <3> QED
      BY <2>2, <3>2, <3>3 DEF IsReleased
  <2> QED
    BY <2>1, <2>2
<1> QED
  BY <1>1, <1>2, OwnersKept, Rungs

\* A new snapshot may clear the asset, and leaves no approval of the old one.
LEMMA SnapshotIsGates ==
  ASSUME IInv, SnapshotStep
  PROVE  \E a \in Assets : Gate!Judge(a)
<1> PICK a \in Assets, r \in Run :
      /\ Rewrite(a, r)
      /\ r.head = Len(runs[a][current[a]].snaps) + 1
      /\ released' = [released EXCEPT ![a] = 0]
  BY Zenon DEF SnapshotStep
<1>1. /\ Indexed /\ ApprovalsFounded /\ released \in [Assets -> Nat]
      /\ current[a] # 0
      /\ UNCHANGED <<active, versions, latest, current, approvals>>
  BY DEF IInv, Indexed, TypeOK, Rewrite
<1>2. runs'[a][current[a]] = r /\ runs[a][current[a]] \in Run
  BY <1>1, RewrittenRuns
<1>3. ~IsApproved(a)' /\ ~IsReleased(a)'
  <2>1. ASSUME NEW i \in DOMAIN approvals, approvals[i].asset = a, Standing(i)'
        PROVE  FALSE
    <3>1. approvals[i].run = current[a] /\ approvals[i].snap = r.head
      BY <1>1, <1>2, <2>1 DEF Standing
    <3>2. approvals[i].snap \in DOMAIN runs[a][current[a]].snaps
      BY <1>1, <2>1, <3>1 DEF ApprovalsFounded
    <3>3. runs[a][current[a]].snaps \in Seq(Snapshot)
      BY <1>2 DEF Run
    <3> QED
      BY <3>1, <3>2, <3>3
  <2> QED
    BY <1>1, <2>1 DEF IsApproved, IsReleased
<1>4. ASSUME NEW c \in Assets \ {a}
      PROVE  /\ IsCleared(c)' <=> IsCleared(c)
             /\ IsApproved(c)' <=> IsApproved(c)
             /\ IsReleased(c)' <=> IsReleased(c)
  <2>1. runs'[c] = runs[c]
    BY <1>1, RewrittenRuns
  <2>2. released'[c] = released[c]
    BY <1>1
  <2> QED
    BY <1>1, <2>1, <2>2, RungsKept
<1>5. /\ Cleared' \in {Cleared \cup {a}, Cleared \ {a}}
      /\ Approved' = Approved \ {a} /\ Released' = Released \ {a}
  <2>1. CASE IsCleared(a)'
    BY <1>3, <1>4, <2>1, Rungs
  <2>2. CASE ~IsCleared(a)'
    BY <1>3, <1>4, <2>2, Rungs
  <2> QED
    BY <2>1, <2>2
<1>6. Gate!Judge(a)
  BY <1>1, <1>5, OwnersKept, OwnerOfCurrent DEF Gate!Judge, Gate!Withdraw
<1> QED
  BY <1>6

\* What is approved is the ready head of the current run, by its owner.
LEMMA ApproveIsGates ==
  ASSUME IInv, ApproveStep
  PROVE  \E a \in Assets : Gate!Approve(a)
<1> PICK p \in Principals, a \in Assets : \E n \in DOMAIN runs[a] :
      \E s \in DOMAIN runs[a][n].snaps : Approve(p, a, n, s)
  BY DEF ApproveStep
<1> PICK n \in DOMAIN runs[a] :
      \E s \in DOMAIN runs[a][n].snaps : Approve(p, a, n, s)
  OBVIOUS
<1> PICK s \in DOMAIN runs[a][n].snaps : Approve(p, a, n, s)
  OBVIOUS
<1> DEFINE ap == [asset |-> a, run |-> n, version |-> runs[a][n].version,
                  snap |-> s, actor |-> p]
<1>1. Indexed /\ CurrentRunSeesHeads
  BY DEF IInv
<1>2. n # 0
  <2>1. runs[a] \in Seq(Run)
    BY <1>1 DEF Indexed, TypeOK
  <2> QED
    BY <2>1
<1>3. /\ current[a] = n /\ runs[a][n].state = "completed" /\ runs[a][n].head = s
      /\ p \in active /\ p = Owner[runs[a][n].brief]
      /\ runs[a][n].snaps[s].ready
  BY DEF Approve, ExactSnapshot, Fresh
<1>4. /\ approvals' = Append(approvals, ap)
      /\ UNCHANGED <<active, versions, latest, current, runs, released>>
  BY DEF Approve, governanceVars, contentVars
<1>5. a \in Cleared
  BY <1>2, <1>3 DEF Cleared
<1>6. OwnerNow[a] \in active
  <2>1. runs[a][n].brief = versions[a][latest[a]]
    BY <1>1, <1>2, <1>3 DEF CurrentRunSeesHeads
  <2> QED
    BY <1>1, <1>2, <1>3, <2>1, OwnerOfCurrent
<1>7. IsApproved(a)'
  <2>1. PICK k : /\ k \in DOMAIN approvals' /\ approvals'[k] = ap
    <3>1. approvals \in Seq(Approval)
      BY <1>1 DEF Indexed, TypeOK
    <3> HIDE DEF ap
    <3> QED
      BY <1>4, <3>1, AppendedIndices
  <2>2. ap.asset = a /\ ap.run = n /\ ap.snap = s /\ ap.actor = p
    OBVIOUS
  <2> HIDE DEF ap
  <2>3. Standing(k)'
    BY <1>3, <1>4, <2>1, <2>2 DEF Standing
  <2> QED
    BY <2>1, <2>2, <2>3 DEF IsApproved
<1>8. /\ \A i \in DOMAIN approvals :
           /\ i \in DOMAIN approvals' /\ approvals'[i] = approvals[i]
      /\ \A i \in DOMAIN approvals' :
           \/ i \in DOMAIN approvals /\ approvals'[i] = approvals[i]
           \/ approvals'[i] = ap
  <2>1. approvals \in Seq(Approval)
    BY <1>1 DEF Indexed, TypeOK
  <2> HIDE DEF ap
  <2> QED
    BY <1>4, <2>1, AppendedIndices
<1> HIDE DEF ap
<1>9. ASSUME NEW c \in Assets
      PROVE  IsApproved(c)' <=> IsApproved(c) \/ c = a
  <2>1. \A i \in DOMAIN approvals :
          approvals'[i] = approvals[i] => (Standing(i)' <=> Standing(i))
    BY <1>4 DEF Standing
  <2>2. ASSUME IsApproved(c)
        PROVE  IsApproved(c)'
    BY <1>8, <2>1, <2>2 DEF IsApproved
  <2>3. ASSUME IsApproved(c)', c # a
        PROVE  IsApproved(c)
    <3>1. ap.asset = a
      BY DEF ap
    <3> QED
      BY <1>8, <2>1, <2>3, <3>1 DEF IsApproved
  <2> QED
    BY <1>7, <2>2, <2>3
<1>10. Approved' = Approved \cup {a}
  BY <1>9, Rungs
<1>11. Cleared' = Cleared /\ Released' = Released /\ OwnerNow' = OwnerNow
  BY <1>4, OwnersKept DEF Cleared, Released
<1>12. Gate!Approve(a)
  BY <1>4, <1>5, <1>6, <1>10, <1>11 DEF Gate!Approve
<1> QED
  BY <1>12

\* Only a standing approval can be released.
LEMMA ReleaseIsGates ==
  ASSUME IInv, ReleaseAction
  PROVE  \E a \in Assets : Gate!Release(a)
<1> PICK p \in Principals, i \in DOMAIN approvals : ReleaseContent(p, i)
  BY DEF ReleaseAction
<1> DEFINE a == approvals[i].asset
<1>1. Indexed /\ a \in Assets
  BY ApprovalTyped DEF IInv
<1>2. /\ MayRelease(p, i)
      /\ released' = [released EXCEPT ![a] = Len(releases) + 1]
      /\ UNCHANGED <<active, versions, latest, current, runs, approvals>>
  <2>1. ReleasedFor(p, i)
    BY <1>1, ReleaseEffect
  <2> QED
    BY <2>1 DEF ReleasedFor
<1>3. Standing(i)
  BY <1>2, Zenon DEF MayRelease, ExactSnapshot, Standing
<1>4. a \in Approved
  BY <1>1, <1>3 DEF Approved
<1>5. Released' = Released \cup {a}
  <2>1. Len(releases) + 1 # 0 /\ released \in [Assets -> Nat]
    BY <1>1 DEF Indexed, TypeOK
  <2> HIDE DEF a
  <2> QED
    BY <1>1, <1>2, <2>1 DEF Released
<1>6. Cleared' = Cleared /\ Approved' = Approved /\ OwnerNow' = OwnerNow
  BY <1>2, OwnersKept, Zenon DEF Cleared, Approved, Standing
<1>7. Gate!Release(a)
  BY <1>2, <1>4, <1>5, <1>6 DEF Gate!Release
<1> QED
  BY <1>1, <1>7

\* A revocation withdraws what the principal owns: of all approvals and releases
\* only those of a current owner are still in force.
LEMMA RevokeIsGates ==
  ASSUME IInv, NEW p \in Principals, UserRevoke(p)
  PROVE  Gate!Revoke(p)
<1> DEFINE Owned == {a \in DOMAIN OwnerNow : OwnerNow[a] = p}
<1>1. /\ Indexed /\ PointersFounded /\ ReleasesFounded
      /\ active' = active \ {p}
      /\ UNCHANGED <<versions, latest, current, runs, approvals, releases>>
  BY DEF IInv, UserRevoke, contentVars, recordVars
<1>2. ASSUME NEW a \in Assets
      PROVE  IsApproved(a)' <=> IsApproved(a) /\ a \notin Owned
  <2>1. ASSUME NEW i \in DOMAIN approvals
        PROVE  Standing(i)' <=> Standing(i) /\ approvals[i].actor # p
    BY <1>1 DEF Standing
  <2>2. ASSUME NEW i \in DOMAIN approvals, Standing(i), approvals[i].asset = a
        PROVE  approvals[i].actor = p <=> a \in Owned
    BY <2>2, StandingIsOwners
  <2> HIDE DEF Owned
  <2> QED
    BY <1>1, <2>1, <2>2 DEF IsApproved
<1>3. ASSUME NEW a \in Assets
      PROVE  IsReleased(a)' <=> IsReleased(a) /\ a \notin Owned
  <2>1. released'[a] =
          IF released[a] # 0 /\ approvals[releases[released[a]].approval].actor = p
          THEN 0 ELSE released[a]
    BY DEF UserRevoke
  <2>2. ASSUME released[a] # 0
        PROVE  approvals[releases[released[a]].approval].actor = p <=> a \in Owned
    <3>1. PointerFounded(a)
      BY <1>1, <2>2 DEF PointersFounded
    <3>2. /\ current[a] # 0 /\ released[a] \in DOMAIN releases
          /\ releases[released[a]].actor = Owner[versions[a][latest[a]]]
      BY <3>1 DEF PointerFounded, ReleaseInForce
    <3>3. releases[released[a]].actor =
            approvals[releases[released[a]].approval].actor
      BY <1>1, <3>2 DEF ReleasesFounded
    <3> QED
      BY <1>1, <3>2, <3>3, OwnerOfCurrent
  <2> HIDE DEF Owned
  <2> QED
    BY <2>1, <2>2 DEF IsReleased
<1>4. Approved' = Approved \ Owned /\ Released' = Released \ Owned
  <2> HIDE DEF Owned
  <2> QED
    BY <1>2, <1>3, Rungs
<1>5. Cleared' = Cleared /\ OwnerNow' = OwnerNow
  BY <1>1, OwnersKept DEF Cleared
<1> QED
  BY <1>1, <1>4, <1>5 DEF Gate!Revoke, Gate!Withdraw

LEMMA IdleIsGates ==
  ASSUME IdleStep
  PROVE  UNCHANGED <<OwnerNow, active, Cleared, Approved, Released>>
<1>1. UNCHANGED <<active, versions, latest, current, runs, approvals, released>>
  BY DEF IdleStep
<1> QED
  BY <1>1, OwnersKept DEF Cleared, Approved, Released, Standing

\* Nothing but a submission changes the content of an asset.
LEMMA ContentKept ==
  ASSUME [Next]_vars,
         \A p \in Principals, a \in Assets, brief \in Briefs : ~Submit(p, a, brief)
  PROVE  UNCHANGED <<versions, latest>>
<1>1. CASE ResourceAction
  BY <1>1 DEF ResourceAction, PutResource, ResourceDecision, contentVars
<1>2. CASE ContentAction
  BY <1>2 DEF ContentAction, Reassess, contentVars
<1>3. CASE DecisionAction
  <2>1. \A a, n, st : SetRunState(a, n, st) => UNCHANGED <<versions, latest>>
    BY DEF SetRunState, contentVars
  <2>2. \A a, n, snapshot, st :
          AssembleSnapshot(a, n, snapshot, st) => UNCHANGED <<versions, latest>>
    BY DEF AssembleSnapshot, contentVars
  <2>3. \A p, a, n, s : Approve(p, a, n, s) => UNCHANGED <<versions, latest>>
    BY DEF Approve, contentVars
  <2> QED
    <3> PICK p \in Principals, a \in Assets : \E n \in DOMAIN runs[a] :
          \/ Scope(p, a, n)
          \/ \E s \in DOMAIN runs[a][n].snaps :
               \/ \E ready \in BOOLEAN : Review(p, a, n, s, ready)
               \/ \E ready \in BOOLEAN : Specialist(p, a, n, s, ready)
               \/ Approve(p, a, n, s)
      BY <1>3, Zenon DEF DecisionAction
    <3> PICK n : \/ Scope(p, a, n)
                 \/ \E s, ready : Review(p, a, n, s, ready)
                 \/ \E s, ready : Specialist(p, a, n, s, ready)
                 \/ \E s : Approve(p, a, n, s)
      BY Zenon
    <3>1. \E st : Scope(p, a, n) => SetRunState(a, n, st)
      BY DEF Scope
    <3>2. ASSUME NEW s, NEW ready, Review(p, a, n, s, ready)
          PROVE  UNCHANGED <<versions, latest>>
      BY <2>2, <3>2, Zenon DEF Review
    <3>3. ASSUME NEW s, NEW ready, Specialist(p, a, n, s, ready)
          PROVE  UNCHANGED <<versions, latest>>
      BY <2>2, <3>3, Zenon DEF Specialist
    <3> QED
      BY <2>1, <2>3, <3>1, <3>2, <3>3
<1>4. CASE ReleaseAction
  BY <1>4 DEF ReleaseAction, ReleaseContent, contentVars
<1>5. CASE WorkerAction
  BY <1>5, Zenon DEF WorkerAction, RefreshStale, Claim, Exhaust, FinishDiscard,
     FinishRetry, FinishResult, SetRunState, AssembleSnapshot, contentVars
<1>6. CASE OperatorAction \/ Tick
  BY <1>6 DEF OperatorAction, UserRevoke, Redeploy, Tick, contentVars
<1>7. CASE UNCHANGED vars
  BY <1>7 DEF vars
<1> QED
  BY <1>1, <1>2, <1>3, <1>4, <1>5, <1>6, <1>7 DEF Next

\* The service is the release gate: on any number of assets at once, whoever
\* submits, decides, administers, releases or is revoked, and however the
\* worker's refreshes come in between, an asset is approved exactly while an
\* approval of its ready head stands and released only while it is approved
\* (service.py schedule, assemble_snapshot, approve and release, cli.py
\* user-revoke).
THEOREM ServiceImplementsReleaseGate == Spec => ImplementsReleaseGate
<1>1. Init => Gate!Init
  <2> SUFFICES ASSUME Init
               PROVE  Gate!Init
    OBVIOUS
  <2>1. /\ {b \in Assets : latest[b] # 0} = {}
        /\ active = Principals /\ approvals = <<>>
        /\ \A a \in Assets : current[a] = 0 /\ released[a] = 0
    BY DEF Init
  <2>2. OwnerNow \in [{} -> Principals]
    BY <2>1 DEF OwnerNow
  <2>3. Cleared = {} /\ Approved = {} /\ Released = {}
    BY <2>1 DEF Cleared, Approved, Released
  <2> QED
    BY <2>1, <2>2, <2>3 DEF Gate!Init
<1>2. ASSUME IInv, [Next]_vars
      PROVE  Gate!Next \/ UNCHANGED <<OwnerNow, active, Cleared, Approved, Released>>
  <2>1. ASSUME NEW p \in Principals, NEW a \in Assets, NEW brief \in Briefs,
               Submit(p, a, brief)
        PROVE  Gate!Next
    <3>1. Gate!Submit(a, Owner[brief]) /\ Owner[brief] \in Principals
      BY <1>2, <2>1, SubmitIsGates, OwnerAssumption
    <3> QED
      BY <3>1, Zenon DEF Gate!Next
  <2>2. ASSUME \A p \in Principals, a \in Assets, brief \in Briefs :
                 ~Submit(p, a, brief)
        PROVE  Gate!Next \/ UNCHANGED <<OwnerNow, active, Cleared, Approved, Released>>
    <3>1. CASE ScheduleStep
      BY <1>2, <2>2, <3>1, ScheduleIsGates, ContentKept, Zenon DEF Gate!Next
    <3>2. CASE StateStep \/ IdleStep
      BY <1>2, <3>2, StateIsGates, IdleIsGates, Zenon
    <3>3. CASE SnapshotStep
      BY <1>2, <3>3, SnapshotIsGates, Zenon DEF Gate!Next
    <3>4. CASE ApproveStep
      BY <1>2, <3>4, ApproveIsGates, Zenon DEF Gate!Next
    <3>5. CASE ReleaseAction
      BY <1>2, <3>5, ReleaseIsGates, Zenon DEF Gate!Next
    <3>6. CASE RevokeStep
      BY <1>2, <3>6, RevokeIsGates, Zenon DEF RevokeStep, Gate!Next
    <3>7. Indexed /\ CurrentRunSeesHeads
      BY <1>2 DEF IInv
    <3> QED
      BY <1>2, <3>1, <3>2, <3>3, <3>4, <3>5, <3>6, <3>7, Steps, Zenon
  <2> QED
    BY <2>1, <2>2, Zenon
<1>3. IInv /\ [Next]_vars =>
        [Gate!Next]_(<<OwnerNow, active, Cleared, Approved, Released>>)
  BY <1>2, Zenon
<1> QED
  BY <1>1, <1>3, Founded, PTL DEF Spec, ImplementsReleaseGate, Gate!Spec, Gate!vars

\* No rung of the ladder is without the one below it: what is released is
\* approved, what is approved has a ready assessment of its present content, and
\* its owner's credential is active.  It holds of every system that implements
\* ReleaseGate, so it is shown there and holds of the service.
THEOREM LadderHolds == Spec => []Gate!Ladder
<1>1. Gate!Init => Gate!Ladder
  BY DEF Gate!Init, Gate!Ladder
<1>2. ASSUME Gate!Ladder, Gate!Next
      PROVE  Gate!Ladder'
  <2>1. ASSUME NEW a \in Assets, NEW p \in Principals, Gate!Submit(a, p)
        PROVE  Gate!Ladder'
    <3>1. /\ Cleared' = Cleared \ {a} /\ Approved' = Approved \ {a}
          /\ Released' = Released \ {a} /\ active' = active
          /\ OwnerNow' = [b \in DOMAIN OwnerNow \cup {a} |->
                            IF b = a THEN p ELSE OwnerNow[b]]
      BY <2>1 DEF Gate!Submit, Gate!Withdraw
    <3>2. /\ DOMAIN OwnerNow' = DOMAIN OwnerNow \cup {a}
          /\ \A b \in DOMAIN OwnerNow \ {a} : OwnerNow'[b] = OwnerNow[b]
      BY <3>1
    <3> QED
      BY <1>2, <3>1, <3>2 DEF Gate!Ladder
  <2>2. ASSUME NEW S \in SUBSET Assets, Gate!Reassess(S)
        PROVE  Gate!Ladder'
    BY <1>2, <2>2 DEF Gate!Reassess, Gate!Withdraw, Gate!Ladder
  <2>3. ASSUME NEW a \in Assets, Gate!Judge(a)
        PROVE  Gate!Ladder'
    BY <1>2, <2>3 DEF Gate!Judge, Gate!Withdraw, Gate!Ladder
  <2>4. ASSUME NEW a \in Assets, Gate!Approve(a) \/ Gate!Release(a)
        PROVE  Gate!Ladder'
    BY <1>2, <2>4 DEF Gate!Approve, Gate!Release, Gate!Ladder
  <2>5. ASSUME NEW p \in Principals, Gate!Revoke(p)
        PROVE  Gate!Ladder'
    BY <1>2, <2>5 DEF Gate!Revoke, Gate!Withdraw, Gate!Ladder
  <2> QED
    BY <1>2, <2>1, <2>2, <2>3, <2>4, <2>5, Zenon DEF Gate!Next
<1>3. Gate!Ladder /\ UNCHANGED <<OwnerNow, active, Cleared, Approved, Released>>
        => Gate!Ladder'
  BY DEF Gate!Ladder
<1>4. Gate!Ladder /\ [Gate!Next]_(<<OwnerNow, active, Cleared, Approved, Released>>)
        => Gate!Ladder'
  BY <1>2, <1>3, Zenon
<1> QED
  BY <1>1, <1>4, ServiceImplementsReleaseGate, PTL
  DEF ImplementsReleaseGate, Gate!Spec, Gate!vars

-----------------------------------------------------------------------------
(* Each run's snapshots are as Readiness says *)

\* What Readiness speaks of, for run n of asset a: nothing is judged of a run
\* that is not there yet.
IsGoverned(a, n) == n \in DOMAIN runs[a] /\ Governed(runs[a][n])
IsDemanding(a, n) == n \in DOMAIN runs[a] /\ runs[a][n].brief \in SpecialistBriefs
HeadOf(a, n) ==
  IF n \in DOMAIN runs[a] /\ runs[a][n].head \in DOMAIN runs[a][n].snaps
  THEN runs[a][n].snaps[runs[a][n].head] ELSE <<>>

Judged(a, n) == INSTANCE Readiness
  WITH NoSnapshot <- <<>>, governed <- IsGoverned(a, n),
       demanding <- IsDemanding(a, n), head <- HeadOf(a, n)

Unmoved(a, n) == UNCHANGED <<IsGoverned(a, n), IsDemanding(a, n), HeadOf(a, n)>>

LEMMA SameRunUnmoved ==
  ASSUME NEW a, NEW n, n \in DOMAIN runs'[a] <=> n \in DOMAIN runs[a],
         n \in DOMAIN runs[a] => SameButState(runs'[a][n], runs[a][n])
  PROVE  Unmoved(a, n)
<1>1. IsGoverned(a, n)' = IsGoverned(a, n)
  BY DEF IsGoverned, Governed, SameButState
<1>2. IsDemanding(a, n)' = IsDemanding(a, n)
  BY DEF IsDemanding, SameButState
<1>3. HeadOf(a, n)' = HeadOf(a, n)
  BY DEF HeadOf, SameButState
<1> QED
  BY <1>1, <1>2, <1>3 DEF Unmoved

\* Scheduling freezes the run it adds and leaves the others as judged.
LEMMA ScheduleIsJudged ==
  ASSUME Indexed, ScheduleStep, NEW a \in Assets, NEW n
  PROVE  Judged(a, n)!Freeze \/ Unmoved(a, n)
<1> PICK S \in SUBSET Assets, e \in Evaluators : ScheduleOf(S, e)
  BY DEF ScheduleStep
<1>1. runs[a] \in Seq(Run)
  BY DEF Indexed, TypeOK
<1>2. CASE a \notin S
  <2>1. runs'[a] = runs[a]
    BY <1>2, ScheduledRuns
  <2> QED
    BY <2>1, SameRunUnmoved DEF SameButState
<1>3. CASE a \in S
  <2>1. /\ runs'[a] \in Seq(Run) /\ Len(runs'[a]) = Len(runs[a]) + 1
        /\ runs'[a][Len(runs[a]) + 1].snaps = <<>>
        /\ \A m \in 1 .. Len(runs[a]) : SameButState(runs'[a][m], runs[a][m])
    <3>1. /\ runs'[a] \in Seq(Run) /\ Len(runs'[a]) = Len(runs[a]) + 1
          /\ runs'[a][Len(runs[a]) + 1] =
               NewRun(latest'[a], versions'[a][latest'[a]], heads', e)
          /\ \A m \in 1 .. Len(runs[a]) : SameButState(runs'[a][m], runs[a][m])
      BY <1>3, ScheduledRuns
    <3> QED
      BY <3>1 DEF NewRun
  <2>2. CASE n \in DOMAIN runs[a]
    <3>1. n \in 1 .. Len(runs[a]) /\ n \in DOMAIN runs'[a]
      BY <1>1, <2>1, <2>2
    <3> QED
      BY <2>1, <2>2, <3>1, SameRunUnmoved
  <2>3. CASE n \notin DOMAIN runs[a]
    <3>1. n \in DOMAIN runs'[a] => runs'[a][n].snaps = <<>>
      BY <1>1, <2>1, <2>3
    <3>2. HeadOf(a, n) = <<>> /\ HeadOf(a, n)' = <<>>
      BY <2>3, <3>1 DEF HeadOf
    <3>3. IsGoverned(a, n)' \in BOOLEAN /\ IsDemanding(a, n)' \in BOOLEAN
      BY DEF IsGoverned, IsDemanding
    <3> QED
      BY <3>2, <3>3 DEF Judged!Freeze
  <2> QED
    BY <2>2, <2>3
<1> QED
  BY <1>2, <1>3

\* A decision or a result leaves all other runs as judged.
LEMMA OthersUnmoved ==
  ASSUME Indexed, NEW c \in Assets, NEW r \in Run, Rewrite(c, r),
         NEW a \in Assets, NEW n,
         a # c \/ n # current[c] \/ SameButState(r, runs[c][current[c]])
  PROVE  Unmoved(a, n)
<1>1. /\ runs[a] \in Seq(Run) /\ runs'[a] \in Seq(Run)
      /\ Len(runs'[a]) = Len(runs[a])
  BY RewrittenRuns DEF Indexed, TypeOK
<1>2. n \in DOMAIN runs'[a] <=> n \in DOMAIN runs[a]
  BY <1>1
<1>3. n \in DOMAIN runs[a] => SameButState(runs'[a][n], runs[a][n])
  <2>1. CASE a # c \/ n # current[c]
    BY <2>1, RewrittenRuns DEF SameButState
  <2>2. CASE a = c /\ n = current[c]
    BY <2>2, RewrittenRuns
  <2> QED
    BY <2>1, <2>2
<1> QED
  BY <1>2, <1>3, SameRunUnmoved

\* The worker's result is the evaluator's snapshot; a later one is a review's or a
\* specialist's.
LEMMA SnapshotIsJudged ==
  ASSUME IInv, RunsPhased, SnapshotStep, NEW a \in Assets, NEW n
  PROVE  \/ Judged(a, n)!Evaluate \/ Judged(a, n)!Review \/ Judged(a, n)!Specialist
         \/ Unmoved(a, n)
<1> PICK c \in Assets, r \in Run, snapshot \in Snapshot :
      /\ Rewrite(c, r)
      /\ r.brief = runs[c][current[c]].brief /\ r.deps = runs[c][current[c]].deps
      /\ r.snaps = Append(runs[c][current[c]].snaps, snapshot)
      /\ r.head = Len(runs[c][current[c]].snaps) + 1
      /\ snapshot.ready => Governed(runs[c][current[c]])
      /\ NextSnapshot(runs[c][current[c]], snapshot)
  BY SMT DEF SnapshotStep
<1> DEFINE run == runs[c][current[c]]
<1>1. CASE a # c \/ n # current[c]
  BY <1>1, OthersUnmoved DEF IInv
<1>2. CASE a = c /\ n = current[c]
  <2>1. /\ runs[a] \in Seq(Run) /\ runs'[a] \in Seq(Run)
        /\ Len(runs'[a]) = Len(runs[a]) /\ n \in DOMAIN runs[a]
        /\ runs[a][n] = run /\ runs'[a][n] = r
    BY <1>2, RewrittenRuns DEF IInv, Indexed, TypeOK, Rewrite
  <2>2. n \in DOMAIN runs'[a]
    BY <2>1
  <2>3. run \in Run /\ Phased(run)
    BY CurrentPhased DEF Rewrite
  <2>4. run.snaps \in Seq(Snapshot) /\ r.deps = run.deps /\ r.brief = run.brief
    BY <2>3 DEF Run
  <2>5. HeadOf(a, n)' = snapshot
    <3> HIDE DEF run
    <3>1. r.snaps = Append(run.snaps, snapshot) /\ r.head = Len(run.snaps) + 1
      BY DEF run
    <3>2. r.head \in DOMAIN r.snaps /\ r.snaps[r.head] = snapshot
      <4>1. /\ Len(run.snaps) + 1 \in DOMAIN Append(run.snaps, snapshot)
            /\ Append(run.snaps, snapshot)[Len(run.snaps) + 1] = snapshot
        BY <2>4
      <4> QED
        BY <3>1, <4>1
    <3> QED
      BY <2>1, <2>2, <3>2 DEF HeadOf
  <2>6. /\ IsGoverned(a, n)' = IsGoverned(a, n) /\ IsGoverned(a, n) = Governed(run)
        /\ IsDemanding(a, n)' = IsDemanding(a, n)
        /\ IsDemanding(a, n) = (run.brief \in SpecialistBriefs)
    <3> HIDE DEF run
    <3>1. Governed(r) = Governed(run)
      BY <2>4 DEF Governed
    <3>2. Governed(run) \in BOOLEAN
      BY DEF Governed
    <3>3. IsGoverned(a, n)' = Governed(r) /\ IsGoverned(a, n) = Governed(run)
      BY <2>1, <2>2, <3>1, <3>2 DEF IsGoverned
    <3>4. /\ IsDemanding(a, n)' = (r.brief \in SpecialistBriefs)
          /\ IsDemanding(a, n) = (run.brief \in SpecialistBriefs)
      BY <2>1, <2>2 DEF IsDemanding
    <3> QED
      BY <2>4, <3>1, <3>3, <3>4
  <2>7. /\ snapshot.ready \in BOOLEAN
        /\ snapshot = [ready |-> snapshot.ready, reviewed |-> snapshot.reviewed,
                       specialist |-> snapshot.specialist]
    BY DEF Snapshot
  <2> HIDE DEF run
  <2>8. /\ snapshot.ready => /\ Governed(run) /\ snapshot.reviewed
                             /\ run.brief \in SpecialistBriefs => snapshot.specialist
        /\ NextSnapshot(run, snapshot)
    BY DEF NextSnapshot, run
  <2>9. Judged(a, n)!Assemble(snapshot.reviewed, snapshot.specialist)
    BY <2>5, <2>6, <2>7, <2>8 DEF Judged!Assemble
  <2>10. snapshot.reviewed \in BOOLEAN /\ snapshot.specialist \in BOOLEAN
    BY DEF Snapshot
  <2>11. CASE run.state = "processing" /\ ~snapshot.reviewed /\ ~snapshot.specialist
    <3>1. HeadOf(a, n) = <<>>
      <4>1. run.snaps = <<>>
        BY <2>3, <2>11 DEF Phased
      <4>2. DOMAIN run.snaps = {}
        BY <4>1
      <4> QED
        BY <2>1, <4>2 DEF HeadOf
    <3>2. snapshot.reviewed = FALSE /\ snapshot.specialist = FALSE
      BY <2>10, <2>11
    <3> QED
      BY <2>9, <3>1, <3>2 DEF Judged!Evaluate
  <2>12. CASE /\ run.head \in DOMAIN run.snaps
              /\ \/ snapshot.reviewed /\ ~snapshot.specialist
                 \/ /\ snapshot.reviewed = run.snaps[run.head].reviewed
                    /\ snapshot.specialist
    <3>1. HeadOf(a, n) = run.snaps[run.head]
      BY <2>1, <2>12 DEF HeadOf
    <3>2. run.snaps[run.head] \in Snapshot
      BY <2>4, <2>12
    <3>3. HeadOf(a, n) # <<>>
      <4>1. "ready" \in DOMAIN HeadOf(a, n)
        BY <3>1, <3>2 DEF Snapshot
      <4>2. DOMAIN <<>> = {}
        OBVIOUS
      <4> QED
        BY <4>1, <4>2
    <3>4. CASE snapshot.reviewed /\ ~snapshot.specialist
      <4>1. snapshot.reviewed = TRUE /\ snapshot.specialist = FALSE
        BY <2>10, <3>4
      <4> QED
        BY <2>9, <3>3, <4>1 DEF Judged!Review
    <3>5. CASE snapshot.reviewed = run.snaps[run.head].reviewed /\ snapshot.specialist
      <4>1. snapshot.reviewed = HeadOf(a, n).reviewed /\ snapshot.specialist = TRUE
        BY <2>10, <3>1, <3>5
      <4> QED
        BY <2>9, <3>3, <4>1 DEF Judged!Specialist
    <3> QED
      BY <2>12, <3>4, <3>5
  <2> QED
    BY <2>8, <2>11, <2>12 DEF NextSnapshot
<1> QED
  BY <1>1, <1>2

\* The snapshots of every run of every asset come about as Readiness says,
\* whoever decides on it and whatever becomes of its asset: a run is ready only
\* when what it froze was valid, a review was made and, where its brief demands
\* one, a specialist has spoken since (service.py schedule, assemble_snapshot,
\* review, specialist, worker.py finish).  So Assurance asks no more of a
\* verdict than Snapshot, which has the same interface, gives.
THEOREM ServiceImplementsReadiness ==
  Spec => \A a \in Assets, n \in Nat : Judged(a, n)!Spec
<1>1. ASSUME Init, NEW a \in Assets, NEW n
      PROVE  Judged(a, n)!Init
  <2>1. DOMAIN runs[a] = {}
    BY <1>1 DEF Init
  <2> QED
    BY <2>1 DEF IsGoverned, IsDemanding, HeadOf, Judged!Init
<1>2. Init => RunsPhased
  BY DEF Init, RunsPhased
<1>3. ASSUME IInv, RunsPhased, [Next]_vars, NEW a \in Assets, NEW n
      PROVE  Judged(a, n)!Next \/ Unmoved(a, n)
  <2> Indexed /\ CurrentRunSeesHeads
    BY <1>3 DEF IInv
  <2>1. CASE ScheduleStep
    BY <2>1, ScheduleIsJudged, Zenon DEF Judged!Next
  <2>2. CASE StateStep
    BY <2>2, OthersUnmoved, Zenon DEF StateStep
  <2>3. CASE SnapshotStep
    BY <1>3, <2>3, SnapshotIsJudged, Zenon DEF Judged!Next
  <2>4. CASE ApproveStep \/ ReleaseAction \/ RevokeStep \/ IdleStep
    <3>1. runs' = runs
      BY <2>4 DEF ApproveStep, Approve, ReleaseAction, ReleaseContent, RevokeStep,
         UserRevoke, IdleStep
    <3> QED
      BY <3>1, SameRunUnmoved DEF SameButState
  <2> QED
    BY <1>3, <2>1, <2>2, <2>3, <2>4, Steps, Zenon
<1>4. ASSUME NEW a \in Assets, NEW n \in Nat
      PROVE  Spec => Judged(a, n)!Spec
  <2>1. Init => Judged(a, n)!Init
    BY <1>1
  <2>2. IInv /\ RunsPhased /\ [Next]_vars =>
          [Judged(a, n)!Next]_(<<IsGoverned(a, n), IsDemanding(a, n), HeadOf(a, n)>>)
    BY <1>3, Zenon DEF Unmoved
  <2>3. IInv /\ RunsPhased /\ [Next]_vars => RunsPhased'
    BY StepPhased
  <2> QED
    BY <1>2, <2>1, <2>2, <2>3, Founded, PTL DEF Spec, Judged!Spec, Judged!vars
<1> QED
  BY <1>4
=============================================================================
