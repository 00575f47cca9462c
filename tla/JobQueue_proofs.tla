--------------------------- MODULE JobQueue_proofs ---------------------------
(***************************************************************************)
(* What holds of JobQueue for any assets, workers, limits and timing.      *)
(***************************************************************************)
EXTENDS JobQueue, FiniteSetTheorems, TLAPS

-----------------------------------------------------------------------------
(* The invariant *)

\* A job on its own: its run agrees with it, a running job's token is the
\* number of its attempts, a result is that of the last attempt.
JobOK(job) ==
  /\ job \in Job
  /\ Agrees(job)
  /\ job.state = "running" => job.token = job.attempts
  /\ job.result # 0 => /\ job.state \in {"done", "failed"}
                       /\ job.result = job.attempts
  /\ job.state = "done" => job.result # 0
  /\ job.state = "failed" => \E m \in Limits : job.attempts >= m

Out(job) == job.run = "stale" /\ job.state \in Closed

JobsOK ==
  /\ jobs \in [Assets -> Seq(Job)]
  /\ current \in [Assets -> Nat]
  /\ \A a \in Assets : current[a] = Len(jobs[a])
  /\ \A a \in Assets : \A n \in 1 .. Len(jobs[a]) :
       JobOK(jobs[a][n]) /\ (n # current[a] => Out(jobs[a][n]))

Claimed == [asset: Assets, n: Nat \ {0}, token: 1 .. MaxAttempts]

WorkersTyped ==
  /\ lapsed \in SUBSET Assets
  /\ pc \in [Workers -> {"refresh", "stamp", "claim", "work"}]
  /\ age \in [Workers -> Nat]
  /\ held \in [Workers -> {Nothing} \cup Claimed]
  /\ limit \in [Workers -> Limits]
  /\ beat \in [Workers -> Int]

\* A worker at work has a claim of a job that exists, no newer than the job's
\* last, and two workers never have the same claim.
Holding(w) ==
  /\ held[w] \in Claimed
  /\ held[w].n \in 1 .. Len(jobs[held[w].asset])
  /\ held[w].token <= HeldJob(w).attempts

ClaimsOK ==
  /\ \A w \in Workers : pc[w] = "work" => Holding(w)
  /\ \A v, w \in Workers :
       v # w /\ pc[v] = "work" /\ pc[w] = "work" => held[v] # held[w]

IInv == JobsOK /\ WorkersTyped /\ ClaimsOK

-----------------------------------------------------------------------------
(* What a transaction does to one job *)

\* Attempts only grow, and nothing touches a job that ended.
Persists(job, new) ==
  /\ JobOK(new)
  /\ new.attempts >= job.attempts
  /\ job.state \in Closed =>
       /\ new.state = job.state
       /\ new.result = job.result
       /\ new.attempts = job.attempts

MayMove(from, to) == to = from \/ <<from, to>> \in Lifecycle!Moves

\* A step that schedules nothing also moves the run as RunLifecycle allows.
Keeps(job, new) ==
  /\ Persists(job, new)
  /\ Out(job) => Out(new)
  /\ MayMove(job.run, new.run)

RewriteStep ==
  /\ jobs' \in [Assets -> Seq(Job)]
  /\ current' = current
  /\ \A a \in Assets : Len(jobs'[a]) = Len(jobs[a])
  /\ \A a \in Assets : \A n \in 1 .. Len(jobs[a]) : Keeps(jobs[a][n], jobs'[a][n])

Rescheduled(a) ==
  /\ Len(jobs'[a]) = Len(jobs[a]) + 1
  /\ current'[a] = Len(jobs[a]) + 1
  /\ JobOK(jobs'[a][Len(jobs[a]) + 1])
  /\ jobs'[a][Len(jobs[a]) + 1].run = "awaiting_scope"
  /\ \A n \in 1 .. Len(jobs[a]) :
       /\ Persists(jobs[a][n], jobs'[a][n])
       /\ Out(jobs'[a][n])
       /\ n # current[a] => jobs'[a][n] = jobs[a][n]

ScheduleStep ==
  /\ jobs' \in [Assets -> Seq(Job)]
  /\ current' \in [Assets -> Nat]
  /\ \A a \in Assets :
       \/ jobs'[a] = jobs[a] /\ current'[a] = current[a]
       \/ Rescheduled(a)

\* No worker gains a claim.
NoNewClaim ==
  \A w \in Workers : pc'[w] = "work" => pc[w] = "work" /\ held'[w] = held[w]

\* One worker gains the next claim of one job.
NewClaim(w, a, n) ==
  /\ a \in Assets /\ n \in 1 .. Len(jobs[a])
  /\ held'[w] = [asset |-> a, n |-> n, token |-> jobs[a][n].attempts + 1]
  /\ held'[w] \in Claimed
  /\ jobs'[a][n].attempts = jobs[a][n].attempts + 1
  /\ \A v \in Workers \ {w} :
       pc'[v] = "work" => pc[v] = "work" /\ held'[v] = held[v]

-----------------------------------------------------------------------------
(* The steps keep the invariant *)

LEMMA AttemptsNat ==
  ASSUME NEW job, JobOK(job)
  PROVE  job.attempts \in Nat /\ job.token \in Nat
BY TimingAssumption DEF JobOK, Job

LEMMA KeepsSelf ==
  ASSUME NEW job, JobOK(job)
  PROVE  Keeps(job, job)
BY AttemptsNat DEF Keeps, Persists, MayMove

LEMMA RewriteKeepsJobs ==
  ASSUME JobsOK, RewriteStep
  PROVE  JobsOK'
BY DEF JobsOK, RewriteStep, Keeps, Persists

LEMMA ScheduleKeepsJobs ==
  ASSUME JobsOK, ScheduleStep
  PROVE  JobsOK'
<1> SUFFICES ASSUME NEW a \in Assets
             PROVE  /\ current'[a] = Len(jobs'[a])
                    /\ \A n \in 1 .. Len(jobs'[a]) :
                         JobOK(jobs'[a][n]) /\ (n # current'[a] => Out(jobs'[a][n]))
  BY DEF JobsOK, ScheduleStep
<1>1. CASE jobs'[a] = jobs[a] /\ current'[a] = current[a]
  BY <1>1 DEF JobsOK
<1>2. CASE Rescheduled(a)
  <2>1. jobs[a] \in Seq(Job) /\ Len(jobs[a]) \in Nat
    BY DEF JobsOK
  <2>2. ASSUME NEW n \in 1 .. Len(jobs'[a])
        PROVE  JobOK(jobs'[a][n]) /\ (n # current'[a] => Out(jobs'[a][n]))
    <3>1. CASE n = Len(jobs[a]) + 1
      BY <1>2, <3>1 DEF Rescheduled
    <3>2. CASE n \in 1 .. Len(jobs[a])
      BY <1>2, <3>2 DEF Rescheduled, Persists
    <3> QED
      BY <1>2, <2>1, <3>1, <3>2 DEF Rescheduled
  <2> QED
    BY <1>2, <2>2 DEF Rescheduled
<1> QED
  BY <1>1, <1>2 DEF ScheduleStep

\* Whatever the step, jobs stay and their attempts only grow.
Grows ==
  \A a \in Assets :
    /\ Len(jobs'[a]) \in Nat /\ Len(jobs'[a]) >= Len(jobs[a])
    /\ \A n \in 1 .. Len(jobs[a]) :
         /\ jobs'[a][n].attempts \in Nat
         /\ Persists(jobs[a][n], jobs'[a][n])

LEMMA StepsGrow ==
  ASSUME JobsOK, RewriteStep \/ ScheduleStep
  PROVE  Grows
<1> SUFFICES ASSUME NEW a \in Assets
             PROVE  /\ Len(jobs'[a]) \in Nat /\ Len(jobs'[a]) >= Len(jobs[a])
                    /\ \A n \in 1 .. Len(jobs[a]) :
                         /\ jobs'[a][n].attempts \in Nat
                         /\ Persists(jobs[a][n], jobs'[a][n])
  BY DEF Grows
<1>1. Len(jobs[a]) \in Nat
  BY DEF JobsOK
<1>2. /\ Len(jobs'[a]) >= Len(jobs[a])
      /\ \A n \in 1 .. Len(jobs[a]) : Persists(jobs[a][n], jobs'[a][n])
  <2>1. CASE RewriteStep
    BY <1>1, <2>1 DEF RewriteStep, Keeps
  <2>2. CASE jobs'[a] = jobs[a]
    <3>1. \A n \in 1 .. Len(jobs[a]) : Persists(jobs[a][n], jobs[a][n])
      BY KeepsSelf DEF JobsOK, Keeps
    <3>2. Len(jobs'[a]) = Len(jobs[a])
      BY <2>2
    <3>3. Len(jobs'[a]) >= Len(jobs[a])
      BY <1>1, <3>2
    <3> QED
      BY <2>2, <3>1, <3>3, Zenon
  <2>3. CASE Rescheduled(a)
    BY <1>1, <2>3 DEF Rescheduled
  <2> QED
    BY <2>1, <2>2, <2>3 DEF ScheduleStep
<1>3. ASSUME NEW n \in 1 .. Len(jobs[a])
      PROVE  jobs'[a][n].attempts \in Nat
  BY <1>2, TimingAssumption DEF Persists, JobOK, Job
<1>4. Len(jobs'[a]) \in Nat
  BY DEF RewriteStep, ScheduleStep
<1> QED
  BY <1>2, <1>3, <1>4

LEMMA ClaimStays ==
  ASSUME JobsOK, Grows, NEW w \in Workers, Holding(w), held'[w] = held[w]
  PROVE  Holding(w)'
<1> DEFINE a == held[w].asset
           n == held[w].n
<1>1. /\ a \in Assets /\ n \in 1 .. Len(jobs[a]) /\ held[w].token \in Int
      /\ held[w].token <= jobs[a][n].attempts
  BY TimingAssumption DEF Holding, Claimed, HeldJob
<1>2. /\ Len(jobs'[a]) >= Len(jobs[a]) /\ jobs'[a][n].attempts \in Nat
      /\ jobs'[a][n].attempts >= jobs[a][n].attempts
  BY <1>1 DEF Grows, Persists
<1>3. jobs[a][n].attempts \in Int /\ Len(jobs[a]) \in Nat
  <2>1. jobs[a] \in Seq(Job) /\ JobOK(jobs[a][n])
    BY <1>1 DEF JobsOK
  <2>2. Len(jobs[a]) \in Nat
    BY <2>1
  <2> QED
    BY <2>1, <2>2, AttemptsNat
<1>4. Len(jobs'[a]) \in Nat
  BY <1>1 DEF Grows
<1> QED
  BY <1>1, <1>2, <1>3, <1>4 DEF Holding, HeldJob

LEMMA SteppedClaims ==
  ASSUME JobsOK, RewriteStep \/ ScheduleStep, ClaimsOK, NoNewClaim
  PROVE  ClaimsOK'
<1>1. Grows
  BY StepsGrow
<1>2. ASSUME NEW w \in Workers, pc'[w] = "work"
      PROVE  Holding(w)'
  BY <1>1, <1>2, ClaimStays DEF ClaimsOK, NoNewClaim
<1>3. ASSUME NEW v \in Workers, NEW w \in Workers, v # w,
             pc'[v] = "work", pc'[w] = "work"
      PROVE  held'[v] # held'[w]
  BY <1>3 DEF ClaimsOK, NoNewClaim
<1> QED
  BY <1>2, <1>3 DEF ClaimsOK

LEMMA ClaimedClaims ==
  ASSUME JobsOK, RewriteStep, ClaimsOK,
         NEW w \in Workers, NEW a, NEW n, NewClaim(w, a, n)
  PROVE  ClaimsOK'
<1>1. Grows
  BY StepsGrow
<1>2. ASSUME NEW v \in Workers \ {w}, pc'[v] = "work"
      PROVE  Holding(v)' /\ held'[v] # held'[w] /\ pc[v] = "work" /\ held'[v] = held[v]
  <2>1. Holding(v) /\ pc[v] = "work" /\ held'[v] = held[v]
    BY <1>2 DEF ClaimsOK, NewClaim
  <2>2. CASE held[v].asset = a /\ held[v].n = n
    <3>1. held[v].token <= jobs[a][n].attempts
      BY <2>1, <2>2 DEF Holding, HeldJob
    <3>2. held[v].token \in Int /\ jobs[a][n].attempts \in Int
      <4>1. JobOK(jobs[a][n])
        BY DEF NewClaim, JobsOK
      <4> QED
        BY <2>1, <4>1, AttemptsNat DEF Holding, Claimed
    <3> QED
      BY <1>1, <2>1, <3>1, <3>2, ClaimStays DEF NewClaim
  <2>3. CASE held[v].asset # a \/ held[v].n # n
    BY <1>1, <2>1, <2>3, ClaimStays DEF NewClaim
  <2> QED
    BY <2>2, <2>3
<1>3. Holding(w)'
  <2>1. a \in Assets /\ n \in 1 .. Len(jobs'[a]) /\ jobs'[a][n].attempts \in Int
    BY <1>1 DEF NewClaim, Grows, RewriteStep
  <2> QED
    BY <2>1 DEF NewClaim, Holding, HeldJob
<1> QED
  BY <1>2, <1>3 DEF ClaimsOK

-----------------------------------------------------------------------------
(* What the transactions do *)

LEMMA LimitsAreCounts ==
  /\ MaxAttempts \in Nat \ {0}
  /\ \A m \in Limits : m \in Nat /\ 1 <= m /\ m <= MaxAttempts
BY TimingAssumption

LEMMA NextBirthType == NextBirth \in Nat
<1>1. IsFiniteSet(Assets \X (1 .. MaxRuns))
  <2>1. IsFiniteSet(Assets) /\ IsFiniteSet(1 .. MaxRuns)
    BY BoundAssumption, FS_Interval
  <2> QED
    BY <2>1, FS_Product
<1>2. Entries \in SUBSET (Assets \X (1 .. MaxRuns))
  BY DEF Entries
<1>3. IsFiniteSet(Entries)
  BY <1>1, <1>2, FS_Subset
<1>4. Cardinality(Entries) \in Nat
  BY <1>3, FS_CardinalityType
<1> QED
  BY <1>4 DEF NextBirth

LEMMA NewJobOK ==
  ASSUME NEW born \in Nat
  PROVE  JobOK(NewJob(born)) /\ NewJob(born).run = "awaiting_scope"
BY LimitsAreCounts, TimingAssumption
   DEF NewJob, JobOK, Job, Agrees, RunStates, JobStates, Expired

LEMMA CancelledOut ==
  ASSUME NEW job, JobOK(job)
  PROVE  LET new == [Cancelled(job) EXCEPT !.run = "stale"]
         IN  Persists(job, new) /\ Out(new)
<1> DEFINE new == [Cancelled(job) EXCEPT !.run = "stale"]
<1> SUFFICES Persists(job, new) /\ Out(new)
  OBVIOUS
<1>1. job \in Job /\ job.attempts \in Nat
  BY AttemptsNat DEF JobOK
<1>2. CASE job.state \in {"done", "failed"}
  <2>1. new = [job EXCEPT !.run = "stale"]
    BY <1>2 DEF Cancelled
  <2> HIDE DEF new
  <2> QED
    BY <1>1, <1>2, <2>1
       DEF JobOK, Job, Agrees, RunStates, Persists, Out, Closed
<1>3. CASE job.state \notin {"done", "failed"}
  <2>1. new = [job EXCEPT !.run = "stale", !.state = "cancelled", !.token = 0,
                          !.lease = Expired]
    BY <1>1, <1>3 DEF Cancelled, Job
  <2> HIDE DEF new
  <2>2. new \in Job
    <3>1. Expired \in Int /\ 0 \in 0 .. MaxAttempts
      BY LimitsAreCounts, TimingAssumption DEF Expired
    <3> QED
      BY <1>1, <2>1, <3>1 DEF Job, RunStates, JobStates
  <2>3. /\ new.run = "stale" /\ new.state = "cancelled" /\ new.token = 0
        /\ new.attempts = job.attempts /\ new.result = job.result
    BY <1>1, <2>1 DEF Job
  <2>4. job.result = 0
    BY <1>3 DEF JobOK
  <2> QED
    BY <1>1, <1>3, <2>2, <2>3, <2>4 DEF JobOK, Agrees, Persists, Out, Closed
<1> QED
  BY <1>2, <1>3

LEMMA ReplaceInSeq ==
  ASSUME NEW T, NEW q \in Seq(T), NEW n \in 1 .. Len(q), NEW x \in T
  PROVE  LET r == [q EXCEPT ![n] = x]
         IN  /\ r \in Seq(T)
             /\ Len(r) = Len(q)
             /\ r[n] = x
             /\ \A m \in 1 .. Len(q) : m # n => r[m] = q[m]
OBVIOUS

LEMMA RetiredJobs ==
  ASSUME JobsOK, NEW a \in Assets
  PROVE  /\ Retired(a) \in Seq(Job)
         /\ Len(Retired(a)) = Len(jobs[a])
         /\ \A n \in 1 .. Len(jobs[a]) :
              /\ Persists(jobs[a][n], Retired(a)[n])
              /\ Out(Retired(a)[n])
              /\ n # current[a] => Retired(a)[n] = jobs[a][n]
<1>1. jobs[a] \in Seq(Job) /\ current[a] = Len(jobs[a]) /\ Len(jobs[a]) \in Nat
  BY DEF JobsOK
<1>2. \A n \in 1 .. Len(jobs[a]) :
        /\ Persists(jobs[a][n], jobs[a][n])
        /\ n # current[a] => Out(jobs[a][n])
  BY KeepsSelf DEF JobsOK, Keeps
<1>3. CASE current[a] = 0
  <2>1. Retired(a) = jobs[a] /\ Len(jobs[a]) = 0
    BY <1>1, <1>3 DEF Retired
  <2> QED
    BY <1>1, <2>1
<1>4. CASE current[a] # 0
  <2> DEFINE last == Len(jobs[a])
             new == [Cancelled(jobs[a][last]) EXCEPT !.run = "stale"]
  <2>1. last \in 1 .. Len(jobs[a]) /\ JobOK(jobs[a][last])
    BY <1>1, <1>4 DEF JobsOK
  <2>2. Persists(jobs[a][last], new) /\ Out(new)
    BY <2>1, CancelledOut
  <2>3. new \in Job
    BY <2>2 DEF Persists, JobOK
  <2>4. Retired(a) = [jobs[a] EXCEPT ![last] = new]
    BY <1>1, <1>4, <2>1 DEF Retired
  <2> HIDE DEF new
  <2>5. /\ Retired(a) \in Seq(Job) /\ Len(Retired(a)) = Len(jobs[a])
        /\ Retired(a)[last] = new
        /\ \A n \in 1 .. Len(jobs[a]) : n # last => Retired(a)[n] = jobs[a][n]
    BY <1>1, <2>1, <2>3, <2>4, ReplaceInSeq
  <2> QED
    BY <1>1, <1>2, <2>2, <2>5
<1> QED
  BY <1>3, <1>4

LEMMA ScheduleIsStep ==
  ASSUME JobsOK, NEW S \in SUBSET Assets, Schedule(S)
  PROVE  ScheduleStep
<1>1. jobs' \in [Assets -> Seq(Job)]
  <2>1. ASSUME NEW a \in Assets
        PROVE  Append(Retired(a), NewJob(NextBirth)) \in Seq(Job)
    BY RetiredJobs, NewJobOK, NextBirthType DEF JobOK
  <2> QED
    BY <2>1 DEF Schedule, JobsOK
<1>2. current' \in [Assets -> Nat]
  BY DEF Schedule, JobsOK
<1>3. ASSUME NEW a \in S
      PROVE  Rescheduled(a)
  <2> DEFINE new == NewJob(NextBirth)
             k == Len(jobs[a])
  <2>1. /\ Retired(a) \in Seq(Job) /\ Len(Retired(a)) = k /\ k \in Nat
        /\ \A n \in 1 .. k :
             /\ Persists(jobs[a][n], Retired(a)[n])
             /\ Out(Retired(a)[n])
             /\ n # current[a] => Retired(a)[n] = jobs[a][n]
    BY RetiredJobs DEF JobsOK
  <2>2. new \in Job /\ JobOK(new) /\ new.run = "awaiting_scope"
    BY NewJobOK, NextBirthType DEF JobOK
  <2>3. jobs'[a] = Append(Retired(a), new) /\ current'[a] = k + 1
    BY DEF Schedule
  <2> HIDE DEF new, k
  <2>4. /\ Len(jobs'[a]) = k + 1 /\ jobs'[a][k + 1] = new
        /\ \A n \in 1 .. k : jobs'[a][n] = Retired(a)[n]
    BY <2>1, <2>2, <2>3
  <2> QED
    BY <2>1, <2>2, <2>3, <2>4 DEF Rescheduled, k
<1>4. ASSUME NEW a \in Assets \ S
      PROVE  jobs'[a] = jobs[a] /\ current'[a] = current[a]
  BY DEF Schedule
<1> QED
  BY <1>1, <1>2, <1>3, <1>4 DEF ScheduleStep

\* Writing the job that a worker holds, and no other.
LEMMA SetHeldIsStep ==
  ASSUME JobsOK, NEW w \in Workers, Holding(w),
         NEW new, Keeps(HeldJob(w), new), SetHeldJob(w, new), current' = current
  PROVE  RewriteStep
<1> DEFINE b == held[w].asset
           k == held[w].n
<1>1. b \in Assets /\ k \in 1 .. Len(jobs[b]) /\ jobs[b] \in Seq(Job)
  BY DEF Holding, Claimed, JobsOK
<1>2. new \in Job
  BY DEF Keeps, Persists, JobOK
<1>3. jobs' = [jobs EXCEPT ![b] = [jobs[b] EXCEPT ![k] = new]]
  BY <1>1 DEF SetHeldJob, JobsOK
<1>4. Keeps(jobs[b][k], new)
  BY DEF HeldJob
<1> HIDE DEF b, k
<1>5. /\ jobs'[b] \in Seq(Job) /\ Len(jobs'[b]) = Len(jobs[b])
      /\ jobs'[b][k] = new
      /\ \A n \in 1 .. Len(jobs[b]) : n # k => jobs'[b][n] = jobs[b][n]
  <2>1. jobs'[b] = [jobs[b] EXCEPT ![k] = new]
    BY <1>1, <1>3 DEF JobsOK
  <2> QED
    BY <1>1, <1>2, <2>1, ReplaceInSeq
<1>6. \A a \in Assets : a # b => jobs'[a] = jobs[a]
  BY <1>3 DEF JobsOK
<1>7. jobs' \in [Assets -> Seq(Job)]
  BY <1>1, <1>3, <1>5 DEF JobsOK
<1>8. ASSUME NEW a \in Assets, NEW n \in 1 .. Len(jobs[a])
      PROVE  Keeps(jobs[a][n], jobs'[a][n])
  <2>1. Keeps(jobs[a][n], jobs[a][n])
    BY KeepsSelf DEF JobsOK
  <2> QED
    BY <1>4, <1>5, <1>6, <2>1
<1>9. \A a \in Assets : Len(jobs'[a]) = Len(jobs[a])
  BY <1>5, <1>6
<1> QED
  BY <1>7, <1>8, <1>9 DEF RewriteStep

LEMMA SameIsStep ==
  ASSUME JobsOK, UNCHANGED <<jobs, current>>
  PROVE  RewriteStep
BY KeepsSelf DEF JobsOK, RewriteStep

LEMMA ScopeIsStep ==
  ASSUME JobsOK, NEW a \in Assets, Scope(a)
  PROVE  RewriteStep
<1> DEFINE k == current[a]
           new == [jobs[a][k] EXCEPT !.run = "queued"]
<1>1. /\ k \in 1 .. Len(jobs[a]) /\ jobs[a] \in Seq(Job) /\ JobOK(jobs[a][k])
      /\ jobs[a][k].run = "awaiting_scope"
  BY DEF Scope, JobsOK
<1>2. Keeps(jobs[a][k], new)
  <2> HIDE DEF k
  <2>1. jobs[a][k].attempts \in Nat
    BY <1>1, AttemptsNat
  <2>2. MayMove("awaiting_scope", "queued")
    BY DEF MayMove, Lifecycle!Moves
  <2>3. /\ new \in Job /\ new.run = "queued" /\ new.state = jobs[a][k].state
        /\ new.attempts = jobs[a][k].attempts /\ new.token = jobs[a][k].token
        /\ new.result = jobs[a][k].result
    BY <1>1 DEF JobOK, Job, RunStates
  <2> HIDE DEF new
  <2> QED
    BY <1>1, <2>1, <2>2, <2>3 DEF Keeps, Persists, JobOK, Agrees, Out
<1>3. jobs' = [jobs EXCEPT ![a] = [jobs[a] EXCEPT ![k] = new]] /\ current' = current
  BY <1>1 DEF Scope, JobsOK
<1> HIDE DEF new, k
<1>4. new \in Job
  BY <1>2 DEF Keeps, Persists, JobOK
<1>5. /\ jobs'[a] \in Seq(Job) /\ Len(jobs'[a]) = Len(jobs[a])
      /\ jobs'[a][k] = new
      /\ \A n \in 1 .. Len(jobs[a]) : n # k => jobs'[a][n] = jobs[a][n]
  <2>1. jobs'[a] = [jobs[a] EXCEPT ![k] = new]
    BY <1>3 DEF JobsOK
  <2> QED
    BY <1>1, <1>4, <2>1, ReplaceInSeq
<1>6. \A b \in Assets : b # a => jobs'[b] = jobs[b]
  BY <1>3 DEF JobsOK
<1>7. jobs' \in [Assets -> Seq(Job)]
  BY <1>3, <1>5 DEF JobsOK
<1>8. ASSUME NEW b \in Assets, NEW n \in 1 .. Len(jobs[b])
      PROVE  Keeps(jobs[b][n], jobs'[b][n])
  <2>1. Keeps(jobs[b][n], jobs[b][n])
    BY KeepsSelf DEF JobsOK
  <2> QED
    BY <1>2, <1>5, <1>6, <2>1
<1>9. \A b \in Assets : Len(jobs'[b]) = Len(jobs[b])
  BY <1>5, <1>6
<1> QED
  BY <1>3, <1>7, <1>8, <1>9 DEF RewriteStep

-----------------------------------------------------------------------------
(* The steps of the API and of the clock *)

LEMMA FunctionIsSeq ==
  ASSUME NEW T, NEW k \in Nat, NEW q \in [1 .. k -> T]
  PROVE  q \in Seq(T) /\ Len(q) = k
OBVIOUS

\* A step that rewrites every job in place.
LEMMA MapIsStep ==
  ASSUME JobsOK, current' = current,
         jobs' = [a \in Assets |-> [n \in DOMAIN jobs[a] |-> jobs'[a][n]]],
         \A a \in Assets : \A n \in 1 .. Len(jobs[a]) :
           Keeps(jobs[a][n], jobs'[a][n])
  PROVE  RewriteStep
<1>1. ASSUME NEW a \in Assets
      PROVE  jobs'[a] \in Seq(Job) /\ Len(jobs'[a]) = Len(jobs[a])
  <2>1. DOMAIN jobs[a] = 1 .. Len(jobs[a]) /\ Len(jobs[a]) \in Nat
    BY DEF JobsOK
  <2>2. jobs'[a] = [n \in 1 .. Len(jobs[a]) |-> jobs'[a][n]]
    BY <2>1
  <2>3. \A n \in 1 .. Len(jobs[a]) : jobs'[a][n] \in Job
    BY DEF Keeps, Persists, JobOK
  <2>4. jobs'[a] \in [1 .. Len(jobs[a]) -> Job]
    BY <2>2, <2>3
  <2> QED
    BY <2>1, <2>4, FunctionIsSeq
<1>2. jobs' \in [Assets -> Seq(Job)]
  BY <1>1
<1> QED
  BY <1>1, <1>2 DEF RewriteStep

LEMMA TickIsStep ==
  ASSUME JobsOK, Tick
  PROVE  RewriteStep
<1>1. ASSUME NEW a \in Assets, NEW n \in 1 .. Len(jobs[a])
      PROVE  Keeps(jobs[a][n], jobs'[a][n])
  <2> DEFINE job == jobs[a][n]
             new == jobs'[a][n]
  <2>1. JobOK(job) /\ n \in DOMAIN jobs[a] /\ job \in Job
    BY DEF JobsOK, JobOK
  <2>2. /\ Less(job.lease) \in Int /\ Less(job.avail) \in Int
    BY <2>1 DEF Less, Job
  <2>3. \/ new = [job EXCEPT !.lease = Less(@)]
        \/ new = [job EXCEPT !.avail = Less(@)]
        \/ new = job
    BY <2>1 DEF Tick
  <2> HIDE DEF job, new
  <2>4. /\ new \in Job /\ new.run = job.run /\ new.state = job.state
        /\ new.attempts = job.attempts /\ new.token = job.token
        /\ new.result = job.result
    BY <2>1, <2>2, <2>3 DEF Job
  <2>5. job.attempts \in Nat
    BY <2>1, AttemptsNat
  <2> QED
    BY <2>1, <2>4, <2>5
       DEF Keeps, Persists, JobOK, Agrees, Out, MayMove, job, new
<1>2. jobs' = [a \in Assets |-> [n \in DOMAIN jobs[a] |-> jobs'[a][n]]]
  BY DEF Tick
<1>3. current' = current
  BY DEF Tick
<1> QED
  BY <1>1, <1>2, <1>3, MapIsStep

-----------------------------------------------------------------------------
(* The claim *)

LEMMA GivenUpKeeps ==
  ASSUME NEW job, JobOK(job), job.state = "running", job.run = "processing",
         \E m \in Limits : job.attempts >= m
  PROVE  Keeps(job, GivenUp(job))
<1> DEFINE new == GivenUp(job)
<1>1. job \in Job /\ job.attempts \in Nat /\ 0 \in 0 .. MaxAttempts
  BY AttemptsNat, LimitsAreCounts DEF JobOK
<1>2. /\ new \in Job /\ new.run = "failed" /\ new.state = "failed"
      /\ new.token = 0 /\ new.attempts = job.attempts /\ new.result = job.result
  BY <1>1 DEF GivenUp, Job, RunStates, JobStates
<1>3. MayMove("processing", "failed")
  BY DEF MayMove, Lifecycle!Moves
<1>4. job.result = 0
  BY DEF JobOK
<1> HIDE DEF new
<1> QED
  BY <1>1, <1>2, <1>3, <1>4 DEF Keeps, Persists, JobOK, Agrees, Out, Closed, new

LEMMA GrantedKeeps ==
  ASSUME NEW w \in Workers, age[w] \in Nat, NEW job, JobOK(job),
         \/ job.state = "queued" /\ job.run = "queued"
         \/ job.state = "running" /\ job.run = "processing",
         NEW m \in Limits, job.attempts < m
  PROVE  /\ Keeps(job, Granted(job, w))
         /\ Granted(job, w).attempts = job.attempts + 1
<1> DEFINE new == Granted(job, w)
<1>1. /\ job \in Job /\ job.attempts \in Nat
      /\ job.attempts + 1 \in 1 .. MaxAttempts
      /\ job.attempts + 1 \in 0 .. MaxAttempts
  BY AttemptsNat, LimitsAreCounts DEF JobOK
<1>2. Lease - age[w] \in Int /\ Expired \in Int
  BY TimingAssumption DEF Expired
<1>3. /\ new \in Job /\ new.run = "processing" /\ new.state = "running"
      /\ new.token = job.attempts + 1 /\ new.attempts = job.attempts + 1
      /\ new.result = job.result
  BY <1>1, <1>2 DEF Granted, Job, RunStates, JobStates
<1>4. MayMove("queued", "processing") /\ MayMove("processing", "processing")
  BY DEF MayMove, Lifecycle!Moves
<1>5. job.result = 0
  BY DEF JobOK
<1> HIDE DEF new
<1> QED
  BY <1>1, <1>3, <1>4, <1>5 DEF Keeps, Persists, JobOK, Agrees, Out, Closed, new

LEMMA ClaimIsStep ==
  ASSUME JobsOK, WorkersTyped, NEW w \in Workers, NEW G \in SUBSET Eligible(w),
         jobs' = AfterClaim(w, G), current' = current
  PROVE  RewriteStep
<1>0. limit[w] \in Limits /\ age[w] \in Nat
  BY DEF WorkersTyped
<1>1. ASSUME NEW a \in Assets, NEW n \in 1 .. Len(jobs[a])
      PROVE  Keeps(jobs[a][n], jobs'[a][n])
  <2> DEFINE job == jobs[a][n]
  <2>1. JobOK(job) /\ n \in DOMAIN jobs[a]
    BY DEF JobsOK
  <2>2. CASE <<a, n>> \in Exhausted(w)
    <3>1. /\ job.state = "running" /\ job.run = "processing"
          /\ job.attempts >= limit[w]
      BY <2>2 DEF Exhausted, LeaseOver, JobAt
    <3>2. jobs'[a][n] = GivenUp(job)
      BY <2>1, <2>2 DEF AfterClaim
    <3> QED
      BY <1>0, <2>1, <3>1, <3>2, GivenUpKeeps
  <2>3. CASE <<a, n>> \notin Exhausted(w) /\ <<a, n>> \in G
    <3>1. /\ \/ job.state = "queued" /\ job.run = "queued"
             \/ job.state = "running" /\ job.run = "processing"
          /\ job.attempts < limit[w]
      BY <2>3 DEF Eligible, LeaseOver, JobAt
    <3>2. jobs'[a][n] = Granted(job, w)
      BY <2>1, <2>3 DEF AfterClaim
    <3> QED
      BY <1>0, <2>1, <3>1, <3>2, GrantedKeeps, Zenon
  <2>4. CASE <<a, n>> \notin Exhausted(w) /\ <<a, n>> \notin G
    <3>1. jobs'[a][n] = job
      BY <2>1, <2>4 DEF AfterClaim
    <3> QED
      BY <2>1, <3>1, KeepsSelf
  <2> QED
    BY <2>2, <2>3, <2>4
<1>2. jobs' = [a \in Assets |-> [n \in DOMAIN jobs[a] |-> jobs'[a][n]]]
  BY DEF AfterClaim
<1> QED
  BY <1>1, <1>2, MapIsStep

LEMMA ClaimOldestIsClaim ==
  ASSUME JobsOK, WorkersTyped, NEW w \in Workers, ClaimOldest(w)
  PROVE  RewriteStep /\ \E a, n : NewClaim(w, a, n)
<1>0. limit[w] \in Limits /\ age[w] \in Nat /\ w \in Workers
  BY DEF WorkersTyped
<1>1. PICK e \in Oldest(w) :
        /\ jobs' = AfterClaim(w, {e})
        /\ held' = [held EXCEPT ![w] =
             [asset |-> e[1], n |-> e[2], token |-> JobAt(e).attempts + 1]]
  BY DEF ClaimOldest
<1> DEFINE a == e[1]
           n == e[2]
           job == jobs[a][n]
<1>2. /\ e \in Eligible(w) /\ a \in Assets /\ n \in DOMAIN jobs[a]
      /\ e = <<a, n>> /\ job.attempts < limit[w]
      /\ \/ job.state = "queued" /\ job.run = "queued"
         \/ LeaseOver(job, w)
  BY DEF Oldest, Eligible, Entries, JobAt
<1>3. RewriteStep
  BY <1>1, <1>2, ClaimIsStep DEF ClaimOldest
<1>4. n \in 1 .. Len(jobs[a]) /\ JobOK(job) /\ n \in Nat \ {0}
  BY <1>2 DEF JobsOK
<1>5. /\ job.attempts \in Nat
      /\ job.attempts + 1 \in 1 .. MaxAttempts
  <2>1. job.attempts \in Nat
    BY <1>4, AttemptsNat
  <2> QED
    BY <1>0, <1>2, <2>1, LimitsAreCounts
<1>6. jobs'[a][n].attempts = job.attempts + 1
  <2>1. <<a, n>> \notin Exhausted(w)
    BY <1>0, <1>2, <1>5, LimitsAreCounts DEF Exhausted, JobAt
  <2>2. jobs'[a][n] = Granted(job, w)
    BY <1>1, <1>2, <2>1 DEF AfterClaim
  <2> QED
    BY <1>4, <2>2 DEF Granted, JobOK, Job
<1>7. /\ held'[w] = [asset |-> a, n |-> n, token |-> job.attempts + 1]
      /\ held'[w] \in Claimed
  <2>1. held'[w] = [asset |-> a, n |-> n, token |-> job.attempts + 1]
    BY <1>1 DEF WorkersTyped, JobAt
  <2> QED
    BY <1>2, <1>4, <1>5, <2>1 DEF Claimed
<1>8. \A v \in Workers \ {w} :
        pc'[v] = "work" => pc[v] = "work" /\ held'[v] = held[v]
  BY <1>1 DEF ClaimOldest, Goto, WorkersTyped
<1>9. NewClaim(w, a, n)
  BY <1>2, <1>4, <1>6, <1>7, <1>8 DEF NewClaim
<1> QED
  BY <1>3, <1>9

-----------------------------------------------------------------------------
(* The writes of a worker that passes the fence *)

LEMMA FencedJob ==
  ASSUME JobsOK, NEW w \in Workers, Holding(w), Holds(w)
  PROVE  /\ JobOK(HeldJob(w)) /\ HeldJob(w) \in Job
         /\ HeldJob(w).attempts \in Nat
         /\ HeldJob(w).state = "running" /\ HeldJob(w).run = "processing"
         /\ HeldJob(w).result = 0
         /\ HeldJob(w).attempts = held[w].token /\ held[w].token # 0
<1>1. JobOK(HeldJob(w))
  BY DEF Holding, Claimed, HeldJob, JobsOK
<1>2. held[w].token # 0
  BY LimitsAreCounts DEF Holding, Claimed
<1> QED
  BY <1>1, <1>2, AttemptsNat DEF JobOK, Agrees, Holds

LEMMA RenewIsStep ==
  ASSUME JobsOK, NEW w \in Workers, Holding(w), Renew(w)
  PROVE  RewriteStep
<1>1. CASE Holds(w)
  <2> DEFINE job == HeldJob(w)
             new == [job EXCEPT !.lease = Lease]
  <2>1. JobOK(job) /\ job \in Job /\ job.attempts \in Nat
    BY <1>1, FencedJob
  <2> HIDE DEF job
  <2>2. /\ new \in Job /\ new.run = job.run /\ new.state = job.state
        /\ new.attempts = job.attempts /\ new.token = job.token
        /\ new.result = job.result
    BY <2>1, TimingAssumption DEF Job
  <2> HIDE DEF new
  <2>3. Keeps(job, new)
    BY <2>1, <2>2 DEF Keeps, Persists, JobOK, Agrees, Out, MayMove
  <2>4. SetHeldJob(w, new) /\ current' = current
    BY <1>1 DEF Renew, new, job
  <2> QED
    BY <2>3, <2>4, SetHeldIsStep DEF job
<1>2. CASE ~Holds(w)
  BY <1>2, SameIsStep DEF Renew
<1> QED
  BY <1>1, <1>2

LEMMA DiscardIsStep ==
  ASSUME JobsOK, NEW w \in Workers, Holding(w), FinishDiscard(w)
  PROVE  RewriteStep
<1> DEFINE job == HeldJob(w)
           new == [job EXCEPT !.run = "stale", !.state = "cancelled", !.token = 0]
<1>1. /\ JobOK(job) /\ job \in Job /\ job.attempts \in Nat
      /\ job.state = "running" /\ job.run = "processing" /\ job.result = 0
  BY FencedJob DEF FinishDiscard
<1> HIDE DEF job
<1>2. /\ new \in Job /\ new.run = "stale" /\ new.state = "cancelled"
      /\ new.attempts = job.attempts /\ new.token = 0 /\ new.result = 0
  BY <1>1, LimitsAreCounts DEF Job, RunStates, JobStates
<1> HIDE DEF new
<1>3. Keeps(job, new)
  <2>1. MayMove("processing", "stale")
    BY DEF MayMove, Lifecycle!Moves
  <2> QED
    BY <1>1, <1>2, <2>1 DEF Keeps, Persists, JobOK, Agrees, Out, Closed
<1>4. SetHeldJob(w, new) /\ current' = current
  BY DEF FinishDiscard, new, job
<1> QED
  BY <1>3, <1>4, SetHeldIsStep DEF job

LEMMA RetryIsStep ==
  ASSUME JobsOK, NEW w \in Workers, Holding(w), FinishRetry(w)
  PROVE  RewriteStep
<1> DEFINE job == HeldJob(w)
           delay == RetryDelay(job.attempts)
           new == [job EXCEPT !.run = "queued", !.state = "queued",
                     !.token = 0, !.lease = Expired, !.avail = delay]
<1>1. /\ JobOK(job) /\ job \in Job /\ job.attempts \in Nat
      /\ job.state = "running" /\ job.run = "processing" /\ job.result = 0
  BY FencedJob DEF FinishRetry
<1> HIDE DEF job
<1>2. delay \in Int /\ Expired \in Int /\ 0 \in 0 .. MaxAttempts
  <2>1. 2 ^ job.attempts \in Int
    BY <1>1
  <2> QED
    BY <2>1, TimingAssumption, LimitsAreCounts DEF RetryDelay, Smaller, Expired
<1> HIDE DEF delay
<1>3. /\ new \in Job /\ new.run = "queued" /\ new.state = "queued"
      /\ new.attempts = job.attempts /\ new.token = 0 /\ new.result = 0
  BY <1>1, <1>2 DEF Job, RunStates, JobStates
<1>4. SetHeldJob(w, new) /\ current' = current
  BY DEF FinishRetry, new, job, delay
<1> HIDE DEF new
<1>5. Keeps(job, new)
  <2>1. MayMove("processing", "queued")
    BY DEF MayMove, Lifecycle!Moves
  <2> QED
    BY <1>1, <1>3, <2>1 DEF Keeps, Persists, JobOK, Agrees, Out, Closed
<1> QED
  BY <1>4, <1>5, SetHeldIsStep DEF job

LEMMA ResultIsStep ==
  ASSUME JobsOK, WorkersTyped, NEW w \in Workers, Holding(w),
         NEW retryable \in BOOLEAN, FinishResult(w, retryable)
  PROVE  RewriteStep
<1> DEFINE job == HeldJob(w)
           run == IF retryable THEN "failed" ELSE "completed"
           state == IF retryable THEN "failed" ELSE "done"
           new == [job EXCEPT !.run = run, !.state = state,
                     !.result = held[w].token, !.token = 0, !.lease = Expired]
<1>1. /\ JobOK(job) /\ job \in Job /\ job.attempts \in Nat
      /\ job.state = "running" /\ job.run = "processing" /\ job.result = 0
      /\ job.attempts = held[w].token /\ held[w].token # 0
  BY FencedJob DEF FinishResult
<1>2. retryable => \E m \in Limits : job.attempts >= m
  BY DEF FinishResult, WorkersTyped
<1>3. SetHeldJob(w, new) /\ current' = current
  BY DEF FinishResult
<1> HIDE DEF job
<1>4. /\ held[w].token \in 0 .. MaxAttempts
      /\ Expired \in Int /\ 0 \in 0 .. MaxAttempts
  BY <1>1, TimingAssumption, LimitsAreCounts DEF Expired, Job
<1>5. run \in RunStates /\ state \in JobStates
  BY DEF RunStates, JobStates
<1>6. MayMove("processing", run)
  BY DEF MayMove, Lifecycle!Moves
<1>7. Agrees([job EXCEPT !.run = run, !.state = state, !.token = 0])
  BY <1>1 DEF Agrees, Job
<1>8. /\ state = "done" \/ (state = "failed" /\ retryable)
      /\ run # "stale"
  OBVIOUS
<1> HIDE DEF run, state
<1>9. /\ new \in Job /\ new.run = run /\ new.state = state
      /\ new.attempts = job.attempts /\ new.token = 0 /\ new.result = held[w].token
  BY <1>1, <1>4, <1>5 DEF Job
<1> HIDE DEF new
<1>10. Agrees(new)
  BY <1>1, <1>7, <1>9 DEF Agrees, Job
<1>11. JobOK(new)
  BY <1>1, <1>2, <1>8, <1>9, <1>10 DEF JobOK
<1>12. Keeps(job, new)
  BY <1>1, <1>6, <1>8, <1>9, <1>11 DEF Keeps, Persists, Out, Closed
<1> QED
  BY <1>3, <1>12, SetHeldIsStep DEF job

-----------------------------------------------------------------------------
(* Every step keeps the invariant *)

\* What Forget does to the variables of the workers.
LEMMA ForgetKeepsWorkers ==
  ASSUME WorkersTyped, NEW w \in Workers, Forget(w),
         lapsed' \in SUBSET Assets, limit' \in [Workers -> Limits]
  PROVE  WorkersTyped' /\ NoNewClaim
<1>1. Stopped \in Int
  BY TimingAssumption DEF Stopped
<1>2. /\ pc' \in [Workers -> {"refresh", "stamp", "claim", "work"}]
      /\ \A v \in Workers : pc'[v] = "work" => v # w /\ pc[v] = "work"
  BY DEF WorkersTyped, Forget, Goto
<1>3. age' \in [Workers -> Nat]
  BY DEF WorkersTyped, Forget
<1>4. /\ held' \in [Workers -> {Nothing} \cup Claimed]
      /\ \A v \in Workers : v # w => held'[v] = held[v]
  BY DEF WorkersTyped, Forget
<1>5. beat' \in [Workers -> Int]
  BY <1>1 DEF WorkersTyped, Forget
<1> QED
  BY <1>2, <1>3, <1>4, <1>5 DEF WorkersTyped, NoNewClaim

\* Every step is one of three: a rewrite or a schedule without a new claim, or a
\* rewrite with one.
Classified ==
  \/ RewriteStep /\ NoNewClaim
  \/ ScheduleStep /\ NoNewClaim
  \/ RewriteStep /\ \E w \in Workers : \E a, n : NewClaim(w, a, n)

LEMMA ClassifiedKeeps ==
  ASSUME JobsOK, ClaimsOK, Classified
  PROVE  JobsOK' /\ ClaimsOK'
BY RewriteKeepsJobs, ScheduleKeepsJobs, SteppedClaims, ClaimedClaims DEF Classified

LEMMA ApiSteps ==
  ASSUME IInv, NEW a \in Assets, Supersede(a) \/ Scope(a) \/ Lapse(a)
  PROVE  WorkersTyped' /\ Classified
<1>1. CASE Supersede(a)
  <2>1. ScheduleStep
    BY <1>1, ScheduleIsStep DEF Supersede, IInv
  <2>2. WorkersTyped' /\ NoNewClaim
    BY <1>1 DEF Supersede, Schedule, IInv, WorkersTyped, NoNewClaim, workerVars
  <2> QED
    BY <2>1, <2>2 DEF Classified
<1>2. CASE Scope(a)
  <2>1. RewriteStep
    BY <1>2, ScopeIsStep DEF IInv
  <2>2. WorkersTyped' /\ NoNewClaim
    BY <1>2 DEF Scope, IInv, WorkersTyped, NoNewClaim, workerVars
  <2> QED
    BY <2>1, <2>2 DEF Classified
<1>3. CASE Lapse(a)
  <2>1. RewriteStep
    BY <1>3, SameIsStep DEF IInv, Lapse
  <2>2. WorkersTyped' /\ NoNewClaim
    BY <1>3 DEF Lapse, IInv, WorkersTyped, NoNewClaim, workerVars
  <2> QED
    BY <2>1, <2>2 DEF Classified
<1> QED
  BY <1>1, <1>2, <1>3

LEMMA TickStep ==
  ASSUME IInv, Tick
  PROVE  WorkersTyped' /\ Classified
<1>1. RewriteStep
  BY TickIsStep DEF IInv
<1>2. age' \in [Workers -> Nat] /\ beat' \in [Workers -> Int]
  BY DEF Tick, IInv, WorkersTyped
<1>3. WorkersTyped' /\ NoNewClaim
  BY <1>2 DEF Tick, IInv, WorkersTyped, NoNewClaim
<1> QED
  BY <1>1, <1>3 DEF Classified

LEMMA TurnSteps ==
  ASSUME IInv, NEW w \in Workers,
         RefreshStale(w) \/ ReadStamp(w) \/ Claim(w) \/ Crash(w)
  PROVE  WorkersTyped' /\ Classified
<1>1. CASE RefreshStale(w)
  <2>1. ScheduleStep
    BY <1>1, ScheduleIsStep DEF RefreshStale, IInv, WorkersTyped
  <2>2. WorkersTyped' /\ NoNewClaim
    BY <1>1 DEF RefreshStale, Schedule, Goto, IInv, WorkersTyped, NoNewClaim
  <2> QED
    BY <2>1, <2>2 DEF Classified
<1>2. CASE ReadStamp(w)
  <2>1. RewriteStep
    BY <1>2, SameIsStep DEF ReadStamp, IInv
  <2>2. WorkersTyped' /\ NoNewClaim
    BY <1>2 DEF ReadStamp, Goto, IInv, WorkersTyped, NoNewClaim
  <2> QED
    BY <2>1, <2>2 DEF Classified
<1>3. CASE ClaimNothing(w)
  <2>1. RewriteStep
    BY <1>3, ClaimIsStep DEF ClaimNothing, IInv
  <2>2. WorkersTyped' /\ NoNewClaim
    BY <1>3, ForgetKeepsWorkers DEF ClaimNothing, IInv, WorkersTyped
  <2> QED
    BY <2>1, <2>2 DEF Classified
<1>4. CASE ClaimOldest(w)
  <2>1. RewriteStep /\ \E a, n : NewClaim(w, a, n)
    BY <1>4, ClaimOldestIsClaim DEF IInv
  <2>2. held' \in [Workers -> {Nothing} \cup Claimed]
    BY <1>4, <2>1 DEF ClaimOldest, NewClaim, IInv, WorkersTyped
  <2>3. WorkersTyped'
    BY <1>4, <2>2, TimingAssumption DEF ClaimOldest, Goto, IInv, WorkersTyped
  <2> QED
    BY <2>1, <2>3 DEF Classified
<1>5. CASE Crash(w)
  <2>1. RewriteStep
    BY <1>5, SameIsStep DEF Crash, IInv
  <2>2. limit' \in [Workers -> Limits]
    BY <1>5 DEF Crash, IInv, WorkersTyped
  <2>3. WorkersTyped' /\ NoNewClaim
    BY <1>5, <2>2, ForgetKeepsWorkers DEF Crash, IInv, WorkersTyped
  <2> QED
    BY <2>1, <2>3 DEF Classified
<1> QED
  BY <1>1, <1>2, <1>3, <1>4, <1>5 DEF Claim

LEMMA WorkSteps ==
  ASSUME IInv, NEW w \in Workers,
         Renew(w) \/ HeartbeatDies(w) \/ Finish(w)
  PROVE  WorkersTyped' /\ Classified
<1>1. Holding(w)
  BY DEF Renew, HeartbeatDies, Finish, FinishFenced, FinishDiscard, FinishRetry,
         FinishResult, IInv, ClaimsOK
<1>2. CASE Renew(w)
  <2>1. RewriteStep
    BY <1>1, <1>2, RenewIsStep DEF IInv
  <2>2. beat' \in [Workers -> Int]
    BY <1>2, TimingAssumption DEF Renew, IInv, WorkersTyped, Stopped
  <2>3. WorkersTyped' /\ NoNewClaim
    BY <1>2, <2>2 DEF Renew, IInv, WorkersTyped, NoNewClaim
  <2> QED
    BY <2>1, <2>3 DEF Classified
<1>3. CASE HeartbeatDies(w)
  <2>1. RewriteStep
    BY <1>3, SameIsStep DEF HeartbeatDies, IInv
  <2>2. WorkersTyped' /\ NoNewClaim
    BY <1>3, TimingAssumption DEF HeartbeatDies, IInv, WorkersTyped, NoNewClaim, Stopped
  <2> QED
    BY <2>1, <2>2 DEF Classified
<1>4. CASE Finish(w)
  <2>1. RewriteStep
    <3>1. CASE FinishFenced(w)
      BY <3>1, SameIsStep DEF FinishFenced, IInv
    <3>2. CASE FinishDiscard(w)
      BY <1>1, <3>2, DiscardIsStep DEF IInv
    <3>3. CASE FinishRetry(w)
      BY <1>1, <3>3, RetryIsStep DEF IInv
    <3>4. CASE \E retryable \in BOOLEAN : FinishResult(w, retryable)
      BY <1>1, <3>4, ResultIsStep DEF IInv
    <3> QED
      BY <1>4, <3>1, <3>2, <3>3, <3>4 DEF Finish
  <2>2. Forget(w) /\ lapsed' = lapsed /\ limit' = limit
    BY <1>4 DEF Finish, FinishFenced, FinishDiscard, FinishRetry, FinishResult
  <2>3. WorkersTyped' /\ NoNewClaim
    BY <2>2, ForgetKeepsWorkers DEF IInv, WorkersTyped
  <2> QED
    BY <2>1, <2>3 DEF Classified
<1> QED
  BY <1>2, <1>3, <1>4

LEMMA NextIsClassified ==
  ASSUME IInv, [Next]_vars
  PROVE  WorkersTyped' /\ Classified
<1>1. CASE UNCHANGED vars
  <2>1. RewriteStep
    BY <1>1, SameIsStep DEF vars, IInv
  <2>2. WorkersTyped' /\ NoNewClaim
    BY <1>1 DEF vars, IInv, WorkersTyped, NoNewClaim
  <2> QED
    BY <2>1, <2>2 DEF Classified
<1> QED
  BY <1>1, ApiSteps, TickStep, TurnSteps, WorkSteps DEF Next

LEMMA InitIInv == Init => IInv
<1> SUFFICES ASSUME Init PROVE IInv
  OBVIOUS
<1>1. JobsOK
  BY DEF Init, JobsOK
<1>2. WorkersTyped
  BY TimingAssumption DEF Init, WorkersTyped, Stopped
<1>3. ClaimsOK
  BY DEF Init, ClaimsOK
<1> QED
  BY <1>1, <1>2, <1>3 DEF IInv

LEMMA NextIInv == IInv /\ [Next]_vars => IInv'
<1> SUFFICES ASSUME IInv, [Next]_vars PROVE IInv'
  OBVIOUS
<1>1. WorkersTyped' /\ Classified
  BY NextIsClassified
<1>2. JobsOK' /\ ClaimsOK'
  BY <1>1, ClassifiedKeeps DEF IInv
<1> QED
  BY <1>1, <1>2 DEF IInv

LEMMA SpecIInv == Spec => []IInv
BY InitIInv, NextIInv, PTL DEF Spec

-----------------------------------------------------------------------------
(* The theorems *)

\* Every column of a job and every variable of a worker keeps its range: no
\* job is attempted more often than the largest limit a worker ran with.
THEOREM TypeCorrect == Spec => []TypeOK
<1>1. IInv => TypeOK
  BY DEF IInv, JobsOK, WorkersTyped, Claimed, TypeOK
<1> QED
  BY <1>1, SpecIInv, PTL

\* The run and its job never disagree, and only the current run has work to do.
THEOREM RunsAgree == Spec => []RunJobAgree
<1>1. IInv => RunJobAgree
  BY DEF IInv, JobsOK, JobOK, Out, RunJobAgree
<1> QED
  BY <1>1, SpecIInv, PTL

\* Only one worker at a time passes the fence of renew() and finish(): those
\* that hold a claim of one job hold different tokens, and the row has one.
THEOREM OneHolder == Spec => []SingleHolder
<1>1. ASSUME IInv, NEW v \in Workers, NEW w \in Workers,
             pc[v] = "work", pc[w] = "work", Holds(v), Holds(w),
             held[v].asset = held[w].asset, held[v].n = held[w].n
      PROVE  v = w
  <2>1. held[v].token = held[w].token
    BY <1>1 DEF Holds, HeldJob
  <2>2. held[v] \in Claimed /\ held[w] \in Claimed
    BY <1>1 DEF IInv, ClaimsOK, Holding
  <2>3. held[v] = held[w]
    BY <1>1, <2>1, <2>2 DEF Claimed
  <2> QED
    BY <1>1, <2>3 DEF IInv, ClaimsOK
<1>2. IInv => SingleHolder
  BY <1>1 DEF SingleHolder
<1> QED
  BY <1>2, SpecIInv, PTL

\* A run has at most one machine result, that of the last lease granted, and
\* fails only when a worker's attempts were used.
THEOREM ResultsFromLastClaim == Spec => []ResultFromLastClaim
<1>1. IInv => ResultFromLastClaim
  BY DEF IInv, JobsOK, JobOK, ResultFromLastClaim
<1> QED
  BY <1>1, SpecIInv, PTL

\* No step of a worker or of the API touches a job that ended.
THEOREM ClosedJobsStay == Spec => ClosedJobFinal
<1>1. ASSUME IInv, [Next]_vars, NEW a \in Assets, NEW n \in DOMAIN jobs[a],
             jobs[a][n].state \in Closed
      PROVE  /\ jobs'[a][n].state = jobs[a][n].state
             /\ jobs'[a][n].result = jobs[a][n].result
             /\ jobs'[a][n].attempts = jobs[a][n].attempts
  <2>1. Grows
    BY <1>1, NextIsClassified, StepsGrow DEF IInv, Classified
  <2>2. n \in 1 .. Len(jobs[a])
    BY <1>1 DEF IInv, JobsOK
  <2>3. Persists(jobs[a][n], jobs'[a][n])
    BY <2>1, <2>2, Zenon DEF Grows
  <2> QED
    BY <1>1, <2>3, Zenon DEF Persists
<1>2. IInv /\ [Next]_vars =>
        [\A a \in Assets : \A n \in DOMAIN jobs[a] :
           jobs[a][n].state \in Closed =>
             /\ jobs'[a][n].state = jobs[a][n].state
             /\ jobs'[a][n].result = jobs[a][n].result
             /\ jobs'[a][n].attempts = jobs[a][n].attempts]_vars
  BY <1>1, Zenon
<1> QED
  BY <1>2, SpecIInv, PTL DEF Spec, ClosedJobFinal

-----------------------------------------------------------------------------
(* A worker whose heartbeat is alive keeps its lease *)

\* What the lease of a beating worker has left when its beat is due covers the
\* longest wait of the renewal for the write lock.
Leased(w) ==
  \/ HeldJob(w).state \in Closed
  \/ /\ HeldJob(w).state = "running" /\ HeldJob(w).token = held[w].token
     /\ beat[w] + LockWait < HeldJob(w).lease

Alive(w) == pc[w] = "work" /\ beat[w] # Stopped

ClocksOK ==
  \A w \in Workers :
    /\ pc[w] = "claim" => age[w] <= LockWait
    /\ pc[w] = "work" => beat[w] \in Expired .. Stopped

LeasesOK == ClocksOK /\ \A w \in Workers : Alive(w) => Leased(w)

\* The job a worker held, after a step that does not renew its lease.
JobAfter(w) == jobs'[held[w].asset][held[w].n]
LeftAlone(w) == JobAfter(w) = HeldJob(w) \/ JobAfter(w).state \in Closed

LEMMA HeldPlace ==
  ASSUME IInv, NEW w \in Workers, pc[w] = "work"
  PROVE  /\ held[w] \in Claimed /\ held[w].asset \in Assets
         /\ jobs[held[w].asset] \in Seq(Job)
         /\ held[w].n \in 1 .. Len(jobs[held[w].asset])
         /\ HeldJob(w) = jobs[held[w].asset][held[w].n]
         /\ JobOK(HeldJob(w)) /\ HeldJob(w).lease \in Int
<1>1. Holding(w)
  BY DEF IInv, ClaimsOK
<1>2. JobOK(HeldJob(w))
  BY <1>1 DEF IInv, JobsOK, Holding, Claimed, HeldJob
<1>3. /\ held[w] \in Claimed /\ held[w].asset \in Assets
      /\ held[w].n \in 1 .. Len(jobs[held[w].asset])
  BY <1>1 DEF Holding, Claimed
<1>4. jobs[held[w].asset] \in Seq(Job)
  BY <1>3 DEF IInv, JobsOK
<1>5. HeldJob(w).lease \in Int
  BY <1>2 DEF JobOK, Job
<1> QED
  BY <1>2, <1>3, <1>4, <1>5 DEF HeldJob

LEMMA LeasedSpan ==
  ASSUME IInv, LeasesOK, NEW w \in Workers, Alive(w), HeldJob(w).state \notin Closed
  PROVE  /\ HeldJob(w).state = "running" /\ HeldJob(w).run = "processing"
         /\ HeldJob(w).token = held[w].token
         /\ beat[w] \in Int /\ HeldJob(w).lease \in Int
         /\ beat[w] + LockWait < HeldJob(w).lease
         /\ 0 < HeldJob(w).lease
<1>1. /\ JobOK(HeldJob(w)) /\ HeldJob(w).lease \in Int
      /\ beat[w] \in Expired .. Stopped
  BY HeldPlace DEF LeasesOK, ClocksOK, Alive
<1>2. /\ HeldJob(w).state = "running" /\ HeldJob(w).token = held[w].token
      /\ beat[w] + LockWait < HeldJob(w).lease
  BY DEF LeasesOK, Leased
<1> QED
  BY <1>1, <1>2, TimingAssumption DEF JobOK, Agrees, Expired, Stopped

\* The write of another worker that passes the fence is to another job.
LEMMA FenceOfOthers ==
  ASSUME IInv, LeasesOK, NEW v \in Workers, NEW w \in Workers, v # w, Alive(v),
         HeldJob(v).state \notin Closed, pc[w] = "work", Holds(w), NEW new,
         SetHeldJob(w, new)
  PROVE  JobAfter(v) = HeldJob(v)
<1>1. held[v] # held[w]
  BY DEF IInv, ClaimsOK, Alive
<1>2. held[v].asset # held[w].asset \/ held[v].n # held[w].n
  <2> SUFFICES ASSUME held[v].asset = held[w].asset, held[v].n = held[w].n PROVE FALSE
    BY Zenon
  <2>1. held[v].token = held[w].token
    <3>1. HeldJob(v).token = held[v].token
      BY LeasedSpan
    <3>2. HeldJob(w).token = held[w].token
      BY DEF Holds
    <3>3. HeldJob(v) = HeldJob(w)
      BY DEF HeldJob
    <3> QED
      BY <3>1, <3>2, <3>3
  <2>2. held[v] \in Claimed /\ held[w] \in Claimed
    BY HeldPlace DEF Alive
  <2> QED
    BY <1>1, <2>1, <2>2 DEF Claimed
<1>3. /\ held[v].asset \in Assets /\ held[w].asset \in Assets
      /\ held[v].n \in DOMAIN jobs[held[v].asset]
  BY HeldPlace DEF Alive
<1>4. jobs \in [Assets -> Seq(Job)]
  BY DEF IInv, JobsOK
<1> QED
  BY <1>2, <1>3, <1>4 DEF SetHeldJob, JobAfter, HeldJob

\* A claim takes no job whose lease is not over.
LEMMA ClaimOfOthers ==
  ASSUME IInv, LeasesOK, NEW v \in Workers, NEW w \in Workers, Alive(v),
         HeldJob(v).state \notin Closed, NEW G \in SUBSET Eligible(w),
         jobs' = AfterClaim(w, G)
  PROVE  JobAfter(v) = HeldJob(v)
<1> DEFINE e == <<held[v].asset, held[v].n>>
<1>1. /\ held[v].asset \in Assets /\ held[v].n \in DOMAIN jobs[held[v].asset]
      /\ JobAt(e) = HeldJob(v)
  BY HeldPlace DEF Alive, JobAt
<1>2. ~LeaseOver(JobAt(e), w) /\ JobAt(e).state # "queued"
  <2>1. age[w] \in Nat
    BY DEF IInv, WorkersTyped
  <2> QED
    BY <1>1, <2>1, LeasedSpan DEF LeaseOver
<1>3. e \notin Exhausted(w) /\ e \notin G
  BY <1>2 DEF Exhausted, Eligible
<1> QED
  BY <1>1, <1>3 DEF AfterClaim, JobAfter, HeldJob

LEMMA ScheduleLeavesAlone ==
  ASSUME IInv, ScheduleStep, NEW v \in Workers, Alive(v)
  PROVE  LeftAlone(v)
<1>1. held[v].asset \in Assets /\ held[v].n \in 1 .. Len(jobs[held[v].asset])
  BY HeldPlace DEF Alive
<1> QED
  BY <1>1 DEF ScheduleStep, Rescheduled, Out, LeftAlone, JobAfter, HeldJob

\* Every step of another worker or of the API leaves the job of a beating worker
\* as it is, or ends it.
LEMMA OthersLeaveAlone ==
  ASSUME IInv, LeasesOK, NEW v \in Workers, Alive(v), Alive(v)', [Next]_vars, ~Tick,
         ~Renew(v)
  PROVE  LeftAlone(v)
<1>1. CASE HeldJob(v).state \in Closed
  <2>1. Grows
    BY NextIsClassified, StepsGrow DEF IInv, Classified
  <2>2. pc[v] = "work"
    BY DEF Alive
  <2> QED
    BY <1>1, <2>1, <2>2, HeldPlace DEF Grows, Persists, LeftAlone, JobAfter
<1>2. CASE HeldJob(v).state \notin Closed
  <2>1. CASE UNCHANGED jobs
    BY <2>1 DEF LeftAlone, JobAfter, HeldJob
  <2>2. ASSUME NEW a \in Assets, Supersede(a) PROVE LeftAlone(v)
    BY <2>2, ScheduleIsStep, ScheduleLeavesAlone DEF Supersede, IInv
  <2>3. ASSUME NEW a \in Assets, Scope(a) PROVE LeftAlone(v)
    <3>1. /\ held[v].asset \in Assets /\ held[v].n \in DOMAIN jobs[held[v].asset]
          /\ HeldJob(v).run = "processing"
      BY <1>2, HeldPlace, LeasedSpan DEF Alive
    <3>2. jobs \in [Assets -> Seq(Job)]
      BY DEF IInv, JobsOK
    <3> QED
      BY <2>3, <3>1, <3>2 DEF Scope, LeftAlone, JobAfter, HeldJob
  <2>4. ASSUME NEW w \in Workers, RefreshStale(w) PROVE LeftAlone(v)
    BY <2>4, ScheduleIsStep, ScheduleLeavesAlone DEF RefreshStale, IInv, WorkersTyped
  <2>5. ASSUME NEW w \in Workers, Claim(w) PROVE LeftAlone(v)
    <3>1. \E G \in SUBSET Eligible(w) : jobs' = AfterClaim(w, G)
      BY <2>5 DEF Claim, ClaimNothing, ClaimOldest, Oldest
    <3> QED
      BY <1>2, <3>1, ClaimOfOthers DEF LeftAlone
  <2>6. ASSUME NEW w \in Workers, Renew(w) PROVE LeftAlone(v)
    <3>1. w # v /\ pc[w] = "work" /\ (UNCHANGED jobs \/ Holds(w))
      BY <2>6 DEF Renew
    <3> QED
      BY <1>2, <2>1, <2>6, <3>1, FenceOfOthers DEF Renew, LeftAlone
  <2>7. ASSUME NEW w \in Workers, Finish(w) PROVE LeftAlone(v)
    <3>1. w # v /\ pc[w] = "work"
      BY <2>7 DEF Finish, FinishFenced, FinishDiscard, FinishRetry, FinishResult, Forget,
                  Goto, Alive, IInv, WorkersTyped
    <3>2. UNCHANGED jobs \/ (Holds(w) /\ \E new : SetHeldJob(w, new))
      BY <2>7 DEF Finish, FinishFenced, FinishDiscard, FinishRetry, FinishResult
    <3> QED
      BY <1>2, <2>1, <3>1, <3>2, FenceOfOthers DEF LeftAlone
  <2> QED
    BY <2>1, <2>2, <2>3, <2>4, <2>5, <2>6, <2>7
       DEF Next, vars, Lapse, ReadStamp, HeartbeatDies, Crash
<1> QED
  BY <1>1, <1>2

\* A worker beats on after a step that is not its claim, its renewal or a tick
\* only with the claim and the beat it had.
LEMMA BeatsOn ==
  ASSUME IInv, NEW v \in Workers, [Next]_vars, ~Tick, ~Renew(v), ~ClaimOldest(v), Alive(v)'
  PROVE  Alive(v) /\ held'[v] = held[v] /\ beat'[v] = beat[v]
<1>1. CASE UNCHANGED <<pc, held, beat>>
  BY <1>1 DEF Alive, Stopped
<1>2. ASSUME NEW w \in Workers, Forget(w)
      PROVE  Alive(v) /\ held'[v] = held[v] /\ beat'[v] = beat[v]
  BY <1>2 DEF Forget, Goto, Alive, IInv, WorkersTyped, Stopped
<1>3. ASSUME NEW w \in Workers, RefreshStale(w) \/ ReadStamp(w)
      PROVE  Alive(v) /\ held'[v] = held[v] /\ beat'[v] = beat[v]
  BY <1>3 DEF RefreshStale, ReadStamp, Goto, Alive, IInv, WorkersTyped, Stopped
<1>4. ASSUME NEW w \in Workers, ClaimOldest(w), w # v
      PROVE  Alive(v) /\ held'[v] = held[v] /\ beat'[v] = beat[v]
  BY <1>4 DEF ClaimOldest, Goto, Alive, IInv, WorkersTyped, Stopped
<1>5. ASSUME NEW w \in Workers, Renew(w) \/ HeartbeatDies(w), ~Renew(v)
      PROVE  Alive(v) /\ held'[v] = held[v] /\ beat'[v] = beat[v]
  BY <1>5 DEF Renew, HeartbeatDies, Alive, IInv, WorkersTyped, Stopped
<1>6. ASSUME NEW w \in Workers, Claim(w) \/ Finish(w) \/ Crash(w), ~ClaimOldest(w)
      PROVE  Forget(w)
  BY <1>6 DEF Claim, ClaimNothing, Finish, FinishFenced, FinishDiscard, FinishRetry,
              FinishResult, Crash
<1>7. ASSUME NEW a \in Assets, Supersede(a) \/ Scope(a) \/ Lapse(a)
      PROVE  UNCHANGED <<pc, held, beat>>
  BY <1>7 DEF Supersede, Scope, Lapse, workerVars
<1> QED
  BY <1>1, <1>2, <1>3, <1>4, <1>5, <1>6, <1>7 DEF Next, vars, Claim

LEMMA ClocksRun ==
  ASSUME IInv, ClocksOK, [Next]_vars
  PROVE  ClocksOK'
<1> USE DEF ClocksOK
<1>1. Expired \in Int /\ Stopped \in Int /\ Beat \in Expired .. Stopped
      /\ Stopped \in Expired .. Stopped /\ 0 <= LockWait /\ Expired' = Expired
      /\ Stopped' = Stopped
  BY TimingAssumption DEF Expired, Stopped
<1>2. CASE UNCHANGED <<pc, age, beat>>
  BY <1>1, <1>2
<1>3. ASSUME NEW w \in Workers, Forget(w) PROVE ClocksOK'
  BY <1>1, <1>3 DEF Forget, Goto, IInv, WorkersTyped
<1>4. ASSUME NEW w \in Workers, RefreshStale(w) \/ ReadStamp(w) PROVE ClocksOK'
  BY <1>1, <1>4 DEF RefreshStale, ReadStamp, Goto, IInv, WorkersTyped
<1>5. ASSUME NEW w \in Workers, ClaimOldest(w) PROVE ClocksOK'
  BY <1>1, <1>5 DEF ClaimOldest, Goto, IInv, WorkersTyped
<1>6. ASSUME NEW w \in Workers, Renew(w) \/ HeartbeatDies(w) PROVE ClocksOK'
  BY <1>1, <1>6 DEF Renew, HeartbeatDies, IInv, WorkersTyped
<1>7. CASE Tick
  <2> SUFFICES ASSUME NEW w \in Workers
               PROVE  /\ pc'[w] = "claim" => age'[w] <= LockWait
                      /\ pc'[w] = "work" => beat'[w] \in Expired .. Stopped
    BY <1>1
  <2>1. /\ pc' = pc /\ age[w] \in Nat /\ beat[w] \in Int
        /\ pc[w] = "claim" => age[w] < LockWait /\ age'[w] = age[w] + 1
        /\ pc[w] = "work" => beat[w] > Expired /\ beat'[w] \in {beat[w] - 1, beat[w]}
    BY <1>7 DEF Tick, IInv, WorkersTyped
  <2> QED
    BY <1>1, <2>1, TimingAssumption
<1>8. ASSUME NEW w \in Workers, Claim(w) \/ Finish(w) \/ Crash(w), ~ClaimOldest(w)
      PROVE  Forget(w)
  BY <1>8 DEF Claim, ClaimNothing, Finish, FinishFenced, FinishDiscard, FinishRetry,
              FinishResult, Crash
<1>9. ASSUME NEW a \in Assets, Supersede(a) \/ Scope(a) \/ Lapse(a)
      PROVE  UNCHANGED <<pc, age, beat>>
  BY <1>9 DEF Supersede, Scope, Lapse, workerVars
<1> QED
  BY <1>2, <1>3, <1>4, <1>5, <1>6, <1>7, <1>8, <1>9 DEF Next, vars

\* The clock takes as much from the lease as from the time to the next beat.
LEMMA TickLeases ==
  ASSUME IInv, LeasesOK, Tick, NEW v \in Workers, Alive(v)'
  PROVE  Leased(v)'
<1>1. Alive(v) /\ held' = held /\ beat'[v] = beat[v] - 1
  <2>1. /\ held' = held /\ pc' = pc
        /\ beat'[v] = IF pc[v] = "work" /\ beat[v] # Stopped THEN beat[v] - 1 ELSE beat[v]
    BY DEF Tick
  <2>2. pc[v] = "work" /\ beat'[v] # Stopped
    BY <2>1 DEF Alive, Stopped
  <2>3. beat[v] # Stopped
    BY <2>1, <2>2
  <2> QED
    BY <2>1, <2>2, <2>3 DEF Alive
<1>2. /\ held[v].asset \in Assets /\ held[v].n \in DOMAIN jobs[held[v].asset]
      /\ HeldJob(v) \in Job
  BY <1>1, HeldPlace DEF Alive, JobOK
<1>3. /\ HeldJob(v)' = JobAfter(v)
      /\ HeldJob(v).state = "running" => JobAfter(v) = [HeldJob(v) EXCEPT !.lease = Less(@)]
      /\ HeldJob(v).state \in Closed => JobAfter(v) = HeldJob(v)
  <2>1. HeldJob(v)' = JobAfter(v)
    BY <1>1, Zenon DEF JobAfter, HeldJob
  <2> DEFINE k == held[v].asset
             n == held[v].n
             job == jobs[k][n]
  <2>2. jobs'[k][n] =
          IF job.state = "running" THEN [job EXCEPT !.lease = Less(@)]
          ELSE IF job.state = "queued" THEN [job EXCEPT !.avail = Less(@)]
          ELSE job
    BY <1>2, Zenon DEF Tick
  <2>3. job = HeldJob(v) /\ jobs'[k][n] = JobAfter(v)
    BY Zenon DEF JobAfter, HeldJob
  <2>4. job \in Job
    BY <1>2, <2>3
  <2> HIDE DEF k, n, job
  <2> QED
    BY <2>1, <2>2, <2>3, <2>4 DEF Closed, Job
<1>4. CASE HeldJob(v).state \in Closed
  BY <1>3, <1>4 DEF Leased
<1>5. CASE HeldJob(v).state \notin Closed
  <2>1. /\ HeldJob(v).state = "running" /\ HeldJob(v).token = held[v].token
        /\ beat[v] \in Int /\ HeldJob(v).lease \in Int
        /\ beat[v] + LockWait < HeldJob(v).lease /\ 0 < HeldJob(v).lease
    BY <1>1, <1>5, LeasedSpan
  <2>2. Less(HeldJob(v).lease) = HeldJob(v).lease - 1
    BY <2>1, TimingAssumption DEF Less, Expired
  <2>3. /\ JobAfter(v).state = "running" /\ JobAfter(v).token = held[v].token
        /\ JobAfter(v).lease = HeldJob(v).lease - 1
    BY <1>2, <1>3, <2>1, <2>2 DEF Job
  <2>4. beat'[v] + LockWait < JobAfter(v).lease
    BY <1>1, <2>1, <2>3, TimingAssumption
  <2> QED
    BY <1>1, <1>3, <2>3, <2>4 DEF Leased
<1> QED
  BY <1>4, <1>5

LEMMA RenewLeases ==
  ASSUME LockWait + Beat + LockWait < Lease, IInv, LeasesOK, NEW v \in Workers,
         Renew(v), Alive(v)'
  PROVE  Leased(v)'
<1>1. /\ pc[v] = "work" /\ Holds(v) /\ held' = held /\ beat'[v] = Beat
      /\ SetHeldJob(v, [HeldJob(v) EXCEPT !.lease = Lease])
  BY DEF Renew, Alive, IInv, WorkersTyped, Stopped
<1>2. /\ held[v].asset \in Assets /\ held[v].n \in DOMAIN jobs[held[v].asset]
      /\ jobs \in [Assets -> Seq(Job)] /\ HeldJob(v) \in Job
  BY <1>1, HeldPlace DEF JobOK, IInv, JobsOK
<1>3. HeldJob(v)' = [HeldJob(v) EXCEPT !.lease = Lease]
  BY <1>1, <1>2 DEF SetHeldJob, HeldJob
<1>4. HeldJob(v)'.state = "running" /\ HeldJob(v)'.token = held[v].token
      /\ HeldJob(v)'.lease = Lease
  BY <1>1, <1>2, <1>3 DEF Holds, Job
<1>5. Beat + LockWait < Lease
  BY TimingAssumption
<1> QED
  BY <1>1, <1>4, <1>5 DEF Leased

LEMMA ClaimLeases ==
  ASSUME LockWait + Beat + LockWait < Lease, IInv, ClocksOK, NEW v \in Workers, ClaimOldest(v)
  PROVE  Leased(v)'
<1>1. PICK e \in Oldest(v) :
        /\ jobs' = AfterClaim(v, {e})
        /\ held' = [held EXCEPT ![v] =
             [asset |-> e[1], n |-> e[2], token |-> JobAt(e).attempts + 1]]
  BY DEF ClaimOldest
<1> DEFINE a == e[1]
           n == e[2]
           job == jobs[a][n]
<1>2. /\ a \in Assets /\ n \in DOMAIN jobs[a] /\ e = <<a, n>>
      /\ job.attempts < limit[v] /\ limit[v] \in Limits /\ job = JobAt(e)
  BY DEF Oldest, Eligible, Entries, JobAt, IInv, WorkersTyped
<1>3. JobOK(job) /\ job \in Job /\ job.attempts \in Nat
  <2>1. JobOK(job)
    <3> HIDE DEF a, n
    <3> QED
      BY <1>2 DEF IInv, JobsOK
  <2>2. job \in Job
    BY <2>1 DEF JobOK
  <2> QED
    BY <2>1, <2>2, AttemptsNat
<1>4. e \notin Exhausted(v)
  BY <1>2, <1>3, LimitsAreCounts DEF Exhausted, JobAt
<1>5. jobs'[a][n] = Granted(job, v)
  BY <1>1, <1>2, <1>4 DEF AfterClaim
<1>6. /\ held'[v] = [asset |-> a, n |-> n, token |-> job.attempts + 1]
      /\ beat'[v] = Beat /\ age[v] \in Nat /\ age[v] <= LockWait
  BY <1>1, <1>2 DEF ClaimOldest, IInv, WorkersTyped, ClocksOK
<1>7. HeldJob(v)' = Granted(job, v)
  BY <1>5, <1>6 DEF HeldJob
<1> HIDE DEF job
<1>8. /\ Granted(job, v).state = "running" /\ Granted(job, v).token = job.attempts + 1
      /\ Granted(job, v).lease = Lease - age[v]
  BY <1>3 DEF Granted, Job
<1>9. Beat + LockWait < Lease - age[v]
  BY <1>6, TimingAssumption
<1> QED
  BY <1>6, <1>7, <1>8, <1>9 DEF Leased

LEMMA NextLeases ==
  ASSUME LockWait + Beat + LockWait < Lease, IInv, LeasesOK, [Next]_vars
  PROVE  LeasesOK'
<1>1. ClocksOK'
  BY ClocksRun DEF LeasesOK
<1>2. ASSUME NEW v \in Workers, Alive(v)'
      PROVE  Leased(v)'
  <2>1. CASE Tick
    BY <1>2, <2>1, TickLeases
  <2>2. CASE Renew(v)
    BY <1>2, <2>2, RenewLeases
  <2>3. CASE ClaimOldest(v)
    BY <2>3, ClaimLeases DEF LeasesOK
  <2>4. CASE ~Tick /\ ~Renew(v) /\ ~ClaimOldest(v)
    <3>1. Alive(v) /\ held'[v] = held[v] /\ beat'[v] = beat[v]
      BY <1>2, <2>4, BeatsOn
    <3>2. Leased(v) /\ LeftAlone(v)
      BY <1>2, <2>4, <3>1, OthersLeaveAlone DEF LeasesOK, Alive
    <3>3. HeldJob(v)' = JobAfter(v)
      BY <3>1 DEF HeldJob, JobAfter
    <3> QED
      BY <3>1, <3>2, <3>3 DEF Leased, LeftAlone
  <2> QED
    BY <2>1, <2>2, <2>3, <2>4
<1> QED
  BY <1>1, <1>2 DEF LeasesOK

\* A worker whose heartbeat is alive holds its lease for as long as its job is
\* not taken back by a schedule (worker.py 67-84, 126-152), when a lease outlasts
\* a late grant, a beat and a late renewal.
THEOREM BeatingWorkerHolds ==
  ASSUME LockWait + Beat + LockWait < Lease
  PROVE  Spec => []HeartbeatKeepsLease
<1>1. Init => LeasesOK
  BY DEF Init, LeasesOK, ClocksOK, Alive
<1>2. IInv /\ LeasesOK /\ [Next]_vars => LeasesOK'
  BY NextLeases
<1>3. ASSUME IInv, LeasesOK, NEW w \in Workers, Alive(w), HeldJob(w).state = "running"
      PROVE  Holds(w)
  BY <1>3, LeasedSpan DEF Holds, Closed
<1>4. IInv /\ LeasesOK => HeartbeatKeepsLease
  BY <1>3 DEF HeartbeatKeepsLease, Alive
<1> QED
  BY <1>1, <1>2, <1>4, SpecIInv, PTL DEF Spec

-----------------------------------------------------------------------------
(* The queue implements RunLifecycle *)

RunsOf(q) == [a \in Assets |-> [n \in DOMAIN q[a] |-> q[a][n].run]]

LEMMA RunStatesOf ==
  ASSUME NEW q \in [Assets -> Seq(Job)], NEW a \in Assets
  PROVE  /\ RunsOf(q)[a] \in Seq(RunStates)
         /\ Len(RunsOf(q)[a]) = Len(q[a]) /\ Len(q[a]) \in Nat
         /\ \A n \in 1 .. Len(q[a]) : RunsOf(q)[a][n] = q[a][n].run
<1>1. DOMAIN q[a] = 1 .. Len(q[a]) /\ Len(q[a]) \in Nat
  OBVIOUS
<1>2. \A n \in 1 .. Len(q[a]) : q[a][n].run \in RunStates
  <2>1. q[a] \in Seq(Job)
    OBVIOUS
  <2>2. \A n \in 1 .. Len(q[a]) : q[a][n] \in Job
    BY <2>1
  <2> QED
    BY <2>2 DEF Job
<1>3. RunsOf(q)[a] = [n \in 1 .. Len(q[a]) |-> q[a][n].run]
  BY <1>1 DEF RunsOf
<1>4. RunsOf(q)[a] \in [1 .. Len(q[a]) -> RunStates]
  BY <1>2, <1>3
<1> QED
  BY <1>1, <1>3, <1>4, FunctionIsSeq

LEMMA RewriteRefines ==
  ASSUME JobsOK, RewriteStep, NEW a \in Assets
  PROVE  Lifecycle!Unchanged(a) \/ Lifecycle!Progress(a)
<1> DEFINE s == RunsOf(jobs)[a]
           t == RunsOf(jobs')[a]
           k == Len(jobs[a])
<1>1. /\ s \in Seq(RunStates) /\ Len(s) = k /\ k \in Nat
      /\ \A n \in 1 .. k : s[n] = jobs[a][n].run
  BY RunStatesOf DEF JobsOK
<1>2. /\ t \in Seq(RunStates) /\ Len(t) = k
      /\ \A n \in 1 .. k : t[n] = jobs'[a][n].run
  BY RunStatesOf DEF RewriteStep
<1>3. \A n \in 1 .. k :
        /\ MayMove(s[n], t[n])
        /\ n # k => t[n] = s[n]
  <2> SUFFICES ASSUME NEW n \in 1 .. k
               PROVE  MayMove(s[n], t[n]) /\ (n # k => t[n] = s[n])
    OBVIOUS
  <2>1. Keeps(jobs[a][n], jobs'[a][n])
    BY DEF RewriteStep
  <2>2. n # k => Out(jobs[a][n])
    BY DEF JobsOK
  <2>3. s[n] = jobs[a][n].run /\ t[n] = jobs'[a][n].run
    BY <1>1, <1>2
  <2> HIDE DEF s, t, k
  <2> QED
    BY <2>1, <2>2, <2>3 DEF Keeps, Out
<1>4. /\ Lifecycle!Unchanged(a) <=> t = s
      /\ Lifecycle!Progress(a) <=>
           /\ Len(t) = Len(s) /\ Len(s) > 0
           /\ \A n \in 1 .. Len(s) - 1 : t[n] = s[n]
           /\ <<s[Len(s)], t[Len(s)]>> \in Lifecycle!Moves
  BY DEF Lifecycle!Unchanged, Lifecycle!Progress, Lifecycle!OlderRunsStay, RunsOf
<1> HIDE DEF s, t, k
<1>5. CASE k = 0 \/ t[k] = s[k]
  <2>1. \A n \in 1 .. k : t[n] = s[n]
    BY <1>1, <1>3, <1>5
  <2>2. t = s
    BY <1>1, <1>2, <2>1
  <2> QED
    BY <1>4, <2>2
<1>6. CASE k # 0 /\ t[k] # s[k]
  <2>1. k > 0 /\ k \in 1 .. k /\ <<s[k], t[k]>> \in Lifecycle!Moves
    BY <1>1, <1>3, <1>6 DEF MayMove
  <2>2. \A n \in 1 .. k - 1 : t[n] = s[n]
    BY <1>1, <1>3
  <2> QED
    BY <1>1, <1>2, <1>4, <2>1, <2>2
<1> QED
  BY <1>5, <1>6

LEMMA ScheduleRefines ==
  ASSUME JobsOK, ScheduleStep, NEW a \in Assets
  PROVE  Lifecycle!Unchanged(a) \/ Lifecycle!Supersede(a)
<1> DEFINE s == RunsOf(jobs)[a]
           t == RunsOf(jobs')[a]
           k == Len(jobs[a])
<1>1. /\ s \in Seq(RunStates) /\ Len(s) = k /\ k \in Nat
      /\ \A n \in 1 .. k : s[n] = jobs[a][n].run
  BY RunStatesOf DEF JobsOK
<1>2. /\ Len(t) = Len(jobs'[a])
      /\ \A n \in 1 .. Len(jobs'[a]) : t[n] = jobs'[a][n].run
  BY RunStatesOf DEF ScheduleStep
<1>3. /\ Lifecycle!Unchanged(a) <=> t = s
      /\ Lifecycle!Supersede(a) <=>
           /\ Len(t) = Len(s) + 1
           /\ \A n \in 1 .. Len(s) - 1 : t[n] = s[n]
           /\ Len(s) > 0 => t[Len(s)] = "stale"
           /\ t[Len(s) + 1] = "awaiting_scope"
  BY DEF Lifecycle!Unchanged, Lifecycle!Supersede, Lifecycle!OlderRunsStay, RunsOf
<1>4. CASE jobs'[a] = jobs[a]
  <2>1. t = s
    BY <1>4 DEF RunsOf
  <2> QED
    BY <1>3, <2>1
<1>5. CASE Rescheduled(a)
  <2>1. Len(jobs'[a]) = k + 1 /\ jobs'[a][k + 1].run = "awaiting_scope"
    BY <1>5 DEF Rescheduled
  <2>2. \A n \in 1 .. k : jobs'[a][n].run = "stale"
    BY <1>5 DEF Rescheduled, Out
  <2>3. \A n \in 1 .. k : n # k => jobs[a][n].run = "stale"
    BY DEF JobsOK, Out
  <2> HIDE DEF s, t, k
  <2> QED
    BY <1>1, <1>2, <1>3, <2>1, <2>2, <2>3
<1> QED
  BY <1>4, <1>5 DEF ScheduleStep

\* The queue moves runs only as RunLifecycle allows, whatever the workers do,
\* in whatever order, with whatever crashes and clocks.
THEOREM QueueImplementsLifecycle == Spec => ImplementsLifecycle
<1>1. Init => Lifecycle!Init
  BY DEF Init, Lifecycle!Init
<1>2. ASSUME IInv, [Next]_vars
      PROVE  Lifecycle!Next
  <2>1. Classified /\ JobsOK
    BY <1>2, NextIsClassified DEF IInv
  <2>2. RunsOf(jobs') \in [Assets -> Seq(Lifecycle!RunStates)]
    <3>1. jobs' \in [Assets -> Seq(Job)]
      BY <2>1 DEF Classified, RewriteStep, ScheduleStep
    <3>2. \A a \in Assets : RunsOf(jobs')[a] \in Seq(RunStates)
      BY <3>1, RunStatesOf
    <3> QED
      BY <3>2 DEF RunsOf, RunStates, Lifecycle!RunStates
  <2>3. \/ \A a \in Assets : Lifecycle!Unchanged(a) \/ Lifecycle!Progress(a)
        \/ \A a \in Assets : Lifecycle!Unchanged(a) \/ Lifecycle!Supersede(a)
    BY <2>1, RewriteRefines, ScheduleRefines DEF Classified
  <2> QED
    BY <2>2, <2>3 DEF Lifecycle!Next, RunsOf
<1>3. IInv /\ [Next]_vars =>
        [Lifecycle!Next]_([a \in Assets |-> [n \in DOMAIN jobs[a] |-> jobs[a][n].run]])
  BY <1>2
<1> QED
  BY <1>1, <1>3, SpecIInv, PTL DEF Spec, ImplementsLifecycle, Lifecycle!Spec
=============================================================================
