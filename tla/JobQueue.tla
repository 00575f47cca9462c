------------------------------ MODULE JobQueue ------------------------------
(***************************************************************************)
(* How worker processes share the durable jobs of assessment runs          *)
(* (assurance/worker.py and the jobs table): claims with a lease and a     *)
(* token, a heartbeat thread that renews the lease, retries with a delay,  *)
(* crashes, and completions fenced by token, lease and freshness.          *)
(*                                                                         *)
(* One turn of a worker is several transactions: refresh_stale, claim,     *)
(* renewals, finish.  What a worker keeps between them, the time it read   *)
(* before it waited for the write lock, its copy of the job, its result,   *)
(* can be out of date at the next.                                         *)
(*                                                                         *)
(* Time is discrete and relative: a lease or a delay is what is left of it *)
(* now, down to -LockWait, below which nothing can tell values apart.      *)
(* Every claim increments attempts, so the attempt stands for the random   *)
(* lease token; 0 is NULL.                                                 *)
(***************************************************************************)
EXTENDS Integers, Sequences, FiniteSets

CONSTANTS
  Assets, Workers,
  Limits,        \* what CAS_JOB_ATTEMPTS is set to, one value or several in turn
  MaxAttempts,   \* the largest of them
  Lease,         \* CAS_JOB_LEASE
  Beat,          \* the heartbeat period, a third of the lease
  LockWait,      \* how long SQLite waits for the write lock (busy_timeout)
  MaxDelay,      \* the longest delay of a retry
  MaxRuns        \* bound: runs of an asset

ASSUME TimingAssumption ==
  /\ MaxAttempts \in Limits /\ Limits \subseteq 1 .. MaxAttempts
  /\ Lease \in Nat \ {0} /\ Beat \in Nat \ {0} /\ LockWait \in Nat
  /\ MaxDelay \in Nat

ASSUME BoundAssumption == IsFiniteSet(Assets) /\ MaxRuns \in Nat

VARIABLES
  jobs,     \* for each asset its runs, each with its one job
  current,  \* assets.current_run_id
  lapsed,   \* assets whose current run lost freshness by itself: a source
            \* expired or the evaluator was changed, and nothing was scheduled
  pc,       \* what each worker does next
  age,      \* how long ago a worker about to claim read its stamp
  held,     \* the worker's copy of the job it claimed
  limit,    \* the number of attempts a worker's process was started with
  beat      \* time to the next renewal of its heartbeat thread, or Stopped

vars == <<jobs, current, lapsed, pc, age, held, limit, beat>>
workerVars == <<pc, age, held, limit, beat>>

RunStates ==
  {"awaiting_scope", "queued", "processing", "completed", "failed", "stale"}
JobStates == {"queued", "running", "done", "failed", "cancelled"}
Closed == {"done", "failed", "cancelled"}
Stopped == Beat + 1
Nothing == [asset |-> "none", n |-> 0, token |-> 0]

Expired == -LockWait
Less(t) == IF t > Expired THEN t - 1 ELSE t
Smaller(x, y) == IF x < y THEN x ELSE y

-----------------------------------------------------------------------------
(* The database *)

NewJob(born) ==
  [run |-> "awaiting_scope", state |-> "queued", attempts |-> 0,
   avail |-> Expired, token |-> 0, lease |-> Expired, result |-> 0,
   born |-> born]

\* Mutant: the job of the superseded run is left as it was.
Retired_RunOnly(a) ==
  IF current[a] = 0 THEN jobs[a]
  ELSE [jobs[a] EXCEPT ![current[a]].run = "stale"]

\* Mutant: ended jobs are cancelled too.
Retired_CancelsAll(a) ==
  IF current[a] = 0 THEN jobs[a]
  ELSE [jobs[a] EXCEPT ![current[a]] =
         [@ EXCEPT !.run = "stale", !.state = "cancelled", !.token = 0,
                   !.lease = Expired]]

\* schedule(): the current run turns stale and its job, unless it ended, is
\* cancelled.  A lease_until set to NULL is a lease that is over.
Cancelled(job) ==
  IF job.state \in {"done", "failed"} THEN job
  ELSE [job EXCEPT !.state = "cancelled", !.token = 0, !.lease = Expired]

Retired(a) ==
  IF current[a] = 0 THEN jobs[a]
  ELSE [jobs[a] EXCEPT ![current[a]] = [Cancelled(@) EXCEPT !.run = "stale"]]

Entries == {e \in Assets \X (1 .. MaxRuns) : e[2] \in DOMAIN jobs[e[1]]}
JobAt(e) == jobs[e[1]][e[2]]

\* created_at, as a rank: later transactions give later ranks.
NextBirth == Cardinality(Entries) + 1

Schedule(S) ==
  /\ jobs' = [a \in Assets |->
       IF a \in S THEN Append(Retired(a), NewJob(NextBirth)) ELSE jobs[a]]
  /\ current' = [a \in Assets |->
       IF a \in S THEN Len(jobs[a]) + 1 ELSE current[a]]
  /\ lapsed' = lapsed \ S

Fresh(a, n) ==
  current[a] = n /\ jobs[a][n].run # "stale" /\ a \notin lapsed

-----------------------------------------------------------------------------
Init ==
  /\ jobs = [a \in Assets |-> <<>>]
  /\ current = [a \in Assets |-> 0]
  /\ lapsed = {}
  /\ pc = [w \in Workers |-> "refresh"]
  /\ age = [w \in Workers |-> 0]
  /\ held = [w \in Workers |-> Nothing]
  /\ limit \in [Workers -> Limits]
  /\ beat = [w \in Workers |-> Stopped]

(* The API processes *)

\* An edit, a reassessment or a governance change of what the asset uses.
Supersede(a) ==
  /\ Len(jobs[a]) < MaxRuns
  /\ Schedule({a})
  /\ UNCHANGED workerVars

\* Mutant: an executed plan can be approved again.
Scope_AnyState(a) ==
  /\ current[a] # 0 /\ Fresh(a, current[a])
  /\ jobs' = [jobs EXCEPT ![a][current[a]].run = "queued"]
  /\ UNCHANGED <<current, lapsed, workerVars>>

Scope(a) ==
  /\ current[a] # 0 /\ Fresh(a, current[a])
  /\ jobs[a][current[a]].run = "awaiting_scope"
  /\ jobs' = [jobs EXCEPT ![a][current[a]].run = "queued"]
  /\ UNCHANGED <<current, lapsed, workerVars>>

\* Bounded so that the refresh that answers it has a run left.
Lapse(a) ==
  /\ current[a] # 0 /\ a \notin lapsed
  /\ Len(jobs[a]) < MaxRuns
  /\ lapsed' = lapsed \cup {a}
  /\ UNCHANGED <<jobs, current, workerVars>>

(* A turn of a worker *)

Goto(w, label) == pc' = [pc EXCEPT ![w] = label]

Forget(w) ==
  /\ Goto(w, "refresh")
  /\ held' = [held EXCEPT ![w] = Nothing]
  /\ beat' = [beat EXCEPT ![w] = Stopped]
  /\ age' = [age EXCEPT ![w] = 0]

RefreshStale(w) ==
  /\ pc[w] = "refresh"
  /\ Schedule(lapsed)
  /\ Goto(w, "stamp")
  /\ UNCHANGED <<age, held, limit, beat>>

\* claim() reads the clock, then waits for the write lock.
ReadStamp(w) ==
  /\ pc[w] = "stamp"
  /\ Goto(w, "claim")
  /\ age' = [age EXCEPT ![w] = 0]
  /\ UNCHANGED <<jobs, current, lapsed, held, limit, beat>>

LeaseOver(job, w) ==
  job.state = "running" /\ job.run = "processing" /\ job.lease + age[w] <= 0

\* Mutant: gives up one attempt early.
Exhausted_Early(w) ==
  {e \in Entries : LeaseOver(JobAt(e), w) /\ JobAt(e).attempts >= limit[w] - 1}

\* Mutant: gives up one attempt late.
Exhausted_Late(w) ==
  {e \in Entries : LeaseOver(JobAt(e), w) /\ JobAt(e).attempts > limit[w]}

Exhausted(w) ==
  {e \in Entries : LeaseOver(JobAt(e), w) /\ JobAt(e).attempts >= limit[w]}

Eligible(w) ==
  {e \in Entries :
     LET job == JobAt(e)
     IN  /\ current[e[1]] = e[2]
         /\ \/ /\ job.state = "queued" /\ job.run = "queued"
               /\ job.avail + age[w] <= 0
            \/ LeaseOver(job, w)
         /\ job.attempts < limit[w]}

Oldest(w) ==
  {e \in Eligible(w) : \A f \in Eligible(w) : JobAt(e).born <= JobAt(f).born}

GivenUp(job) == [job EXCEPT !.run = "failed", !.state = "failed", !.token = 0]

\* A running job's available_at is not read, so it is set to what all past
\* times are.
Granted(job, w) ==
  [job EXCEPT !.run = "processing", !.state = "running",
              !.attempts = @ + 1, !.token = job.attempts + 1,
              !.lease = Lease - age[w], !.avail = Expired]

\* The jobs after claim() by w: the exhausted ones given up, those of G granted.
AfterClaim(w, G) ==
  [a \in Assets |-> [n \in DOMAIN jobs[a] |->
     IF <<a, n>> \in Exhausted(w) THEN GivenUp(jobs[a][n])
     ELSE IF <<a, n>> \in G THEN Granted(jobs[a][n], w)
     ELSE jobs[a][n]]]

ClaimNothing(w) ==
  /\ pc[w] = "claim"
  /\ Eligible(w) = {}
  /\ jobs' = AfterClaim(w, {})
  /\ Forget(w)
  /\ UNCHANGED <<current, lapsed, limit>>

ClaimOldest(w) ==
  /\ pc[w] = "claim"
  /\ \E e \in Oldest(w) :
       /\ jobs' = AfterClaim(w, {e})
       /\ held' = [held EXCEPT ![w] =
            [asset |-> e[1], n |-> e[2], token |-> JobAt(e).attempts + 1]]
  /\ Goto(w, "work")
  /\ beat' = [beat EXCEPT ![w] = Beat]
  /\ age' = [age EXCEPT ![w] = 0]
  /\ UNCHANGED <<current, lapsed, limit>>

HeldJob(w) == jobs[held[w].asset][held[w].n]

\* Mutant: the lease token is not compared.
Holds_NoToken(w) == HeldJob(w).state = "running" /\ HeldJob(w).lease > 0

\* The fence of renew() and of finish().
Holds(w) ==
  /\ HeldJob(w).state = "running"
  /\ HeldJob(w).token = held[w].token
  /\ HeldJob(w).lease > 0

SetHeldJob(w, job) ==
  jobs' = [jobs EXCEPT ![held[w].asset][held[w].n] = job]

\* Mutant: a renewal only buys the time to the next beat.
Renew_OneBeat(w) ==
  /\ pc[w] = "work" /\ beat[w] <= 0
  /\ IF Holds(w)
     THEN /\ SetHeldJob(w, [HeldJob(w) EXCEPT !.lease = Beat])
          /\ beat' = [beat EXCEPT ![w] = Beat]
     ELSE /\ UNCHANGED jobs
          /\ beat' = [beat EXCEPT ![w] = Stopped]
  /\ UNCHANGED <<current, lapsed, pc, age, held, limit>>

Renew(w) ==
  /\ pc[w] = "work" /\ beat[w] <= 0
  /\ IF Holds(w)
     THEN /\ SetHeldJob(w, [HeldJob(w) EXCEPT !.lease = Lease])
          /\ beat' = [beat EXCEPT ![w] = Beat]
     ELSE /\ UNCHANGED jobs
          /\ beat' = [beat EXCEPT ![w] = Stopped]
  /\ UNCHANGED <<current, lapsed, pc, age, held, limit>>

\* renew() raised, as when the write lock could not be had in time.
HeartbeatDies(w) ==
  /\ pc[w] = "work" /\ beat[w] <= 0
  /\ beat' = [beat EXCEPT ![w] = Stopped]
  /\ UNCHANGED <<jobs, current, lapsed, pc, age, held, limit>>

\* finish() of a worker that lost its claim changes nothing.
FinishFenced(w) ==
  /\ pc[w] = "work" /\ ~Holds(w)
  /\ Forget(w)
  /\ UNCHANGED <<jobs, current, lapsed, limit>>

FinishDiscard(w) ==
  /\ pc[w] = "work" /\ Holds(w)
  /\ ~Fresh(held[w].asset, held[w].n)
  /\ SetHeldJob(w, [HeldJob(w) EXCEPT !.run = "stale", !.state = "cancelled",
                                      !.token = 0])
  /\ Forget(w)
  /\ UNCHANGED <<current, lapsed, limit>>

RetryDelay(attempts) == Smaller(MaxDelay, 2 ^ attempts)

\* The evaluation met a transient error and attempts are left.
FinishRetry(w) ==
  /\ pc[w] = "work" /\ Holds(w)
  /\ Fresh(held[w].asset, held[w].n)
  /\ HeldJob(w).attempts < limit[w]
  /\ SetHeldJob(w, [HeldJob(w) EXCEPT !.run = "queued", !.state = "queued",
                      !.token = 0, !.lease = Expired,
                      !.avail = RetryDelay(HeldJob(w).attempts)])
  /\ Forget(w)
  /\ UNCHANGED <<current, lapsed, limit>>

\* A result is recorded, of a failed run if the error is still transient.
FinishResult(w, retryable) ==
  /\ pc[w] = "work" /\ Holds(w)
  /\ Fresh(held[w].asset, held[w].n)
  /\ retryable => HeldJob(w).attempts >= limit[w]
  /\ SetHeldJob(w, [HeldJob(w) EXCEPT
       !.run = IF retryable THEN "failed" ELSE "completed",
       !.state = IF retryable THEN "failed" ELSE "done",
       !.result = held[w].token, !.token = 0, !.lease = Expired])
  /\ Forget(w)
  /\ UNCHANGED <<current, lapsed, limit>>

\* The process dies, at any point, and its supervisor starts it again.  A
\* write lock that cannot be had and an error inside finish() end it as well.
\* The new process reads its settings from the environment again.
Crash(w) ==
  /\ Forget(w)
  /\ \E m \in Limits : limit' = [limit EXCEPT ![w] = m]
  /\ UNCHANGED <<jobs, current, lapsed>>

\* Nobody waits for the write lock longer than LockWait.
Tick ==
  /\ \A w \in Workers :
       /\ pc[w] = "claim" => age[w] < LockWait
       /\ pc[w] = "work" => beat[w] > Expired
  /\ age' = [w \in Workers |-> IF pc[w] = "claim" THEN age[w] + 1 ELSE age[w]]
  /\ beat' = [w \in Workers |->
       IF pc[w] = "work" /\ beat[w] # Stopped THEN beat[w] - 1 ELSE beat[w]]
  /\ jobs' = [a \in Assets |-> [n \in DOMAIN jobs[a] |->
       LET job == jobs[a][n]
       IN  IF job.state = "running" THEN [job EXCEPT !.lease = Less(@)]
           ELSE IF job.state = "queued" THEN [job EXCEPT !.avail = Less(@)]
           ELSE job]]
  /\ UNCHANGED <<current, lapsed, pc, held, limit>>

-----------------------------------------------------------------------------
Finish(w) ==
  \/ FinishFenced(w)
  \/ FinishDiscard(w)
  \/ FinishRetry(w)
  \/ \E retryable \in BOOLEAN : FinishResult(w, retryable)

Claim(w) == ClaimNothing(w) \/ ClaimOldest(w)

Next ==
  \/ \E a \in Assets : Supersede(a) \/ Scope(a) \/ Lapse(a)
  \/ \E w \in Workers :
       \/ RefreshStale(w)
       \/ ReadStamp(w)
       \/ Claim(w)
       \/ Renew(w)
       \/ HeartbeatDies(w)
       \/ Finish(w)
       \/ Crash(w)
  \/ Tick

Spec == Init /\ [][Next]_vars

\* Time passes, a supervised worker keeps turning, an evaluation that is not
\* interrupted ends.  A worker may crash without end, but not always before or
\* at its claim.
Fairness ==
  /\ WF_vars(Tick)
  /\ \A w \in Workers :
       /\ WF_vars(RefreshStale(w))
       /\ SF_vars(ReadStamp(w)) /\ SF_vars(Claim(w))
       /\ WF_vars(Renew(w)) /\ WF_vars(Finish(w))

LiveSpec == Spec /\ Fairness

\* The operator lowers CAS_JOB_ATTEMPTS, and restarted workers take it over.
LoweredSpec ==
  /\ Init /\ limit = [w \in Workers |-> MaxAttempts]
  /\ [][Next /\ \A w \in Workers : limit'[w] <= limit[w]]_vars
  /\ Fairness
-----------------------------------------------------------------------------
(* Properties *)

\* Every column of a job and every variable of a worker has its range.
Job ==
  [run: RunStates, state: JobStates, attempts: 0 .. MaxAttempts, avail: Int,
   token: 0 .. MaxAttempts, lease: Int, result: 0 .. MaxAttempts, born: Nat]

TypeOK ==
  /\ jobs \in [Assets -> Seq(Job)]
  /\ current \in [Assets -> Nat]
  /\ lapsed \subseteq Assets
  /\ pc \in [Workers -> {"refresh", "stamp", "claim", "work"}]
  /\ age \in [Workers -> Nat]
  /\ held \in [Workers -> {Nothing} \cup
       [asset: Assets, n: Nat \ {0}, token: 1 .. MaxAttempts]]
  /\ limit \in [Workers -> Limits]
  /\ beat \in [Workers -> Int]

\* However many workers still believe in a claim of one job, after expiry,
\* reclaim, crash or clock skew of a stamp, at most one passes the fence of
\* renew() and finish().
SingleHolder ==
  \A v, w \in Workers :
    /\ pc[v] = "work" /\ pc[w] = "work"
    /\ Holds(v) /\ Holds(w)
    /\ held[v].asset = held[w].asset /\ held[v].n = held[w].n
    => v = w

\* The run and its job, two rows that every transaction updates side by side,
\* never disagree; a run that is not the asset's current one is out of work.
Agrees(job) ==
  /\ job.state = "queued" => job.run \in {"awaiting_scope", "queued"}
  /\ job.state = "running" <=> job.run = "processing"
  /\ job.state = "done" => job.run \in {"completed", "stale"}
  /\ job.state = "failed" => job.run \in {"failed", "stale"}
  /\ job.state = "cancelled" => job.run = "stale"
  /\ job.token # 0 <=> job.state = "running"

RunJobAgree ==
  \A a \in Assets : \A n \in DOMAIN jobs[a] :
    /\ Agrees(jobs[a][n])
    /\ n # current[a] => jobs[a][n].run = "stale" /\ jobs[a][n].state \in Closed

\* A run has at most one machine result, recorded under the last lease granted,
\* and none while its job can still be claimed: finish() never runs into the
\* primary key of machine_results.  A job is given up only when the attempts
\* some worker was started with were used.
ResultFromLastClaim ==
  \A a \in Assets : \A n \in DOMAIN jobs[a] :
    LET job == jobs[a][n]
    IN  /\ job.result # 0 => /\ job.state \in {"done", "failed"}
                             /\ job.result = job.attempts
        /\ job.state = "done" => job.result # 0
        /\ job.state = "failed" => \E m \in Limits : job.attempts >= m

\* A worker whose heartbeat thread is alive still has its lease, unless the job
\* was taken from it by a new schedule: a slow evaluation alone never loses it.
\* True when a lease outlasts a late grant, a beat and a late renewal
\* (LockWait + Beat + LockWait < Lease); the code does not enforce that.
HeartbeatKeepsLease ==
  \A w \in Workers :
    pc[w] = "work" /\ beat[w] # Stopped /\ HeldJob(w).state = "running" =>
      Holds(w)

\* A job that ended, with a result, given up or cancelled, is never touched
\* again by any worker: not claimed, not retried, its result not replaced.
ClosedJobFinal ==
  [][\A a \in Assets : \A n \in DOMAIN jobs[a] :
       jobs[a][n].state \in Closed =>
         /\ jobs'[a][n].state = jobs[a][n].state
         /\ jobs'[a][n].result = jobs[a][n].result
         /\ jobs'[a][n].attempts = jobs[a][n].attempts]_vars

\* The queue moves runs only as RunLifecycle allows, with leases, tokens and
\* delays hidden: in particular a run is never worked on once superseded.
Lifecycle ==
  INSTANCE RunLifecycle WITH
    state <- [a \in Assets |-> [n \in DOMAIN jobs[a] |-> jobs[a][n].run]]

ImplementsLifecycle == Lifecycle!Spec

\* A run whose scope was approved does not wait for ever: it gets a result, or
\* visibly fails, or is superseded, through any number of crashes, expired
\* leases, lost heartbeats and transient errors.
RunIn(a, n, states) == n \in DOMAIN jobs[a] /\ jobs[a][n].run \in states

ScopedRunSettles ==
  \A a \in Assets : \A n \in 1 .. MaxRuns :
    RunIn(a, n, {"queued", "processing"})
      ~> RunIn(a, n, {"completed", "failed", "stale"})

\* A job that a transient failure put back into the queue is tried again, or
\* its run ends.
TransientFailureRetried ==
  \A a \in Assets : \A n \in 1 .. MaxRuns :
    (RunIn(a, n, {"queued"}) /\ jobs[a][n].attempts > 0)
      ~> RunIn(a, n, {"processing", "completed", "failed", "stale"})
=============================================================================
