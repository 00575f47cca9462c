---------------------------- MODULE RunLifecycle ----------------------------
(***************************************************************************)
(* What the service promises of assessment runs, whoever works on them.    *)
(* Every asset has a history of runs; only the last one can make progress, *)
(* and a newly scheduled run retires the one before it for good.           *)
(***************************************************************************)
EXTENDS Naturals, Sequences

CONSTANT Assets

VARIABLE state  \* for each asset the state of each of its runs, oldest first

RunStates ==
  {"awaiting_scope", "queued", "processing", "completed", "failed", "stale"}

\* How a run that is not superseded may move.
Moves ==
  {<<"awaiting_scope", "queued">>,                          \* scope approved
   <<"queued", "processing">>, <<"processing", "queued">>,  \* claimed, retried
   <<"processing", "completed">>, <<"processing", "failed">>,
   <<"processing", "stale">>}                               \* result discarded

Init == state = [a \in Assets |-> <<>>]

\* Every run of a but the last keeps its state.
OlderRunsStay(a) ==
  \A n \in 1 .. Len(state[a]) - 1 : state'[a][n] = state[a][n]

Unchanged(a) == state'[a] = state[a]

Progress(a) ==
  /\ Len(state'[a]) = Len(state[a])
  /\ Len(state[a]) > 0
  /\ OlderRunsStay(a)
  /\ <<state[a][Len(state[a])], state'[a][Len(state[a])]>> \in Moves

Supersede(a) ==
  /\ Len(state'[a]) = Len(state[a]) + 1
  /\ OlderRunsStay(a)
  /\ Len(state[a]) > 0 => state'[a][Len(state[a])] = "stale"
  /\ state'[a][Len(state[a]) + 1] = "awaiting_scope"

\* One transaction moves or supersedes the runs of any number of assets, but
\* never does both.
Next ==
  /\ state' \in [Assets -> Seq(RunStates)]
  /\ \/ \A a \in Assets : Unchanged(a) \/ Progress(a)
     \/ \A a \in Assets : Unchanged(a) \/ Supersede(a)

Spec == Init /\ [][Next]_state
=============================================================================
