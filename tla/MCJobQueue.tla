----------------------------- MODULE MCJobQueue -----------------------------
(* Small instances of JobQueue.                                             *)
EXTENDS JobQueue

\* All workers are started with the same number of attempts, or restarted with
\* one attempt less.
MCSameLimit == {MaxAttempts}
MCLoweredLimit == {MaxAttempts - 1, MaxAttempts}
=============================================================================
