--------------------------- MODULE MCAsyncRuntime ---------------------------
(* Instances of AsyncRuntime for TLC.                                       *)
EXTENDS AsyncRuntime, TLC

CONSTANTS a, b, c, e

\* b inline after the pooled a and the client's event e; c pooled after both.
JoinPrereqs == (a :> {}) @@ (b :> {a, e}) @@ (c :> {a, b})

\* Independent submissions.
NoPrereqs == [s \in Subs |-> {}]

=============================================================================
