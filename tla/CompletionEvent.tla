--------------------------- MODULE CompletionEvent ---------------------------
(***************************************************************************)
(* What a completion event promises its users, without threads, locks or   *)
(* program counters: it carries a status that never leaves a terminal      *)
(* value, and every callback that is registered with it is invoked once,   *)
(* and only after the status has become terminal.                          *)
(***************************************************************************)
CONSTANTS Callbacks     \* the callbacks that may be registered

VARIABLES status,       \* the event's AsyncTaskStatus
          registered,   \* callbacks handed to the event and not yet invoked
          fired         \* callbacks that have been invoked

vars == <<status, registered, fired>>

Statuses == {"pending", "running", "suspended", "completed", "cancelled", "failed"}
Terminal == {"completed", "cancelled", "failed"}

Init ==
    /\ status = "pending"
    /\ registered = {}
    /\ fired = {}

\* The status moves while it is not terminal, to any value.
Publish(next) ==
    /\ status \notin Terminal
    /\ status' = next
    /\ UNCHANGED <<registered, fired>>

\* A callback is handed over once; it is owed an invocation from then on.
Register(c) ==
    /\ c \notin registered \cup fired
    /\ registered' = registered \cup {c}
    /\ UNCHANGED <<status, fired>>

\* Only a terminal event invokes a callback, and it owes it no more.
Fire(c) ==
    /\ status \in Terminal
    /\ c \in registered
    /\ registered' = registered \ {c}
    /\ fired' = fired \cup {c}
    /\ UNCHANGED status

Next ==
    \/ \E next \in Statuses : Publish(next)
    \/ \E c \in Callbacks : Register(c) \/ Fire(c)

Spec == Init /\ [][Next]_vars

=============================================================================
