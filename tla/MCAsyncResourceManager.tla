----------------------- MODULE MCAsyncResourceManager -----------------------
(* Instances of AsyncResourceManager for TLC.                               *)
EXTENDS AsyncResourceManager, TLC

\* An eviction as the stale sweep of the tests asks for, and a refresh of a
\* dirty resource that does not mind leases.
Evict   == [requireIdle |-> TRUE, requireDirty |-> FALSE, clear |-> TRUE,
            retire |-> TRUE, evict |-> TRUE]
Refresh == [requireIdle |-> FALSE, requireDirty |-> TRUE, clear |-> TRUE,
            retire |-> FALSE, evict |-> FALSE]
EvictOrRefresh == {Evict, Refresh}

AfterOne == [r \in Resources |-> 1]

=============================================================================
