-------------------------- MODULE MCCpuGraphExecutor --------------------------
(* Instances of CpuGraphExecutor for TLC.                                   *)
EXTENDS CpuGraphExecutor

CONSTANTS w1, w2

Declare(accesses, domain) ==
    [accesses |-> accesses, preferredDomain |-> domain, priority |-> 0,
     exclusiveLane |-> FALSE, userProvided |-> FALSE, cycles |-> 0]

On(r, mode) == [resource |-> r, mode |-> mode, length |-> 64]

\* A writer of both resources, readers of one on two queue classes, one that reads
\* and writes, a writer with a lane of its own, an urgent and a costly reader, and a
\* pass that conflicts with itself, by an access without a mode.
Scenes ==
    { Declare(<<On(1, "write"), On(2, "write")>>, "device_compute"),
      Declare(<<On(1, "read")>>, "any"),
      Declare(<<On(1, "read"), On(2, "read_write")>>, "device_graphics"),
      [Declare(<<On(1, "write")>>, "device_copy") EXCEPT !.exclusiveLane = TRUE],
      [Declare(<<On(2, "write")>>, "device_compute") EXCEPT !.exclusiveLane = TRUE],
      [Declare(<<On(2, "read")>>, "device_compute") EXCEPT !.priority = 1],
      [Declare(<<On(2, "read")>>, "host_parallel") EXCEPT !.userProvided = TRUE, !.cycles = 5],
      Declare(<<On(1, "none"), On(1, "write")>>, "device_compute") }

=============================================================================
