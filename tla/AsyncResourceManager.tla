------------------------ MODULE AsyncResourceManager ------------------------
(***************************************************************************)
(* zs::AsyncResourceManager of execution/AsyncResourceManager.hpp: entries *)
(* with a payload, leases that count, maintenance submitted to the runtime *)
(* at most one at a time per entry, retirement and collection.             *)
(*                                                                         *)
(* Users hold leases; keepers register, schedule, sweep and collect; a job *)
(* is the submission of one ticket and runs on its own.  One action is one *)
(* access to an atomic or one section under a mutex, except that a test of *)
(* retired is joined to the access after which it is made: retired is only *)
(* ever set, and an entry found once stays valid (it is shared).           *)
(*                                                                         *)
(* The runtime is external here: it runs a job's step, possibly again      *)
(* after a suspension, or ends the submission without running it, when it  *)
(* is cancelled or a prerequisite failed.                                  *)
(***************************************************************************)
EXTENDS Integers, FiniteSets

CONSTANTS Resources,       \* the handles register_resource() gives out
          Users,           \* threads that acquire and release leases
          Keepers,         \* threads that schedule maintenance and collect
          Tickets,         \* bound: the maintenance submissions ever made
          Requests,        \* the requests keepers make
          AllowLeased,     \* resources with allowMaintenanceWhileLeased
          EvictWhenStale,  \* resources with evictWhenStale
          StaleAfter,      \* staleAfterEpochs of each resource
          MaxEpoch,        \* bound: how far the epoch advances
          NoResource

Request == [requireIdle : BOOLEAN, requireDirty : BOOLEAN, clear : BOOLEAN,
            retire : BOOLEAN, evict : BOOLEAN]

ASSUME ResourceAssumption ==
    /\ NoResource \notin Resources
    /\ Users \cap Keepers = {}
    /\ Requests \subseteq Request /\ Requests # {}
    /\ Tickets \subseteq Nat
    /\ AllowLeased \subseteq Resources /\ EvictWhenStale \subseteq Resources
    /\ StaleAfter \in [Resources -> Nat]
    /\ MaxEpoch \in Nat
    /\ IsFiniteSet(Users)

VARIABLES entries,     \* the keys of _entries
          entry,       \* each Entry: payload is TRUE while it is not null
          epoch,       \* _epoch
          alive,       \* the manager has not been destroyed
          collecting,  \* _mutex is held by collect_retired()
          user,        \* each user's program point and the resource of its lease
          keeper,      \* each keeper's call in progress
          job,         \* the submission of each ticket
          sure         \* history: users whose lease has answered valid()

vars == <<entries, entry, epoch, alive, collecting, user, keeper, job, sure>>

Entry == [payload : BOOLEAN, leaseCount : Nat, lastAccess : Nat, dirty : BOOLEAN,
          retired : BOOLEAN, inFlight : BOOLEAN]

UserPC   == {"idle", "a_count", "a_touch", "held", "r_test", "r_destroy"}
KeeperPC == {"idle", "s_idle", "s_dirty", "s_claim", "s_submit", "sweep", "collect", "c_erase"}
JobPC    == {"none", "queued", "maintain", "suspended", "m_clean", "m_retire", "m_clear",
             "m_unclaim", "m_leases", "m_destroy", "over", "lost"}

\* A job between its submission and the store that clears maintenanceInFlight.
LivePC == {"queued", "maintain", "suspended", "m_clean", "m_retire", "m_clear", "m_unclaim"}

TypeOK ==
    /\ entries \subseteq Resources
    /\ entry \in [Resources -> Entry]
    /\ epoch \in Nat
    /\ alive \in BOOLEAN /\ collecting \in BOOLEAN
    /\ user \in [Users -> [pc : UserPC, r : Resources \cup {NoResource}]]
    /\ keeper \in [Keepers -> [pc : KeeperPC, r : Resources \cup {NoResource}, req : Request,
                               todo : SUBSET Resources, at : Nat]]
    /\ job \in [Tickets -> [pc : JobPC, r : Resources \cup {NoResource}, req : Request,
                            at : Nat]]
    /\ sure \subseteq Users

\* What a thread or a job is between two calls.
AnyRequest == CHOOSE q \in Requests : TRUE
IdleUser   == [pc |-> "idle", r |-> NoResource]
IdleKeeper == [pc |-> "idle", r |-> NoResource, req |-> AnyRequest, todo |-> {}, at |-> 0]
NoJob      == [pc |-> "none", r |-> NoResource, req |-> AnyRequest, at |-> 0]

Init ==
    /\ entries = {}
    /\ entry = [r \in Resources |-> [payload |-> FALSE, leaseCount |-> 0, lastAccess |-> 0,
                                     dirty |-> FALSE, retired |-> FALSE, inFlight |-> FALSE]]
    /\ epoch = 0 /\ alive = TRUE /\ collecting = FALSE
    /\ user = [u \in Users |-> IdleUser]
    /\ keeper = [k \in Keepers |-> IdleKeeper]
    /\ job = [j \in Tickets |-> NoJob]
    /\ sure = {}

\* find_entry_(): the map is read under _mutex.
find_entry_(r) == ~collecting /\ alive /\ r \in entries

\* Mutant: the payload is destroyed and not set to null.
destroy_payload_if_needed_Kept(r) == entry' = [entry EXCEPT ![r].payload = @]

\* Under the payload's mutex: null it and call destroy.
destroy_payload_if_needed(r) == entry' = [entry EXCEPT ![r].payload = FALSE]

-----------------------------------------------------------------------------
(* Leases.                                                                  *)

UserGoto(u, from, to) ==
    /\ user[u].pc = from
    /\ user' = [user EXCEPT ![u] = IF to = "idle" THEN IdleUser ELSE [@ EXCEPT !.pc = to]]

\* acquire(): the entry is found and not retired.
Acquire(u) ==
    \E r \in Resources :
        /\ find_entry_(r) /\ ~entry[r].retired
        /\ user[u].pc = "idle" /\ user' = [user EXCEPT ![u] = [pc |-> "a_count", r |-> r]]
        /\ UNCHANGED <<entries, entry, epoch, alive, collecting, keeper, job, sure>>

AcquireCount(u) ==
    /\ UserGoto(u, "a_count", "a_touch")
    /\ entry' = [entry EXCEPT ![user[u].r].leaseCount = @ + 1]
    /\ UNCHANGED <<entries, epoch, alive, collecting, keeper, job, sure>>

AcquireTouch(u) ==
    /\ UserGoto(u, "a_touch", "held")
    /\ entry' = [entry EXCEPT ![user[u].r].lastAccess = epoch]
    /\ UNCHANGED <<entries, epoch, alive, collecting, keeper, job, sure>>

\* Lease::valid() answers that the resource is not retired.
LeaseValid(u) ==
    /\ user[u].pc = "held" /\ ~entry[user[u].r].retired
    /\ sure' = sure \cup {u}
    /\ UNCHANGED <<entries, entry, epoch, alive, collecting, user, keeper, job>>

\* Mutant: reset() keeps the entry, so that the lease can be released again.
LeaseReset_Kept(u) ==
    /\ user[u].pc = "held" /\ UNCHANGED user
    /\ sure' = sure \ {u}
    /\ entry' = [entry EXCEPT ![user[u].r].leaseCount = @ - 1]
    /\ UNCHANGED <<entries, epoch, alive, collecting, keeper, job>>

\* Lease::reset() and release_lease(): lower the count; the last one goes on.
LeaseReset(u) ==
    /\ UserGoto(u, "held", IF entry[user[u].r].leaseCount = 1 THEN "r_test" ELSE "idle")
    /\ sure' = sure \ {u}
    /\ entry' = [entry EXCEPT ![user[u].r].leaseCount = @ - 1]
    /\ UNCHANGED <<entries, epoch, alive, collecting, keeper, job>>

ReleaseTest(u) ==
    /\ LET e == entry[user[u].r]
       IN  UserGoto(u, "r_test", IF e.retired /\ ~e.inFlight THEN "r_destroy" ELSE "idle")
    /\ UNCHANGED <<entries, entry, epoch, alive, collecting, keeper, job, sure>>

ReleaseDestroy(u) ==
    /\ UserGoto(u, "r_destroy", "idle")
    /\ destroy_payload_if_needed(user[u].r)
    /\ UNCHANGED <<entries, epoch, alive, collecting, keeper, job, sure>>

\* touch() and mark_dirty(), in a user that is in no other call.
Touch(u) ==
    /\ user[u].pc \in {"idle", "held"}
    /\ \E r \in Resources :
        /\ find_entry_(r) /\ ~entry[r].retired
        /\ entry' = [entry EXCEPT ![r].lastAccess = epoch]
    /\ UNCHANGED <<entries, epoch, alive, collecting, user, keeper, job, sure>>

MarkDirty(u) ==
    /\ user[u].pc \in {"idle", "held"}
    /\ \E r \in Resources, dirty \in BOOLEAN :
        /\ find_entry_(r) /\ ~entry[r].retired
        /\ entry' = [entry EXCEPT ![r].dirty = dirty,
                                  ![r].lastAccess = IF dirty THEN epoch ELSE @]
    /\ UNCHANGED <<entries, epoch, alive, collecting, user, keeper, job, sure>>

User(u) ==
    \/ Acquire(u) \/ AcquireCount(u) \/ AcquireTouch(u) \/ LeaseValid(u)
    \/ LeaseReset(u) \/ ReleaseTest(u) \/ ReleaseDestroy(u)
    \/ Touch(u) \/ MarkDirty(u)

-----------------------------------------------------------------------------
(* Registration and scheduling.                                             *)

\* register_resource(): a new id, published under _mutex.
RegisterResource(k) ==
    /\ keeper[k].pc = "idle" /\ alive /\ ~collecting
    /\ \E r \in Resources \ entries :
        /\ entry[r] = [payload |-> FALSE, leaseCount |-> 0, lastAccess |-> 0,
                       dirty |-> FALSE, retired |-> FALSE, inFlight |-> FALSE]
        /\ entries' = entries \cup {r}
        /\ entry' = [entry EXCEPT ![r].payload = TRUE, ![r].lastAccess = epoch]
    /\ UNCHANGED <<epoch, alive, collecting, user, keeper, job, sure>>

AdvanceEpoch(k) ==
    /\ keeper[k].pc = "idle" /\ alive
    /\ epoch < MaxEpoch /\ epoch' = epoch + 1
    /\ UNCHANGED <<entries, entry, alive, collecting, user, keeper, job, sure>>

KeeperGoto(k, from, to) ==
    /\ keeper[k].pc = from
    /\ keeper' = [keeper EXCEPT ![k] = IF to = "idle" THEN IdleKeeper ELSE [@ EXCEPT !.pc = to]]

\* schedule_maintenance() has returned: to the sweep, or to the caller.
Return(k) == IF keeper[k].todo = {} THEN "idle" ELSE "sweep"

\* schedule_maintenance() finds the entry, and it is not retired.
Schedule(r) == find_entry_(r) /\ ~entry[r].retired

ScheduleCall(k) ==
    \E r \in Resources, q \in Requests :
        /\ keeper[k].pc = "idle" /\ Schedule(r)
        /\ keeper' = [keeper EXCEPT ![k].pc = "s_idle", ![k].r = r, ![k].req = q]
        /\ UNCHANGED <<entries, entry, epoch, alive, collecting, user, job, sure>>

ScheduleIdle(k) ==
    /\ LET r == keeper[k].r
           leased == /\ keeper[k].req.requireIdle \/ r \notin AllowLeased
                     /\ entry[r].leaseCount # 0
       IN  KeeperGoto(k, "s_idle", IF leased THEN Return(k) ELSE "s_dirty")
    /\ UNCHANGED <<entries, entry, epoch, alive, collecting, user, job, sure>>

ScheduleDirty(k) ==
    /\ LET clean == keeper[k].req.requireDirty /\ ~entry[keeper[k].r].dirty
       IN  KeeperGoto(k, "s_dirty", IF clean THEN Return(k) ELSE "s_claim")
    /\ UNCHANGED <<entries, entry, epoch, alive, collecting, user, job, sure>>

\* Mutant: the exchange is a store, whoever else has set the flag.
ScheduleClaim_Store(k) ==
    /\ KeeperGoto(k, "s_claim", "s_submit")
    /\ entry' = [entry EXCEPT ![keeper[k].r].inFlight = TRUE]
    /\ UNCHANGED <<entries, epoch, alive, collecting, user, job, sure>>

\* The exchange of maintenanceInFlight; skipped_busy when it fails.
ScheduleClaim(k) ==
    /\ KeeperGoto(k, "s_claim", IF entry[keeper[k].r].inFlight THEN Return(k) ELSE "s_submit")
    /\ entry' = [entry EXCEPT ![keeper[k].r].inFlight = TRUE]
    /\ UNCHANGED <<entries, epoch, alive, collecting, user, job, sure>>

\* AsyncRuntime::submit() takes the job, or throws and the flag is cleared.
ScheduleSubmit(k) ==
    /\ KeeperGoto(k, "s_submit", Return(k))
    /\ \/ /\ \E j \in Tickets :
               /\ job[j].pc = "none" /\ \A i \in Tickets : i < j => job[i].pc # "none"
               /\ job' = [job EXCEPT ![j] = [pc |-> "queued", r |-> keeper[k].r, at |-> epoch,
                                             req |-> keeper[k].req]]
          /\ UNCHANGED entry
       \/ /\ entry' = [entry EXCEPT ![keeper[k].r].inFlight = FALSE]
          /\ UNCHANGED job
    /\ UNCHANGED <<entries, epoch, alive, collecting, user, sure>>

is_stale_(r, at) ==
    /\ StaleAfter[r] # 0
    /\ at >= entry[r].lastAccess /\ at - entry[r].lastAccess >= StaleAfter[r]

\* schedule_stale_maintenance(): the entries and the epoch, then one by one.
Sweep(k) ==
    \E q \in Requests :
        /\ keeper[k].pc = "idle" /\ alive /\ ~collecting /\ entries # {}
        /\ keeper' = [keeper EXCEPT ![k].pc = "sweep", ![k].req = q, ![k].todo = entries,
                                    ![k].at = epoch]
        /\ UNCHANGED <<entries, entry, epoch, alive, collecting, user, job, sure>>

\* The next entry: passed over, or handed to schedule_maintenance().
SweepNext(k) ==
    \E r \in keeper[k].todo :
        LET q == keeper[k].req
            rest == keeper[k].todo \ {r}
            wanted == /\ is_stale_(r, keeper[k].at)
                      /\ q.evict => r \in EvictWhenStale
                      /\ q.requireDirty => entry[r].dirty
                      /\ Schedule(r)
        IN  /\ keeper[k].pc = "sweep" /\ ~collecting
            /\ keeper' = [keeper EXCEPT ![k] =
                             IF wanted THEN [@ EXCEPT !.pc = "s_idle", !.r = r, !.todo = rest]
                             ELSE IF rest = {} THEN IdleKeeper ELSE [@ EXCEPT !.todo = rest]]
            /\ UNCHANGED <<entries, entry, epoch, alive, collecting, user, job, sure>>

-----------------------------------------------------------------------------
(* The step of a job.                                                       *)

JobGoto(j, from, to) ==
    /\ job[j].pc = from
    /\ job' = [job EXCEPT ![j] = IF to \in {"over", "lost"} THEN [NoJob EXCEPT !.pc = to]
                                 ELSE [@ EXCEPT !.pc = to]]

\* The submission ends without its step: cancelled, or a prerequisite failed.
JobDrop(j) ==
    /\ JobGoto(j, "queued", "lost")
    /\ UNCHANGED <<entries, entry, epoch, alive, collecting, user, keeper, sure>>

JobRun(j) ==
    /\ JobGoto(j, "queued", "maintain")
    /\ UNCHANGED <<entries, entry, epoch, alive, collecting, user, keeper, sure>>

\* The maintain callback completes; fails or is cancelled; suspends; or it
\* throws, or suspends when a stop was requested, and the flag stays set.
JobMaintain(j) ==
    /\ \E to \in {"m_clean", "m_clear", "suspended", "lost"} : JobGoto(j, "maintain", to)
    /\ UNCHANGED <<entries, entry, epoch, alive, collecting, user, keeper, sure>>

JobResume(j) ==
    /\ JobGoto(j, "suspended", "queued")
    /\ UNCHANGED <<entries, entry, epoch, alive, collecting, user, keeper, sure>>

JobClean(j) ==
    /\ JobGoto(j, "m_clean", IF job[j].req.retire THEN "m_retire" ELSE "m_clear")
    /\ entry' = [entry EXCEPT ![job[j].r].dirty = @ /\ ~job[j].req.clear,
                              ![job[j].r].lastAccess = job[j].at]
    /\ UNCHANGED <<entries, epoch, alive, collecting, user, keeper, sure>>

JobRetire(j) ==
    /\ JobGoto(j, "m_retire", "m_unclaim")
    /\ entry' = [entry EXCEPT ![job[j].r].retired = TRUE]
    /\ UNCHANGED <<entries, epoch, alive, collecting, user, keeper, sure>>

JobClear(j) ==
    /\ JobGoto(j, "m_clear", "over") \/ JobGoto(j, "m_unclaim", "m_leases")
    /\ entry' = [entry EXCEPT ![job[j].r].inFlight = FALSE]
    /\ UNCHANGED <<entries, epoch, alive, collecting, user, keeper, sure>>

\* Mutant: the leases are not looked at.
JobLeases_Any(j) ==
    /\ JobGoto(j, "m_leases", "m_destroy")
    /\ UNCHANGED <<entries, entry, epoch, alive, collecting, user, keeper, sure>>

JobLeases(j) ==
    /\ JobGoto(j, "m_leases", IF entry[job[j].r].leaseCount = 0 THEN "m_destroy" ELSE "over")
    /\ UNCHANGED <<entries, entry, epoch, alive, collecting, user, keeper, sure>>

JobDestroy(j) ==
    /\ JobGoto(j, "m_destroy", "over")
    /\ destroy_payload_if_needed(job[j].r)
    /\ UNCHANGED <<entries, epoch, alive, collecting, user, keeper, sure>>

Job(j) ==
    \/ JobDrop(j) \/ JobRun(j) \/ JobMaintain(j) \/ JobResume(j) \/ JobClean(j)
    \/ JobRetire(j) \/ JobClear(j) \/ JobLeases(j) \/ JobDestroy(j)

-----------------------------------------------------------------------------
(* Collection and destruction.                                              *)

CollectRetired(k) ==
    /\ keeper[k].pc = "idle" /\ alive /\ ~collecting /\ entries # {}
    /\ collecting' = TRUE
    /\ keeper' = [keeper EXCEPT ![k].pc = "collect", ![k].todo = entries]
    /\ UNCHANGED <<entries, entry, epoch, alive, user, job, sure>>

CollectNext(k) ==
    /\ keeper[k].pc = "collect"
    /\ IF keeper[k].todo = {}
       THEN collecting' = FALSE /\ keeper' = [keeper EXCEPT ![k] = IdleKeeper]
       ELSE /\ UNCHANGED collecting
            /\ \E r \in keeper[k].todo :
                 LET e == entry[r]
                     free == e.retired /\ e.leaseCount = 0 /\ ~e.inFlight
                 IN  keeper' = [keeper EXCEPT ![k].pc = IF free THEN "c_erase" ELSE "collect",
                                              ![k].r = r, ![k].todo = @ \ {r}]
    /\ UNCHANGED <<entries, entry, epoch, alive, user, job, sure>>

CollectErase(k) ==
    /\ KeeperGoto(k, "c_erase", "collect")
    /\ destroy_payload_if_needed(keeper[k].r)
    /\ entries' = entries \ {keeper[k].r}
    /\ UNCHANGED <<epoch, alive, collecting, user, job, sure>>

\* ~AsyncResourceManager(), once no call on the manager is in progress: every
\* registered payload is destroyed, whoever still has a lease or a job.
Destroy(k) ==
    /\ alive /\ alive' = FALSE
    /\ \A x \in Keepers : keeper[x].pc = "idle"
    /\ \A u \in Users : user[u].pc \notin {"a_count", "a_touch"}
    /\ entries' = {}
    /\ entry' = [r \in Resources |->
                    IF r \in entries THEN [entry[r] EXCEPT !.payload = FALSE] ELSE entry[r]]
    /\ UNCHANGED <<epoch, collecting, user, keeper, job, sure>>

Keeper(k) ==
    \/ RegisterResource(k) \/ AdvanceEpoch(k)
    \/ ScheduleCall(k) \/ ScheduleIdle(k) \/ ScheduleDirty(k) \/ ScheduleClaim(k)
    \/ ScheduleSubmit(k) \/ Sweep(k) \/ SweepNext(k)
    \/ CollectRetired(k) \/ CollectNext(k) \/ CollectErase(k) \/ Destroy(k)

Next ==
    \/ \E u \in Users : User(u)
    \/ \E k \in Keepers : Keeper(k)
    \/ \E j \in Tickets : Job(j)

Spec == Init /\ [][Next]_vars

\* Calls in progress go on, a lease is released in the end (it is scoped), the
\* pool runs the jobs, and the keepers call collect_retired() again and again.
Fairness ==
    /\ \A u \in Users : WF_vars(AcquireCount(u) \/ AcquireTouch(u) \/ LeaseReset(u)
                                \/ ReleaseTest(u) \/ ReleaseDestroy(u))
    /\ \A j \in Tickets : WF_vars(JobClean(j) \/ JobRetire(j) \/ JobClear(j)
                                  \/ JobLeases(j) \/ JobDestroy(j))
    /\ \A k \in Keepers :
        /\ WF_vars(ScheduleIdle(k) \/ ScheduleDirty(k) \/ ScheduleClaim(k) \/ ScheduleSubmit(k)
                   \/ SweepNext(k) \/ CollectNext(k) \/ CollectErase(k))
        /\ SF_vars(CollectRetired(k))

FairSpec == Spec /\ Fairness

-----------------------------------------------------------------------------
(* Properties.                                                              *)

\* A resource has at most one maintenance between submit() and the store that
\* clears maintenanceInFlight, suspensions and scheduling races included, and
\* the flag is set all that time: a second one is refused as busy.
OneMaintenance ==
    \A j \in Tickets : job[j].pc \in LivePC =>
        /\ entry[job[j].r].inFlight
        /\ \A i \in Tickets \ {j} : job[i].pc \in LivePC => job[i].r # job[j].r
        /\ \A k \in Keepers : keeper[k].pc = "s_submit" => keeper[k].r # job[j].r

\* Neither the end of a maintenance nor collect_retired() destroys a payload
\* under a lease that has answered valid(): retired is set before the leases
\* are counted, and a lease is counted before it is tested.
LeaseHonoured ==
    [][\A r \in Resources :
        /\ entry[r].payload /\ ~entry'[r].payload /\ alive'
        /\ \A u \in Users : user[u].pc = "r_destroy" => user'[u] = user[u]
        => \A u \in sure : user[u].r # r]_vars

\* A retired resource whose maintenance is over loses its payload in the end,
\* however the last release, the end of the maintenance and a late acquire()
\* or schedule_maintenance() overlap: collect_retired() finds what they missed.
RetiredReclaimed ==
    \A r \in Resources :
        <>[](entry[r].retired /\ ~entry[r].inFlight /\ alive) => <>[](~entry[r].payload)
=============================================================================
