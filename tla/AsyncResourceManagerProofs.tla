---------------------- MODULE AsyncResourceManagerProofs ----------------------
(* Theorems about AsyncResourceManager, for any resources, users, keepers,  *)
(* tickets and requests.                                                    *)
EXTENDS AsyncResourceManager, FiniteSetTheorems, TLAPS

Maybe      == Resources \cup {NoResource}
UserType   == [pc : UserPC, r : Maybe]
KeeperType == [pc : KeeperPC, r : Maybe, req : Request, todo : SUBSET Resources, at : Nat]
JobType    == [pc : JobPC, r : Maybe, req : Request, at : Nat]

-----------------------------------------------------------------------------
(* The inductive invariant.                                                 *)

\* A thread or job in the middle of something knows the resource it is about.
Named ==
    /\ \A u \in Users : user[u].pc # "idle" => user[u].r \in Resources
    /\ \A k \in Keepers : keeper[k].pc \in {"s_idle", "s_dirty", "s_claim", "s_submit", "c_erase"}
                            => keeper[k].r \in Resources
    /\ \A j \in Tickets : job[j].pc \notin {"none", "over", "lost"} => job[j].r \in Resources

\* The users that have raised the lease count of r and not lowered it.
Leased(r) == {u \in Users : user[u].r = r /\ user[u].pc \in {"a_touch", "held"}}

LeasesCounted == \A r \in Resources : entry[r].leaseCount = Cardinality(Leased(r))

\* maintenanceInFlight has one owner: a keeper about to submit, or a live job.
Claimed ==
    \A k \in Keepers : keeper[k].pc = "s_submit" =>
        /\ entry[keeper[k].r].inFlight
        /\ \A x \in Keepers \ {k} : keeper[x].pc = "s_submit" => keeper[x].r # keeper[k].r

SureHold == \A u \in sure : user[u].pc = "held"

\* Whoever is about to destroy the payload of r has seen it retired, and then
\* no lease: none of r answers valid() any more.
Unleased(r) == entry[r].retired /\ \A u \in sure : user[u].r # r

DestroyersSaw ==
    /\ \A j \in Tickets :
        /\ job[j].pc \in {"m_unclaim", "m_leases"} => entry[job[j].r].retired
        /\ job[j].pc = "m_destroy" => Unleased(job[j].r)
    /\ \A k \in Keepers : keeper[k].pc = "c_erase" => Unleased(keeper[k].r)

IInv ==
    /\ TypeOK /\ Named /\ LeasesCounted
    /\ OneMaintenance /\ Claimed
    /\ SureHold /\ DestroyersSaw

-----------------------------------------------------------------------------
(* What the moves of a user, a keeper and a job do.                         *)

LEMMA RequestType == AnyRequest \in Request
BY ResourceAssumption DEF AnyRequest

\* A user's move changes its program point, and its resource only when it ends.
LEMMA UserMoves ==
    ASSUME TypeOK, NEW u \in Users, NEW from, NEW to \in UserPC, UserGoto(u, from, to)
    PROVE  /\ user' \in [Users -> UserType]
           /\ user[u].pc = from /\ user'[u].pc = to
           /\ to # "idle" => user'[u].r = user[u].r
           /\ \A v \in Users \ {u} : user'[v] = user[v]
<1>1. user \in [Users -> UserType]
  BY DEF TypeOK, UserType, Maybe
<1>2. IdleUser \in UserType /\ IdleUser.pc = "idle"
  BY DEF IdleUser, UserType, UserPC, Maybe
<1>3. CASE to = "idle"
  BY <1>1, <1>2, <1>3 DEF UserGoto
<1>4. CASE to # "idle"
  BY <1>1, <1>4 DEF UserGoto, UserType
<1> QED
  BY <1>3, <1>4

\* A keeper's move does the same, and keeps its list.
LEMMA KeeperMoves ==
    ASSUME TypeOK, NEW k \in Keepers, NEW from, NEW to \in KeeperPC, KeeperGoto(k, from, to)
    PROVE  /\ keeper' \in [Keepers -> KeeperType]
           /\ keeper[k].pc = from /\ keeper'[k].pc = to
           /\ to # "idle" => keeper'[k].r = keeper[k].r
           /\ \A x \in Keepers \ {k} : keeper'[x] = keeper[x]
<1>1. keeper \in [Keepers -> KeeperType]
  BY DEF TypeOK, KeeperType, Maybe
<1>2. IdleKeeper \in KeeperType /\ IdleKeeper.pc = "idle"
  BY RequestType DEF IdleKeeper, KeeperType, KeeperPC, Maybe
<1>3. CASE to = "idle"
  BY <1>1, <1>2, <1>3 DEF KeeperGoto
<1>4. CASE to # "idle"
  BY <1>1, <1>4 DEF KeeperGoto, KeeperType
<1> QED
  BY <1>3, <1>4

\* A job's move forgets its resource when the job is over.
LEMMA JobMoves ==
    ASSUME TypeOK, NEW j \in Tickets, NEW from, NEW to \in JobPC, JobGoto(j, from, to)
    PROVE  /\ job' \in [Tickets -> JobType]
           /\ job[j].pc = from /\ job'[j].pc = to
           /\ to \notin {"over", "lost"} => job'[j].r = job[j].r
           /\ \A i \in Tickets \ {j} : job'[i] = job[i]
<1>1. job \in [Tickets -> JobType]
  BY DEF TypeOK, JobType, Maybe
<1>2. \A p \in JobPC : [NoJob EXCEPT !.pc = p] \in JobType /\ [NoJob EXCEPT !.pc = p].pc = p
  BY RequestType DEF NoJob, JobType, JobPC, Maybe
<1>3. CASE to \in {"over", "lost"}
  BY <1>1, <1>2, <1>3 DEF JobGoto
<1>4. CASE to \notin {"over", "lost"}
  BY <1>1, <1>4 DEF JobGoto, JobType
<1> QED
  BY <1>3, <1>4

-----------------------------------------------------------------------------
(* What the steps of the others leave alone.                                *)

\* A user changes neither a keeper, a job nor the flags of retirement.
LEMMA UserFrame ==
    ASSUME TypeOK, Named, NEW u \in Users, User(u)
    PROVE  /\ UNCHANGED <<keeper, job>>
           /\ \A r \in Resources : /\ entry'[r].inFlight = entry[r].inFlight
                                   /\ entry'[r].retired = entry[r].retired
<1> USE DEF TypeOK, Entry
<1>1. CASE Acquire(u)
  BY <1>1 DEF Acquire
<1>2. CASE AcquireCount(u)
  BY <1>2 DEF AcquireCount
<1>3. CASE AcquireTouch(u)
  BY <1>3 DEF AcquireTouch
<1>4. CASE LeaseValid(u)
  BY <1>4 DEF LeaseValid
<1>5. CASE LeaseReset(u)
  BY <1>5 DEF LeaseReset
<1>6. CASE ReleaseTest(u)
  BY <1>6 DEF ReleaseTest
<1>7. CASE ReleaseDestroy(u)
  BY <1>7 DEF ReleaseDestroy, destroy_payload_if_needed
<1>8. CASE Touch(u)
  BY <1>8 DEF Touch
<1>9. CASE MarkDirty(u)
  BY <1>9 DEF MarkDirty
<1> QED
  BY <1>1, <1>2, <1>3, <1>4, <1>5, <1>6, <1>7, <1>8, <1>9 DEF User

\* A keeper touches neither the users nor what they count and see.
LEMMA KeeperFrame ==
    ASSUME TypeOK, Named, NEW k \in Keepers, Keeper(k)
    PROVE  /\ UNCHANGED <<user, sure>>
           /\ \A r \in Resources : /\ entry'[r].leaseCount = entry[r].leaseCount
                                   /\ entry'[r].retired = entry[r].retired
<1> USE DEF TypeOK, Entry
<1>1. CASE RegisterResource(k)
  <2>1. PICK r \in Resources :
            entry' = [entry EXCEPT ![r].payload = TRUE, ![r].lastAccess = epoch]
    BY <1>1 DEF RegisterResource
  <2>2. UNCHANGED <<user, sure>>
    BY <1>1 DEF RegisterResource
  <2> QED
    BY <2>1, <2>2
<1>2. CASE AdvanceEpoch(k)
  BY <1>2 DEF AdvanceEpoch
<1>3. CASE ScheduleCall(k) \/ ScheduleIdle(k) \/ ScheduleDirty(k)
  BY <1>3 DEF ScheduleCall, ScheduleIdle, ScheduleDirty
<1>4. CASE ScheduleClaim(k)
  BY <1>4 DEF ScheduleClaim
<1>5. CASE ScheduleSubmit(k)
  BY <1>5 DEF ScheduleSubmit
<1>6. CASE Sweep(k) \/ SweepNext(k)
  BY <1>6 DEF Sweep, SweepNext
<1>7. CASE CollectRetired(k) \/ CollectNext(k)
  BY <1>7 DEF CollectRetired, CollectNext
<1>8. CASE CollectErase(k)
  BY <1>8 DEF CollectErase, destroy_payload_if_needed
<1>9. CASE Destroy(k)
  BY <1>9 DEF Destroy
<1> QED
  BY <1>1, <1>2, <1>3, <1>4, <1>5, <1>6, <1>7, <1>8, <1>9 DEF Keeper

\* A job touches neither the users, what they count, nor the keepers.
LEMMA JobFrame ==
    ASSUME TypeOK, Named, NEW j \in Tickets, Job(j)
    PROVE  /\ UNCHANGED <<user, sure, keeper>>
           /\ \A r \in Resources : entry'[r].leaseCount = entry[r].leaseCount
           /\ \A r \in Resources : entry[r].retired => entry'[r].retired
<1> USE DEF TypeOK, Entry
<1>1. CASE JobDrop(j) \/ JobRun(j) \/ JobMaintain(j) \/ JobResume(j) \/ JobLeases(j)
  BY <1>1 DEF JobDrop, JobRun, JobMaintain, JobResume, JobLeases
<1>2. CASE JobClean(j)
  BY <1>2 DEF JobClean
<1>3. CASE JobRetire(j)
  BY <1>3 DEF JobRetire
<1>4. CASE JobClear(j)
  BY <1>4 DEF JobClear
<1>5. CASE JobDestroy(j)
  BY <1>5 DEF JobDestroy, destroy_payload_if_needed
<1> QED
  BY <1>1, <1>2, <1>3, <1>4, <1>5 DEF Job

-----------------------------------------------------------------------------
(* Leases.                                                                  *)

\* Leases are finitely many, and one lease makes the count positive.
LEMMA LeasedFinite ==
    ASSUME NEW r
    PROVE  /\ IsFiniteSet(Leased(r)) /\ Cardinality(Leased(r)) \in Nat
           /\ \A u \in Leased(r) : Cardinality(Leased(r)) > 0
<1>1. IsFiniteSet(Leased(r))
  BY ResourceAssumption, FS_Subset, Leased(r) \subseteq Users DEF Leased
<1>2. Cardinality(Leased(r)) \in Nat
  BY <1>1, FS_CardinalityType
<1>3. Cardinality(Leased(r)) = 0 <=> Leased(r) = {}
  BY <1>1, FS_EmptySet
<1> QED
  BY <1>1, <1>2, <1>3

\* acquire() adds its caller to the leased, and reset() takes it out again.
LEMMA LeasesStep ==
    ASSUME IInv, [Next]_vars
    PROVE  LeasesCounted'
<1> USE DEF IInv, TypeOK, Entry
<1>1. ASSUME NEW u \in Users, AcquireCount(u)
      PROVE  LeasesCounted'
  <2>1. UserGoto(u, "a_count", "a_touch") /\ "a_touch" \in UserPC
    BY <1>1 DEF AcquireCount, UserPC
  <2>2. PICK r \in Resources : r = user[u].r
    BY <2>1 DEF Named, UserGoto
  <2>3. /\ user[u].pc = "a_count" /\ user'[u].pc = "a_touch" /\ user'[u].r = r
        /\ \A v \in Users \ {u} : user'[v] = user[v]
    BY <2>1, <2>2, UserMoves
  <2>4. u \notin Leased(r) /\ Leased(r)' = Leased(r) \cup {u}
    BY <2>3 DEF Leased
  <2>5. Cardinality(Leased(r)') = Cardinality(Leased(r)) + 1
    BY <2>4, LeasedFinite, FS_AddElement
  <2>6. \A x \in Resources \ {r} : Leased(x)' = Leased(x)
    BY <2>2, <2>3 DEF Leased
  <2>7. entry' = [entry EXCEPT ![r].leaseCount = @ + 1]
    BY <1>1, <2>2 DEF AcquireCount
  <2> QED
    BY <2>5, <2>6, <2>7 DEF LeasesCounted
<1>2. ASSUME NEW u \in Users, LeaseReset(u)
      PROVE  LeasesCounted'
  <2>1. PICK to \in {"r_test", "idle"} : UserGoto(u, "held", to)
    BY <1>2 DEF LeaseReset
  <2>2. PICK r \in Resources : r = user[u].r
    BY <2>1 DEF Named, UserGoto
  <2>3. /\ user[u].pc = "held" /\ user'[u].pc \in {"r_test", "idle"}
        /\ \A v \in Users \ {u} : user'[v] = user[v]
    BY <2>1, UserMoves DEF UserPC
  <2>4. u \in Leased(r) /\ Leased(r)' = Leased(r) \ {u}
    BY <2>2, <2>3 DEF Leased
  <2>5. Cardinality(Leased(r)') = Cardinality(Leased(r)) - 1
    BY <2>4, LeasedFinite, FS_RemoveElement
  <2>6. \A x \in Resources \ {r} : Leased(x)' = Leased(x)
    BY <2>2, <2>3 DEF Leased
  <2>7. entry' = [entry EXCEPT ![r].leaseCount = @ - 1]
    BY <1>2, <2>2 DEF LeaseReset
  <2>8. Cardinality(Leased(r)) \in Nat
    BY LeasedFinite
  <2> QED
    BY <2>5, <2>6, <2>7, <2>8 DEF LeasesCounted
<1>3. ASSUME \A r \in Resources : /\ entry'[r].leaseCount = entry[r].leaseCount
                                  /\ Leased(r)' = Leased(r)
      PROVE  LeasesCounted'
  BY <1>3 DEF LeasesCounted
<1>4. ASSUME NEW u \in Users, User(u), ~AcquireCount(u), ~LeaseReset(u)
      PROVE  LeasesCounted'
  <2>1. CASE Acquire(u)
    BY <1>3, <2>1 DEF Acquire, Leased
  <2>2. CASE AcquireTouch(u)
    <3>1. UserGoto(u, "a_touch", "held") /\ "held" \in UserPC
      BY <2>2 DEF AcquireTouch, UserPC
    <3>2. \A r \in Resources : Leased(r)' = Leased(r)
      BY <3>1, UserMoves DEF Leased
    <3> QED
      BY <1>3, <2>2, <3>2 DEF AcquireTouch
  <2>3. CASE ReleaseTest(u) \/ ReleaseDestroy(u)
    <3>1. PICK from \in {"r_test", "r_destroy"}, to \in {"r_destroy", "idle"} : UserGoto(u, from, to)
      BY <2>3 DEF ReleaseTest, ReleaseDestroy
    <3>2. \A r \in Resources : Leased(r)' = Leased(r)
      BY <3>1, UserMoves DEF Leased, UserPC
    <3> QED
      BY <1>3, <2>3, <3>2 DEF ReleaseTest, ReleaseDestroy, destroy_payload_if_needed
  <2>4. CASE LeaseValid(u)
    BY <1>3, <2>4 DEF LeaseValid, Leased
  <2>5. CASE Touch(u)
    <3>1. PICK r \in Resources : entry' = [entry EXCEPT ![r].lastAccess = epoch]
      BY <2>5 DEF Touch
    <3> QED
      BY <1>3, <2>5, <3>1 DEF Touch, Leased
  <2>6. CASE MarkDirty(u)
    <3>1. PICK r \in Resources, dirty \in BOOLEAN :
              entry' = [entry EXCEPT ![r].dirty = dirty,
                                     ![r].lastAccess = IF dirty THEN epoch ELSE @]
      BY <2>6 DEF MarkDirty
    <3> QED
      BY <1>3, <2>6, <3>1 DEF MarkDirty, Leased
  <2> QED
    BY <1>4, <2>1, <2>2, <2>3, <2>4, <2>5, <2>6 DEF User
<1>5. CASE \E k \in Keepers : Keeper(k)
  BY <1>3, <1>5, KeeperFrame DEF Leased
<1>6. CASE \E j \in Tickets : Job(j)
  BY <1>3, <1>6, JobFrame DEF Leased
<1>7. CASE UNCHANGED vars
  BY <1>3, <1>7 DEF vars, Leased
<1> QED
  BY <1>1, <1>2, <1>4, <1>5, <1>6, <1>7 DEF Next

-----------------------------------------------------------------------------
(* Types.                                                                   *)

\* An entry stays one when a field is given a value of its type.
LEMMA EntryFields ==
    ASSUME NEW e \in Entry
    PROVE  /\ \A b \in BOOLEAN : [e EXCEPT !.payload = b] \in Entry
           /\ \A b \in BOOLEAN : [e EXCEPT !.retired = b] \in Entry
           /\ \A b \in BOOLEAN : [e EXCEPT !.inFlight = b] \in Entry
           /\ \A n \in Nat : [e EXCEPT !.leaseCount = n] \in Entry
           /\ \A n \in Nat : [e EXCEPT !.lastAccess = n] \in Entry
           /\ \A b \in BOOLEAN, n \in Nat : [e EXCEPT !.payload = b, !.lastAccess = n] \in Entry
           /\ \A b \in BOOLEAN, n \in Nat : [e EXCEPT !.dirty = b, !.lastAccess = n] \in Entry
<1> USE DEF Entry
<1>1. \A b \in BOOLEAN : [e EXCEPT !.payload = b] \in Entry
  OBVIOUS
<1>2. \A b \in BOOLEAN : [e EXCEPT !.retired = b] \in Entry
  OBVIOUS
<1>3. \A b \in BOOLEAN : [e EXCEPT !.inFlight = b] \in Entry
  OBVIOUS
<1>4. \A n \in Nat : [e EXCEPT !.leaseCount = n] \in Entry
  OBVIOUS
<1>5. \A n \in Nat : [e EXCEPT !.lastAccess = n] \in Entry
  OBVIOUS
<1>6. \A b \in BOOLEAN, n \in Nat : [e EXCEPT !.payload = b, !.lastAccess = n] \in Entry
  OBVIOUS
<1>7. \A b \in BOOLEAN, n \in Nat : [e EXCEPT !.dirty = b, !.lastAccess = n] \in Entry
  OBVIOUS
<1> QED
  BY <1>1, <1>2, <1>3, <1>4, <1>5, <1>6, <1>7

\* So does the map of entries.
LEMMA EntryUpdates ==
    ASSUME entry \in [Resources -> Entry], NEW r \in Resources
    PROVE  /\ \A b \in BOOLEAN : [entry EXCEPT ![r].payload = b] \in [Resources -> Entry]
           /\ \A b \in BOOLEAN : [entry EXCEPT ![r].retired = b] \in [Resources -> Entry]
           /\ \A b \in BOOLEAN : [entry EXCEPT ![r].inFlight = b] \in [Resources -> Entry]
           /\ \A n \in Nat : [entry EXCEPT ![r].leaseCount = n] \in [Resources -> Entry]
           /\ \A n \in Nat : [entry EXCEPT ![r].lastAccess = n] \in [Resources -> Entry]
           /\ \A b \in BOOLEAN, n \in Nat :
                [entry EXCEPT ![r].payload = b, ![r].lastAccess = n] \in [Resources -> Entry]
           /\ \A b \in BOOLEAN, n \in Nat :
                [entry EXCEPT ![r].dirty = b, ![r].lastAccess = n] \in [Resources -> Entry]
BY EntryFields

\* A user's step keeps the types; the count it lowers is positive.
LEMMA UserTypes ==
    ASSUME IInv, NEW u \in Users, User(u)
    PROVE  TypeOK'
<1> USE DEF IInv, TypeOK
<1>1. \A from : \A to \in UserPC : UserGoto(u, from, to) => user' \in [Users -> UserType]
  BY UserMoves
<1>2. user[u].pc # "idle" => user[u].r \in Resources
  BY DEF Named
<1>3. ASSUME user' \in [Users -> UserType], entry' \in [Resources -> Entry], sure' \subseteq Users,
             UNCHANGED <<entries, epoch, alive, collecting, keeper, job>>
      PROVE  TypeOK'
  BY <1>3 DEF UserType, Maybe
<1>4. CASE Acquire(u)
  <2>1. user' \in [Users -> UserType]
    BY <1>4 DEF Acquire, UserType, UserPC, Maybe
  <2> QED
    BY <1>3, <1>4, <2>1 DEF Acquire
<1>5. CASE AcquireCount(u)
  <2>1. user' \in [Users -> UserType] /\ user[u].r \in Resources
    BY <1>1, <1>2, <1>5 DEF AcquireCount, UserPC, UserGoto
  <2>2. entry' \in [Resources -> Entry]
    <3>1. entry[user[u].r].leaseCount + 1 \in Nat
      BY <2>1 DEF Entry
    <3> QED
      BY <1>5, <2>1, <3>1, EntryUpdates DEF AcquireCount
  <2> QED
    BY <1>3, <1>5, <2>1, <2>2 DEF AcquireCount
<1>6. CASE AcquireTouch(u)
  <2>1. user' \in [Users -> UserType] /\ user[u].r \in Resources
    BY <1>1, <1>2, <1>6 DEF AcquireTouch, UserPC, UserGoto
  <2>2. entry' \in [Resources -> Entry]
    BY <1>6, <2>1, EntryUpdates DEF AcquireTouch
  <2> QED
    BY <1>3, <1>6, <2>1, <2>2 DEF AcquireTouch
<1>7. CASE LeaseValid(u)
  BY <1>3, <1>7 DEF LeaseValid, UserType, Maybe
<1>8. CASE LeaseReset(u)
  <2>1. PICK to \in {"r_test", "idle"} : UserGoto(u, "held", to)
    BY <1>8 DEF LeaseReset
  <2>2. user' \in [Users -> UserType] /\ user[u].r \in Resources /\ user[u].pc = "held"
    BY <1>1, <1>2, <2>1 DEF UserPC, UserGoto
  <2>3. u \in Leased(user[u].r)
    BY <2>2 DEF Leased
  <2>4. entry[user[u].r].leaseCount \in Nat /\ entry[user[u].r].leaseCount > 0
    BY <2>2, <2>3, LeasedFinite DEF LeasesCounted
  <2>5. entry[user[u].r].leaseCount - 1 \in Nat
    BY <2>4
  <2>6. entry' \in [Resources -> Entry]
    BY <1>8, <2>2, <2>5, EntryUpdates DEF LeaseReset
  <2> QED
    BY <1>3, <1>8, <2>2, <2>6 DEF LeaseReset
<1>9. CASE ReleaseTest(u)
  <2>1. PICK to \in {"r_destroy", "idle"} : UserGoto(u, "r_test", to)
    BY <1>9 DEF ReleaseTest
  <2>2. user' \in [Users -> UserType]
    BY <1>1, <2>1 DEF UserPC
  <2> QED
    BY <1>3, <1>9, <2>2 DEF ReleaseTest
<1>10. CASE ReleaseDestroy(u)
  <2>1. user' \in [Users -> UserType] /\ user[u].r \in Resources
    BY <1>1, <1>2, <1>10 DEF ReleaseDestroy, UserPC, UserGoto
  <2>2. entry' \in [Resources -> Entry]
    BY <1>10, <2>1, EntryUpdates DEF ReleaseDestroy, destroy_payload_if_needed
  <2> QED
    BY <1>3, <1>10, <2>1, <2>2 DEF ReleaseDestroy
<1>11. CASE Touch(u)
  <2>1. PICK r \in Resources : entry' = [entry EXCEPT ![r].lastAccess = epoch]
    BY <1>11 DEF Touch
  <2>2. entry' \in [Resources -> Entry]
    BY <2>1, EntryUpdates
  <2> QED
    BY <1>3, <1>11, <2>2 DEF Touch, UserType, Maybe
<1>12. CASE MarkDirty(u)
  <2>1. PICK r \in Resources, dirty \in BOOLEAN :
            entry' = [entry EXCEPT ![r].dirty = dirty,
                                   ![r].lastAccess = IF dirty THEN epoch ELSE @]
    BY <1>12 DEF MarkDirty
  <2>2. (IF dirty THEN epoch ELSE entry[r].lastAccess) \in Nat
    BY DEF Entry
  <2>3. entry' \in [Resources -> Entry]
    BY <2>1, <2>2, EntryUpdates
  <2> QED
    BY <1>3, <1>12, <2>3 DEF MarkDirty, UserType, Maybe
<1> QED
  BY <1>4, <1>5, <1>6, <1>7, <1>8, <1>9, <1>10, <1>11, <1>12 DEF User

\* A keeper's step keeps the types.
LEMMA KeeperTypes ==
    ASSUME IInv, NEW k \in Keepers, Keeper(k)
    PROVE  TypeOK'
<1> USE DEF IInv, TypeOK
<1>1. \A from : \A to \in KeeperPC : KeeperGoto(k, from, to) => keeper' \in [Keepers -> KeeperType]
  BY KeeperMoves
<1>2. keeper \in [Keepers -> KeeperType] /\ keeper[k] \in KeeperType /\ Return(k) \in KeeperPC
  BY DEF KeeperType, Maybe, Return, KeeperPC
<1>3. ASSUME keeper' \in [Keepers -> KeeperType], entry' \in [Resources -> Entry],
             job' \in [Tickets -> JobType], entries' \subseteq Resources, epoch' \in Nat,
             alive' \in BOOLEAN, collecting' \in BOOLEAN, UNCHANGED <<user, sure>>
      PROVE  TypeOK'
  BY <1>3 DEF KeeperType, JobType, Maybe
<1>4. job \in [Tickets -> JobType]
  BY DEF JobType, Maybe
<1>5. IdleKeeper \in KeeperType
  BY RequestType DEF IdleKeeper, KeeperType, KeeperPC, Maybe
<1>6. CASE RegisterResource(k)
  <2>1. PICK r \in Resources :
            /\ entries' = entries \cup {r}
            /\ entry' = [entry EXCEPT ![r].payload = TRUE, ![r].lastAccess = epoch]
    BY <1>6 DEF RegisterResource
  <2>2. UNCHANGED <<epoch, alive, collecting, user, keeper, job, sure>>
    BY <1>6 DEF RegisterResource
  <2> QED
    BY <1>2, <1>3, <1>4, <2>1, <2>2, EntryUpdates
<1>7. CASE AdvanceEpoch(k)
  BY <1>2, <1>3, <1>4, <1>7 DEF AdvanceEpoch
<1>8. CASE ScheduleCall(k)
  <2>1. PICK r \in Resources, q \in Request :
            keeper' = [keeper EXCEPT ![k].pc = "s_idle", ![k].r = r, ![k].req = q]
    BY <1>8, ResourceAssumption DEF ScheduleCall
  <2>2. keeper' \in [Keepers -> KeeperType]
    BY <1>2, <2>1 DEF KeeperType, KeeperPC, Maybe
  <2> QED
    BY <1>3, <1>4, <1>8, <2>2 DEF ScheduleCall
<1>9. CASE ScheduleIdle(k)
  <2>1. PICK to \in KeeperPC : KeeperGoto(k, "s_idle", to)
    BY <1>2, <1>9 DEF ScheduleIdle, KeeperPC
  <2> QED
    BY <1>1, <1>3, <1>4, <1>9, <2>1 DEF ScheduleIdle
<1>10. CASE ScheduleDirty(k)
  <2>1. PICK to \in KeeperPC : KeeperGoto(k, "s_dirty", to)
    BY <1>2, <1>10 DEF ScheduleDirty, KeeperPC
  <2> QED
    BY <1>1, <1>3, <1>4, <1>10, <2>1 DEF ScheduleDirty
<1>11. CASE ScheduleClaim(k)
  <2>1. PICK to \in KeeperPC : KeeperGoto(k, "s_claim", to)
    BY <1>2, <1>11 DEF ScheduleClaim, KeeperPC
  <2>2. keeper[k].r \in Resources
    BY <2>1 DEF KeeperGoto, Named
  <2>3. entry' \in [Resources -> Entry]
    BY <1>11, <2>2, EntryUpdates DEF ScheduleClaim
  <2> QED
    BY <1>1, <1>3, <1>4, <1>11, <2>1, <2>3 DEF ScheduleClaim
<1>12. CASE ScheduleSubmit(k)
  <2>1. KeeperGoto(k, "s_submit", Return(k))
    BY <1>12 DEF ScheduleSubmit
  <2>2. keeper[k].r \in Resources /\ keeper[k].req \in Request
    BY <1>2, <2>1 DEF KeeperGoto, Named, KeeperType
  <2>3. entry' \in [Resources -> Entry]
    <3>1. PICK r \in Resources : r = keeper[k].r
      BY <2>2
    <3>2. entry' = entry \/ entry' = [entry EXCEPT ![r].inFlight = FALSE]
      BY <1>12, <3>1 DEF ScheduleSubmit
    <3>3. [entry EXCEPT ![r].inFlight = FALSE] \in [Resources -> Entry]
      BY EntryUpdates
    <3> QED
      BY <3>2, <3>3
  <2>4. job' \in [Tickets -> JobType]
    BY <1>4, <1>12, <2>2 DEF ScheduleSubmit, JobType, JobPC, Maybe
  <2> QED
    BY <1>1, <1>2, <1>3, <1>12, <2>1, <2>3, <2>4 DEF ScheduleSubmit
<1>13. CASE Sweep(k)
  <2>1. PICK q \in Request :
            keeper' = [keeper EXCEPT ![k].pc = "sweep", ![k].req = q, ![k].todo = entries,
                                     ![k].at = epoch]
    BY <1>13, ResourceAssumption DEF Sweep
  <2>2. keeper' \in [Keepers -> KeeperType]
    BY <1>2, <2>1 DEF KeeperType, KeeperPC
  <2> QED
    BY <1>3, <1>4, <1>13, <2>2 DEF Sweep
<1>14. CASE SweepNext(k)
  <2>1. PICK r \in keeper[k].todo :
            \/ keeper' = [keeper EXCEPT ![k] = [@ EXCEPT !.pc = "s_idle", !.r = r, !.todo = keeper[k].todo \ {r}]]
            \/ keeper' = [keeper EXCEPT ![k] = IdleKeeper]
            \/ keeper' = [keeper EXCEPT ![k] = [@ EXCEPT !.todo = keeper[k].todo \ {r}]]
    BY <1>14 DEF SweepNext
  <2>2. r \in Resources /\ keeper[k].todo \ {r} \in SUBSET Resources
    BY <1>2 DEF KeeperType
  <2>3. /\ [keeper[k] EXCEPT !.pc = "s_idle", !.r = r, !.todo = keeper[k].todo \ {r}] \in KeeperType
        /\ [keeper[k] EXCEPT !.todo = keeper[k].todo \ {r}] \in KeeperType
    BY <1>2, <2>2 DEF KeeperType, KeeperPC, Maybe
  <2>4. keeper' \in [Keepers -> KeeperType]
    BY <1>2, <1>5, <2>1, <2>3
  <2> QED
    BY <1>3, <1>4, <1>14, <2>4 DEF SweepNext
<1>15. CASE CollectRetired(k)
  <2>1. keeper' \in [Keepers -> KeeperType]
    BY <1>2, <1>15 DEF CollectRetired, KeeperType, KeeperPC
  <2> QED
    BY <1>3, <1>4, <1>15, <2>1 DEF CollectRetired
<1>16. CASE CollectNext(k)
  <2>1. CASE keeper[k].todo = {}
    BY <1>2, <1>3, <1>4, <1>5, <1>16, <2>1 DEF CollectNext
  <2>2. CASE keeper[k].todo # {}
    <3>1. PICK r \in keeper[k].todo, to \in {"c_erase", "collect"} :
              keeper' = [keeper EXCEPT ![k].pc = to, ![k].r = r, ![k].todo = @ \ {r}]
      BY <1>16, <2>2 DEF CollectNext
    <3>2. r \in Resources
      BY <1>2 DEF KeeperType
    <3>3. keeper' \in [Keepers -> KeeperType]
      BY <1>2, <3>1, <3>2 DEF KeeperType, KeeperPC, Maybe
    <3> QED
      BY <1>3, <1>4, <1>16, <2>2, <3>3 DEF CollectNext
  <2> QED
    BY <2>1, <2>2
<1>17. CASE CollectErase(k)
  <2>1. KeeperGoto(k, "c_erase", "collect") /\ "collect" \in KeeperPC
    BY <1>17 DEF CollectErase, KeeperPC
  <2>2. keeper[k].r \in Resources
    BY <2>1 DEF KeeperGoto, Named
  <2>3. entry' \in [Resources -> Entry]
    BY <1>17, <2>2, EntryUpdates DEF CollectErase, destroy_payload_if_needed
  <2> QED
    BY <1>1, <1>3, <1>4, <1>17, <2>1, <2>3 DEF CollectErase
<1>18. CASE Destroy(k)
  <2>1. \A r \in Resources : [entry[r] EXCEPT !.payload = FALSE] \in Entry
    BY EntryFields
  <2>2. entry' \in [Resources -> Entry]
    BY <1>18, <2>1 DEF Destroy
  <2> QED
    BY <1>2, <1>3, <1>4, <1>18, <2>2 DEF Destroy
<1> QED
  BY <1>6, <1>7, <1>8, <1>9, <1>10, <1>11, <1>12, <1>13, <1>14, <1>15, <1>16, <1>17, <1>18
     DEF Keeper

\* A job's step keeps the types.
LEMMA JobTypes ==
    ASSUME IInv, NEW j \in Tickets, Job(j)
    PROVE  TypeOK'
<1> USE DEF IInv, TypeOK
<1>1. \A from : \A to \in JobPC : JobGoto(j, from, to) => job' \in [Tickets -> JobType]
  BY JobMoves
<1>2. job[j].pc \notin {"none", "over", "lost"} => job[j].r \in Resources
  BY DEF Named
<1>3. ASSUME job' \in [Tickets -> JobType], entry' \in [Resources -> Entry],
             UNCHANGED <<entries, epoch, alive, collecting, user, keeper, sure>>
      PROVE  TypeOK'
  BY <1>3 DEF JobType, Maybe
<1>4. CASE JobDrop(j) \/ JobRun(j) \/ JobMaintain(j) \/ JobResume(j) \/ JobLeases(j)
  <2>1. PICK from, to \in JobPC : JobGoto(j, from, to)
    BY <1>4 DEF JobDrop, JobRun, JobMaintain, JobResume, JobLeases, JobPC
  <2> QED
    BY <1>1, <1>3, <1>4, <2>1 DEF JobDrop, JobRun, JobMaintain, JobResume, JobLeases
<1>5. CASE JobClean(j)
  <2>1. PICK to \in JobPC : JobGoto(j, "m_clean", to)
    BY <1>5 DEF JobClean, JobPC
  <2>2. /\ job[j].r \in Resources /\ job[j].at \in Nat
        /\ (entry[job[j].r].dirty /\ ~job[j].req.clear) \in BOOLEAN
    BY <1>2, <2>1 DEF JobGoto
  <2>3. entry' \in [Resources -> Entry]
    BY <1>5, <2>2, EntryUpdates DEF JobClean
  <2> QED
    BY <1>1, <1>3, <1>5, <2>1, <2>3 DEF JobClean
<1>6. CASE JobRetire(j)
  <2>1. JobGoto(j, "m_retire", "m_unclaim") /\ "m_unclaim" \in JobPC
    BY <1>6 DEF JobRetire, JobPC
  <2>2. entry' \in [Resources -> Entry]
    BY <1>2, <1>6, <2>1, EntryUpdates DEF JobRetire, JobGoto
  <2> QED
    BY <1>1, <1>3, <1>6, <2>1, <2>2 DEF JobRetire
<1>7. CASE JobClear(j)
  <2>1. PICK from \in {"m_clear", "m_unclaim"}, to \in JobPC : JobGoto(j, from, to)
    BY <1>7 DEF JobClear, JobPC
  <2>2. entry' \in [Resources -> Entry]
    BY <1>2, <1>7, <2>1, EntryUpdates DEF JobClear, JobGoto
  <2> QED
    BY <1>1, <1>3, <1>7, <2>1, <2>2 DEF JobClear
<1>8. CASE JobDestroy(j)
  <2>1. JobGoto(j, "m_destroy", "over") /\ "over" \in JobPC
    BY <1>8 DEF JobDestroy, JobPC
  <2>2. entry' \in [Resources -> Entry]
    BY <1>2, <1>8, <2>1, EntryUpdates DEF JobDestroy, JobGoto, destroy_payload_if_needed
  <2> QED
    BY <1>1, <1>3, <1>8, <2>1, <2>2 DEF JobDestroy
<1> QED
  BY <1>4, <1>5, <1>6, <1>7, <1>8 DEF Job

-----------------------------------------------------------------------------
(* Names.                                                                   *)

\* A call keeps its resource until it ends.
LEMMA NamedStep ==
    ASSUME IInv, [Next]_vars
    PROVE  Named'
<1> USE DEF IInv
<1>1. ASSUME NEW u \in Users, User(u)
      PROVE  Named'
  <2>1. UNCHANGED <<keeper, job>>
    BY <1>1, UserFrame
  <2>2. user'[u].pc # "idle" => user'[u].r \in Resources
    <3>1. CASE Acquire(u)
      BY <3>1 DEF Acquire, TypeOK
    <3>2. CASE LeaseValid(u) \/ Touch(u) \/ MarkDirty(u)
      BY <3>2 DEF LeaseValid, Touch, MarkDirty, Named
    <3>3. CASE AcquireCount(u) \/ AcquireTouch(u) \/ LeaseReset(u) \/ ReleaseTest(u) \/ ReleaseDestroy(u)
      <4>1. PICK from \in UserPC \ {"idle"}, to \in UserPC : UserGoto(u, from, to)
        BY <3>3 DEF AcquireCount, AcquireTouch, LeaseReset, ReleaseTest, ReleaseDestroy, UserPC
      <4> QED
        BY <4>1, UserMoves DEF Named
    <3> QED
      BY <1>1, <3>1, <3>2, <3>3 DEF User
  <2>3. \A v \in Users \ {u} : user'[v] = user[v]
    BY <1>1 DEF User, Acquire, AcquireCount, AcquireTouch, LeaseValid, LeaseReset, ReleaseTest,
                ReleaseDestroy, Touch, MarkDirty, UserGoto, TypeOK
  <2> QED
    BY <2>1, <2>2, <2>3 DEF Named
<1>2. ASSUME NEW k \in Keepers, Keeper(k)
      PROVE  Named'
  <2> DEFINE P == {"s_idle", "s_dirty", "s_claim", "s_submit", "c_erase"}
  <2>1. UNCHANGED user
    BY <1>2, KeeperFrame
  <2>2. ASSUME NEW from \in P, NEW to \in KeeperPC, KeeperGoto(k, from, to)
        PROVE  /\ keeper'[k].pc \in P => keeper'[k].r \in Resources
               /\ \A x \in Keepers \ {k} : keeper'[x] = keeper[x]
    BY <2>2, KeeperMoves DEF Named
  <2>3. /\ keeper'[k].pc \in P => keeper'[k].r \in Resources
        /\ \A x \in Keepers \ {k} : keeper'[x] = keeper[x]
    <3>1. CASE RegisterResource(k) \/ AdvanceEpoch(k) \/ Destroy(k)
      <4>1. UNCHANGED keeper
        BY <3>1 DEF RegisterResource, AdvanceEpoch, Destroy
      <4> QED
        BY <4>1 DEF Named
    <3>2. CASE ScheduleCall(k)
      BY <3>2 DEF ScheduleCall, TypeOK
    <3>3. CASE ScheduleIdle(k) \/ ScheduleDirty(k) \/ ScheduleClaim(k) \/ ScheduleSubmit(k) \/ CollectErase(k)
      <4>1. PICK from \in P, to \in KeeperPC : KeeperGoto(k, from, to)
        BY <3>3 DEF ScheduleIdle, ScheduleDirty, ScheduleClaim, ScheduleSubmit, CollectErase, Return, KeeperPC
      <4> QED
        BY <2>2, <4>1
    <3>4. CASE Sweep(k)
      BY <3>4 DEF Sweep, TypeOK
    <3>5. CASE SweepNext(k)
      <4>1. keeper[k].todo \subseteq Resources /\ keeper[k].pc = "sweep"
        BY <3>5 DEF SweepNext, TypeOK
      <4> QED
        BY <3>5, <4>1 DEF SweepNext, TypeOK, IdleKeeper
    <3>6. CASE CollectRetired(k)
      BY <3>6 DEF CollectRetired, TypeOK
    <3>7. CASE CollectNext(k)
      <4>1. CASE keeper[k].todo = {}
        BY <3>7, <4>1 DEF CollectNext, TypeOK, IdleKeeper
      <4>2. CASE keeper[k].todo # {}
        <5>1. PICK r \in keeper[k].todo, to \in {"c_erase", "collect"} :
                  keeper' = [keeper EXCEPT ![k].pc = to, ![k].r = r, ![k].todo = @ \ {r}]
          BY <3>7, <4>2 DEF CollectNext
        <5>2. r \in Resources
          BY DEF TypeOK
        <5> QED
          BY <5>1, <5>2 DEF TypeOK
      <4> QED
        BY <4>1, <4>2
    <3> QED
      BY <1>2, <3>1, <3>2, <3>3, <3>4, <3>5, <3>6, <3>7 DEF Keeper
  <2>4. \A j \in Tickets : job'[j].pc \notin {"none", "over", "lost"} => job'[j].r \in Resources
    <3>1. CASE ScheduleSubmit(k)
      <4>1. keeper[k].r \in Resources
        BY <3>1 DEF ScheduleSubmit, KeeperGoto, Named
      <4> QED
        BY <3>1, <4>1 DEF ScheduleSubmit, TypeOK, Named
    <3>2. CASE ~ScheduleSubmit(k)
      <4>1. UNCHANGED job
        BY <1>2, <3>2 DEF Keeper, RegisterResource, AdvanceEpoch, ScheduleCall, ScheduleIdle, ScheduleDirty,
              ScheduleClaim, Sweep, SweepNext, CollectRetired, CollectNext, CollectErase, Destroy
      <4> QED
        BY <4>1 DEF Named
    <3> QED
      BY <3>1, <3>2
  <2> QED
    BY <2>1, <2>3, <2>4 DEF Named
<1>3. ASSUME NEW j \in Tickets, Job(j)
      PROVE  Named'
  <2>1. UNCHANGED <<user, keeper>>
    BY <1>3, JobFrame
  <2>2. PICK from \in JobPC \ {"none", "over", "lost"}, to \in JobPC : JobGoto(j, from, to)
    BY <1>3 DEF Job, JobDrop, JobRun, JobMaintain, JobResume, JobClean, JobRetire, JobClear,
                JobLeases, JobDestroy, JobPC
  <2> QED
    BY <2>1, <2>2, JobMoves DEF Named
<1>4. CASE UNCHANGED vars
  BY <1>4 DEF vars, Named
<1> QED
  BY <1>1, <1>2, <1>3, <1>4 DEF Next

-----------------------------------------------------------------------------
(* The flag maintenanceInFlight.                                            *)

\* Claims that only go away, with the flag of every one that stays, stay apart.
LEMMA ClaimsKept ==
    ASSUME IInv,
           \A k \in Keepers : keeper'[k].pc = "s_submit" =>
               /\ keeper[k].pc = "s_submit" /\ keeper'[k].r = keeper[k].r
               /\ entry'[keeper[k].r].inFlight,
           \A j \in Tickets : job'[j].pc \in LivePC =>
               /\ job[j].pc \in LivePC /\ job'[j].r = job[j].r
               /\ entry'[job[j].r].inFlight
    PROVE  OneMaintenance' /\ Claimed'
<1>1. OneMaintenance'
  BY DEF IInv, OneMaintenance
<1>2. Claimed'
  BY DEF IInv, Claimed
<1> QED
  BY <1>1, <1>2

\* A keeper's step that neither claims nor submits leaves the claims alone.
LEMMA KeeperClaims ==
    ASSUME TypeOK, Named, NEW k \in Keepers, Keeper(k), ~ScheduleClaim(k), ~ScheduleSubmit(k)
    PROVE  /\ UNCHANGED job
           /\ \A r \in Resources : entry'[r].inFlight = entry[r].inFlight
           /\ \A x \in Keepers : keeper'[x].pc = "s_submit" => keeper'[x] = keeper[x]
<1> USE DEF TypeOK, Entry
<1>1. ASSUME NEW from, NEW to \in KeeperPC \ {"s_submit"}, KeeperGoto(k, from, to)
      PROVE  \A x \in Keepers : keeper'[x].pc = "s_submit" => keeper'[x] = keeper[x]
  BY <1>1, KeeperMoves
<1>2. CASE RegisterResource(k)
  <2>1. PICK r \in Resources :
            entry' = [entry EXCEPT ![r].payload = TRUE, ![r].lastAccess = epoch]
    BY <1>2 DEF RegisterResource
  <2>2. UNCHANGED <<keeper, job>>
    BY <1>2 DEF RegisterResource
  <2> QED
    BY <2>1, <2>2
<1>3. CASE AdvanceEpoch(k)
  BY <1>3 DEF AdvanceEpoch
<1>4. CASE ScheduleCall(k)
  BY <1>4 DEF ScheduleCall
<1>5. CASE ScheduleIdle(k) \/ ScheduleDirty(k)
  <2>1. PICK from \in KeeperPC, to \in KeeperPC \ {"s_submit"} : KeeperGoto(k, from, to)
    BY <1>5 DEF ScheduleIdle, ScheduleDirty, Return, KeeperPC
  <2> QED
    BY <1>1, <1>5, <2>1 DEF ScheduleIdle, ScheduleDirty
<1>6. CASE Sweep(k)
  BY <1>6 DEF Sweep
<1>7. CASE SweepNext(k)
  BY <1>7 DEF SweepNext, IdleKeeper
<1>8. CASE CollectRetired(k)
  BY <1>8 DEF CollectRetired
<1>9. CASE CollectNext(k)
  <2>1. CASE keeper[k].todo = {}
    BY <1>9, <2>1 DEF CollectNext, IdleKeeper
  <2>2. CASE keeper[k].todo # {}
    <3>1. PICK r \in keeper[k].todo, to \in {"c_erase", "collect"} :
              keeper' = [keeper EXCEPT ![k].pc = to, ![k].r = r, ![k].todo = @ \ {r}]
      BY <1>9, <2>2 DEF CollectNext
    <3>2. UNCHANGED <<entry, job>>
      BY <1>9 DEF CollectNext
    <3> QED
      BY <3>1, <3>2
  <2> QED
    BY <2>1, <2>2
<1>10. CASE CollectErase(k)
  <2>1. KeeperGoto(k, "c_erase", "collect") /\ "collect" \in KeeperPC \ {"s_submit"}
    BY <1>10 DEF CollectErase, KeeperPC
  <2> QED
    BY <1>1, <1>10, <2>1 DEF CollectErase, destroy_payload_if_needed
<1>11. CASE Destroy(k)
  BY <1>11 DEF Destroy
<1> QED
  BY <1>2, <1>3, <1>4, <1>5, <1>6, <1>7, <1>8, <1>9, <1>10, <1>11 DEF Keeper

\* The exchange finds the flag clear only when nobody has the claim.
LEMMA ClaimStep ==
    ASSUME IInv, NEW k \in Keepers, ScheduleClaim(k)
    PROVE  OneMaintenance' /\ Claimed'
<1> USE DEF IInv
<1>1. PICK to \in KeeperPC : /\ KeeperGoto(k, "s_claim", to)
                             /\ entry[keeper[k].r].inFlight => to # "s_submit"
  BY DEF ScheduleClaim, Return, KeeperPC
<1>2. PICK r \in Resources : r = keeper[k].r
  BY <1>1 DEF KeeperGoto, Named
<1>3. /\ keeper[k].pc = "s_claim" /\ keeper'[k].pc = to
      /\ to # "idle" => keeper'[k].r = r
      /\ \A x \in Keepers \ {k} : keeper'[x] = keeper[x]
  BY <1>1, <1>2, KeeperMoves
<1>4. entry'[r].inFlight /\ \A x \in Resources : entry[x].inFlight => entry'[x].inFlight
  BY <1>2 DEF ScheduleClaim, TypeOK, Entry
<1>5. /\ UNCHANGED job
      /\ \A j \in Tickets : job[j].pc \in LivePC => job[j].r \in Resources
      /\ \A x \in Keepers : keeper[x].pc = "s_submit" => keeper[x].r \in Resources
  BY DEF ScheduleClaim, Named, LivePC
<1>6. CASE entry[r].inFlight
  <2>1. \A x \in Keepers : keeper'[x].pc = "s_submit" =>
            /\ keeper[x].pc = "s_submit" /\ keeper'[x].r = keeper[x].r
            /\ entry'[keeper[x].r].inFlight
    BY <1>1, <1>2, <1>3, <1>4, <1>5, <1>6 DEF Claimed
  <2>2. \A j \in Tickets : job'[j].pc \in LivePC =>
            /\ job[j].pc \in LivePC /\ job'[j].r = job[j].r /\ entry'[job[j].r].inFlight
    BY <1>4, <1>5 DEF OneMaintenance
  <2> QED
    BY <2>1, <2>2, ClaimsKept
<1>7. CASE ~entry[r].inFlight
  <2>1. \A j \in Tickets : job[j].pc \in LivePC => job[j].r # r /\ entry'[job[j].r].inFlight
    BY <1>4, <1>5, <1>7 DEF OneMaintenance
  <2>2. \A x \in Keepers : keeper[x].pc = "s_submit" => keeper[x].r # r /\ entry'[keeper[x].r].inFlight
    BY <1>4, <1>5, <1>7 DEF Claimed
  <2>3. \A x \in Keepers : keeper'[x].pc = "s_submit" =>
            \/ x = k /\ keeper'[x].r = r
            \/ x # k /\ keeper'[x] = keeper[x]
    BY <1>3
  <2>4. OneMaintenance'
    BY <1>5, <2>1, <2>2, <2>3 DEF OneMaintenance
  <2>5. Claimed'
    BY <1>4, <2>2, <2>3 DEF Claimed
  <2> QED
    BY <2>4, <2>5
<1> QED
  BY <1>6, <1>7

\* submit() hands the claim to the job; a submit() that throws gives it up.
LEMMA SubmitStep ==
    ASSUME IInv, NEW k \in Keepers, ScheduleSubmit(k)
    PROVE  OneMaintenance' /\ Claimed'
<1> USE DEF IInv
<1>1. PICK to \in KeeperPC : KeeperGoto(k, "s_submit", to) /\ to # "s_submit"
  BY DEF ScheduleSubmit, Return, KeeperPC
<1>2. PICK r \in Resources : r = keeper[k].r
  BY <1>1 DEF KeeperGoto, Named
<1>3. /\ keeper[k].pc = "s_submit" /\ keeper'[k].pc # "s_submit"
      /\ \A x \in Keepers \ {k} : keeper'[x] = keeper[x]
  BY <1>1, KeeperMoves
<1>4. \A x \in Keepers : keeper'[x].pc = "s_submit" =>
          keeper'[x] = keeper[x] /\ keeper[x].r # r /\ keeper[x].r \in Resources
  BY <1>2, <1>3 DEF Claimed, Named
<1>5. \A j \in Tickets : job[j].pc \in LivePC => job[j].r # r /\ job[j].r \in Resources
  BY <1>2, <1>3 DEF OneMaintenance, Named, LivePC
<1>6. CASE entry' = [entry EXCEPT ![keeper[k].r].inFlight = FALSE] /\ UNCHANGED job
  <2>1. \A x \in Resources \ {r} : entry'[x].inFlight = entry[x].inFlight
    BY <1>2, <1>6 DEF TypeOK, Entry
  <2>2. \A x \in Keepers : keeper'[x].pc = "s_submit" =>
            /\ keeper[x].pc = "s_submit" /\ keeper'[x].r = keeper[x].r
            /\ entry'[keeper[x].r].inFlight
    BY <1>4, <2>1 DEF Claimed
  <2>3. \A j \in Tickets : job'[j].pc \in LivePC =>
            /\ job[j].pc \in LivePC /\ job'[j].r = job[j].r /\ entry'[job[j].r].inFlight
    BY <1>5, <1>6, <2>1 DEF OneMaintenance
  <2> QED
    BY <2>2, <2>3, ClaimsKept
<1>7. CASE /\ UNCHANGED entry
           /\ \E j \in Tickets : job' = [job EXCEPT ![j] = [pc |-> "queued", r |-> keeper[k].r,
                                                            at |-> epoch, req |-> keeper[k].req]]
  <2>1. PICK j \in Tickets : job' = [job EXCEPT ![j] = [pc |-> "queued", r |-> keeper[k].r,
                                                        at |-> epoch, req |-> keeper[k].req]]
    BY <1>7
  <2>2. job'[j].r = r /\ \A i \in Tickets \ {j} : job'[i] = job[i]
    BY <1>2, <2>1 DEF TypeOK
  <2>3. entry[r].inFlight
    BY <1>2, <1>3 DEF Claimed
  <2>4. OneMaintenance'
    BY <1>4, <1>5, <1>7, <2>2, <2>3 DEF OneMaintenance
  <2>5. Claimed'
    BY <1>4, <1>7 DEF Claimed
  <2> QED
    BY <2>4, <2>5
<1> QED
  BY <1>6, <1>7 DEF ScheduleSubmit

\* A job gives the claim up when it clears the flag, and not before.
LEMMA JobClaims ==
    ASSUME IInv, NEW j \in Tickets, Job(j)
    PROVE  OneMaintenance' /\ Claimed'
<1> USE DEF IInv
<1>1. UNCHANGED keeper
  BY JobFrame
<1>2. \A i \in Tickets : job[i].pc \in LivePC => job[i].r \in Resources
  BY DEF Named, LivePC
<1>3. \A k \in Keepers : keeper[k].pc = "s_submit" => keeper[k].r \in Resources
  BY DEF Named
<1>4. CASE JobClear(j)
  <2>1. PICK from \in {"m_clear", "m_unclaim"}, to \in {"over", "m_leases"} : JobGoto(j, from, to)
    BY <1>4 DEF JobClear
  <2>2. /\ job[j].pc \in LivePC /\ job'[j].pc \notin LivePC
        /\ \A i \in Tickets \ {j} : job'[i] = job[i]
    BY <2>1, JobMoves DEF LivePC, JobPC
  <2>3. PICK r \in Resources : r = job[j].r
    BY <1>2, <2>2
  <2>4. \A x \in Resources \ {r} : entry'[x].inFlight = entry[x].inFlight
    BY <1>4, <2>3 DEF JobClear, TypeOK, Entry
  <2>5. \A k \in Keepers : keeper'[k].pc = "s_submit" =>
            /\ keeper[k].pc = "s_submit" /\ keeper'[k].r = keeper[k].r
            /\ entry'[keeper[k].r].inFlight
    BY <1>1, <1>3, <2>2, <2>3, <2>4 DEF OneMaintenance, Claimed
  <2>6. \A i \in Tickets : job'[i].pc \in LivePC =>
            /\ job[i].pc \in LivePC /\ job'[i].r = job[i].r /\ entry'[job[i].r].inFlight
    BY <1>2, <2>2, <2>3, <2>4 DEF OneMaintenance
  <2> QED
    BY <2>5, <2>6, ClaimsKept
<1>5. CASE ~JobClear(j)
  <2>1. PICK from \in JobPC, to \in JobPC :
            JobGoto(j, from, to) /\ (to \in LivePC => from \in LivePC)
    BY <1>5 DEF Job, JobDrop, JobRun, JobMaintain, JobResume, JobClean, JobRetire,
                JobLeases, JobDestroy, JobPC, LivePC
  <2>2. \A i \in Tickets : job'[i].pc \in LivePC => job[i].pc \in LivePC /\ job'[i].r = job[i].r
    BY <2>1, JobMoves DEF LivePC
  <2>3. \A x \in Resources : entry'[x].inFlight = entry[x].inFlight
    BY <1>5 DEF Job, JobDrop, JobRun, JobMaintain, JobResume, JobClean, JobRetire,
                JobLeases, JobDestroy, destroy_payload_if_needed, TypeOK, Entry
  <2>4. \A k \in Keepers : keeper'[k].pc = "s_submit" =>
            /\ keeper[k].pc = "s_submit" /\ keeper'[k].r = keeper[k].r
            /\ entry'[keeper[k].r].inFlight
    BY <1>1, <1>3, <2>3 DEF Claimed
  <2>5. \A i \in Tickets : job'[i].pc \in LivePC =>
            /\ job[i].pc \in LivePC /\ job'[i].r = job[i].r /\ entry'[job[i].r].inFlight
    BY <1>2, <2>2, <2>3 DEF OneMaintenance
  <2> QED
    BY <2>4, <2>5, ClaimsKept
<1> QED
  BY <1>4, <1>5

\* No step makes two owners of the flag, or an owner without it.
LEMMA ClaimsStep ==
    ASSUME IInv, [Next]_vars
    PROVE  OneMaintenance' /\ Claimed'
<1>1. /\ \A j \in Tickets : job[j].pc \in LivePC => job[j].r \in Resources
      /\ \A k \in Keepers : keeper[k].pc = "s_submit" => keeper[k].r \in Resources
  BY DEF IInv, Named, LivePC
<1>2. ASSUME UNCHANGED job,
             \A r \in Resources : entry'[r].inFlight = entry[r].inFlight,
             \A k \in Keepers : keeper'[k].pc = "s_submit" => keeper'[k] = keeper[k]
      PROVE  OneMaintenance' /\ Claimed'
  <2>1. \A k \in Keepers : keeper'[k].pc = "s_submit" =>
            /\ keeper[k].pc = "s_submit" /\ keeper'[k].r = keeper[k].r
            /\ entry'[keeper[k].r].inFlight
    BY <1>1, <1>2 DEF IInv, Claimed
  <2>2. \A j \in Tickets : job'[j].pc \in LivePC =>
            /\ job[j].pc \in LivePC /\ job'[j].r = job[j].r /\ entry'[job[j].r].inFlight
    BY <1>1, <1>2 DEF IInv, OneMaintenance
  <2> QED
    BY <2>1, <2>2, ClaimsKept
<1>3. CASE \E u \in Users : User(u)
  BY <1>2, <1>3, UserFrame DEF IInv
<1>4. ASSUME NEW k \in Keepers, Keeper(k)
      PROVE  OneMaintenance' /\ Claimed'
  <2>1. CASE ScheduleClaim(k)
    BY <2>1, ClaimStep
  <2>2. CASE ScheduleSubmit(k)
    BY <2>2, SubmitStep
  <2>3. CASE ~ScheduleClaim(k) /\ ~ScheduleSubmit(k)
    BY <1>2, <1>4, <2>3, KeeperClaims DEF IInv
  <2> QED
    BY <2>1, <2>2, <2>3
<1>5. CASE \E j \in Tickets : Job(j)
  BY <1>5, JobClaims
<1>6. CASE UNCHANGED vars
  BY <1>2, <1>6 DEF vars
<1> QED
  BY <1>3, <1>4, <1>5, <1>6 DEF Next

-----------------------------------------------------------------------------
(* Leases that have answered valid().                                       *)

\* A lease keeps its resource while it is held, and gives valid() up with it.
LEMMA SureStep ==
    ASSUME IInv, NEW u \in Users, User(u)
    PROVE  /\ SureHold'
           /\ \A v \in sure' : user'[v].r = user[v].r
           /\ \A v \in sure' : v \in sure \/ ~entry[user[v].r].retired
<1> USE DEF IInv, SureHold, TypeOK
<1>1. CASE Acquire(u)
  BY <1>1 DEF Acquire
<1>2. CASE LeaseValid(u)
  BY <1>2 DEF LeaseValid
<1>3. CASE LeaseReset(u)
  <2>1. PICK to \in UserPC : UserGoto(u, "held", to)
    BY <1>3 DEF LeaseReset, UserPC
  <2>2. \A v \in Users \ {u} : user'[v] = user[v]
    BY <2>1, UserMoves
  <2> QED
    BY <1>3, <2>2 DEF LeaseReset
<1>4. CASE AcquireCount(u) \/ AcquireTouch(u) \/ ReleaseTest(u) \/ ReleaseDestroy(u)
  <2>1. PICK from \in UserPC \ {"held"}, to \in UserPC : UserGoto(u, from, to)
    BY <1>4 DEF AcquireCount, AcquireTouch, ReleaseTest, ReleaseDestroy, UserPC
  <2>2. user[u].pc # "held" /\ \A v \in Users \ {u} : user'[v] = user[v]
    BY <2>1, UserMoves
  <2>3. sure' = sure
    BY <1>4 DEF AcquireCount, AcquireTouch, ReleaseTest, ReleaseDestroy
  <2> QED
    BY <2>2, <2>3
<1>5. CASE Touch(u) \/ MarkDirty(u)
  BY <1>5 DEF Touch, MarkDirty
<1> QED
  BY <1>1, <1>2, <1>3, <1>4, <1>5 DEF User

\* A resource that is retired and without such a lease stays so.
LEMMA UnleasedStep ==
    ASSUME IInv, [Next]_vars, NEW r \in Resources, Unleased(r)
    PROVE  Unleased(r)'
<1> USE DEF IInv
<1>1. ASSUME NEW u \in Users, User(u)
      PROVE  Unleased(r)'
  BY <1>1, SureStep, UserFrame DEF Unleased
<1>2. CASE \E k \in Keepers : Keeper(k)
  BY <1>2, KeeperFrame DEF Unleased
<1>3. CASE \E j \in Tickets : Job(j)
  BY <1>3, JobFrame DEF Unleased
<1>4. CASE UNCHANGED vars
  BY <1>4 DEF Unleased, vars
<1> QED
  BY <1>1, <1>2, <1>3, <1>4 DEF Next

\* Whoever reads a lease count of zero after the retirement has seen that.
LEMMA ZeroUnleased ==
    ASSUME IInv, NEW r \in Resources, entry[r].retired, entry[r].leaseCount = 0
    PROVE  Unleased(r)
<1>1. \A u \in sure : user[u].r = r => u \in Leased(r)
  BY DEF IInv, TypeOK, SureHold, Leased
<1>2. \A u \in Leased(r) : entry[r].leaseCount > 0
  BY LeasedFinite DEF IInv, LeasesCounted
<1> QED
  BY <1>1, <1>2 DEF Unleased

\* A keeper is about to erase only what it has seen retired and not leased.
LEMMA KeeperSaw ==
    ASSUME IInv, NEW k \in Keepers, Keeper(k)
    PROVE  /\ \A x \in Keepers : keeper'[x].pc = "c_erase" =>
                 keeper'[x] = keeper[x] \/ (keeper'[x].r \in Resources /\ Unleased(keeper'[x].r))
           /\ \A j \in Tickets : job'[j] = job[j] \/ job'[j].pc = "queued"
<1> USE DEF IInv, TypeOK
<1>1. ASSUME NEW from, NEW to \in KeeperPC \ {"c_erase"}, KeeperGoto(k, from, to)
      PROVE  \A x \in Keepers : keeper'[x].pc = "c_erase" => keeper'[x] = keeper[x]
  BY <1>1, KeeperMoves
<1>2. CASE RegisterResource(k) \/ AdvanceEpoch(k) \/ Destroy(k)
  <2>1. UNCHANGED <<keeper, job>>
    BY <1>2 DEF RegisterResource, AdvanceEpoch, Destroy
  <2> QED
    BY <2>1
<1>3. CASE ScheduleCall(k)
  BY <1>3 DEF ScheduleCall
<1>4. CASE ScheduleIdle(k) \/ ScheduleDirty(k) \/ ScheduleClaim(k) \/ CollectErase(k)
  <2>1. PICK from \in KeeperPC, to \in KeeperPC \ {"c_erase"} : KeeperGoto(k, from, to)
    <3>1. Return(k) \in KeeperPC \ {"c_erase"}
      BY DEF Return, KeeperPC
    <3>2. CASE ScheduleIdle(k)
      BY <3>1, <3>2 DEF ScheduleIdle, KeeperPC
    <3>3. CASE ScheduleDirty(k)
      BY <3>1, <3>3 DEF ScheduleDirty, KeeperPC
    <3>4. CASE ScheduleClaim(k)
      BY <3>1, <3>4 DEF ScheduleClaim, KeeperPC
    <3>5. CASE CollectErase(k)
      <4>1. KeeperGoto(k, "c_erase", "collect")
        BY <3>5 DEF CollectErase
      <4> QED
        BY <4>1 DEF KeeperPC
    <3> QED
      BY <1>4, <3>2, <3>3, <3>4, <3>5
  <2>2. UNCHANGED job
    BY <1>4 DEF ScheduleIdle, ScheduleDirty, ScheduleClaim, CollectErase
  <2> QED
    BY <1>1, <2>1, <2>2
<1>5. CASE ScheduleSubmit(k)
  <2>1. PICK to \in KeeperPC \ {"c_erase"} : KeeperGoto(k, "s_submit", to)
    BY <1>5 DEF ScheduleSubmit, Return, KeeperPC
  <2>2. \A j \in Tickets : job'[j] = job[j] \/ job'[j].pc = "queued"
    BY <1>5 DEF ScheduleSubmit
  <2> QED
    BY <1>1, <2>1, <2>2
<1>6. CASE Sweep(k)
  BY <1>6 DEF Sweep
<1>7. CASE SweepNext(k)
  BY <1>7 DEF SweepNext, IdleKeeper
<1>8. CASE CollectRetired(k)
  BY <1>8 DEF CollectRetired
<1>9. CASE CollectNext(k)
  <2>1. CASE keeper[k].todo = {}
    BY <1>9, <2>1 DEF CollectNext, IdleKeeper
  <2>2. CASE keeper[k].todo # {}
    <3>1. PICK r \in keeper[k].todo, to \in {"c_erase", "collect"} :
              /\ keeper' = [keeper EXCEPT ![k].pc = to, ![k].r = r, ![k].todo = @ \ {r}]
              /\ to = "c_erase" => entry[r].retired /\ entry[r].leaseCount = 0
      BY <1>9, <2>2 DEF CollectNext
    <3>2. r \in Resources /\ UNCHANGED job
      BY <1>9 DEF CollectNext
    <3>3. to = "c_erase" => Unleased(r)
      BY <3>1, <3>2, ZeroUnleased
    <3>4. /\ keeper'[k].pc = to /\ keeper'[k].r = r
          /\ \A x \in Keepers \ {k} : keeper'[x] = keeper[x]
      BY <3>1
    <3> QED
      BY <3>2, <3>3, <3>4
  <2> QED
    BY <2>1, <2>2
<1> QED
  BY <1>2, <1>3, <1>4, <1>5, <1>6, <1>7, <1>8, <1>9 DEF Keeper

\* A job retires its resource before it looks at the leases.
LEMMA JobSaw ==
    ASSUME IInv, NEW j \in Tickets, Job(j)
    PROVE  /\ \A i \in Tickets \ {j} : job'[i] = job[i]
           /\ job'[j].pc \in {"m_unclaim", "m_leases"} => entry'[job'[j].r].retired
           /\ job'[j].pc = "m_destroy" => job'[j].r \in Resources /\ Unleased(job'[j].r)
<1> USE DEF IInv, TypeOK
<1>1. PICK from \in JobPC \ {"none", "over", "lost"}, to \in JobPC : JobGoto(j, from, to)
  BY DEF Job, JobDrop, JobRun, JobMaintain, JobResume, JobClean, JobRetire, JobClear,
         JobLeases, JobDestroy, JobPC
<1>2. /\ \A i \in Tickets \ {j} : job'[i] = job[i]
      /\ job[j].pc = from /\ job'[j].pc = to
      /\ to \notin {"over", "lost"} => job'[j].r = job[j].r
  BY <1>1, JobMoves
<1>3. PICK r \in Resources : r = job[j].r
  BY <1>2 DEF Named
<1>4. CASE JobDrop(j) \/ JobRun(j) \/ JobMaintain(j) \/ JobResume(j) \/ JobClean(j) \/ JobDestroy(j)
  <2>1. \E p \in JobPC \ {"m_unclaim", "m_leases", "m_destroy"}, q \in JobPC : JobGoto(j, q, p)
    BY <1>4 DEF JobDrop, JobRun, JobMaintain, JobResume, JobClean, JobDestroy, JobPC
  <2>2. job'[j].pc \notin {"m_unclaim", "m_leases", "m_destroy"}
    BY <2>1, JobMoves
  <2> QED
    BY <1>2, <2>2
<1>5. CASE JobRetire(j)
  <2>1. JobGoto(j, "m_retire", "m_unclaim")
    BY <1>5 DEF JobRetire
  <2>2. job'[j].pc = "m_unclaim" /\ job'[j].r = r
    BY <1>3, <2>1, JobMoves DEF JobPC
  <2>3. entry'[r].retired
    BY <1>3, <1>5 DEF JobRetire, Entry
  <2> QED
    BY <1>2, <2>2, <2>3
<1>6. CASE JobClear(j)
  <2>1. \/ from = "m_clear" /\ JobGoto(j, "m_clear", "over")
        \/ from = "m_unclaim" /\ JobGoto(j, "m_unclaim", "m_leases")
    BY <1>2, <1>6 DEF JobClear, JobGoto
  <2>2. \/ job'[j].pc = "over"
        \/ job'[j].pc = "m_leases" /\ job'[j].r = r /\ entry[r].retired
    BY <1>2, <1>3, <2>1, JobMoves DEF JobPC, DestroyersSaw
  <2>3. entry[r].retired => entry'[r].retired
    BY JobFrame
  <2> QED
    BY <1>2, <2>2, <2>3
<1>7. CASE JobLeases(j)
  <2>1. PICK p \in {"m_destroy", "over"} :
            JobGoto(j, "m_leases", p) /\ (p = "m_destroy" => entry[r].leaseCount = 0)
    BY <1>3, <1>7 DEF JobLeases
  <2>2. job[j].pc = "m_leases" /\ job'[j].pc = p /\ (p = "m_destroy" => job'[j].r = r)
    BY <1>3, <2>1, JobMoves DEF JobPC
  <2>3. entry[r].retired
    BY <1>3, <2>2 DEF DestroyersSaw
  <2>4. p = "m_destroy" => Unleased(r)
    BY <2>1, <2>3, ZeroUnleased
  <2> QED
    BY <1>2, <2>1, <2>2, <2>4
<1> QED
  BY <1>4, <1>5, <1>6, <1>7 DEF Job

\* Whoever is about to destroy has seen the resource retired and not leased.
LEMMA DestroyersStep ==
    ASSUME IInv, [Next]_vars, Named'
    PROVE  DestroyersSaw'
<1> USE DEF IInv
<1>1. \A r \in Resources : Unleased(r) => Unleased(r)'
  BY UnleasedStep
<1>2. \A r \in Resources : entry[r].retired => entry'[r].retired
  BY UserFrame, KeeperFrame, JobFrame DEF Next, vars
<1>3. ASSUME NEW j \in Tickets, job'[j] = job[j]
      PROVE  /\ job'[j].pc \in {"m_unclaim", "m_leases"} => entry'[job'[j].r].retired
             /\ job'[j].pc = "m_destroy" => Unleased(job'[j].r)
             /\ job'[j].pc \in {"m_unclaim", "m_leases", "m_destroy"} => job'[j].r \in Resources
  BY <1>2, <1>3 DEF DestroyersSaw, Named
<1>4. ASSUME NEW k \in Keepers, keeper'[k] = keeper[k], keeper[k].pc = "c_erase"
      PROVE  Unleased(keeper'[k].r) /\ keeper'[k].r \in Resources
  BY <1>4 DEF DestroyersSaw, Named
<1>5. ASSUME \A j \in Tickets :
               /\ job'[j].pc \in {"m_unclaim", "m_leases"} => entry'[job'[j].r].retired
               /\ job'[j].pc = "m_destroy" => job'[j].r \in Resources /\ Unleased(job'[j].r),
             \A k \in Keepers : keeper'[k].pc = "c_erase" =>
               keeper'[k].r \in Resources /\ Unleased(keeper'[k].r)
      PROVE  DestroyersSaw'
  BY <1>1, <1>5 DEF DestroyersSaw, Unleased
<1>6. CASE (\E u \in Users : User(u)) \/ UNCHANGED vars
  <2>1. UNCHANGED <<keeper, job>>
    BY <1>6, UserFrame DEF vars
  <2> QED
    BY <1>3, <1>4, <1>5, <2>1
<1>7. ASSUME NEW k \in Keepers, Keeper(k)
      PROVE  DestroyersSaw'
  BY <1>3, <1>4, <1>5, <1>7, KeeperSaw
<1>8. ASSUME NEW j \in Tickets, Job(j)
      PROVE  DestroyersSaw'
  <2>1. UNCHANGED keeper
    BY <1>8, JobFrame
  <2> QED
    BY <1>3, <1>4, <1>5, <1>8, <2>1, JobSaw
<1> QED
  BY <1>6, <1>7, <1>8 DEF Next

-----------------------------------------------------------------------------
(* The theorems.                                                            *)

LEMMA InitOK == Init => IInv
<1> SUFFICES ASSUME Init PROVE IInv
  OBVIOUS
<1>1. TypeOK
  BY RequestType DEF Init, TypeOK, Entry, IdleUser, UserPC, IdleKeeper, KeeperPC, NoJob, JobPC
<1>2. /\ \A u \in Users : user[u].pc = "idle"
      /\ \A k \in Keepers : keeper[k].pc = "idle"
      /\ \A j \in Tickets : job[j].pc = "none"
      /\ sure = {}
  BY DEF Init, IdleUser, IdleKeeper, NoJob
<1>3. LeasesCounted
  <2>1. \A r : Leased(r) = {}
    BY <1>2 DEF Leased
  <2> QED
    BY <2>1, FS_EmptySet DEF Init, LeasesCounted
<1> QED
  BY <1>1, <1>2, <1>3 DEF IInv, Named, OneMaintenance, LivePC, Claimed, SureHold, DestroyersSaw

LEMMA Inductive == IInv /\ [Next]_vars => IInv'
<1> SUFFICES ASSUME IInv, [Next]_vars PROVE IInv'
  OBVIOUS
<1>1. TypeOK'
  <2>1. CASE UNCHANGED vars
    BY <2>1 DEF vars, TypeOK, IInv
  <2> QED
    BY <2>1, UserTypes, KeeperTypes, JobTypes DEF Next
<1>2. SureHold'
  <2>1. CASE UNCHANGED <<user, sure>>
    BY <2>1 DEF SureHold, IInv
  <2>2. CASE \E u \in Users : User(u)
    BY <2>2, SureStep
  <2>3. (\E k \in Keepers : Keeper(k)) \/ (\E j \in Tickets : Job(j)) => UNCHANGED <<user, sure>>
    BY KeeperFrame, JobFrame DEF IInv
  <2> QED
    BY <2>1, <2>2, <2>3 DEF Next, vars
<1>3. Named'
  BY NamedStep
<1> QED
  BY <1>1, <1>2, <1>3, LeasesStep, ClaimsStep, DestroyersStep DEF IInv

\* The steps of every thread and job keep the state in its types: the lease
\* count that release_lease() lowers is never below one.
THEOREM TypeCorrect == Spec => []TypeOK
<1>1. IInv => TypeOK
  BY DEF IInv
<1> QED
  BY <1>1, InitOK, Inductive, PTL DEF Spec

\* maintenanceInFlight admits one maintenance of a resource at a time.
THEOREM MaintenanceExclusive == Spec => []OneMaintenance
<1>1. IInv => OneMaintenance
  BY DEF IInv
<1> QED
  BY <1>1, InitOK, Inductive, PTL DEF Spec

\* Only the three calls of destroy_payload_if_needed() and the destructor take
\* a payload away.
LEMMA PayloadKept ==
    ASSUME TypeOK, NEW r \in Resources
    PROVE  /\ \A u \in Users : User(u) /\ ~ReleaseDestroy(u) => entry'[r].payload = entry[r].payload
           /\ \A k \in Keepers : ScheduleClaim(k) \/ ScheduleSubmit(k) => entry'[r].payload = entry[r].payload
           /\ \A j \in Tickets : Job(j) /\ ~JobDestroy(j) => entry'[r].payload = entry[r].payload
<1> USE DEF TypeOK, Entry
<1>1. ASSUME NEW u \in Users, User(u), ~ReleaseDestroy(u)
      PROVE  entry'[r].payload = entry[r].payload
  <2>1. CASE Acquire(u) \/ LeaseValid(u) \/ ReleaseTest(u)
    BY <2>1 DEF Acquire, LeaseValid, ReleaseTest
  <2>2. CASE AcquireCount(u)
    BY <2>2 DEF AcquireCount
  <2>3. CASE AcquireTouch(u)
    BY <2>3 DEF AcquireTouch
  <2>4. CASE LeaseReset(u)
    BY <2>4 DEF LeaseReset
  <2>5. CASE Touch(u)
    BY <2>5 DEF Touch
  <2>6. CASE MarkDirty(u)
    BY <2>6 DEF MarkDirty
  <2> QED
    BY <1>1, <2>1, <2>2, <2>3, <2>4, <2>5, <2>6 DEF User
<1>2. ASSUME NEW k \in Keepers, ScheduleClaim(k)
      PROVE  entry'[r].payload = entry[r].payload
  BY <1>2 DEF ScheduleClaim
<1>3. ASSUME NEW k \in Keepers, ScheduleSubmit(k)
      PROVE  entry'[r].payload = entry[r].payload
  <2>1. entry' = entry \/ entry' = [entry EXCEPT ![keeper[k].r].inFlight = FALSE]
    BY <1>3 DEF ScheduleSubmit
  <2> QED
    BY <2>1
<1>4. ASSUME NEW j \in Tickets, Job(j), ~JobDestroy(j)
      PROVE  entry'[r].payload = entry[r].payload
  <2>1. CASE JobDrop(j) \/ JobRun(j) \/ JobMaintain(j) \/ JobResume(j) \/ JobLeases(j)
    BY <2>1 DEF JobDrop, JobRun, JobMaintain, JobResume, JobLeases
  <2>2. CASE JobClean(j)
    BY <2>2 DEF JobClean
  <2>3. CASE JobRetire(j)
    BY <2>3 DEF JobRetire
  <2>4. CASE JobClear(j)
    BY <2>4 DEF JobClear
  <2> QED
    BY <1>4, <2>1, <2>2, <2>3, <2>4 DEF Job
<1> QED
  BY <1>1, <1>2, <1>3, <1>4

\* No payload is destroyed by a job or a collection under a lease that has
\* answered valid().
THEOREM LeaseSafe == Spec => LeaseHonoured
<1>1. ASSUME IInv, [Next]_vars, NEW r \in Resources,
             entry[r].payload, ~entry'[r].payload, alive',
             \A u \in Users : user[u].pc = "r_destroy" => user'[u] = user[u],
             NEW v \in sure
      PROVE  user[v].r # r
  <2> USE <1>1 DEF IInv, TypeOK
  <2>1. ASSUME NEW u \in Users, User(u)
        PROVE  FALSE
    <3>1. CASE ReleaseDestroy(u)
      <4>1. UserGoto(u, "r_destroy", "idle")
        BY <3>1 DEF ReleaseDestroy
      <4>2. user[u].pc = "r_destroy" /\ user'[u].pc = "idle"
        BY <4>1, UserMoves DEF UserPC
      <4> QED
        BY <1>1, <4>2
    <3>2. CASE ~ReleaseDestroy(u)
      <4>1. entry'[r].payload = entry[r].payload
        BY <2>1, <3>2, PayloadKept
      <4> QED
        BY <1>1, <4>1
    <3> QED
      BY <3>1, <3>2
  <2>2. ASSUME NEW k \in Keepers, Keeper(k)
        PROVE  Unleased(r)
    <3>1. CASE CollectErase(k)
      <4>1. keeper[k].pc = "c_erase"
        BY <3>1 DEF CollectErase, KeeperGoto
      <4>2. PICK x \in Resources : x = keeper[k].r
        BY <4>1 DEF Named
      <4>3. entry' = [entry EXCEPT ![x].payload = FALSE]
        BY <3>1, <4>2 DEF CollectErase, destroy_payload_if_needed
      <4>4. x = r
        BY <1>1, <4>3 DEF Entry
      <4> QED
        BY <4>1, <4>2, <4>4 DEF DestroyersSaw
    <3>2. CASE RegisterResource(k)
      <4>1. PICK x \in Resources :
                entry' = [entry EXCEPT ![x].payload = TRUE, ![x].lastAccess = epoch]
        BY <3>2 DEF RegisterResource
      <4> QED
        BY <1>1, <4>1 DEF Entry
    <3>3. CASE ScheduleClaim(k) \/ ScheduleSubmit(k)
      <4>1. entry'[r].payload = entry[r].payload
        BY <3>3, PayloadKept
      <4> QED
        BY <1>1, <4>1
    <3>4. CASE Destroy(k)
      BY <1>1, <3>4 DEF Destroy
    <3>5. CASE AdvanceEpoch(k) \/ ScheduleCall(k) \/ ScheduleIdle(k) \/ ScheduleDirty(k)
               \/ Sweep(k) \/ SweepNext(k) \/ CollectRetired(k) \/ CollectNext(k)
      <4>1. UNCHANGED entry
        BY <3>5 DEF AdvanceEpoch, ScheduleCall, ScheduleIdle, ScheduleDirty, Sweep, SweepNext,
                    CollectRetired, CollectNext
      <4> QED
        BY <1>1, <4>1
    <3> QED
      BY <2>2, <3>1, <3>2, <3>3, <3>4, <3>5 DEF Keeper
  <2>3. ASSUME NEW j \in Tickets, Job(j)
        PROVE  Unleased(r)
    <3>1. CASE JobDestroy(j)
      <4>1. job[j].pc = "m_destroy"
        BY <3>1 DEF JobDestroy, JobGoto
      <4>2. PICK x \in Resources : x = job[j].r
        BY <4>1 DEF Named
      <4>3. entry' = [entry EXCEPT ![x].payload = FALSE]
        BY <3>1, <4>2 DEF JobDestroy, destroy_payload_if_needed
      <4>4. x = r
        BY <1>1, <4>3 DEF Entry
      <4> QED
        BY <4>1, <4>2, <4>4 DEF DestroyersSaw
    <3>2. CASE ~JobDestroy(j)
      <4>1. entry'[r].payload = entry[r].payload
        BY <2>3, <3>2, PayloadKept
      <4> QED
        BY <1>1, <4>1
    <3> QED
      BY <3>1, <3>2
  <2>4. CASE UNCHANGED vars
    BY <1>1, <2>4 DEF vars
  <2> QED
    BY <1>1, <2>1, <2>2, <2>3, <2>4 DEF Next, Unleased
<1>2. IInv /\ [Next]_vars =>
        [\A r \in Resources :
            /\ entry[r].payload /\ ~entry'[r].payload /\ alive'
            /\ \A u \in Users : user[u].pc = "r_destroy" => user'[u] = user[u]
            => \A u \in sure : user[u].r # r]_vars
  BY <1>1
<1> QED
  BY <1>2, InitOK, Inductive, PTL DEF Spec, LeaseHonoured

=============================================================================
