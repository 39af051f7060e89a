-------------------------- MODULE AsyncRuntimeProofs --------------------------
(***************************************************************************)
(* Theorems about AsyncRuntime, for any number of submissions,             *)
(* prerequisites, clients and workers.                                     *)
(*                                                                         *)
(* The first part proves type correctness and the mutual exclusion of the  *)
(* steps of one submission.  The second proves that the runtime counts the *)
(* prerequisites of a submission exactly, whatever is resumed, cancelled   *)
(* or shut down; that a submission nobody resumes waits for all of them,   *)
(* and that its step runs while its event says running.                    *)
(*                                                                         *)
(* The proofs of the second part follow single frames through the call     *)
(* stacks: a step of a thread takes its top frame away and puts a few      *)
(* frames in its place.                                                    *)
(***************************************************************************)
EXTENDS AsyncRuntime, SequenceTheorems, FiniteSetTheorems, TLAPS

\* What replacing the top of a stack x by the frames fs leaves where.
LEMMA Replaced ==
    ASSUME NEW F, NEW x \in Seq(F), x # <<>>, NEW fs \in Seq(F)
    PROVE  LET y == fs \o Tail(x) IN
           /\ y \in Seq(F)
           /\ Len(y) = Len(fs) + Len(x) - 1
           /\ \A i \in DOMAIN y :
                 \/ i <= Len(fs) /\ i \in DOMAIN fs /\ y[i] = fs[i]
                 \/ /\ i > Len(fs)
                    /\ i - Len(fs) + 1 \in DOMAIN x
                    /\ i - Len(fs) + 1 > 1
                    /\ y[i] = x[i - Len(fs) + 1]
  <1> DEFINE r == Tail(x)
             y == fs \o r
  <1>1. r \in Seq(F) /\ Len(r) = Len(x) - 1 /\ \A i \in 1..Len(r) : r[i] = x[i + 1]
    BY HeadTailProperties
  <1>2. y \in Seq(F) /\ Len(y) = Len(fs) + Len(r)
        /\ \A i \in 1..Len(y) : y[i] = IF i <= Len(fs) THEN fs[i] ELSE r[i - Len(fs)]
    BY <1>1, ConcatProperties
  <1>3. Len(fs) \in Nat /\ Len(x) \in Nat /\ Len(r) \in Nat
    BY <1>1, LenProperties
  <1>4. DOMAIN y = 1..Len(y) /\ DOMAIN fs = 1..Len(fs) /\ DOMAIN x = 1..Len(x)
    BY <1>2, LenProperties
  <1>5. ASSUME NEW i \in DOMAIN y
        PROVE  \/ i <= Len(fs) /\ i \in DOMAIN fs /\ y[i] = fs[i]
               \/ /\ i > Len(fs)
                  /\ i - Len(fs) + 1 \in DOMAIN x
                  /\ i - Len(fs) + 1 > 1
                  /\ y[i] = x[i - Len(fs) + 1]
    <2>1. CASE i <= Len(fs)
      BY <1>2, <1>3, <1>4, <2>1
    <2>2. CASE i > Len(fs)
      <3>1. i - Len(fs) \in 1..Len(r)
        BY <1>2, <1>3, <1>4, <2>2
      <3>2. r[i - Len(fs)] = x[i - Len(fs) + 1]
        BY <1>1, <3>1
      <3> QED
        BY <1>1, <1>2, <1>3, <1>4, <2>2, <3>1, <3>2
    <2> QED
      BY <1>3, <1>4, <2>1, <2>2
  <1> QED
    BY <1>1, <1>2, <1>5

-----------------------------------------------------------------------------
(* Types.                                                                   *)

\* The frames an operation pushes are frames.
LEMMA FrameTypes ==
    /\ \A s \in Subs, op \in ExecOps \cup SubOps :
          /\ Frame(op, s) \in Frames
          /\ \A st \in Statuses : WithStatus(op, s, st) \in Frames
          /\ \A p \in Events : WithPrereq(op, s, p) \in Frames
          /\ \A todo \in SUBSET Events : WithTodo(op, s, todo) \in Frames
    /\ \A e \in Events, op \in EventOps :
          /\ \A st \in Statuses : WithStatus(op, e, st) \in Frames
          /\ \A todo \in SUBSET Subs : WithTodo(op, e, todo) \in Frames
  <1>1. ASSUME NEW s \in Subs, NEW op \in ExecOps \cup SubOps
        PROVE  /\ Frame(op, s) \in Frames
               /\ \A st \in Statuses : WithStatus(op, s, st) \in Frames
               /\ \A p \in Events : WithPrereq(op, s, p) \in Frames
               /\ \A todo \in SUBSET Events : WithTodo(op, s, todo) \in Frames
    <2>1. s \in Events /\ "pending" \in Statuses /\ {} \in SUBSET Events
      BY DEF Events, Statuses
    <2>2. Frame(op, s) \in Frames
      BY <2>1 DEF Frame, Frames
    <2>3. ASSUME NEW st \in Statuses PROVE WithStatus(op, s, st) \in Frames
      BY <2>1 DEF WithStatus, Frame, Frames
    <2>4. ASSUME NEW p \in Events PROVE WithPrereq(op, s, p) \in Frames
      BY <2>1 DEF WithPrereq, Frame, Frames
    <2>5. ASSUME NEW todo \in SUBSET Events PROVE WithTodo(op, s, todo) \in Frames
      BY <2>1 DEF WithTodo, Frame, Frames
    <2> QED
      BY <2>2, <2>3, <2>4, <2>5
  <1>2. ASSUME NEW e \in Events, NEW op \in EventOps
        PROVE  /\ \A st \in Statuses : WithStatus(op, e, st) \in Frames
               /\ \A todo \in SUBSET Subs : WithTodo(op, e, todo) \in Frames
    <2>1. "pending" \in Statuses /\ {} \in SUBSET Subs
      BY DEF Statuses
    <2>2. ASSUME NEW st \in Statuses PROVE WithStatus(op, e, st) \in Frames
      BY <2>1 DEF WithStatus, Frame, Frames
    <2>3. ASSUME NEW todo \in SUBSET Subs PROVE WithTodo(op, e, todo) \in Frames
      BY <2>1 DEF WithTodo, Frame, Frames
    <2> QED
      BY <2>2, <2>3
  <1> QED
    BY <1>1, <1>2

\* What a frame's program point says about its fields.
LEMMA FrameFields ==
    ASSUME NEW f \in Frames
    PROVE  /\ f.op \in ExecOps \cup SubOps =>
                  f.s \in Subs /\ f.p \in Events /\ f.todo \subseteq Events /\ f.st \in Statuses
           /\ f.op \in EventOps => f.s \in Events /\ f.todo \subseteq Subs /\ f.st \in Statuses
  BY DEF Frames, ExecOps, SubOps, EventOps, Events

\* The part of TypeOK about the call stacks.
StackType == stack \in [Threads -> Seq(Frames)]

\* A thread at a program point has a top frame, and it is the stack's first element.
LEMMA TopFrame ==
    ASSUME StackType, NEW t \in Threads, NEW op, At(t, op)
    PROVE  /\ stack[t] # <<>> /\ stack[t] \in Seq(Frames)
           /\ Top(t) \in Frames /\ Top(t).op = op
           /\ 1 \in DOMAIN stack[t] /\ stack[t][1] = Top(t)
  <1>1. stack[t] # <<>> /\ stack[t] \in Seq(Frames) /\ Top(t).op = op
    BY DEF StackType, At, Top
  <1>2. Top(t) = stack[t][1] /\ Top(t) \in Frames
    BY <1>1, HeadTailProperties DEF Top
  <1>3. Len(stack[t]) \in Nat /\ Len(stack[t]) # 0 /\ DOMAIN stack[t] = 1..Len(stack[t])
    BY <1>1, LenProperties, EmptySeq
  <1> QED
    BY <1>1, <1>2, <1>3

\* Replacing the top frame by frames keeps the stacks typed,
LEMMA BecomeType ==
    ASSUME StackType, NEW t \in Threads, stack[t] # <<>>,
           NEW fs \in Seq(Frames), Become(t, fs)
    PROVE  StackType'
  BY Replaced DEF StackType, Become

\* and so does starting an operation on an idle thread.
LEMMA CallType ==
    ASSUME StackType, NEW t \in Threads, NEW fs \in Seq(Frames), Call(t, fs)
    PROVE  StackType'
  BY DEF StackType, Call

\* The fields of the frames the operations push.
LEMMA FrameParts ==
    /\ \A op, s : Frame(op, s).op = op /\ Frame(op, s).s = s
    /\ \A op, s, st : WithStatus(op, s, st).op = op /\ WithStatus(op, s, st).s = s
    /\ \A op, s, p : WithPrereq(op, s, p).op = op /\ WithPrereq(op, s, p).s = s
    /\ \A op, s, todo : WithTodo(op, s, todo).op = op /\ WithTodo(op, s, todo).s = s
  BY DEF Frame, WithStatus, WithPrereq, WithTodo

-----------------------------------------------------------------------------
(* Ownership of inFlight.                                                   *)

\* Where a frame of the new stacks comes from: it is one of fs, or it was on
\* the old stacks, below the top of t's.
LEMMA Origin ==
    ASSUME StackType, NEW t \in Threads, stack[t] # <<>>,
           NEW fs \in Seq(Frames), Become(t, fs),
           NEW u \in Threads, NEW i \in DOMAIN (stack'[u])
    PROVE  \/ u = t /\ i \in DOMAIN fs /\ i <= Len(fs) /\ stack'[u][i] = fs[i]
           \/ /\ u = t /\ i > Len(fs)
              /\ i - Len(fs) + 1 \in DOMAIN stack[t] /\ i - Len(fs) + 1 > 1
              /\ stack'[u][i] = stack[t][i - Len(fs) + 1]
           \/ u # t /\ i \in DOMAIN stack[u] /\ stack'[u][i] = stack[u][i]
  <1>1. CASE u = t
    <2>1. stack'[t] = fs \o Tail(stack[t]) /\ stack[t] \in Seq(Frames)
      BY DEF StackType, Become
    <2> QED
      BY <1>1, <2>1, Replaced, SMTT(30)
  <1>2. CASE u # t
    BY <1>2 DEF StackType, Become
  <1> QED
    BY <1>1, <1>2

\* Indices are integers.
LEMMA Indices ==
    ASSUME StackType, NEW u \in Threads, NEW i \in DOMAIN stack[u]
    PROVE  i \in Nat /\ i >= 1
  <1>1. stack[u] \in Seq(Frames)
    BY DEF StackType
  <1> QED
    BY <1>1, LenProperties

\* The thread that owns a submission hands it on to at most one new frame.
LEMMA OwnerKeeps ==
    ASSUME StackType, OneOwner, NEW t \in Threads, stack[t] # <<>>,
           NEW fs \in Seq(Frames), Become(t, fs),
           1 \in DOMAIN stack[t],
           \A k \in DOMAIN fs : fs[k].op \in ExecOps =>
               stack[t][1].op \in ExecOps /\ stack[t][1].s = fs[k].s,
           \A k, l \in DOMAIN fs : fs[k].op \in ExecOps /\ fs[l].op \in ExecOps => k = l
    PROVE  /\ OneOwner'
           /\ OwnedFrames /\ UNCHANGED <<inFlight, queue>> => OwnedFrames'
  <1> DEFINE Old(u, i) == IF u # t THEN i ELSE IF i <= Len(fs) THEN 1 ELSE i - Len(fs) + 1
  <1>0. StackType'
    BY BecomeType
  <1>1. Len(fs) \in Nat /\ DOMAIN fs = 1..Len(fs)
    BY LenProperties
  <1>2. ASSUME NEW u \in Threads, NEW i \in DOMAIN (stack'[u]), stack'[u][i].op \in ExecOps
        PROVE  /\ Old(u, i) \in DOMAIN stack[u]
               /\ stack[u][Old(u, i)].op \in ExecOps
               /\ stack[u][Old(u, i)].s = stack'[u][i].s
               /\ i \in Nat
               /\ u = t /\ i <= Len(fs) => i \in DOMAIN fs /\ stack'[u][i] = fs[i]
               /\ u = t /\ i > Len(fs) => Old(u, i) > 1
    <2>1. stack'[u] \in Seq(Frames)
      BY <1>0 DEF StackType
    <2>2. i \in Nat
      BY <2>1, LenProperties
    <2> QED
      BY <1>1, <1>2, <2>2, Origin
  <1>3. OwnedFrames /\ UNCHANGED <<inFlight, queue>> => OwnedFrames'
    BY <1>2 DEF OwnedFrames
  <1>4. ASSUME NEW u \in Threads, NEW v \in Threads,
               NEW i \in DOMAIN (stack'[u]), NEW j \in DOMAIN (stack'[v]),
               stack'[u][i].op \in ExecOps, stack'[v][j].op \in ExecOps,
               stack'[u][i].s = stack'[v][j].s
        PROVE  u = v /\ i = j
    <2>1. u = v /\ Old(u, i) = Old(v, j)
      <3>1. /\ Old(u, i) \in DOMAIN stack[u] /\ stack[u][Old(u, i)].op \in ExecOps
            /\ stack[u][Old(u, i)].s = stack'[u][i].s
        BY <1>2, <1>4
      <3>2. /\ Old(v, j) \in DOMAIN stack[v] /\ stack[v][Old(v, j)].op \in ExecOps
            /\ stack[v][Old(v, j)].s = stack'[v][j].s
        BY <1>2, <1>4
      <3> HIDE DEF Old
      <3> QED
        BY <1>4, <3>1, <3>2 DEF OneOwner
    <2>2. CASE u # t
      BY <2>1, <2>2
    <2>3. CASE u = t
      <3>1. CASE i <= Len(fs) /\ j <= Len(fs)
        BY <1>2, <1>4, <2>1, <2>3, <3>1
      <3>2. CASE i > Len(fs) /\ j > Len(fs)
        BY <1>1, <1>2, <1>4, <2>1, <2>3, <3>2
      <3>3. CASE (i <= Len(fs)) # (j <= Len(fs))
        BY <1>1, <1>2, <1>4, <2>1, <2>3, <3>3
      <3> QED
        BY <1>1, <1>2, <1>4, <3>1, <3>2, <3>3
    <2> QED
      BY <2>2, <2>3
  <1>5. OneOwner'
    BY <1>4 DEF OneOwner
  <1> QED
    BY <1>3, <1>5

\* The ways in which a thread replaces its top frame.
Safe == StackType /\ Ownership

\* It returns: the frame is popped.
LEMMA Returns ==
    ASSUME Safe, NEW t \in Threads, NEW op, At(t, op), Become(t, <<>>),
           UNCHANGED <<inFlight, queue>>
    PROVE  Safe'
  <1>1. <<>> \in Seq(Frames) /\ DOMAIN <<>> = {}
    OBVIOUS
  <1> QED
    BY <1>1, TopFrame, BecomeType, OwnerKeeps DEF Safe, Ownership, OwnedEntries

\* It goes on to another program point of the same call.
LEMMA GoesOn ==
    ASSUME Safe, NEW t \in Threads, NEW op, At(t, op),
           NEW f \in Frames, Become(t, <<f>>), UNCHANGED <<inFlight, queue>>,
           f.op \in ExecOps => op \in ExecOps /\ f.s = Top(t).s
    PROVE  Safe'
  <1> DEFINE fs == <<f>>
  <1>1. fs \in Seq(Frames) /\ DOMAIN fs = {1} /\ fs[1] = f /\ Become(t, fs)
    OBVIOUS
  <1> HIDE DEF fs
  <1>2. StackType /\ Ownership /\ stack[t] # <<>> /\ 1 \in DOMAIN stack[t]
        /\ stack[t][1] = Top(t) /\ Top(t).op = op
    BY TopFrame DEF Safe
  <1>3. \A k \in DOMAIN fs : fs[k].op \in ExecOps =>
            stack[t][1].op \in ExecOps /\ stack[t][1].s = fs[k].s
    BY <1>1, <1>2
  <1>4. \A k, l \in DOMAIN fs : fs[k].op \in ExecOps /\ fs[l].op \in ExecOps => k = l
    BY <1>1
  <1> QED
    BY <1>1, <1>2, <1>3, <1>4, BecomeType, OwnerKeeps DEF Safe, Ownership, OwnedEntries

\* It calls f and is to go on with g afterwards.
LEMMA CallsOut ==
    ASSUME Safe, NEW t \in Threads, NEW op, At(t, op),
           NEW f \in Frames, NEW g \in Frames, Become(t, <<f, g>>), UNCHANGED <<inFlight, queue>>,
           f.op \notin ExecOps,
           g.op \in ExecOps => op \in ExecOps /\ g.s = Top(t).s
    PROVE  Safe'
  <1> DEFINE fs == <<f, g>>
  <1>1. fs \in Seq(Frames) /\ DOMAIN fs = {1, 2} /\ fs[1] = f /\ fs[2] = g /\ Become(t, fs)
    OBVIOUS
  <1> HIDE DEF fs
  <1>2. StackType /\ Ownership /\ stack[t] # <<>> /\ 1 \in DOMAIN stack[t]
        /\ stack[t][1] = Top(t) /\ Top(t).op = op
    BY TopFrame DEF Safe
  <1>3. \A k \in DOMAIN fs : fs[k].op \in ExecOps =>
            stack[t][1].op \in ExecOps /\ stack[t][1].s = fs[k].s
    BY <1>1, <1>2
  <1>4. \A k, l \in DOMAIN fs : fs[k].op \in ExecOps /\ fs[l].op \in ExecOps => k = l
    BY <1>1
  <1> QED
    BY <1>1, <1>2, <1>3, <1>4, BecomeType, OwnerKeeps DEF Safe, Ownership, OwnedEntries

\* An idle thread enters the runtime without owning anything.
LEMMA Enters ==
    ASSUME Safe, NEW t \in Threads, NEW fs \in Seq(Frames), Call(t, fs),
           \A k \in DOMAIN fs : fs[k].op \notin ExecOps, UNCHANGED <<inFlight, queue>>
    PROVE  Safe'
  <1>1. StackType'
    BY CallType DEF Safe
  <1>2. ASSUME NEW u \in Threads, NEW i \in DOMAIN (stack'[u]), stack'[u][i].op \in ExecOps
        PROVE  u # t /\ i \in DOMAIN stack[u] /\ stack'[u][i] = stack[u][i]
    BY <1>2 DEF Safe, StackType, Call
  <1>3. Ownership'
    BY <1>2 DEF Safe, Ownership, OwnedFrames, OneOwner, OwnedEntries
  <1> QED
    BY <1>1, <1>3 DEF Safe

\* complete() keeps types and owners, whatever its caller does next.
LEMMA Completes ==
    ASSUME Safe, status \in [Events -> Statuses], callbacks \in [Events -> SUBSET Subs],
           NEW t \in Threads, NEW op, At(t, op), NEW e \in Events, NEW st \in Statuses,
           NEW rest \in Seq(Frames), Complete(t, e, st, rest), UNCHANGED <<inFlight, queue>>,
           \/ rest = <<>>
           \/ \E g \in Frames : rest = <<g>> /\ op \in ExecOps /\ g.s = Top(t).s
    PROVE  /\ Safe'
           /\ status' \in [Events -> Statuses]
           /\ callbacks' \in [Events -> SUBSET Subs]
  <1> DEFINE n == WithTodo("notify", e, callbacks[e])
  <1>1. n \in Frames /\ n.op \notin ExecOps
    BY FrameTypes, FrameParts DEF EventOps, ExecOps
  <1>2. status' \in [Events -> Statuses] /\ callbacks' \in [Events -> SUBSET Subs]
    BY DEF Complete, eventVars
  <1>3. Become(t, rest) \/ Become(t, <<n>> \o rest)
    BY DEF Complete
  <1> HIDE DEF n
  <1>4. CASE rest = <<>>
    <2>1. <<n>> \o rest = <<n>>
      BY <1>1, <1>4, ConcatEmptySeq
    <2> QED
      BY <1>1, <1>2, <1>3, <1>4, <2>1, Returns, GoesOn
  <1>5. CASE \E g \in Frames : rest = <<g>> /\ op \in ExecOps /\ g.s = Top(t).s
    <2>1. PICK g \in Frames : rest = <<g>> /\ op \in ExecOps /\ g.s = Top(t).s
      BY <1>5
    <2>2. <<n>> \o <<g>> = <<n, g>>
      <3>1. /\ <<n>> \in Seq(Frames) /\ <<g>> \in Seq(Frames) /\ <<n, g>> \in Seq(Frames)
            /\ Len(<<n>>) = 1 /\ Len(<<g>>) = 1 /\ Len(<<n, g>>) = 2
            /\ <<n>>[1] = n /\ <<g>>[1] = g /\ <<n, g>>[1] = n /\ <<n, g>>[2] = g
        BY <1>1
      <3>2. /\ <<n>> \o <<g>> \in Seq(Frames)
            /\ Len(<<n>> \o <<g>>) = 2
            /\ \A i \in 1..2 : (<<n>> \o <<g>>)[i] = <<n, g>>[i]
        BY <3>1, ConcatProperties
      <3> QED
        BY <3>1, <3>2, SeqEqual
    <2> QED
      BY <1>1, <1>2, <1>3, <2>1, <2>2, GoesOn, CallsOut
  <1> QED
    BY <1>4, <1>5

-----------------------------------------------------------------------------
(* The four places where a submission changes its owner.                    *)

IsOne(fs, f) == Len(fs) = 1 /\ DOMAIN fs = {1} /\ fs[1] = f
IsNone(fs) == Len(fs) = 0 /\ DOMAIN fs = {}

\* The winner of the compare-and-swap in dispatch() is the only owner.
LEMMA DispatchOwns ==
    ASSUME Safe, inFlight \in [Subs -> BOOLEAN], queue \in [Subs -> Nat],
           NEW t \in Threads, NEW op, At(t, op), NEW s \in Subs, ~inFlight[s],
           NEW f \in Frames, f.s = s, NEW fs \in Seq(Frames), Become(t, fs),
           IsOne(fs, f),
           inFlight' = [inFlight EXCEPT ![s] = TRUE], UNCHANGED queue
    PROVE  Safe'
  <1>2. StackType /\ Ownership /\ stack[t] # <<>>
    BY TopFrame DEF Safe
  <1>3. StackType'
    BY <1>2, BecomeType
  <1>4. ASSUME NEW u \in Threads, NEW i \in DOMAIN (stack'[u])
        PROVE  \/ u = t /\ i = 1 /\ stack'[u][i] = f
               \/ i \in DOMAIN stack[u] /\ stack'[u][i] = stack[u][i]
    <2>1. stack'[u] \in Seq(Frames)
      BY <1>3 DEF StackType
    <2>2. i \in Nat
      BY <2>1, LenProperties
    <2>3. i - Len(fs) + 1 = i
      BY <2>2 DEF IsOne
    <2>4. \/ u = t /\ i \in DOMAIN fs /\ i <= Len(fs) /\ stack'[u][i] = fs[i]
          \/ /\ u = t /\ i > Len(fs)
             /\ i - Len(fs) + 1 \in DOMAIN stack[t] /\ i - Len(fs) + 1 > 1
             /\ stack'[u][i] = stack[t][i - Len(fs) + 1]
          \/ u # t /\ i \in DOMAIN stack[u] /\ stack'[u][i] = stack[u][i]
      BY <1>2, Origin
    <2> QED
      BY <2>3, <2>4 DEF IsOne
  <1>5. ASSUME NEW u \in Threads, NEW i \in DOMAIN stack[u], stack[u][i].op \in ExecOps
        PROVE  stack[u][i].s # s
    BY <1>2, <1>5 DEF Ownership, OwnedFrames, OneOwner, OwnedEntries
  <1>6. queue[s] = 0
    BY <1>2 DEF Ownership, OwnedFrames, OneOwner, OwnedEntries
  <1>7. ASSUME NEW u \in Threads, NEW i \in DOMAIN stack[u], stack[u][i].op \in ExecOps
        PROVE  inFlight'[stack[u][i].s] /\ queue'[stack[u][i].s] = 0
    <2>1. stack[u][i] \in Frames
      BY <1>2, LenProperties DEF StackType
    <2> QED
      BY <1>2, <1>5, <1>7, <2>1, FrameFields DEF Ownership, OwnedFrames, OneOwner, OwnedEntries
  <1>8. inFlight'[s] /\ queue'[s] = 0
    BY <1>6
  <1>9. OwnedFrames'
    BY <1>4, <1>7, <1>8 DEF OwnedFrames
  <1>10. OneOwner'
    <2>1. OneOwner
      BY <1>2 DEF Ownership
    <2> QED
      BY <1>4, <1>5, <2>1 DEF OneOwner
  <1>11. OwnedEntries'
    BY <1>2 DEF Ownership, OwnedEntries
  <1> QED
    BY <1>3, <1>9, <1>10, <1>11 DEF Safe, Ownership

\* An owner that pops its frame leaves nobody else executing the submission.
LEMMA OwnerLeaves ==
    ASSUME Safe, NEW t \in Threads, NEW op \in ExecOps, At(t, op),
           NEW fs \in Seq(Frames), IsNone(fs), Become(t, fs),
           NEW u \in Threads, NEW i \in DOMAIN (stack'[u]), stack'[u][i].op \in ExecOps
    PROVE  /\ stack'[u][i].s # Top(t).s
           /\ stack'[u][i].s \in Subs
           /\ inFlight[stack'[u][i].s] /\ queue[stack'[u][i].s] = 0
  <1> DEFINE j == IF u = t THEN i + 1 ELSE i
  <1>2. StackType /\ Ownership /\ stack[t] # <<>> /\ 1 \in DOMAIN stack[t]
        /\ stack[t][1] = Top(t) /\ Top(t).op = op
    BY TopFrame DEF Safe
  <1>3. StackType'
    BY <1>2, BecomeType
  <1>4. stack'[u] \in Seq(Frames)
    BY <1>3 DEF StackType
  <1>5. i \in Nat
    BY <1>4, LenProperties
  <1>6. j \in DOMAIN stack[u] /\ stack'[u][i] = stack[u][j] /\ (u = t => j # 1)
    <2>1. i - Len(fs) + 1 = i + 1
      BY <1>5 DEF IsNone
    <2>2. \/ i \in DOMAIN fs
          \/ /\ u = t
             /\ i - Len(fs) + 1 \in DOMAIN stack[t] /\ i - Len(fs) + 1 > 1
             /\ stack'[u][i] = stack[t][i - Len(fs) + 1]
          \/ u # t /\ i \in DOMAIN stack[u] /\ stack'[u][i] = stack[u][i]
      BY <1>2, Origin
    <2> QED
      BY <1>5, <2>1, <2>2 DEF IsNone
  <1>7. stack[u][j] \in Frames
    BY <1>2, <1>6, LenProperties DEF StackType
  <1> HIDE DEF j
  <1> QED
    BY <1>2, <1>6, <1>7, FrameFields DEF Ownership, OwnedFrames, OneOwner, OwnedEntries

\* The queue entry becomes the owner.
LEMMA EnqueueOwns ==
    ASSUME Safe, inFlight \in [Subs -> BOOLEAN], queue \in [Subs -> Nat],
           NEW t \in Threads, At(t, "enqueue"), Become(t, <<>>), UNCHANGED inFlight,
           queue' = [queue EXCEPT ![Top(t).s] = @ + 1]
    PROVE  Safe'
  <1>1. StackType'
    BY TopFrame, BecomeType, EmptySeq DEF Safe
  <1>2. /\ Ownership /\ Top(t).s \in Subs /\ 1 \in DOMAIN stack[t]
        /\ stack[t][1] = Top(t) /\ Top(t).op = "enqueue" /\ "enqueue" \in ExecOps
    BY TopFrame, FrameFields DEF Safe, ExecOps
  <1>3. inFlight[Top(t).s] /\ queue[Top(t).s] = 0
    BY <1>2 DEF Ownership, OwnedFrames, OneOwner, OwnedEntries
  <1>4. ASSUME NEW u \in Threads, NEW i \in DOMAIN (stack'[u]), stack'[u][i].op \in ExecOps
        PROVE  inFlight'[stack'[u][i].s] /\ queue'[stack'[u][i].s] = 0
    <2>1. <<>> \in Seq(Frames) /\ IsNone(<<>>)
      BY DEF IsNone
    <2>2. stack'[u][i].s # Top(t).s /\ stack'[u][i].s \in Subs
          /\ inFlight[stack'[u][i].s] /\ queue[stack'[u][i].s] = 0
      BY <1>2, <1>4, <2>1, OwnerLeaves
    <2> QED
      BY <1>2, <2>2
  <1>5. \A s \in Subs : queue'[s] <= 1 /\ (queue'[s] = 1 => inFlight'[s])
    BY <1>2, <1>3 DEF Ownership, OwnedFrames, OneOwner, OwnedEntries
  <1>6. OneOwner'
    <2>1. <<>> \in Seq(Frames) /\ DOMAIN <<>> = {}
      OBVIOUS
    <2> QED
      BY <2>1, TopFrame, OwnerKeeps DEF Safe, Ownership
  <1> QED
    BY <1>1, <1>4, <1>5, <1>6 DEF Safe, Ownership, OwnedFrames, OwnedEntries

\* inFlight is cleared when nobody is left to own it.
LEMMA ClearOwns ==
    ASSUME Safe, inFlight \in [Subs -> BOOLEAN], queue \in [Subs -> Nat],
           NEW t \in Threads, At(t, "clear"), Become(t, <<>>), UNCHANGED queue,
           inFlight' = [inFlight EXCEPT ![Top(t).s] = FALSE]
    PROVE  Safe'
  <1>1. StackType'
    BY TopFrame, BecomeType, EmptySeq DEF Safe
  <1>2. /\ Ownership /\ Top(t).s \in Subs /\ 1 \in DOMAIN stack[t]
        /\ stack[t][1] = Top(t) /\ Top(t).op = "clear" /\ "clear" \in ExecOps
    BY TopFrame, FrameFields DEF Safe, ExecOps
  <1>3. queue[Top(t).s] = 0
    BY <1>2 DEF Ownership, OwnedFrames
  <1>4. ASSUME NEW u \in Threads, NEW i \in DOMAIN (stack'[u]), stack'[u][i].op \in ExecOps
        PROVE  inFlight'[stack'[u][i].s] /\ queue'[stack'[u][i].s] = 0
    <2>1. <<>> \in Seq(Frames) /\ IsNone(<<>>)
      BY DEF IsNone
    <2>2. stack'[u][i].s # Top(t).s /\ stack'[u][i].s \in Subs
          /\ inFlight[stack'[u][i].s] /\ queue[stack'[u][i].s] = 0
      BY <1>2, <1>4, <2>1, OwnerLeaves
    <2> QED
      BY <1>2, <2>2
  <1>5. \A s \in Subs : queue'[s] <= 1 /\ (queue'[s] = 1 => inFlight'[s])
    BY <1>2, <1>3 DEF Ownership, OwnedEntries
  <1>6. OneOwner'
    <2>1. <<>> \in Seq(Frames) /\ DOMAIN <<>> = {}
      OBVIOUS
    <2> QED
      BY <2>1, TopFrame, OwnerKeeps DEF Safe, Ownership
  <1> QED
    BY <1>1, <1>4, <1>5, <1>6 DEF Safe, Ownership, OwnedFrames, OwnedEntries

\* The worker that takes the entry out becomes the owner.
LEMMA DequeueOwns ==
    ASSUME Safe, inFlight \in [Subs -> BOOLEAN], queue \in [Subs -> Nat],
           NEW t \in Threads, NEW s \in Subs, queue[s] > 0,
           NEW f \in Frames, f.s = s, Call(t, <<f>>), UNCHANGED inFlight,
           queue' = [queue EXCEPT ![s] = @ - 1]
    PROVE  Safe'
  <1>1. Ownership /\ stack \in [Threads -> Seq(Frames)]
    BY DEF Safe, StackType
  <1>2. queue[s] = 1 /\ inFlight[s] /\ queue'[s] = 0
    BY <1>1 DEF Ownership, OwnedEntries
  <1>3. StackType'
    <2>1. <<f>> \in Seq(Frames)
      OBVIOUS
    <2> QED
      BY <2>1, CallType DEF Safe
  <1>4. ASSUME NEW u \in Threads, NEW i \in DOMAIN (stack'[u])
        PROVE  \/ u = t /\ i = 1 /\ stack'[u][i] = f
               \/ u # t /\ i \in DOMAIN stack[u] /\ stack'[u][i] = stack[u][i]
    <2>1. stack' = [stack EXCEPT ![t] = <<f>>]
      BY DEF Call
    <2> QED
      BY <1>1, <2>1
  <1>5. ASSUME NEW u \in Threads, NEW i \in DOMAIN stack[u], stack[u][i].op \in ExecOps
        PROVE  /\ stack[u][i].s # s
               /\ inFlight'[stack[u][i].s] /\ queue'[stack[u][i].s] = 0
    <2>1. stack[u][i].s # s /\ inFlight[stack[u][i].s] /\ queue[stack[u][i].s] = 0
      BY <1>1, <1>2, <1>5 DEF Ownership, OwnedFrames
    <2> QED
      BY <2>1
  <1>6. OwnedFrames'
    <2> SUFFICES ASSUME NEW u \in Threads, NEW i \in DOMAIN (stack'[u]),
                        stack'[u][i].op \in ExecOps
                 PROVE  inFlight'[stack'[u][i].s] /\ queue'[stack'[u][i].s] = 0
      BY DEF OwnedFrames
    <2>1. CASE u = t
      BY <1>2, <1>4, <2>1
    <2>2. CASE u # t
      BY <1>4, <1>5, <2>2
    <2> QED
      BY <2>1, <2>2
  <1>7. OneOwner'
    <2> SUFFICES ASSUME NEW u \in Threads, NEW v \in Threads,
                        NEW i \in DOMAIN (stack'[u]), NEW j \in DOMAIN (stack'[v]),
                        stack'[u][i].op \in ExecOps, stack'[v][j].op \in ExecOps,
                        stack'[u][i].s = stack'[v][j].s
                 PROVE  u = v /\ i = j
      BY DEF OneOwner
    <2>1. CASE u = t
      BY <1>4, <1>5, <2>1
    <2>2. CASE v = t
      BY <1>4, <1>5, <2>2
    <2>3. CASE u # t /\ v # t
      BY <1>1, <1>4, <2>3 DEF Ownership, OneOwner
    <2> QED
      BY <2>1, <2>2, <2>3
  <1>8. OwnedEntries'
    BY <1>1, <1>2 DEF Ownership, OwnedEntries
  <1> QED
    BY <1>3, <1>6, <1>7, <1>8 DEF Safe, Ownership

-----------------------------------------------------------------------------
(* The invariant.                                                           *)

\* TypeOK without the stacks.
DataType ==
    /\ status \in [Events -> Statuses]
    /\ callbacks \in [Events -> SUBSET Subs]
    /\ inFlight \in [Subs -> BOOLEAN]
    /\ stop \in [Subs -> BOOLEAN]
    /\ dep \in [Subs -> [remaining : Int, failed : BOOLEAN, cancelled : BOOLEAN]]
    /\ queue \in [Subs -> Nat]
    /\ accepting \in BOOLEAN /\ stopping \in BOOLEAN
    /\ exited \subseteq Workers
    /\ submitted \subseteq Subs /\ handles \subseteq Subs
    /\ runs \in [Subs -> Nat]
    /\ resumes \in [Subs -> Nat]

\* Types and owners together are inductive.
IInv == Safe /\ DataType

\* The submission named in the frames of shutdown(), where none matters, is one.
LEMMA AnySubType == AnySub \in Subs
  BY RuntimeAssumption DEF AnySub

\* A call that goes on keeps the invariant.
LEMMA ContinueStep ==
    ASSUME IInv, NEW t \in Threads, Continue(t)
    PROVE  IInv'
  <1> USE DEF IInv
  <1> DEFINE f == Top(t)
  <1>0. Safe /\ DataType /\ StackType
    BY DEF Safe
  <1>1. CASE Register(t)
    <2>1. At(t, "register") /\ f \in Frames /\ f.op = "register"
      BY <1>0, <1>1, TopFrame DEF Register
    <2>2. f.s \in Subs /\ f.todo \subseteq Events
      BY <2>1, FrameFields DEF SubOps
    <2>3. \A todo \in SUBSET Events :
             /\ WithTodo("register", f.s, todo) \in Frames
             /\ WithTodo("register", f.s, todo).op \notin ExecOps
      BY <2>2, FrameTypes, FrameParts DEF SubOps, ExecOps
    <2>4. \A p \in Events : WithPrereq("record", f.s, p) \in Frames
                          /\ WithPrereq("record", f.s, p).op \notin ExecOps
      BY <2>2, FrameTypes, FrameParts DEF SubOps, ExecOps
    <2>5. UNCHANGED <<inFlight, queue>> /\ DataType'
      <3>1. \/ UNCHANGED callbacks
            \/ \E p \in f.todo : callbacks' = [callbacks EXCEPT ![p] = @ \cup {f.s}]
        BY <1>1 DEF Register
      <3>2. callbacks' \in [Events -> SUBSET Subs]
        BY <1>0, <2>2, <3>1 DEF DataType
      <3>3. UNCHANGED <<status, inFlight, stop, dep, poolVars, callVars>>
        BY <1>1 DEF Register
      <3> QED
        BY <1>0, <3>2, <3>3 DEF DataType, poolVars, callVars
    <2>6. CASE f.todo = {} /\ Become(t, <<>>)
      BY <1>0, <2>1, <2>5, <2>6, Returns
    <2>7. ASSUME NEW p \in f.todo,
                 \/ Become(t, <<WithPrereq("record", f.s, p), WithTodo("register", f.s, f.todo \ {p})>>)
                 \/ Become(t, <<WithTodo("register", f.s, f.todo \ {p})>>)
          PROVE  Safe'
      <3>1. f.todo \ {p} \in SUBSET Events /\ p \in Events
        BY <2>2
      <3> QED
        BY <1>0, <2>1, <2>3, <2>4, <2>5, <2>7, <3>1, GoesOn, CallsOut
    <2> QED
      BY <1>1, <2>5, <2>6, <2>7 DEF Register
  <1>2. CASE SubmitReturn(t)
    <2>1. At(t, "return") /\ f.s \in Subs
      BY <1>0, <1>2, TopFrame, FrameFields DEF SubmitReturn, SubOps
    <2>2. Become(t, <<>>) /\ UNCHANGED <<inFlight, queue>>
      BY <1>2 DEF SubmitReturn, poolVars
    <2>3. DataType'
      BY <1>0, <1>2, <2>1 DEF SubmitReturn, DataType, eventVars, poolVars
    <2> QED
      BY <1>0, <2>1, <2>2, <2>3, Returns
  <1>3. CASE Record(t)
    <2>1. At(t, "record") /\ f.s \in Subs /\ f.p \in Events
      BY <1>0, <1>3, TopFrame, FrameFields DEF Record, SubOps
    <2>2. Become(t, <<WithPrereq("count", f.s, f.p)>>) /\ UNCHANGED <<inFlight, queue>>
      BY <1>3 DEF Record, poolVars
    <2>3. WithPrereq("count", f.s, f.p) \in Frames /\ WithPrereq("count", f.s, f.p).op \notin ExecOps
      BY <2>1, FrameTypes, FrameParts DEF SubOps, ExecOps
    <2>4. dep' \in [Subs -> [remaining : Int, failed : BOOLEAN, cancelled : BOOLEAN]]
      <3> DEFINE D == [remaining : Int, failed : BOOLEAN, cancelled : BOOLEAN]
                 x == f.s \in StopOnFailure /\ status[f.p] = "failed"
                 y == f.s \in StopOnFailure /\ status[f.p] = "cancelled"
                 r == [dep[f.s] EXCEPT !.failed = @ \/ x, !.cancelled = @ \/ y]
      <3>1. dep \in [Subs -> D] /\ dep[f.s] \in D
        BY <1>0, <2>1 DEF DataType
      <3>2. dep' = [dep EXCEPT ![f.s] = r]
        BY <1>3, <2>1, <3>1 DEF Record
      <3>3. r \in D
        BY <3>1
      <3> HIDE DEF D, r
      <3>4. dep' \in [Subs -> D]
        BY <2>1, <3>1, <3>2, <3>3
      <3> QED
        BY <3>4 DEF D
    <2>5. DataType'
      BY <1>0, <1>3, <2>4 DEF Record, DataType, eventVars, poolVars, callVars
    <2> QED
      BY <1>0, <2>1, <2>2, <2>3, <2>5, GoesOn
  <1>4. CASE Count(t)
    <2>1. At(t, "count") /\ f.s \in Subs
      BY <1>0, <1>4, TopFrame, FrameFields DEF Count, SubOps
    <2>2. /\ \/ Become(t, <<>>)
             \/ Become(t, <<WithStatus("mark", f.s, "failed")>>)
             \/ Become(t, <<WithStatus("mark", f.s, "cancelled")>>)
             \/ Become(t, <<Frame("dispatch", f.s)>>)
          /\ UNCHANGED <<inFlight, queue>>
      BY <1>4 DEF Count, poolVars
    <2>3. /\ \A st \in Statuses : WithStatus("mark", f.s, st) \in Frames
                                /\ WithStatus("mark", f.s, st).op \notin ExecOps
          /\ Frame("dispatch", f.s) \in Frames /\ Frame("dispatch", f.s).op \notin ExecOps
      BY <2>1, FrameTypes, FrameParts DEF SubOps, EventOps, ExecOps, Events
    <2>4. dep' \in [Subs -> [remaining : Int, failed : BOOLEAN, cancelled : BOOLEAN]]
      <3> DEFINE D == [remaining : Int, failed : BOOLEAN, cancelled : BOOLEAN]
                 r == [dep[f.s] EXCEPT !.remaining = @ - 1]
      <3>1. dep \in [Subs -> D] /\ dep[f.s] \in D
        BY <1>0, <2>1 DEF DataType
      <3>2. dep' = [dep EXCEPT ![f.s] = r]
        BY <1>4 DEF Count
      <3>3. r \in D
        BY <3>1
      <3> HIDE DEF D, r
      <3>4. dep' \in [Subs -> D]
        BY <2>1, <3>1, <3>2, <3>3
      <3> QED
        BY <3>4 DEF D
    <2>5. DataType'
      BY <1>0, <1>4, <2>4 DEF Count, DataType, eventVars, poolVars, callVars
    <2>6. "failed" \in Statuses /\ "cancelled" \in Statuses
      BY DEF Statuses
    <2> QED
      BY <1>0, <2>1, <2>2, <2>3, <2>5, <2>6, Returns, GoesOn
  <1>5. CASE Notify(t)
    <2>1. At(t, "notify") /\ f.s \in Events /\ f.todo \subseteq Subs
      BY <1>0, <1>5, TopFrame, FrameFields DEF Notify, EventOps
    <2>2. /\ \A todo \in SUBSET Subs : WithTodo("notify", f.s, todo) \in Frames
                                     /\ WithTodo("notify", f.s, todo).op \notin ExecOps
          /\ \A d \in Subs : WithPrereq("record", d, f.s) \in Frames
                           /\ WithPrereq("record", d, f.s).op \notin ExecOps
      BY <2>1, FrameTypes, FrameParts DEF SubOps, EventOps, ExecOps
    <2>3. UNCHANGED <<inFlight, queue>> /\ DataType'
      BY <1>0, <1>5 DEF Notify, DataType, eventVars, poolVars, callVars
    <2>4. CASE Become(t, <<>>)
      BY <1>0, <2>1, <2>3, <2>4, Returns
    <2>5. ASSUME NEW d \in f.todo,
                 Become(t, <<WithPrereq("record", d, f.s), WithTodo("notify", f.s, f.todo \ {d})>>)
          PROVE  Safe'
      <3>1. f.todo \ {d} \in SUBSET Subs /\ d \in Subs
        BY <2>1
      <3> QED
        BY <1>0, <2>1, <2>2, <2>3, <2>5, <3>1, CallsOut
    <2> QED
      BY <1>5, <2>3, <2>4, <2>5 DEF Notify
  <1>6. CASE Mark(t)
    <2>1. At(t, "mark") /\ f.s \in Events /\ f.st \in Statuses
      BY <1>0, <1>6, TopFrame, FrameFields DEF Mark, EventOps
    <2>2. Complete(t, f.s, f.st, <<>>) /\ UNCHANGED <<inFlight, queue>> /\ <<>> \in Seq(Frames)
      BY <1>6 DEF Mark, poolVars
    <2>3. Safe' /\ status' \in [Events -> Statuses] /\ callbacks' \in [Events -> SUBSET Subs]
      BY <1>0, <2>1, <2>2, Completes DEF DataType
    <2>4. DataType'
      BY <1>0, <1>6, <2>3 DEF Mark, DataType, poolVars, callVars
    <2> QED
      BY <2>3, <2>4
  <1>7. CASE Dispatch(t)
    <2>1. At(t, "dispatch") /\ f.s \in Subs /\ UNCHANGED queue
      BY <1>0, <1>7, TopFrame, FrameFields DEF Dispatch, SubOps, poolVars
    <2>2. DataType'
      BY <1>0, <1>7, <2>1 DEF Dispatch, DataType, eventVars, poolVars, callVars
    <2>3. CASE inFlight[f.s]
      BY <1>0, <1>7, <2>1, <2>2, <2>3, Returns DEF Dispatch
    <2>4. CASE ~inFlight[f.s]
      <3> DEFINE g == Frame(IF f.s \in Inline THEN "screen" ELSE "admit", f.s)
      <3>1. g \in Frames /\ g.s = f.s
        BY <2>1, FrameTypes, FrameParts DEF ExecOps
      <3>2. Become(t, <<g>>) /\ inFlight' = [inFlight EXCEPT ![f.s] = TRUE]
        BY <1>7, <2>4 DEF Dispatch
      <3> HIDE DEF g
      <3>3. <<g>> \in Seq(Frames) /\ IsOne(<<g>>, g)
        BY <3>1 DEF IsOne
      <3>4. inFlight \in [Subs -> BOOLEAN] /\ queue \in [Subs -> Nat]
        BY <1>0 DEF DataType
      <3> QED
        BY <1>0, <2>1, <2>2, <2>4, <3>1, <3>2, <3>3, <3>4, DispatchOwns
    <2> QED
      BY <2>3, <2>4
  <1>8. CASE Admit(t)
    <2>1. At(t, "admit") /\ "admit" \in ExecOps /\ f.s \in Subs
      BY <1>0, <1>8, TopFrame, FrameFields DEF Admit, ExecOps
    <2>2. Become(t, <<Frame("prescreen", f.s)>>) \/ Become(t, <<WithStatus("finish", f.s, "failed")>>)
      BY <1>8 DEF Admit, Finish
    <2>3. /\ Frame("prescreen", f.s) \in Frames /\ Frame("prescreen", f.s).s = f.s
          /\ WithStatus("finish", f.s, "failed") \in Frames /\ WithStatus("finish", f.s, "failed").s = f.s
      BY <2>1, FrameTypes, FrameParts DEF ExecOps, Statuses
    <2>4. UNCHANGED <<inFlight, queue>> /\ DataType'
      BY <1>0, <1>8 DEF Admit, DataType, eventVars, poolVars, callVars
    <2> QED
      BY <1>0, <2>1, <2>2, <2>3, <2>4, GoesOn
  <1>9. CASE Prescreen(t)
    <2>1. At(t, "prescreen") /\ "prescreen" \in ExecOps /\ f.s \in Subs
      BY <1>0, <1>9, TopFrame, FrameFields DEF Prescreen, ExecOps
    <2>2. Become(t, <<Frame("enqueue", f.s)>>) \/ Become(t, <<WithStatus("finish", f.s, "cancelled")>>)
      BY <1>9 DEF Prescreen, Finish
    <2>3. /\ Frame("enqueue", f.s) \in Frames /\ Frame("enqueue", f.s).s = f.s
          /\ WithStatus("finish", f.s, "cancelled") \in Frames /\ WithStatus("finish", f.s, "cancelled").s = f.s
      BY <2>1, FrameTypes, FrameParts DEF ExecOps, Statuses
    <2>4. UNCHANGED <<inFlight, queue>> /\ DataType'
      BY <1>0, <1>9 DEF Prescreen, DataType, eventVars, poolVars, callVars
    <2> QED
      BY <1>0, <2>1, <2>2, <2>3, <2>4, GoesOn
  <1>10. CASE Enqueue(t)
    <2>1. At(t, "enqueue") /\ "enqueue" \in ExecOps /\ f.s \in Subs /\ UNCHANGED inFlight
      BY <1>0, <1>10, TopFrame, FrameFields DEF Enqueue, ExecOps
    <2>2. DataType'
      <3>1. queue' \in [Subs -> Nat]
        <4>1. queue \in [Subs -> Nat]
          BY <1>0 DEF DataType
        <4>2. queue' = [queue EXCEPT ![f.s] = @ + 1] \/ queue' = queue
          BY <1>10 DEF Enqueue
        <4> QED
          BY <2>1, <4>1, <4>2
      <3>2. UNCHANGED <<status, callbacks, inFlight, stop, dep, accepting, stopping, exited,
                        submitted, handles, runs, resumes>>
        BY <1>10 DEF Enqueue, eventVars, callVars
      <3> QED
        BY <1>0, <3>1, <3>2 DEF DataType
    <2>3. CASE queue' = [queue EXCEPT ![f.s] = @ + 1] /\ Become(t, <<>>)
      BY <1>0, <2>1, <2>2, <2>3, EnqueueOwns DEF DataType
    <2>4. CASE Become(t, <<WithStatus("finish", f.s, "failed")>>) /\ UNCHANGED queue
      <3>1. WithStatus("finish", f.s, "failed") \in Frames /\ WithStatus("finish", f.s, "failed").s = f.s
        BY <2>1, FrameTypes, FrameParts DEF ExecOps, Statuses
      <3> QED
        BY <1>0, <2>1, <2>2, <2>4, <3>1, GoesOn
    <2> QED
      BY <1>10, <2>3, <2>4 DEF Enqueue, Finish
  <1>11. CASE Screen(t)
    <2>1. At(t, "screen") /\ "screen" \in ExecOps /\ f.s \in Subs
      BY <1>0, <1>11, TopFrame, FrameFields DEF Screen, ExecOps
    <2>2. Become(t, <<Frame("start", f.s)>>) \/ Become(t, <<WithStatus("finish", f.s, "cancelled")>>)
      BY <1>11 DEF Screen, Finish
    <2>3. /\ Frame("start", f.s) \in Frames /\ Frame("start", f.s).s = f.s
          /\ WithStatus("finish", f.s, "cancelled") \in Frames /\ WithStatus("finish", f.s, "cancelled").s = f.s
      BY <2>1, FrameTypes, FrameParts DEF ExecOps, Statuses
    <2>4. UNCHANGED <<inFlight, queue>> /\ DataType'
      BY <1>0, <1>11 DEF Screen, DataType, eventVars, poolVars, callVars
    <2> QED
      BY <1>0, <2>1, <2>2, <2>3, <2>4, GoesOn
  <1>12. CASE Start(t)
    <2>1. At(t, "start") /\ "start" \in ExecOps /\ f.s \in Subs /\ f.s \in Events /\ f.st \in Statuses
      BY <1>0, <1>12, TopFrame, FrameFields DEF Start, ExecOps, Events
    <2>2. Complete(t, f.s, "running", <<Frame("step", f.s)>>) /\ UNCHANGED <<inFlight, queue>>
      BY <1>12 DEF Start, poolVars
    <2>3. Frame("step", f.s) \in Frames /\ Frame("step", f.s).s = f.s /\ "running" \in Statuses
      BY <2>1, FrameTypes, FrameParts DEF ExecOps, Statuses
    <2>4. <<Frame("step", f.s)>> \in Seq(Frames)
      BY <2>3
    <2>5. Safe' /\ status' \in [Events -> Statuses] /\ callbacks' \in [Events -> SUBSET Subs]
      BY <1>0, <2>1, <2>2, <2>3, <2>4, Completes DEF DataType
    <2>6. DataType'
      BY <1>0, <1>12, <2>5 DEF Start, DataType, poolVars, callVars
    <2> QED
      BY <2>5, <2>6
  <1>13. CASE Step(t)
    <2>1. At(t, "step") /\ "step" \in ExecOps /\ f.s \in Subs
      BY <1>0, <1>13, TopFrame, FrameFields DEF Step, ExecOps
    <2>2. PICK st \in Statuses : Become(t, <<WithStatus("finish", f.s, st)>>)
      BY <1>13 DEF Step, Finish, Statuses, Terminal
    <2>3. WithStatus("finish", f.s, st) \in Frames /\ WithStatus("finish", f.s, st).s = f.s
      BY <2>1, FrameTypes, FrameParts DEF ExecOps
    <2>4. UNCHANGED <<inFlight, queue>> /\ DataType'
      BY <1>0, <1>13, <2>1 DEF Step, DataType, eventVars, poolVars
    <2> QED
      BY <1>0, <2>1, <2>2, <2>3, <2>4, GoesOn
  <1>14. CASE FinishStep(t)
    <2>1. At(t, "finish") /\ "finish" \in ExecOps /\ f.s \in Subs /\ f.s \in Events /\ f.st \in Statuses
      BY <1>0, <1>14, TopFrame, FrameFields DEF FinishStep, ExecOps, Events
    <2>2. Complete(t, f.s, f.st, <<Frame("clear", f.s)>>) /\ UNCHANGED <<inFlight, queue>>
      BY <1>14 DEF FinishStep, poolVars
    <2>3. Frame("clear", f.s) \in Frames /\ Frame("clear", f.s).s = f.s /\ f.st \in Statuses
      BY <2>1, FrameTypes, FrameParts DEF ExecOps, Statuses
    <2>4. <<Frame("clear", f.s)>> \in Seq(Frames)
      BY <2>3
    <2>5. Safe' /\ status' \in [Events -> Statuses] /\ callbacks' \in [Events -> SUBSET Subs]
      BY <1>0, <2>1, <2>2, <2>3, <2>4, Completes DEF DataType
    <2>6. DataType'
      BY <1>0, <1>14, <2>5 DEF FinishStep, DataType, poolVars, callVars
    <2> QED
      BY <2>5, <2>6
  <1>15. CASE Clear(t)
    <2>1. At(t, "clear") /\ f.s \in Subs /\ UNCHANGED queue
      BY <1>0, <1>15, TopFrame, FrameFields DEF Clear, ExecOps, poolVars
    <2>2. DataType'
      BY <1>0, <1>15, <2>1 DEF Clear, DataType, eventVars, poolVars, callVars
    <2>3. Safe'
      BY <1>0, <1>15, <2>1, ClearOwns DEF Clear, DataType
    <2> QED
      BY <2>2, <2>3
  <1>16. CASE Resume(t)
    <2>1. At(t, "resume") /\ f.s \in Subs
      BY <1>0, <1>16, TopFrame, FrameFields DEF Resume, SubOps
    <2>2. Become(t, <<>>) \/ Become(t, <<Frame("dispatch", f.s)>>)
      BY <1>16 DEF Resume
    <2>3. Frame("dispatch", f.s) \in Frames /\ Frame("dispatch", f.s).op \notin ExecOps
      BY <2>1, AnySubType, FrameTypes, FrameParts DEF SubOps, ExecOps
    <2>4. UNCHANGED <<inFlight, queue>> /\ DataType'
      BY <1>0, <1>16, <2>1 DEF Resume, DataType, eventVars, poolVars, callVars
    <2> QED
      BY <1>0, <2>1, <2>2, <2>3, <2>4, Returns, GoesOn
  <1>17. CASE Cancel(t)
    <2>1. At(t, "cancel") /\ f.s \in Subs
      BY <1>0, <1>17, TopFrame, FrameFields DEF Cancel, SubOps
    <2>2. Become(t, <<>>) \/ Become(t, <<Frame("resume", f.s)>>)
      BY <1>17 DEF Cancel
    <2>3. Frame("resume", f.s) \in Frames /\ Frame("resume", f.s).op \notin ExecOps
      BY <2>1, AnySubType, FrameTypes, FrameParts DEF SubOps, ExecOps
    <2>4. UNCHANGED <<inFlight, queue>> /\ DataType'
      BY <1>0, <1>17, <2>1 DEF Cancel, DataType, eventVars, poolVars, callVars
    <2> QED
      BY <1>0, <2>1, <2>2, <2>3, <2>4, Returns, GoesOn
  <1>18. CASE ShutdownStop(t)
    <2>1. At(t, "request_stop") /\ f.s \in Subs
      BY <1>0, <1>18, TopFrame, FrameFields DEF ShutdownStop, SubOps
    <2>2. Become(t, <<>>) \/ Become(t, <<Frame("join", AnySub)>>)
      BY <1>18 DEF ShutdownStop
    <2>3. Frame("join", AnySub) \in Frames /\ Frame("join", AnySub).op \notin ExecOps
      BY <2>1, AnySubType, FrameTypes, FrameParts DEF SubOps, ExecOps
    <2>4. UNCHANGED <<inFlight, queue>> /\ DataType'
      BY <1>0, <1>18, <2>1 DEF ShutdownStop, DataType, eventVars, poolVars, callVars
    <2> QED
      BY <1>0, <2>1, <2>2, <2>3, <2>4, Returns, GoesOn
  <1>19. CASE ShutdownJoin(t)
    <2>1. At(t, "join") /\ Become(t, <<>>) /\ UNCHANGED <<inFlight, queue>>
      BY <1>19 DEF ShutdownJoin, poolVars
    <2>2. DataType'
      BY <1>0, <1>19 DEF ShutdownJoin, DataType, eventVars, poolVars, callVars
    <2> QED
      BY <1>0, <2>1, <2>2, Returns
  <1> QED
    BY <1>1, <1>2, <1>3, <1>4, <1>5, <1>6, <1>7, <1>8, <1>9, <1>10, <1>11, <1>12, <1>13, <1>14, <1>15, <1>16, <1>17, <1>18, <1>19 DEF Continue

\* A call that begins keeps the invariant.
LEMMA ClientStep ==
    ASSUME IInv, NEW c \in Clients, ClientCall(c)
    PROVE  IInv'
  <1>0. Safe /\ DataType /\ StackType /\ c \in Threads
    BY DEF IInv, Safe, Threads
  <1>1. ASSUME NEW s \in Subs, Submit(c, s)
        PROVE  IInv'
    <2> DEFINE g == IF Prereqs[s] = {} THEN Frame("dispatch", s)
                    ELSE WithTodo("register", s, Prereqs[s])
               h == Frame("return", s)
    <2>1. Prereqs[s] \in SUBSET Events
      BY RuntimeAssumption
    <2>2. g \in Frames /\ h \in Frames /\ g.op \notin ExecOps /\ h.op \notin ExecOps
      BY <2>1, FrameTypes, FrameParts DEF SubOps, ExecOps
    <2>3. Call(c, <<g, h>>) /\ UNCHANGED <<inFlight, queue>>
      BY <1>1 DEF Submit, poolVars
    <2>4. dep' \in [Subs -> [remaining : Int, failed : BOOLEAN, cancelled : BOOLEAN]]
      <3> DEFINE D == [remaining : Int, failed : BOOLEAN, cancelled : BOOLEAN]
                 n == Cardinality(Prereqs[s])
                 r == [dep[s] EXCEPT !.remaining = n]
      <3>1. n \in Int
        BY RuntimeAssumption, FS_CardinalityType
      <3>2. dep \in [Subs -> D] /\ dep[s] \in D
        BY <1>0 DEF DataType
      <3>3. dep' = [dep EXCEPT ![s] = r]
        BY <1>1 DEF Submit
      <3> HIDE DEF n
      <3>4. r \in D
        BY <3>1, <3>2
      <3> HIDE DEF D, r
      <3>5. dep' \in [Subs -> D]
        BY <3>2, <3>3, <3>4
      <3> QED
        BY <3>5 DEF D
    <2>5. DataType'
      <3>1. /\ submitted' = submitted \cup {s}
            /\ UNCHANGED <<status, callbacks, inFlight, stop, queue, accepting, stopping, exited,
                          handles, runs, resumes>>
        BY <1>1 DEF Submit, eventVars, poolVars
      <3> QED
        BY <1>0, <2>4, <3>1 DEF DataType
    <2> HIDE DEF g, h
    <2>6. <<g, h>> \in Seq(Frames) /\ \A k \in DOMAIN <<g, h>> : <<g, h>>[k].op \notin ExecOps
      BY <2>2
    <2> QED
      BY <1>0, <2>3, <2>5, <2>6, Enters DEF IInv
  <1>2. ASSUME NEW g \in Frames, g.op \notin ExecOps, Call(c, <<g>>), UNCHANGED <<inFlight, queue>>
        PROVE  Safe'
    <2>1. <<g>> \in Seq(Frames) /\ \A k \in DOMAIN <<g>> : <<g>>[k].op \notin ExecOps
      BY <1>2
    <2> QED
      BY <1>0, <1>2, <2>1, Enters
  <1>3. \A s \in Subs, op \in SubOps : Frame(op, s) \in Frames /\ Frame(op, s).op \notin ExecOps
    BY FrameTypes, FrameParts DEF SubOps, ExecOps
  <1>4. ASSUME NEW s \in Subs, ResumeCall(c, s)
        PROVE  IInv'
    <2>1. Safe'
      BY <1>2, <1>3, <1>4 DEF ResumeCall, SubOps, poolVars
    <2>2. DataType'
      BY <1>0, <1>4 DEF ResumeCall, DataType, eventVars, poolVars
    <2> QED
      BY <2>1, <2>2 DEF IInv
  <1>5. ASSUME NEW s \in Cancellable, CancelCall(c, s)
        PROVE  IInv'
    <2>1. s \in Subs
      BY RuntimeAssumption
    <2>2. Safe'
      BY <1>2, <1>3, <1>5, <2>1 DEF CancelCall, SubOps, poolVars
    <2>3. DataType'
      BY <1>0, <1>5, <2>1 DEF CancelCall, DataType, eventVars, poolVars, callVars
    <2> QED
      BY <2>2, <2>3 DEF IInv
  <1>6. ASSUME NEW e \in Externals, CompleteExternal(c, e)
        PROVE  IInv'
    <2>1. PICK st \in Statuses : Call(c, <<WithStatus("mark", e, st)>>)
      BY <1>6 DEF CompleteExternal, Terminal, Statuses
    <2>2. WithStatus("mark", e, st) \in Frames /\ WithStatus("mark", e, st).op \notin ExecOps
      BY FrameTypes, FrameParts DEF EventOps, ExecOps, Events
    <2>3. Safe'
      BY <1>2, <1>6, <2>1, <2>2 DEF CompleteExternal, poolVars
    <2>4. DataType'
      BY <1>0, <1>6 DEF CompleteExternal, DataType, eventVars, poolVars, callVars
    <2> QED
      BY <2>3, <2>4 DEF IInv
  <1>7. CASE ShutdownCall(c)
    <2>1. Safe'
      BY <1>2, <1>3, <1>7, AnySubType DEF ShutdownCall, SubOps
    <2>2. DataType'
      BY <1>0, <1>7 DEF ShutdownCall, DataType, eventVars, callVars
    <2> QED
      BY <2>1, <2>2 DEF IInv
  <1> QED
    BY <1>1, <1>4, <1>5, <1>6, <1>7 DEF ClientCall

\* A worker's round keeps the invariant.
LEMMA WorkerStep ==
    ASSUME IInv, NEW w \in Workers, WorkerLoop(w)
    PROVE  IInv'
  <1>0. Safe /\ DataType /\ StackType /\ w \in Threads
    BY DEF IInv, Safe, Threads
  <1>1. CASE WorkerExit(w)
    <2>1. UNCHANGED <<stack, inFlight, queue>>
      BY <1>1 DEF WorkerExit
    <2>2. Safe'
      BY <1>0, <2>1 DEF Safe, StackType, Ownership, OwnedFrames, OneOwner, OwnedEntries
    <2>3. DataType'
      BY <1>0, <1>1 DEF WorkerExit, DataType, eventVars, callVars
    <2> QED
      BY <2>2, <2>3 DEF IInv
  <1>2. ASSUME NEW s \in Subs, Dequeue(w, s)
        PROVE  IInv'
    <2>1. Frame("screen", s) \in Frames /\ Frame("screen", s).s = s
      BY FrameTypes, FrameParts DEF ExecOps
    <2>2. /\ queue[s] > 0 /\ queue' = [queue EXCEPT ![s] = @ - 1]
          /\ Call(w, <<Frame("screen", s)>>) /\ UNCHANGED inFlight
      BY <1>2 DEF Dequeue
    <2>3. Safe'
      BY <1>0, <2>1, <2>2, DequeueOwns DEF DataType
    <2>4. queue' \in [Subs -> Nat]
      BY <1>0, <2>2 DEF DataType
    <2>5. UNCHANGED <<status, callbacks, inFlight, stop, dep, accepting, stopping, exited,
                      submitted, handles, runs, resumes>>
      BY <1>2 DEF Dequeue, eventVars, callVars
    <2>6. DataType'
      BY <1>0, <2>4, <2>5 DEF DataType
    <2> QED
      BY <2>3, <2>6 DEF IInv
  <1> QED
    BY <1>1, <1>2 DEF WorkerLoop

\* A stop request keeps the invariant.
LEMMA StopStep ==
    ASSUME IInv, NEW s \in Subs, RequestStop(s)
    PROVE  IInv'
  <1>1. UNCHANGED <<stack, inFlight, queue>>
    BY DEF RequestStop, poolVars
  <1>2. Safe'
    BY <1>1 DEF IInv, Safe, StackType, Ownership, OwnedFrames, OneOwner, OwnedEntries
  <1>3. DataType'
    BY DEF RequestStop, IInv, DataType, eventVars, poolVars, callVars
  <1> QED
    BY <1>2, <1>3 DEF IInv

\* The inductive invariant: types, and one owner for each inFlight flag.
THEOREM Invariant == Spec => []IInv
  <1>1. Init => IInv
    <2> SUFFICES ASSUME Init PROVE IInv
      OBVIOUS
    <2>1. DataType
      <3>1. dep \in [Subs -> [remaining : Int, failed : BOOLEAN, cancelled : BOOLEAN]]
        <4>1. [remaining |-> 0, failed |-> FALSE, cancelled |-> FALSE]
                  \in [remaining : Int, failed : BOOLEAN, cancelled : BOOLEAN]
          OBVIOUS
        <4> QED
          BY <4>1, Zenon DEF Init
      <3> QED
        BY <3>1 DEF Init, DataType, Statuses
    <2>2. StackType /\ \A t \in Threads : DOMAIN stack[t] = {}
      BY DEF Init, StackType
    <2>3. Ownership
      BY <2>2 DEF Init, Ownership, OwnedFrames, OneOwner, OwnedEntries
    <2> QED
      BY <2>1, <2>2, <2>3 DEF IInv, Safe
  <1>2. IInv /\ [Next]_vars => IInv'
    <2> SUFFICES ASSUME IInv, [Next]_vars PROVE IInv'
      OBVIOUS
    <2>1. ASSUME NEW s \in Cancellable, RequestStop(s)
          PROVE  IInv'
      BY <2>1, RuntimeAssumption, StopStep
    <2>2. CASE UNCHANGED vars
      <3>1. UNCHANGED <<status, callbacks, inFlight, stop, dep, queue, accepting, stopping, exited,
                        stack, submitted, handles, runs, resumes>>
        BY <2>2 DEF vars, eventVars, poolVars, callVars
      <3>2. DataType'
        BY <3>1 DEF IInv, DataType
      <3>3. Safe'
        BY <3>1 DEF IInv, Safe, StackType, Ownership, OwnedFrames, OneOwner, OwnedEntries
      <3> QED
        BY <3>2, <3>3 DEF IInv
    <2> QED
      BY <2>1, <2>2, ContinueStep, ClientStep, WorkerStep DEF Next
  <1> QED
    BY <1>1, <1>2, PTL DEF Spec

\* Every variable keeps its type; in particular each stack holds well-formed
\* frames, so no callback is handed an event where a submission is needed.
THEOREM TypeCorrect == Spec => []TypeOK
  <1>1. IInv => TypeOK
    BY DEF IInv, Safe, StackType, DataType, TypeOK
  <1> QED
    BY <1>1, Invariant, PTL

\* A submission's step never runs on two threads at once, nor twice on one
\* thread's stack, for any number of submissions, clients and workers and any
\* sequence of resume(), cancel and shutdown() calls.
THEOREM StepsExclude == Spec => []StepExclusion
  <1>1. IInv => StepExclusion
    BY DEF IInv, Safe, Ownership, OneOwner, StepExclusion, ExecOps
  <1> QED
    BY <1>1, Invariant, PTL

-----------------------------------------------------------------------------
(* Steps as frames taken and put.                                           *)

\* Thread t replaces its top frame by fs, or starts a call with them.
Steps(t, fs) == (stack[t] # <<>> /\ Become(t, fs)) \/ Call(t, fs)

\* The step takes a frame of A away from the top of t's stack,
Takes(t, A) == stack[t] # <<>> /\ Top(t) \in A

\* puts one there,
Puts(fs, A) == \E k \in DOMAIN fs : fs[k] \in A

\* and at most one.
PutsOne(fs, A) == \A k, l \in DOMAIN fs : fs[k] \in A /\ fs[l] \in A => k = l

\* A frame of A is on some stack,
Some(A) == \E u \in Threads : \E i \in DOMAIN stack[u] : stack[u][i] \in A

\* in one place only,
AtMostOne(A) ==
    \A u, v \in Threads : \A i \in DOMAIN stack[u], j \in DOMAIN stack[v] :
        stack[u][i] \in A /\ stack[v][j] \in A => u = v /\ i = j

\* or elsewhere than on the top of t's stack.
Elsewhere(t, A) ==
    \E u \in Threads : \E i \in DOMAIN stack[u] : (u = t => i # 1) /\ stack[u][i] \in A

\* Where a frame of the new stacks comes from, as Origin says it for Become.
LEMMA StepOrigin ==
    ASSUME StackType, NEW t \in Threads, NEW fs \in Seq(Frames), Steps(t, fs),
           NEW u \in Threads, NEW i \in DOMAIN (stack'[u])
    PROVE  \/ u = t /\ i \in DOMAIN fs /\ stack'[u][i] = fs[i]
           \/ /\ u = t /\ i \notin DOMAIN fs
              /\ i - Len(fs) + 1 \in DOMAIN stack[t] /\ i - Len(fs) + 1 # 1
              /\ stack'[u][i] = stack[t][i - Len(fs) + 1]
           \/ u # t /\ i \in DOMAIN stack[u] /\ stack'[u][i] = stack[u][i]
  <1>1. CASE stack[t] # <<>> /\ Become(t, fs)
    <2>1. Len(fs) \in Nat /\ DOMAIN fs = 1..Len(fs)
      BY LenProperties
    <2>2. \/ u = t /\ i \in DOMAIN fs /\ i <= Len(fs) /\ stack'[u][i] = fs[i]
          \/ /\ u = t /\ i > Len(fs)
             /\ i - Len(fs) + 1 \in DOMAIN stack[t] /\ i - Len(fs) + 1 > 1
             /\ stack'[u][i] = stack[t][i - Len(fs) + 1]
          \/ u # t /\ i \in DOMAIN stack[u] /\ stack'[u][i] = stack[u][i]
      BY <1>1, Origin
    <2>3. i \in Nat
      BY <1>1, BecomeType, LenProperties DEF StackType
    <2> QED
      BY <2>1, <2>2, <2>3
  <1>2. CASE Call(t, fs)
    BY <1>2 DEF StackType, Call
  <1> QED
    BY <1>1, <1>2 DEF Steps

\* The frames put and those below the top are on the new stacks.
LEMMA StepKeeps ==
    ASSUME StackType, NEW t \in Threads, NEW fs \in Seq(Frames), Steps(t, fs)
    PROVE  /\ StackType'
           /\ \A k \in DOMAIN fs : k \in DOMAIN stack'[t] /\ stack'[t][k] = fs[k]
           /\ \A u \in Threads : \A j \in DOMAIN stack[u] :
                 (u = t => j # 1) =>
                 \E i \in DOMAIN stack'[u] : stack'[u][i] = stack[u][j]
  <1>1. CASE stack[t] # <<>> /\ Become(t, fs)
    <2> DEFINE r == Tail(stack[t])
    <2>1. stack[t] \in Seq(Frames) /\ stack'[t] = fs \o r
      BY <1>1 DEF StackType, Become
    <2>2. r \in Seq(Frames) /\ Len(r) = Len(stack[t]) - 1 /\ \A i \in 1..Len(r) : r[i] = stack[t][i + 1]
      BY <1>1, <2>1, HeadTailProperties
    <2>3. /\ Len(fs \o r) = Len(fs) + Len(r)
          /\ \A i \in 1..Len(fs \o r) : (fs \o r)[i] = IF i <= Len(fs) THEN fs[i] ELSE r[i - Len(fs)]
      BY <2>2, ConcatProperties
    <2>4. /\ Len(fs) \in Nat /\ Len(r) \in Nat /\ Len(stack[t]) \in Nat
          /\ DOMAIN fs = 1..Len(fs) /\ DOMAIN stack[t] = 1..Len(stack[t])
          /\ DOMAIN stack'[t] = 1..(Len(fs) + Len(r))
      BY <2>1, <2>2, <2>3, LenProperties, ConcatProperties
    <2> HIDE DEF r
    <2>5. \A k \in DOMAIN fs : k \in DOMAIN stack'[t] /\ stack'[t][k] = fs[k]
      BY <2>1, <2>3, <2>4
    <2>6. ASSUME NEW j \in DOMAIN stack[t], j # 1
          PROVE  \E i \in DOMAIN stack'[t] : stack'[t][i] = stack[t][j]
      <3>0. Len(r) = Len(stack[t]) - 1 /\ j \in 1..Len(stack[t])
        BY <2>2, <2>4, <2>6
      <3>1. j + Len(fs) - 1 \in DOMAIN stack'[t] /\ j - 1 \in 1..Len(r)
            /\ j + Len(fs) - 1 > Len(fs) /\ (j + Len(fs) - 1) - Len(fs) = j - 1
        BY <2>4, <2>6, <3>0
      <3>2. stack'[t][j + Len(fs) - 1] = r[j - 1]
        BY <2>1, <2>3, <2>4, <3>1
      <3>3. r[j - 1] = stack[t][j]
        BY <2>2, <3>0, <3>1
      <3> QED
        BY <3>1, <3>2, <3>3
    <2>7. \A u \in Threads \ {t} : stack'[u] = stack[u]
      BY <1>1 DEF StackType, Become
    <2>8. StackType'
      BY <1>1, BecomeType
    <2> QED
      BY <2>5, <2>6, <2>7, <2>8
  <1>2. CASE Call(t, fs)
    <2>1. /\ stack[t] = <<>> /\ stack'[t] = fs /\ DOMAIN stack[t] = {}
          /\ \A u \in Threads \ {t} : stack'[u] = stack[u]
      BY <1>2 DEF StackType, Call
    <2> QED
      BY <1>2, <2>1, CallType
  <1> QED
    BY <1>1, <1>2 DEF Steps

\* What a step does to the places of the frames of a set A.
LEMMA StepSets ==
    ASSUME StackType, NEW t \in Threads, NEW fs \in Seq(Frames), Steps(t, fs), NEW A
    PROVE  /\ Some(A) <=> Takes(t, A) \/ Elsewhere(t, A)
           /\ Some(A)' <=> Puts(fs, A) \/ Elsewhere(t, A)
           /\ AtMostOne(A) /\ Takes(t, A) => ~Elsewhere(t, A)
           /\ AtMostOne(A) /\ PutsOne(fs, A) /\ (Puts(fs, A) => ~Elsewhere(t, A)) => AtMostOne(A)'
  <1>0. stack[t] # <<>> => 1 \in DOMAIN stack[t] /\ stack[t][1] = Top(t)
    <2>1. stack[t] \in Seq(Frames)
      BY DEF StackType
    <2>2. Len(stack[t]) \in Nat /\ DOMAIN stack[t] = 1..Len(stack[t])
      BY <2>1, LenProperties
    <2> QED
      BY <2>1, <2>2, HeadTailProperties, EmptySeq DEF Top
  <1>1. DOMAIN stack[t] # {} => stack[t] # <<>>
    OBVIOUS
  <1>2. Some(A) <=> Takes(t, A) \/ Elsewhere(t, A)
    BY <1>0, <1>1 DEF Some, Takes, Elsewhere
  <1>3. Some(A)' => Puts(fs, A) \/ Elsewhere(t, A)
    <2> SUFFICES ASSUME NEW u \in Threads, NEW i \in DOMAIN (stack'[u]), stack'[u][i] \in A
                 PROVE  Puts(fs, A) \/ Elsewhere(t, A)
      BY DEF Some
    <2> QED
      BY StepOrigin DEF Puts, Elsewhere
  <1>4. Puts(fs, A) \/ Elsewhere(t, A) => Some(A)'
    BY StepKeeps DEF Some, Puts, Elsewhere
  <1>5. AtMostOne(A) /\ Takes(t, A) => ~Elsewhere(t, A)
    BY <1>0 DEF AtMostOne, Takes, Elsewhere
  <1>6. ASSUME AtMostOne(A), PutsOne(fs, A), Puts(fs, A) => ~Elsewhere(t, A),
               NEW u \in Threads, NEW v \in Threads,
               NEW i \in DOMAIN (stack'[u]), NEW j \in DOMAIN (stack'[v]),
               stack'[u][i] \in A, stack'[v][j] \in A
        PROVE  u = v /\ i = j
    <2> DEFINE Was(w, k, l) == /\ l \in DOMAIN stack[w] /\ (w = t => l # 1) /\ stack[w][l] \in A
                               /\ l = IF w = t THEN k - Len(fs) + 1 ELSE k
    <2>1. \/ u = t /\ i \in DOMAIN fs /\ fs[i] \in A
          \/ \E l : Was(u, i, l)
      BY <1>6, StepOrigin
    <2>2. \/ v = t /\ j \in DOMAIN fs /\ fs[j] \in A
          \/ \E l : Was(v, j, l)
      BY <1>6, StepOrigin
    <2>3. i \in Nat /\ j \in Nat /\ Len(fs) \in Nat
      BY StepKeeps, LenProperties DEF StackType
    <2>4. ASSUME NEW k, NEW l, Was(u, i, k), Was(v, j, l)
          PROVE  u = v /\ i = j
      <3>1. u = v /\ k = l
        BY <1>6, <2>4 DEF AtMostOne
      <3> QED
        BY <2>3, <2>4, <3>1
    <2>5. \A w \in Threads : \A k, l : Was(w, k, l) => Elsewhere(t, A)
      BY DEF Elsewhere
    <2> HIDE DEF Was
    <2> QED
      BY <1>6, <2>1, <2>2, <2>4, <2>5 DEF Puts, PutsOne
  <1>7. AtMostOne(A) /\ PutsOne(fs, A) /\ (Puts(fs, A) => ~Elsewhere(t, A)) => AtMostOne(A)'
    BY <1>6 DEF AtMostOne
  <1> QED
    BY <1>2, <1>3, <1>4, <1>5, <1>7

\* What a list of at most two frames puts.
LEMMA PutsOf ==
    ASSUME NEW A
    PROVE  /\ ~Puts(<<>>, A) /\ PutsOne(<<>>, A)
           /\ \A f : (Puts(<<f>>, A) <=> f \in A) /\ PutsOne(<<f>>, A)
           /\ \A f, g : /\ Puts(<<f, g>>, A) <=> f \in A \/ g \in A
                        /\ ~(f \in A /\ g \in A) => PutsOne(<<f, g>>, A)
  BY DEF Puts, PutsOne

\* complete() puts the frame that runs the callbacks before its caller's next frame.
LEMMA PairConcat ==
    ASSUME NEW f \in Frames
    PROVE  /\ <<f>> \o <<>> = <<f>>
           /\ \A g \in Frames : <<f>> \o <<g>> = <<f, g>>
  <1>1. <<f>> \o <<>> = <<f>>
    BY ConcatEmptySeq
  <1>2. ASSUME NEW g \in Frames
        PROVE  <<f>> \o <<g>> = <<f, g>>
    <2>1. /\ <<f>> \in Seq(Frames) /\ <<g>> \in Seq(Frames) /\ <<f, g>> \in Seq(Frames)
          /\ Len(<<f>>) = 1 /\ Len(<<g>>) = 1 /\ Len(<<f, g>>) = 2
          /\ <<f>>[1] = f /\ <<g>>[1] = g /\ <<f, g>>[1] = f /\ <<f, g>>[2] = g
      OBVIOUS
    <2>2. /\ <<f>> \o <<g>> \in Seq(Frames)
          /\ Len(<<f>> \o <<g>>) = 2
          /\ \A i \in 1..2 : (<<f>> \o <<g>>)[i] = <<f, g>>[i]
      BY <2>1, ConcatProperties
    <2> QED
      BY <2>1, <2>2, SeqEqual
  <1> QED
    BY <1>1, <1>2

-----------------------------------------------------------------------------
(* Where the callback of a prerequisite is.                                 *)

\* The frames that hold the callback of s on p: not yet registered, swapped
\* out of the event, or running.
Carriers(s, p) ==
    {f \in Frames : \/ f.op = "register" /\ f.s = s /\ p \in f.todo
                    \/ f.op = "notify" /\ f.s = p /\ s \in f.todo
                    \/ f.op \in {"record", "count"} /\ f.s = s /\ f.p = p}

CarryOps == {"register", "notify", "record", "count"}

\* The callback of s on p is still to be counted.
Held(s, p) == s \in callbacks[p] \/ Some(Carriers(s, p))

\* It is in one place, and belongs to a submission that has this prerequisite.
CarriedOnce(s, p) ==
    /\ AtMostOne(Carriers(s, p))
    /\ s \in callbacks[p] => ~Some(Carriers(s, p))
    /\ Held(s, p) => s \in submitted /\ p \in Prereqs[s]

CountInv == CountsPrerequisites /\ \A s \in Subs, p \in Events : CarriedOnce(s, p)

\* The carriers by their program points.
LEMMA CarrierOf ==
    ASSUME NEW f \in Frames, NEW s, NEW p
    PROVE  /\ f.op \notin CarryOps => f \notin Carriers(s, p)
           /\ f.op = "register" => (f \in Carriers(s, p) <=> f.s = s /\ p \in f.todo)
           /\ f.op = "notify" => (f \in Carriers(s, p) <=> f.s = p /\ s \in f.todo)
           /\ f.op \in {"record", "count"} => (f \in Carriers(s, p) <=> f.s = s /\ f.p = p)
  BY DEF Carriers, CarryOps

\* The fields that say whose callback a frame holds.
LEMMA CarrierParts ==
    /\ \A op, s, p : WithPrereq(op, s, p).p = p
    /\ \A op, s, todo : WithTodo(op, s, todo).todo = todo
  BY DEF Frame, WithPrereq, WithTodo

\* Uncounted, in terms of places.
LEMMA UncountedHeld ==
    ASSUME StackType, StackType', NEW s \in Subs
    PROVE  /\ Uncounted(s) = {p \in Prereqs[s] : Held(s, p)}
           /\ Uncounted(s)' = {p \in Prereqs[s] : Held(s, p)'}
  <1>1. ASSUME NEW u \in Threads
        PROVE  /\ \A i \in DOMAIN stack[u] : stack[u][i] \in Frames
               /\ \A i \in DOMAIN stack'[u] : stack'[u][i] \in Frames
    <2>1. stack[u] \in Seq(Frames) /\ stack'[u] \in Seq(Frames)
      BY DEF StackType
    <2> QED
      BY <2>1
  <1>2. ASSUME NEW p
        PROVE  /\ Held(s, p) <=>
                     \/ s \in callbacks[p]
                     \/ \E t \in Threads : \E i \in DOMAIN stack[t] :
                           LET f == stack[t][i] IN
                           \/ f.op = "register" /\ f.s = s /\ p \in f.todo
                           \/ f.op = "notify" /\ f.s = p /\ s \in f.todo
                           \/ f.op \in {"record", "count"} /\ f.s = s /\ f.p = p
               /\ Held(s, p)' <=>
                     \/ s \in callbacks'[p]
                     \/ \E t \in Threads : \E i \in DOMAIN stack'[t] :
                           LET f == stack'[t][i] IN
                           \/ f.op = "register" /\ f.s = s /\ p \in f.todo
                           \/ f.op = "notify" /\ f.s = p /\ s \in f.todo
                           \/ f.op \in {"record", "count"} /\ f.s = s /\ f.p = p
    BY <1>1 DEF Held, Some, Carriers
  <1>3. Uncounted(s) = {p \in Prereqs[s] : Held(s, p)}
    BY <1>2 DEF Uncounted
  <1>4. Uncounted(s)' = {p \in Prereqs[s] : Held(s, p)'}
    BY <1>2 DEF Uncounted
  <1> QED
    BY <1>3, <1>4

\* The step may hand the callback of s on p on, to one place, and creates none.
Hands(t, fs, s, p) ==
    /\ PutsOne(fs, Carriers(s, p))
    /\ Puts(fs, Carriers(s, p)) => s \notin callbacks'[p]
    /\ Puts(fs, Carriers(s, p)) \/ s \in callbacks'[p]
          => Takes(t, Carriers(s, p)) \/ s \in callbacks[p]

\* The callback of s on p is where the step could take it, and is put nowhere.
Drops(t, fs, s, p) ==
    /\ Takes(t, Carriers(s, p)) \/ s \in callbacks[p]
    /\ ~Puts(fs, Carriers(s, p)) /\ s \notin callbacks'[p]

\* What handing on does to the places of a callback.
LEMMA HandsOn ==
    ASSUME StackType, NEW t \in Threads, NEW fs \in Seq(Frames), Steps(t, fs),
           NEW s \in Subs, NEW p \in Events, CarriedOnce(s, p), Hands(t, fs, s, p),
           submitted \subseteq submitted'
    PROVE  /\ CarriedOnce(s, p)'
           /\ Held(s, p)' <=> Held(s, p) /\ ~Drops(t, fs, s, p)
  <1> DEFINE A == Carriers(s, p)
  <1>1. /\ Some(A) <=> Takes(t, A) \/ Elsewhere(t, A)
        /\ Some(A)' <=> Puts(fs, A) \/ Elsewhere(t, A)
        /\ AtMostOne(A) /\ Takes(t, A) => ~Elsewhere(t, A)
        /\ AtMostOne(A) /\ PutsOne(fs, A) /\ (Puts(fs, A) => ~Elsewhere(t, A)) => AtMostOne(A)'
    BY StepSets
  <1>2. /\ AtMostOne(A) /\ (s \in callbacks[p] => ~Some(A))
        /\ Held(s, p) => s \in submitted /\ p \in Prereqs[s]
    BY DEF CarriedOnce
  <1>3. /\ PutsOne(fs, A) /\ (Puts(fs, A) => s \notin callbacks'[p])
        /\ Puts(fs, A) \/ s \in callbacks'[p] => Takes(t, A) \/ s \in callbacks[p]
    BY DEF Hands
  <1>4. Held(s, p) <=> s \in callbacks[p] \/ Some(A)
    BY DEF Held
  <1>5. Held(s, p)' <=> s \in callbacks'[p] \/ Some(A)'
    BY DEF Held
  <1>6. Drops(t, fs, s, p) <=>
            (Takes(t, A) \/ s \in callbacks[p]) /\ ~Puts(fs, A) /\ s \notin callbacks'[p]
    BY DEF Drops
  <1>7. Held(s, p)' <=> Held(s, p) /\ ~Drops(t, fs, s, p)
    BY <1>1, <1>2, <1>3, <1>4, <1>5, <1>6
  <1>8. AtMostOne(A)' /\ (s \in callbacks'[p] => ~Some(A)')
    BY <1>1, <1>2, <1>3
  <1>9. Held(s, p)' => s \in submitted' /\ p \in Prereqs[s]
    BY <1>2, <1>7
  <1> QED
    BY <1>7, <1>8, <1>9 DEF CarriedOnce

\* A step that hands every callback on, and drops none, counts nothing.
LEMMA HandsAll ==
    ASSUME StackType, CountInv, NEW t \in Threads, NEW fs \in Seq(Frames), Steps(t, fs),
           \A s \in Subs, p \in Events : Hands(t, fs, s, p) /\ ~Drops(t, fs, s, p),
           UNCHANGED submitted, submitted \subseteq Subs,
           \A s \in Subs : dep'[s].remaining = dep[s].remaining
    PROVE  CountInv' /\ \A s \in Subs, p \in Events : Held(s, p)' <=> Held(s, p)
  <1>1. \A s \in Subs, p \in Events : CarriedOnce(s, p)' /\ (Held(s, p)' <=> Held(s, p))
    BY HandsOn DEF CountInv
  <1>2. ASSUME NEW s \in submitted'
        PROVE  dep'[s].remaining = Cardinality(Uncounted(s)')
    <2>1. s \in Subs /\ s \in submitted /\ Prereqs[s] \subseteq Events
      BY <1>2, RuntimeAssumption
    <2>2. Uncounted(s) = {p \in Prereqs[s] : Held(s, p)} /\ Uncounted(s)' = {p \in Prereqs[s] : Held(s, p)'}
      BY <2>1, StepKeeps, UncountedHeld
    <2>3. Uncounted(s)' = Uncounted(s)
      BY <1>1, <2>1, <2>2
    <2>4. dep[s].remaining = Cardinality(Uncounted(s))
      BY <2>1 DEF CountInv, CountsPrerequisites
    <2> QED
      BY <2>1, <2>3, <2>4
  <1>3. CountsPrerequisites'
    BY <1>2 DEF CountsPrerequisites
  <1> QED
    BY <1>1, <1>3 DEF CountInv

-----------------------------------------------------------------------------
(* Counting: every step hands the callbacks on, except the one that counts. *)

\* The same callbacks are still to be counted.
SameHeld == \A s \in Subs, p \in Events : Held(s, p)' <=> Held(s, p)

\* A frame that holds no callback gives way to frames that hold none.
LEMMA QuietStep ==
    ASSUME StackType, submitted \subseteq Subs, CountInv,
           NEW t \in Threads, NEW op, At(t, op), op \notin CarryOps,
           \/ Become(t, <<>>)
           \/ \E f \in Frames : f.op \notin CarryOps /\ Become(t, <<f>>),
           UNCHANGED <<callbacks, submitted>>,
           \A s \in Subs : dep'[s].remaining = dep[s].remaining
    PROVE  CountInv' /\ SameHeld
  <1>1. PICK fs \in Seq(Frames) : Become(t, fs) /\ \A A : Puts(fs, A) => \E f \in A : f \in Frames /\ f.op \notin CarryOps
    <2>1. <<>> \in Seq(Frames) /\ \A A : ~Puts(<<>>, A)
      BY PutsOf
    <2>2. ASSUME NEW f \in Frames, f.op \notin CarryOps, Become(t, <<f>>)
          PROVE  <<f>> \in Seq(Frames) /\ \A A : Puts(<<f>>, A) => f \in A
      BY PutsOf
    <2> QED
      BY <2>1, <2>2
  <1>2. stack[t] # <<>> /\ Top(t) \in Frames /\ Top(t).op = op
    BY TopFrame
  <1>3. Steps(t, fs)
    BY <1>1, <1>2 DEF Steps
  <1>4. ASSUME NEW s \in Subs, NEW p \in Events
        PROVE  Hands(t, fs, s, p) /\ ~Drops(t, fs, s, p)
    <2>1. ~Puts(fs, Carriers(s, p))
      BY <1>1, CarrierOf
    <2>2. ~Takes(t, Carriers(s, p))
      BY <1>2, CarrierOf DEF Takes
    <2>3. PutsOne(fs, Carriers(s, p))
      BY <2>1 DEF Puts, PutsOne
    <2> QED
      BY <2>1, <2>2, <2>3 DEF Hands, Drops
  <1>5. submitted' = submitted
    OBVIOUS
  <1> QED
    BY <1>1, <1>3, <1>4, <1>5, HandsAll DEF SameHeld

\* An idle thread starts a call that holds no callback.
LEMMA QuietCall ==
    ASSUME StackType, submitted \subseteq Subs, CountInv,
           NEW t \in Threads, NEW f \in Frames, f.op \notin CarryOps, Call(t, <<f>>),
           UNCHANGED <<callbacks, dep, submitted>>
    PROVE  CountInv' /\ SameHeld
  <1>1. <<f>> \in Seq(Frames) /\ Steps(t, <<f>>) /\ stack[t] = <<>>
    BY DEF Steps, Call
  <1>4. ASSUME NEW s \in Subs, NEW p \in Events
        PROVE  Hands(t, <<f>>, s, p) /\ ~Drops(t, <<f>>, s, p)
    <2>1. ~Puts(<<f>>, Carriers(s, p)) /\ PutsOne(<<f>>, Carriers(s, p))
      BY PutsOf, CarrierOf
    <2>2. ~Takes(t, Carriers(s, p))
      BY <1>1 DEF Takes
    <2> QED
      BY <2>1, <2>2 DEF Hands, Drops
  <1>5. submitted' = submitted
    OBVIOUS
  <1> QED
    BY <1>1, <1>4, <1>5, HandsAll DEF SameHeld

\* Nothing happens on the stacks.
LEMMA QuietElse ==
    ASSUME CountInv, UNCHANGED <<stack, callbacks, dep, submitted>>
    PROVE  CountInv' /\ SameHeld
  <1>1. \A s, p : Held(s, p)' <=> Held(s, p)
    BY DEF Held, Some
  <1>2. \A s \in Subs, p \in Events : CarriedOnce(s, p)'
    BY <1>1 DEF CountInv, CarriedOnce, AtMostOne, Some
  <1>3. CountsPrerequisites'
    <2>1. \A s : Uncounted(s)' = Uncounted(s)
      BY DEF Uncounted
    <2> QED
      BY <2>1 DEF CountInv, CountsPrerequisites
  <1> QED
    BY <1>1, <1>2, <1>3 DEF CountInv, SameHeld

\* complete() swaps all callbacks of the event into the frame that runs them.
LEMMA CompleteHands ==
    ASSUME StackType, submitted \subseteq Subs, callbacks \in [Events -> SUBSET Subs], CountInv,
           NEW t \in Threads, NEW op, At(t, op), op \notin CarryOps,
           NEW e \in Events, NEW st \in Statuses, NEW rest, Complete(t, e, st, rest),
           rest = <<>> \/ \E g \in Frames : g.op \notin CarryOps /\ rest = <<g>>,
           UNCHANGED <<dep, submitted>>
    PROVE  CountInv' /\ SameHeld
  <1> DEFINE n == WithTodo("notify", e, callbacks[e])
  <1>1. n \in Frames /\ n.op = "notify" /\ n.s = e /\ n.todo = callbacks[e]
    BY FrameTypes, FrameParts, CarrierParts DEF EventOps
  <1>2. CASE Become(t, rest) /\ UNCHANGED callbacks
    BY <1>2, QuietStep
  <1>3. CASE Become(t, <<n>> \o rest) /\ callbacks' = [callbacks EXCEPT ![e] = {}]
    <2> HIDE DEF n
    <2>1. PICK fs \in Seq(Frames) : /\ Become(t, fs)
                                    /\ \A A : \/ Puts(fs, A) <=> n \in A
                                              \/ \E g \in A : g \in Frames /\ g.op \notin CarryOps
                                    /\ \A A : \/ PutsOne(fs, A)
                                              \/ \E g \in A : g \in Frames /\ g.op \notin CarryOps
      <3>1. CASE rest = <<>>
        <4>1. <<n>> \in Seq(Frames) /\ Become(t, <<n>>)
          BY <1>1, <1>3, <3>1, PairConcat
        <4> QED
          BY <4>1, PutsOf
      <3>2. ASSUME NEW g \in Frames, g.op \notin CarryOps, rest = <<g>>
            PROVE  /\ <<n, g>> \in Seq(Frames) /\ Become(t, <<n, g>>)
                   /\ \A A : g \notin A => (Puts(<<n, g>>, A) <=> n \in A) /\ PutsOne(<<n, g>>, A)
        <4>1. <<n>> \o rest = <<n, g>>
          BY <1>1, <3>2, PairConcat
        <4>2. <<n, g>> \in Seq(Frames)
          BY <1>1
        <4>3. Become(t, <<n, g>>)
          BY <1>3, <4>1, Zenon
        <4> QED
          BY <4>2, <4>3, PutsOf
      <3> QED
        BY <3>1, <3>2
    <2>2. stack[t] # <<>> /\ Top(t) \in Frames /\ Top(t).op = op
      BY TopFrame
    <2>3. Steps(t, fs)
      BY <2>1, <2>2 DEF Steps
    <2>4. ASSUME NEW s \in Subs, NEW p \in Events
          PROVE  Hands(t, fs, s, p) /\ ~Drops(t, fs, s, p)
      <3> DEFINE A == Carriers(s, p)
      <3>1. \A g \in A : g \in Frames => g.op \in CarryOps
        BY CarrierOf
      <3>2. (Puts(fs, A) <=> n \in A) /\ PutsOne(fs, A)
        BY <2>1, <3>1
      <3>3. n \in A <=> e = p /\ s \in callbacks[e]
        BY <1>1, CarrierOf
      <3>4. ~Takes(t, A)
        BY <2>2, CarrierOf DEF Takes
      <3>5. s \in callbacks'[p] <=> p # e /\ s \in callbacks[p]
        BY <1>3
      <3> QED
        BY <3>2, <3>3, <3>4, <3>5 DEF Hands, Drops
    <2>5. submitted' = submitted
      OBVIOUS
    <2> QED
      BY <2>1, <2>3, <2>4, <2>5, HandsAll DEF SameHeld
  <1> QED
    BY <1>2, <1>3 DEF Complete, eventVars

\* on_complete() registers the callback, or lets it run.
LEMMA RegisterHands ==
    ASSUME IInv, CountInv, NEW t \in Threads, Register(t)
    PROVE  CountInv' /\ SameHeld
  <1> DEFINE f == Top(t)
  <1>0. StackType /\ DataType
    BY DEF IInv, Safe
  <1>1. /\ At(t, "register") /\ stack[t] # <<>> /\ f \in Frames /\ f.op = "register"
        /\ f.s \in Subs /\ f.todo \subseteq Events
        /\ 1 \in DOMAIN stack[t] /\ stack[t][1] = f
    BY <1>0, TopFrame, FrameFields DEF Register, SubOps
  <1>2. /\ callbacks \in [Events -> SUBSET Subs] /\ submitted \subseteq Subs
        /\ UNCHANGED <<dep, submitted>>
    BY <1>0 DEF DataType, Register, callVars
  <1>3. \A s \in Subs, p \in Events : Takes(t, Carriers(s, p)) <=> s = f.s /\ p \in f.todo
    BY <1>1, CarrierOf DEF Takes
  <1>4. \A s \in Subs, p \in Events : Takes(t, Carriers(s, p)) => s \notin callbacks[p]
    BY <1>1 DEF CountInv, CarriedOnce, Some, Takes
  <1> HIDE DEF f
  <1>5. CASE f.todo = {} /\ Become(t, <<>>) /\ UNCHANGED callbacks
    <2>1. <<>> \in Seq(Frames) /\ Steps(t, <<>>)
      BY <1>1, <1>5 DEF Steps
    <2>2. \A s \in Subs, p \in Events : Hands(t, <<>>, s, p) /\ ~Drops(t, <<>>, s, p)
      BY <1>3, <1>5, PutsOf DEF Hands, Drops
    <2> QED
      BY <1>0, <1>2, <2>1, <2>2, HandsAll DEF SameHeld
  <1>6. ASSUME NEW q \in f.todo
        PROVE  LET r == WithTodo("register", f.s, f.todo \ {q})
                   g == WithPrereq("record", f.s, q) IN
               /\ Become(t, <<g, r>>) /\ UNCHANGED callbacks => CountInv' /\ SameHeld
               /\ Become(t, <<r>>) /\ callbacks' = [callbacks EXCEPT ![q] = @ \cup {f.s}]
                     => CountInv' /\ SameHeld
    <2> DEFINE r == WithTodo("register", f.s, f.todo \ {q})
               g == WithPrereq("record", f.s, q)
    <2>1. /\ r \in Frames /\ r.op = "register" /\ r.s = f.s /\ r.todo = f.todo \ {q}
          /\ g \in Frames /\ g.op = "record" /\ g.s = f.s /\ g.p = q
          /\ q \in Events
      <3>1. q \in Events /\ f.todo \ {q} \in SUBSET Events /\ f.s \in Subs
        BY <1>1
      <3>2. r \in Frames /\ g \in Frames
        BY <3>1, FrameTypes DEF SubOps
      <3>3. r.op = "register" /\ r.s = f.s /\ g.op = "record" /\ g.s = f.s
        BY FrameParts
      <3>4. r.todo = f.todo \ {q} /\ g.p = q
        BY CarrierParts
      <3> QED
        BY <3>1, <3>2, <3>3, <3>4
    <2> HIDE DEF r, g
    <2>2. \A s \in Subs, p \in Events :
             /\ r \in Carriers(s, p) <=> s = f.s /\ p \in f.todo \ {q}
             /\ g \in Carriers(s, p) <=> s = f.s /\ p = q
      BY <2>1, CarrierOf
    <2>3. ASSUME Become(t, <<g, r>>), UNCHANGED callbacks
          PROVE  CountInv' /\ SameHeld
      <3>1. <<g, r>> \in Seq(Frames) /\ Steps(t, <<g, r>>)
        BY <1>1, <2>1, <2>3 DEF Steps
      <3>2. ASSUME NEW s \in Subs, NEW p \in Events
            PROVE  Hands(t, <<g, r>>, s, p) /\ ~Drops(t, <<g, r>>, s, p)
        <4> DEFINE A == Carriers(s, p)
        <4>1. /\ Puts(<<g, r>>, A) <=> g \in A \/ r \in A
              /\ ~(g \in A /\ r \in A) => PutsOne(<<g, r>>, A)
          BY PutsOf
        <4>2. /\ r \in A <=> s = f.s /\ p \in f.todo /\ p # q
              /\ g \in A <=> s = f.s /\ p = q
              /\ Takes(t, A) <=> s = f.s /\ p \in f.todo
              /\ Takes(t, A) => s \notin callbacks[p]
          BY <1>3, <1>4, <2>2
        <4>3. callbacks' = callbacks
          BY <2>3
        <4> QED
          BY <4>1, <4>2, <4>3 DEF Hands, Drops
      <3> QED
        BY <1>0, <1>2, <3>1, <3>2, HandsAll DEF SameHeld
    <2>4. ASSUME Become(t, <<r>>), callbacks' = [callbacks EXCEPT ![q] = @ \cup {f.s}]
          PROVE  CountInv' /\ SameHeld
      <3>1. <<r>> \in Seq(Frames) /\ Steps(t, <<r>>)
        BY <1>1, <2>1, <2>4 DEF Steps
      <3>2. \A s \in Subs, p \in Events : s \in callbacks'[p] <=> s \in callbacks[p] \/ (s = f.s /\ p = q)
        BY <1>2, <2>4
      <3>3. \A s \in Subs, p \in Events : Hands(t, <<r>>, s, p) /\ ~Drops(t, <<r>>, s, p)
        BY <1>3, <1>4, <2>2, <3>2, PutsOf DEF Hands, Drops
      <3> QED
        BY <1>0, <1>2, <3>1, <3>3, HandsAll DEF SameHeld
    <2> QED
      BY <2>3, <2>4 DEF r, g
  <1> QED
    BY <1>5, <1>6 DEF Register, f

\* A finished event's callbacks run one after the other.
LEMMA NotifyHands ==
    ASSUME IInv, CountInv, NEW t \in Threads, Notify(t)
    PROVE  CountInv' /\ SameHeld
  <1> DEFINE f == Top(t)
  <1>0. StackType /\ DataType
    BY DEF IInv, Safe
  <1>1. /\ At(t, "notify") /\ stack[t] # <<>> /\ f \in Frames /\ f.op = "notify"
        /\ f.s \in Events /\ f.todo \subseteq Subs
        /\ 1 \in DOMAIN stack[t] /\ stack[t][1] = f
    BY <1>0, TopFrame, FrameFields DEF Notify, EventOps
  <1>2. submitted \subseteq Subs /\ UNCHANGED <<callbacks, dep, submitted>>
    BY <1>0 DEF DataType, Notify, callVars, eventVars
  <1>3. \A s \in Subs, p \in Events : Takes(t, Carriers(s, p)) <=> p = f.s /\ s \in f.todo
    BY <1>1, CarrierOf DEF Takes
  <1>4. \A s \in Subs, p \in Events : Takes(t, Carriers(s, p)) => s \notin callbacks[p]
    BY <1>1 DEF CountInv, CarriedOnce, Some, Takes
  <1> HIDE DEF f
  <1>5. CASE f.todo = {} /\ Become(t, <<>>)
    <2>1. <<>> \in Seq(Frames) /\ Steps(t, <<>>)
      BY <1>1, <1>5 DEF Steps
    <2>2. \A s \in Subs, p \in Events : Hands(t, <<>>, s, p) /\ ~Drops(t, <<>>, s, p)
      BY <1>2, <1>3, <1>5, PutsOf DEF Hands, Drops
    <2> QED
      BY <1>0, <1>2, <2>1, <2>2, HandsAll DEF SameHeld
  <1>6. ASSUME NEW d \in f.todo,
               Become(t, <<WithPrereq("record", d, f.s), WithTodo("notify", f.s, f.todo \ {d})>>)
        PROVE  CountInv' /\ SameHeld
    <2> DEFINE r == WithTodo("notify", f.s, f.todo \ {d})
               g == WithPrereq("record", d, f.s)
    <2>1. /\ r \in Frames /\ r.op = "notify" /\ r.s = f.s /\ r.todo = f.todo \ {d}
          /\ g \in Frames /\ g.op = "record" /\ g.s = d /\ g.p = f.s
      <3>1. d \in Subs /\ f.todo \ {d} \in SUBSET Subs /\ f.s \in Events
        BY <1>1
      <3>2. r \in Frames /\ g \in Frames
        BY <3>1, FrameTypes DEF SubOps, EventOps
      <3>3. r.op = "notify" /\ r.s = f.s /\ g.op = "record" /\ g.s = d
        BY FrameParts
      <3>4. r.todo = f.todo \ {d} /\ g.p = f.s
        BY CarrierParts
      <3> QED
        BY <3>1, <3>2, <3>3, <3>4
    <2>2. Become(t, <<g, r>>)
      BY <1>6
    <2> HIDE DEF r, g
    <2>3. <<g, r>> \in Seq(Frames) /\ Steps(t, <<g, r>>)
      BY <1>1, <2>1, <2>2 DEF Steps
    <2>4. ASSUME NEW s \in Subs, NEW p \in Events
          PROVE  Hands(t, <<g, r>>, s, p) /\ ~Drops(t, <<g, r>>, s, p)
      <3> DEFINE A == Carriers(s, p)
      <3>1. /\ Puts(<<g, r>>, A) <=> g \in A \/ r \in A
            /\ ~(g \in A /\ r \in A) => PutsOne(<<g, r>>, A)
        BY PutsOf
      <3>2. /\ r \in A <=> p = f.s /\ s \in f.todo /\ s # d
            /\ g \in A <=> s = d /\ p = f.s
        BY <2>1, CarrierOf
      <3>3. /\ Takes(t, A) <=> p = f.s /\ s \in f.todo
            /\ Takes(t, A) => s \notin callbacks[p]
            /\ callbacks' = callbacks
        BY <1>2, <1>3, <1>4
      <3> QED
        BY <3>1, <3>2, <3>3 DEF Hands, Drops
    <2> QED
      BY <1>0, <1>2, <2>3, <2>4, HandsAll DEF SameHeld
  <1> QED
    BY <1>5, <1>6 DEF Notify, f

\* The fields that Record writes, and those it leaves.
LEMMA RecordDoes ==
    ASSUME IInv, NEW t \in Threads, Record(t)
    PROVE  LET s == Top(t).s  p == Top(t).p IN
           /\ s \in Subs /\ p \in Events
           /\ \A d \in Subs : dep'[d].remaining = dep[d].remaining
           /\ \A d \in Subs : /\ dep[d].failed => dep'[d].failed
                              /\ dep[d].cancelled => dep'[d].cancelled
           /\ s \in StopOnFailure => /\ status[p] = "failed" => dep'[s].failed
                                     /\ status[p] = "cancelled" => dep'[s].cancelled
  <1> DEFINE f == Top(t)
             D == [remaining : Int, failed : BOOLEAN, cancelled : BOOLEAN]
             x == f.s \in StopOnFailure /\ status[f.p] = "failed"
             y == f.s \in StopOnFailure /\ status[f.p] = "cancelled"
             r == [dep[f.s] EXCEPT !.failed = @ \/ x, !.cancelled = @ \/ y]
  <1>1. f.s \in Subs /\ f.p \in Events
    BY TopFrame, FrameFields DEF Record, SubOps, IInv, Safe
  <1>2. dep \in [Subs -> D]
    BY DEF IInv, DataType
  <1>3. dep' = [dep EXCEPT ![f.s] = r]
    BY <1>1, <1>2 DEF Record
  <1>4. /\ r.remaining = dep[f.s].remaining
        /\ r.failed = (dep[f.s].failed \/ x) /\ r.cancelled = (dep[f.s].cancelled \/ y)
    BY <1>1, <1>2
  <1> HIDE DEF r
  <1>5. \A d \in Subs : dep'[d] = IF d = f.s THEN r ELSE dep[d]
    BY <1>1, <1>2, <1>3
  <1> QED
    BY <1>1, <1>4, <1>5

\* The callback notes how its prerequisite ended.
LEMMA RecordHands ==
    ASSUME IInv, CountInv, NEW t \in Threads, Record(t)
    PROVE  CountInv' /\ SameHeld
  <1> DEFINE f == Top(t)
             g == WithPrereq("count", f.s, f.p)
  <1>0. StackType /\ DataType
    BY DEF IInv, Safe
  <1>1. /\ At(t, "record") /\ stack[t] # <<>> /\ f \in Frames /\ f.op = "record"
        /\ f.s \in Subs /\ f.p \in Events
        /\ 1 \in DOMAIN stack[t] /\ stack[t][1] = f
    BY <1>0, TopFrame, FrameFields DEF Record, SubOps
  <1>2. submitted \subseteq Subs /\ UNCHANGED <<callbacks, submitted>>
    BY <1>0 DEF DataType, Record, callVars, eventVars
  <1>3. \A d \in Subs : dep'[d].remaining = dep[d].remaining
    BY RecordDoes
  <1>4. g \in Frames /\ g.op = "count" /\ g.s = f.s /\ g.p = f.p
    <2>1. g \in Frames
      BY <1>1, FrameTypes DEF SubOps
    <2>2. g.op = "count" /\ g.s = f.s
      BY FrameParts
    <2> QED
      BY <2>1, <2>2, CarrierParts
  <1>5. Become(t, <<g>>)
    BY DEF Record
  <1>6. \A s \in Subs, p \in Events : Takes(t, Carriers(s, p)) => s \notin callbacks[p]
    BY <1>1 DEF CountInv, CarriedOnce, Some, Takes
  <1>7. \A s \in Subs, p \in Events : Takes(t, Carriers(s, p)) <=> g \in Carriers(s, p)
    BY <1>1, <1>4, CarrierOf DEF Takes
  <1> HIDE DEF f, g
  <1>8. <<g>> \in Seq(Frames) /\ Steps(t, <<g>>)
    BY <1>1, <1>4, <1>5 DEF Steps
  <1>9. \A s \in Subs, p \in Events : Hands(t, <<g>>, s, p) /\ ~Drops(t, <<g>>, s, p)
    BY <1>2, <1>6, <1>7, PutsOf DEF Hands, Drops
  <1> QED
    BY <1>0, <1>2, <1>3, <1>8, <1>9, HandsAll DEF SameHeld

\* Count takes one off the number of its submission.
LEMMA CountDoes ==
    ASSUME IInv, NEW t \in Threads, Count(t)
    PROVE  LET s == Top(t).s IN
           /\ s \in Subs /\ dep[s].remaining \in Int
           /\ dep'[s].remaining = dep[s].remaining - 1
           /\ \A d \in Subs : d # s => dep'[d] = dep[d]
           /\ \A d \in Subs : dep'[d].failed = dep[d].failed /\ dep'[d].cancelled = dep[d].cancelled
  <1> DEFINE f == Top(t)
             D == [remaining : Int, failed : BOOLEAN, cancelled : BOOLEAN]
             r == [dep[f.s] EXCEPT !.remaining = @ - 1]
  <1>1. f.s \in Subs
    BY TopFrame, FrameFields DEF Count, SubOps, IInv, Safe
  <1>2. dep \in [Subs -> D]
    BY DEF IInv, DataType
  <1>3. dep' = [dep EXCEPT ![f.s] = r]
    BY <1>1, <1>2 DEF Count
  <1>4. /\ r.remaining = dep[f.s].remaining - 1
        /\ r.failed = dep[f.s].failed /\ r.cancelled = dep[f.s].cancelled
        /\ dep[f.s].remaining \in Int
    BY <1>1, <1>2
  <1> HIDE DEF r
  <1>5. \A d \in Subs : dep'[d] = IF d = f.s THEN r ELSE dep[d]
    BY <1>1, <1>2, <1>3
  <1> QED
    BY <1>1, <1>4, <1>5

\* The callback counts itself, and is held no more.
LEMMA CountHands ==
    ASSUME IInv, CountInv, NEW t \in Threads, Count(t)
    PROVE  /\ CountInv'
           /\ Held(Top(t).s, Top(t).p) /\ Top(t).s \in submitted
           /\ dep[Top(t).s].remaining = Cardinality(Uncounted(Top(t).s))
           /\ \A s \in Subs, p \in Events :
                 Held(s, p)' <=> Held(s, p) /\ ~(s = Top(t).s /\ p = Top(t).p)
  <1> DEFINE f == Top(t)
  <1>0. StackType /\ DataType
    BY DEF IInv, Safe
  <1>1. /\ At(t, "count") /\ stack[t] # <<>> /\ f \in Frames /\ f.op = "count"
        /\ f.s \in Subs /\ f.p \in Events
        /\ 1 \in DOMAIN stack[t] /\ stack[t][1] = f
    BY <1>0, TopFrame, FrameFields DEF Count, SubOps
  <1>2. submitted \subseteq Subs /\ UNCHANGED <<callbacks, submitted>>
    BY <1>0 DEF DataType, Count, callVars, eventVars
  <1>3. PICK fs \in Seq(Frames) :
            Become(t, fs) /\ \A s \in Subs, p \in Events : ~Puts(fs, Carriers(s, p))
    <2>1. <<>> \in Seq(Frames) /\ \A A : ~Puts(<<>>, A)
      BY PutsOf
    <2>2. ASSUME NEW g \in Frames, g.op \notin CarryOps
          PROVE  <<g>> \in Seq(Frames) /\ \A s, p : ~Puts(<<g>>, Carriers(s, p))
      <3>1. \A A : Puts(<<g>>, A) <=> g \in A
        BY PutsOf
      <3>2. \A s, p : g \notin Carriers(s, p)
        BY <2>2, CarrierOf
      <3> QED
        BY <2>2, <3>1, <3>2
    <2>3. /\ \A st \in Statuses : /\ WithStatus("mark", f.s, st) \in Frames
                                  /\ WithStatus("mark", f.s, st).op \notin CarryOps
          /\ Frame("dispatch", f.s) \in Frames /\ Frame("dispatch", f.s).op \notin CarryOps
      BY <1>1, FrameTypes, FrameParts DEF SubOps, EventOps, CarryOps, Events
    <2>4. \/ Become(t, <<>>)
          \/ Become(t, <<WithStatus("mark", f.s, "failed")>>)
          \/ Become(t, <<WithStatus("mark", f.s, "cancelled")>>)
          \/ Become(t, <<Frame("dispatch", f.s)>>)
      BY DEF Count
    <2>5. "failed" \in Statuses /\ "cancelled" \in Statuses
      BY DEF Statuses
    <2> HIDE DEF f
    <2> QED
      BY <2>1, <2>2, <2>3, <2>4, <2>5
  <1>4. \A s \in Subs, p \in Events : Takes(t, Carriers(s, p)) <=> s = f.s /\ p = f.p
    BY <1>1, CarrierOf DEF Takes
  <1>5. Steps(t, fs)
    BY <1>1, <1>3 DEF Steps
  <1>6. \A s \in Subs, p \in Events : Takes(t, Carriers(s, p)) => s \notin callbacks[p]
    BY <1>1 DEF CountInv, CarriedOnce, Some, Takes
  <1>7. ASSUME NEW s \in Subs, NEW p \in Events
        PROVE  Hands(t, fs, s, p) /\ (Drops(t, fs, s, p) <=> s = f.s /\ p = f.p)
    <2>1. PutsOne(fs, Carriers(s, p))
      BY <1>3 DEF Puts, PutsOne
    <2> QED
      BY <1>2, <1>3, <1>4, <1>6, <2>1 DEF Hands, Drops
  <1>8. \A s \in Subs, p \in Events :
            CarriedOnce(s, p)' /\ (Held(s, p)' <=> Held(s, p) /\ ~(s = f.s /\ p = f.p))
    <2>1. submitted \subseteq submitted'
      BY <1>2
    <2> QED
      BY <1>0, <1>5, <1>7, <2>1, HandsOn DEF CountInv
  <1>9. Held(f.s, f.p) /\ f.p \in Prereqs[f.s] /\ f.s \in submitted
    <2>1. Held(f.s, f.p)
      BY <1>1, <1>4 DEF Held, Some, Takes
    <2> QED
      BY <1>1, <2>1 DEF CountInv, CarriedOnce
  <1>10. \A s \in Subs : /\ Uncounted(s) = {p \in Prereqs[s] : Held(s, p)}
                         /\ Uncounted(s)' = {p \in Prereqs[s] : Held(s, p)'}
    BY <1>0, <1>5, StepKeeps, UncountedHeld
  <1>11. /\ dep'[f.s].remaining = dep[f.s].remaining - 1
         /\ \A d \in Subs : d # f.s => dep'[d] = dep[d]
    BY CountDoes
  <1> HIDE DEF f
  <1>12. \A s \in submitted : dep[s].remaining = Cardinality(Uncounted(s))
    BY DEF CountInv, CountsPrerequisites
  <1>13. ASSUME NEW s \in submitted
         PROVE  dep'[s].remaining = Cardinality(Uncounted(s)')
    <2>1. s \in Subs /\ Prereqs[s] \subseteq Events /\ IsFiniteSet(Prereqs[s])
      BY <1>2, RuntimeAssumption
    <2>2. CASE s # f.s
      <3>1. Uncounted(s)' = Uncounted(s)
        BY <1>8, <1>10, <2>1, <2>2
      <3> QED
        BY <1>11, <1>12, <2>1, <2>2, <3>1
    <2>3. CASE s = f.s
      <3>1. Uncounted(s)' = Uncounted(s) \ {f.p} /\ f.p \in Uncounted(s)
        BY <1>8, <1>9, <1>10, <2>1, <2>3
      <3>2. IsFiniteSet(Uncounted(s))
        BY <1>10, <2>1, FS_Subset
      <3>3. Cardinality(Uncounted(s) \ {f.p}) = Cardinality(Uncounted(s)) - 1
        BY <3>1, <3>2, FS_RemoveElement
      <3> QED
        BY <1>11, <1>12, <2>3, <3>1, <3>3
    <2> QED
      BY <2>2, <2>3
  <1>14. CountInv'
    BY <1>2, <1>8, <1>13 DEF CountInv, CountsPrerequisites
  <1> QED
    BY <1>8, <1>9, <1>12, <1>14 DEF f

\* submit() has every prerequisite still to register with.
LEMMA SubmitHands ==
    ASSUME IInv, CountInv, NEW c \in Clients, NEW s \in Subs, Submit(c, s)
    PROVE  /\ CountInv'
           /\ \A d \in Subs, p \in Events : Held(d, p)' <=> Held(d, p) \/ (d = s /\ p \in Prereqs[s])
           /\ \A p \in Events : ~Held(s, p)
           /\ \A d \in Subs : d # s => dep'[d] = dep[d]
  <1> DEFINE g == IF Prereqs[s] = {} THEN Frame("dispatch", s)
                  ELSE WithTodo("register", s, Prereqs[s])
             h == Frame("return", s)
             D == [remaining : Int, failed : BOOLEAN, cancelled : BOOLEAN]
             n == Cardinality(Prereqs[s])
             r == [dep[s] EXCEPT !.remaining = n]
  <1>0. StackType /\ DataType /\ c \in Threads /\ Prereqs[s] \in SUBSET Events /\ IsFiniteSet(Prereqs[s])
    BY RuntimeAssumption DEF IInv, Safe, Threads
  <1>1. /\ Call(c, <<g, h>>) /\ submitted' = submitted \cup {s} /\ s \notin submitted
        /\ callbacks' = callbacks
    BY DEF Submit, eventVars
  <1>2. g \in Frames /\ h \in Frames
    BY <1>0, FrameTypes DEF SubOps
  <1>3. h.op = "return"
    BY FrameParts
  <1>4. \A d \in Subs, p \in Events :
            (g \in Carriers(d, p) <=> d = s /\ p \in Prereqs[s]) /\ h \notin Carriers(d, p)
    <2>1. CASE Prereqs[s] = {}
      <3>1. g.op = "dispatch"
        BY <2>1, FrameParts
      <3> QED
        BY <1>2, <1>3, <2>1, <3>1, CarrierOf DEF CarryOps
    <2>2. CASE Prereqs[s] # {}
      <3>1. g.op = "register" /\ g.s = s /\ g.todo = Prereqs[s]
        BY <2>2, FrameParts, CarrierParts
      <3> QED
        BY <1>2, <1>3, <3>1, CarrierOf DEF CarryOps
    <2> QED
      BY <2>1, <2>2
  <1>5. dep'[s].remaining = n /\ \A d \in Subs : d # s => dep'[d] = dep[d]
    <2>1. dep \in [Subs -> D]
      BY <1>0 DEF DataType
    <2>2. dep' = [dep EXCEPT ![s] = r] /\ r.remaining = n
      BY <2>1 DEF Submit
    <2> HIDE DEF r
    <2> QED
      BY <2>1, <2>2
  <1> HIDE DEF g, h, n
  <1>6. <<g, h>> \in Seq(Frames) /\ Steps(c, <<g, h>>) /\ stack[c] = <<>>
    BY <1>1, <1>2 DEF Steps, Call
  <1>7. \A p \in Events : ~Held(s, p)
    BY <1>1 DEF CountInv, CarriedOnce
  <1>8. ASSUME NEW d \in Subs, NEW p \in Events
        PROVE  CarriedOnce(d, p)' /\ (Held(d, p)' <=> Held(d, p) \/ (d = s /\ p \in Prereqs[s]))
    <2> DEFINE A == Carriers(d, p)
    <2>1. /\ Some(A) <=> Takes(c, A) \/ Elsewhere(c, A)
          /\ Some(A)' <=> Puts(<<g, h>>, A) \/ Elsewhere(c, A)
          /\ AtMostOne(A) /\ PutsOne(<<g, h>>, A) /\ (Puts(<<g, h>>, A) => ~Elsewhere(c, A)) => AtMostOne(A)'
      BY <1>0, <1>6, StepSets
    <2>2. ~Takes(c, A)
      BY <1>6 DEF Takes
    <2>3. (Puts(<<g, h>>, A) <=> d = s /\ p \in Prereqs[s]) /\ PutsOne(<<g, h>>, A)
      BY <1>4, PutsOf
    <2>4. (Held(d, p) <=> d \in callbacks[p] \/ Some(A)) /\ (Held(d, p)' <=> d \in callbacks[p] \/ Some(A)')
      BY <1>1 DEF Held
    <2>5. /\ AtMostOne(A) /\ (d \in callbacks[p] => ~Some(A))
          /\ Held(d, p) => d \in submitted /\ p \in Prereqs[d]
      BY DEF CountInv, CarriedOnce
    <2>6. Held(d, p)' <=> Held(d, p) \/ (d = s /\ p \in Prereqs[s])
      BY <2>1, <2>2, <2>3, <2>4
    <2>7. AtMostOne(A)' /\ (d \in callbacks'[p] => ~Some(A)')
      BY <1>1, <1>7, <2>1, <2>2, <2>3, <2>4, <2>5
    <2>8. Held(d, p)' => d \in submitted' /\ p \in Prereqs[d]
      BY <1>1, <2>5, <2>6
    <2> QED
      BY <2>6, <2>7, <2>8 DEF CarriedOnce
  <1>9. ASSUME NEW d \in submitted'
        PROVE  dep'[d].remaining = Cardinality(Uncounted(d)')
    <2>1. d \in Subs /\ Prereqs[d] \subseteq Events
      BY <1>0, <1>1, RuntimeAssumption DEF DataType
    <2>2. Uncounted(d) = {p \in Prereqs[d] : Held(d, p)} /\ Uncounted(d)' = {p \in Prereqs[d] : Held(d, p)'}
      BY <1>0, <1>6, <2>1, StepKeeps, UncountedHeld
    <2>3. CASE d = s
      <3>1. Uncounted(d)' = Prereqs[s]
        BY <1>8, <2>1, <2>2, <2>3
      <3> QED
        BY <1>5, <2>3, <3>1 DEF n
    <2>4. CASE d # s
      <3>1. Uncounted(d)' = Uncounted(d)
        BY <1>8, <2>1, <2>2, <2>4
      <3>2. d \in submitted
        BY <1>1, <2>4
      <3> QED
        BY <1>5, <2>1, <2>4, <3>1, <3>2 DEF CountInv, CountsPrerequisites
    <2> QED
      BY <2>3, <2>4
  <1>10. CountInv'
    BY <1>8, <1>9 DEF CountInv, CountsPrerequisites
  <1> QED
    BY <1>5, <1>7, <1>8, <1>10

\* The frames of a submission's execution, of resume(), cancel and shutdown()
\* hold no callback.
LEMMA QuietFrames ==
    /\ \A s \in Subs, op \in (ExecOps \cup SubOps) \ CarryOps :
          /\ Frame(op, s) \in Frames /\ Frame(op, s).op \notin CarryOps
          /\ \A st \in Statuses : WithStatus(op, s, st) \in Frames /\ WithStatus(op, s, st).op \notin CarryOps
    /\ \A e \in Events, st \in Statuses :
          WithStatus("mark", e, st) \in Frames /\ WithStatus("mark", e, st).op \notin CarryOps
    /\ "mark" \notin CarryOps
  <1>1. \A e \in Events, st \in Statuses : WithStatus("mark", e, st) \in Frames
    BY FrameTypes DEF EventOps
  <1>2. \A s \in Subs, op \in (ExecOps \cup SubOps) \ CarryOps :
          /\ Frame(op, s) \in Frames
          /\ \A st \in Statuses : WithStatus(op, s, st) \in Frames
    BY FrameTypes
  <1>3. "mark" \notin CarryOps
    BY DEF CarryOps
  <1> QED
    BY <1>1, <1>2, <1>3, FrameParts

\* A call that goes on hands its callbacks on, unless it counts.
LEMMA ContinueHands ==
    ASSUME IInv, CountInv, NEW t \in Threads, Continue(t), ~Count(t)
    PROVE  CountInv' /\ SameHeld
  <1> DEFINE f == Top(t)
  <1>0. /\ StackType /\ DataType /\ submitted \subseteq Subs
        /\ callbacks \in [Events -> SUBSET Subs]
    BY DEF IInv, Safe, DataType
  <1>1. \A op \in ExecOps \cup SubOps : At(t, op) => f.s \in Subs /\ f.s \in Events /\ f.st \in Statuses
    BY <1>0, TopFrame, FrameFields DEF Events
  <1>2. ASSUME NEW op \in (ExecOps \cup SubOps) \ CarryOps, At(t, op),
               \/ Become(t, <<>>)
               \/ \E g \in (ExecOps \cup SubOps) \ CarryOps, st \in Statuses :
                     \/ Become(t, <<Frame(g, f.s)>>)
                     \/ Become(t, <<WithStatus(g, f.s, st)>>)
                     \/ Become(t, <<Frame(g, AnySub)>>),
               UNCHANGED <<callbacks, dep, submitted>>
        PROVE  CountInv' /\ SameHeld
    <2>1. f.s \in Subs /\ AnySub \in Subs
      BY <1>1, <1>2, AnySubType
    <2>2. \/ Become(t, <<>>)
          \/ \E g \in Frames : g.op \notin CarryOps /\ Become(t, <<g>>)
      BY <1>2, <2>1, QuietFrames
    <2>3. \A s \in Subs : dep'[s].remaining = dep[s].remaining
      BY <1>2
    <2> QED
      BY <1>0, <1>2, <2>2, <2>3, QuietStep
  <1>3. ASSUME NEW op, At(t, op), op \notin CarryOps, f.s \in Events,
               NEW st \in Statuses, NEW rest, Complete(t, f.s, st, rest),
               \/ rest = <<>>
               \/ \E g \in (ExecOps \cup SubOps) \ CarryOps : f.s \in Subs /\ rest = <<Frame(g, f.s)>>,
               UNCHANGED <<dep, submitted>>
        PROVE  CountInv' /\ SameHeld
    <2>1. rest = <<>> \/ \E g \in Frames : g.op \notin CarryOps /\ rest = <<g>>
      BY <1>3, QuietFrames
    <2> QED
      BY <1>0, <1>3, <2>1, CompleteHands
  <1>4. /\ {"return", "dispatch", "resume", "cancel", "request_stop", "join", "admit", "prescreen",
            "enqueue", "screen", "start", "step", "finish", "clear"} \subseteq (ExecOps \cup SubOps) \ CarryOps
        /\ {"failed", "cancelled", "completed", "suspended", "running"} \subseteq Statuses
        /\ Terminal \subseteq Statuses
    BY DEF ExecOps, SubOps, CarryOps, Statuses, Terminal
  <1> HIDE DEF f
  <1>5. CASE Register(t) \/ Record(t) \/ Notify(t)
    BY <1>5, RegisterHands, RecordHands, NotifyHands
  <1>6. CASE SubmitReturn(t)
    BY <1>2, <1>4, <1>6 DEF SubmitReturn, eventVars, f
  <1>7. CASE Dispatch(t)
    <2>1. Become(t, <<>>) \/ \E g \in {"screen", "admit"} : Become(t, <<Frame(g, f.s)>>)
      BY <1>7 DEF Dispatch, f
    <2>2. At(t, "dispatch") /\ UNCHANGED <<callbacks, dep, submitted>>
      BY <1>7 DEF Dispatch, eventVars, callVars
    <2> QED
      BY <1>2, <1>4, <2>1, <2>2
  <1>8. CASE Admit(t)
    <2>1. Become(t, <<Frame("prescreen", f.s)>>) \/ Become(t, <<WithStatus("finish", f.s, "failed")>>)
      BY <1>8 DEF Admit, Finish, f
    <2>2. At(t, "admit") /\ UNCHANGED <<callbacks, dep, submitted>>
      BY <1>8 DEF Admit, eventVars, callVars
    <2> QED
      BY <1>2, <1>4, <2>1, <2>2
  <1>9. CASE Prescreen(t)
    <2>1. Become(t, <<Frame("enqueue", f.s)>>) \/ Become(t, <<WithStatus("finish", f.s, "cancelled")>>)
      BY <1>9 DEF Prescreen, Finish, f
    <2>2. At(t, "prescreen") /\ UNCHANGED <<callbacks, dep, submitted>>
      BY <1>9 DEF Prescreen, eventVars, callVars
    <2> QED
      BY <1>2, <1>4, <2>1, <2>2
  <1>10. CASE Enqueue(t)
    <2>1. Become(t, <<>>) \/ Become(t, <<WithStatus("finish", f.s, "failed")>>)
      BY <1>10 DEF Enqueue, Finish, f
    <2>2. At(t, "enqueue") /\ UNCHANGED <<callbacks, dep, submitted>>
      BY <1>10 DEF Enqueue, eventVars, callVars
    <2> QED
      BY <1>2, <1>4, <2>1, <2>2
  <1>11. CASE Screen(t)
    <2>1. Become(t, <<Frame("start", f.s)>>) \/ Become(t, <<WithStatus("finish", f.s, "cancelled")>>)
      BY <1>11 DEF Screen, Finish, f
    <2>2. At(t, "screen") /\ UNCHANGED <<callbacks, dep, submitted>>
      BY <1>11 DEF Screen, eventVars, callVars
    <2> QED
      BY <1>2, <1>4, <2>1, <2>2
  <1>12. CASE Step(t)
    <2>1. \E st \in Statuses : Become(t, <<WithStatus("finish", f.s, st)>>)
      BY <1>4, <1>12 DEF Step, Finish, f
    <2>2. At(t, "step") /\ UNCHANGED <<callbacks, dep, submitted>>
      BY <1>12 DEF Step, eventVars
    <2> QED
      BY <1>2, <1>4, <2>1, <2>2
  <1>13. CASE Clear(t)
    BY <1>2, <1>4, <1>13 DEF Clear, eventVars, callVars, f
  <1>14. CASE Resume(t)
    <2>1. Become(t, <<>>) \/ Become(t, <<Frame("dispatch", f.s)>>)
      BY <1>14 DEF Resume, f
    <2>2. At(t, "resume") /\ UNCHANGED <<callbacks, dep, submitted>>
      BY <1>14 DEF Resume, eventVars, callVars
    <2> QED
      BY <1>2, <1>4, <2>1, <2>2
  <1>15. CASE Cancel(t)
    <2>1. Become(t, <<>>) \/ Become(t, <<Frame("resume", f.s)>>)
      BY <1>15 DEF Cancel, f
    <2>2. At(t, "cancel") /\ UNCHANGED <<callbacks, dep, submitted>>
      BY <1>15 DEF Cancel, eventVars, callVars
    <2> QED
      BY <1>2, <1>4, <2>1, <2>2
  <1>16. CASE ShutdownStop(t)
    BY <1>2, <1>4, <1>16 DEF ShutdownStop, eventVars, callVars
  <1>17. CASE ShutdownJoin(t)
    BY <1>2, <1>4, <1>17 DEF ShutdownJoin, eventVars, callVars
  <1>18. CASE Mark(t)
    <2>1. f.s \in Events /\ f.st \in Statuses /\ At(t, "mark")
      BY <1>0, <1>18, TopFrame, FrameFields DEF Mark, EventOps, f
    <2>2. Complete(t, f.s, f.st, <<>>) /\ UNCHANGED <<dep, submitted>>
      BY <1>18 DEF Mark, callVars, f
    <2> QED
      BY <1>3, <2>1, <2>2, QuietFrames
  <1>19. CASE Start(t)
    <2>1. At(t, "start") /\ UNCHANGED <<dep, submitted>>
          /\ Complete(t, f.s, "running", <<Frame("step", f.s)>>)
      BY <1>19 DEF Start, callVars, f
    <2> QED
      BY <1>1, <1>3, <1>4, <2>1
  <1>20. CASE FinishStep(t)
    <2>1. At(t, "finish") /\ UNCHANGED <<dep, submitted>>
          /\ Complete(t, f.s, f.st, <<Frame("clear", f.s)>>)
      BY <1>20 DEF FinishStep, callVars, f
    <2> QED
      BY <1>1, <1>3, <1>4, <2>1
  <1> QED
    BY <1>5, <1>6, <1>7, <1>8, <1>9, <1>10, <1>11, <1>12, <1>13, <1>14, <1>15, <1>16, <1>17,
       <1>18, <1>19, <1>20 DEF Continue

\* Only submit() submits.
LEMMA ContinueSubmits ==
    ASSUME NEW t \in Threads, Continue(t)
    PROVE  UNCHANGED submitted
  BY DEF Continue, Register, SubmitReturn, Record, Count, Notify, Mark, Dispatch, Admit, Prescreen,
     Enqueue, Screen, Start, Step, FinishStep, Clear, Resume, Cancel, ShutdownStop, ShutdownJoin, callVars

\* So do the calls of clients other than submit(), workers and stop requests.
LEMMA OthersHand ==
    ASSUME IInv, CountInv,
           \/ \E c \in Clients : \/ \E s \in Subs : ResumeCall(c, s)
                                 \/ \E s \in Cancellable : CancelCall(c, s)
                                 \/ \E e \in Externals : CompleteExternal(c, e)
                                 \/ ShutdownCall(c)
           \/ \E w \in Workers : WorkerLoop(w)
           \/ \E s \in Cancellable : RequestStop(s)
           \/ UNCHANGED vars
    PROVE  CountInv' /\ SameHeld
  <1>0. StackType /\ submitted \subseteq Subs /\ Cancellable \subseteq Subs
    BY RuntimeAssumption DEF IInv, Safe, DataType
  <1>1. ASSUME NEW t \in Threads, NEW op \in {"resume", "cancel", "request_stop", "screen"}, NEW s \in Subs,
               Call(t, <<Frame(op, s)>>), UNCHANGED <<callbacks, dep, submitted>>
        PROVE  CountInv' /\ SameHeld
    <2>1. Frame(op, s) \in Frames /\ Frame(op, s).op \notin CarryOps
      BY QuietFrames DEF ExecOps, SubOps, CarryOps
    <2> QED
      BY <1>0, <1>1, <2>1, QuietCall
  <1>2. ASSUME NEW c \in Clients, NEW s \in Subs, ResumeCall(c, s) \/ CancelCall(c, s)
        PROVE  CountInv' /\ SameHeld
    BY <1>1, <1>2 DEF ResumeCall, CancelCall, eventVars, callVars, Threads
  <1>3. ASSUME NEW c \in Clients, ShutdownCall(c)
        PROVE  CountInv' /\ SameHeld
    BY <1>1, <1>3, AnySubType DEF ShutdownCall, eventVars, callVars, Threads
  <1>4. ASSUME NEW c \in Clients, NEW e \in Externals, CompleteExternal(c, e)
        PROVE  CountInv' /\ SameHeld
    <2>1. PICK st \in Statuses : Call(c, <<WithStatus("mark", e, st)>>)
      BY <1>4 DEF CompleteExternal, Terminal, Statuses
    <2>2. WithStatus("mark", e, st) \in Frames /\ WithStatus("mark", e, st).op \notin CarryOps
      BY QuietFrames DEF Events
    <2>3. c \in Threads /\ UNCHANGED <<callbacks, dep, submitted>>
      BY <1>4 DEF CompleteExternal, eventVars, callVars, Threads
    <2> QED
      BY <1>0, <2>1, <2>2, <2>3, QuietCall
  <1>5. ASSUME NEW w \in Workers, NEW s \in Subs, Dequeue(w, s)
        PROVE  CountInv' /\ SameHeld
    BY <1>1, <1>5 DEF Dequeue, eventVars, callVars, Threads
  <1>6. ASSUME UNCHANGED <<stack, callbacks, dep, submitted>>
        PROVE  CountInv' /\ SameHeld
    BY <1>6, QuietElse
  <1>7. ASSUME NEW w \in Workers, WorkerExit(w)
        PROVE  CountInv' /\ SameHeld
    BY <1>6, <1>7 DEF WorkerExit, eventVars, callVars
  <1>8. ASSUME NEW s \in Subs, RequestStop(s)
        PROVE  CountInv' /\ SameHeld
    BY <1>6, <1>8 DEF RequestStop, eventVars, callVars
  <1>9. CASE UNCHANGED vars
    BY <1>6, <1>9 DEF vars, eventVars, callVars
  <1> QED
    BY <1>0, <1>2, <1>3, <1>4, <1>5, <1>7, <1>8, <1>9 DEF WorkerLoop

\* The callbacks on their way are counted, each in one place.
THEOREM CountInvariant == Spec => []CountInv
  <1>1. Init => CountInv
    <2> SUFFICES ASSUME Init PROVE CountInv
      OBVIOUS
    <2>1. /\ \A t \in Threads : DOMAIN stack[t] = {}
          /\ \A e \in Events : callbacks[e] = {}
          /\ submitted = {}
      BY DEF Init
    <2>2. \A s \in Subs, p \in Events : ~Held(s, p) /\ AtMostOne(Carriers(s, p))
      BY <2>1 DEF Held, Some, AtMostOne
    <2> QED
      BY <2>1, <2>2 DEF CountInv, CountsPrerequisites, CarriedOnce, Held
  <1>2. IInv /\ CountInv /\ [Next]_vars => CountInv'
    <2> SUFFICES ASSUME IInv, CountInv, [Next]_vars PROVE CountInv'
      OBVIOUS
    <2>1. ASSUME NEW t \in Threads, Continue(t)
          PROVE  CountInv'
      BY <2>1, CountHands, ContinueHands
    <2>2. ASSUME NEW c \in Clients, ClientCall(c)
          PROVE  CountInv'
      BY <2>2, SubmitHands, OthersHand DEF ClientCall
    <2> QED
      BY <2>1, <2>2, OthersHand DEF Next
  <1> QED
    BY <1>1, <1>2, Invariant, PTL DEF Spec

\* No prerequisite's callback is lost or counted twice: what submit() counts
\* down from is the number of callbacks that are still on their way, wherever
\* registration, completion and other callbacks have left them.
THEOREM CallbacksCountOnce == Spec => []CountsPrerequisites
  <1>1. CountInv => CountsPrerequisites
    BY DEF CountInv
  <1> QED
    BY <1>1, CountInvariant, PTL

-----------------------------------------------------------------------------
(* Waiting for the prerequisites, for submissions that nobody resumes.      *)

\* With statuses x and counts d: p has ended, and s knows it if p ended badly.
NotedIn(x, d, s, p) ==
    /\ is_terminal(x[p])
    /\ s \in StopOnFailure => /\ x[p] = "failed" => d[s].failed
                              /\ x[p] = "cancelled" => d[s].cancelled

\* Cleared with statuses x.
ClearedIn(x, s) == \A p \in Prereqs[s] :
    is_terminal(x[p]) /\ (s \in StopOnFailure => x[p] = "completed")

\* The program points at which a submission is launched, the first time or again.
LaunchOps == ExecOps \cup {"dispatch", "resume"}

\* What the frame of an operation has seen of the prerequisites.
FitsIn(x, d, f) ==
    /\ f.op = "notify" => is_terminal(x[f.s])
    /\ f.op = "record" => is_terminal(x[f.p])
    /\ f.op = "count" => NotedIn(x, d, f.s, f.p)
    /\ f.op = "mark" => is_terminal(f.st)
    /\ f.op \in LaunchOps /\ f.s \notin Resumable => ClearedIn(x, f.s)

FramesFit == \A u \in Threads : \A i \in DOMAIN stack[u] : FitsIn(status, dep, stack[u][i])

\* A prerequisite that was counted has ended, and was noted.
CountedNoted == \A s \in submitted : \A p \in Prereqs[s] : Held(s, p) \/ NotedIn(status, dep, s, p)

\* A submission that is queued or suspended was cleared before.
WaitedFor == \A s \in Subs \ Resumable : status[s] = "suspended" \/ queue[s] > 0 => ClearedIn(status, s)

OrderInv == FramesFit /\ CountedNoted /\ WaitedFor

\* Ends are final, and what was noted stays noted.
Grows ==
    /\ \A e \in Events : is_terminal(status[e]) => status'[e] = status[e]
    /\ \A d \in Subs : /\ dep[d].failed => dep'[d].failed
                       /\ dep[d].cancelled => dep'[d].cancelled

\* What was seen of the prerequisites stays true.
LEMMA GrowsKeeps ==
    ASSUME Grows
    PROVE  /\ \A s \in Subs, p \in Events : NotedIn(status, dep, s, p) => NotedIn(status', dep', s, p)
           /\ \A s \in Subs : ClearedIn(status, s) => ClearedIn(status', s)
           /\ \A f \in Frames : FitsIn(status, dep, f) => FitsIn(status', dep', f)
  <1>1. \A s \in Subs, p \in Events : NotedIn(status, dep, s, p) => NotedIn(status', dep', s, p)
    BY DEF Grows, NotedIn
  <1>2. \A s \in Subs : ClearedIn(status, s) => ClearedIn(status', s)
    BY RuntimeAssumption DEF Grows, ClearedIn
  <1>3. ASSUME NEW f \in Frames, FitsIn(status, dep, f)
        PROVE  FitsIn(status', dep', f)
    <2>1. /\ f.op \in ExecOps \cup SubOps => f.s \in Subs /\ f.p \in Events
          /\ f.op \in EventOps => f.s \in Events
      BY FrameFields
    <2>2. f.op = "notify" => is_terminal(status'[f.s])
      BY <1>3, <2>1 DEF FitsIn, Grows, EventOps
    <2>3. f.op = "record" => is_terminal(status'[f.p])
      BY <1>3, <2>1 DEF FitsIn, Grows, SubOps
    <2>4. f.op = "count" => NotedIn(status', dep', f.s, f.p)
      BY <1>1, <1>3, <2>1 DEF FitsIn, SubOps
    <2>5. f.op \in LaunchOps /\ f.s \notin Resumable => ClearedIn(status', f.s)
      BY <1>2, <1>3, <2>1 DEF FitsIn, SubOps, LaunchOps
    <2>6. f.op = "mark" => is_terminal(f.st)
      BY <1>3 DEF FitsIn
    <2> QED
      BY <2>2, <2>3, <2>4, <2>5, <2>6 DEF FitsIn
  <1> QED
    BY <1>1, <1>2, <1>3

\* Nothing is queued or suspended that was not cleared.
WaitsStep == \A s \in Subs \ Resumable :
    status'[s] = "suspended" \/ queue'[s] > 0 =>
        status[s] = "suspended" \/ queue[s] > 0 \/ ClearedIn(status, s)

\* A step keeps the invariant if the frames it puts fit.
LEMMA OrderMove ==
    ASSUME IInv, OrderInv, Grows, WaitsStep,
           NEW t \in Threads, NEW fs \in Seq(Frames), Steps(t, fs),
           \A k \in DOMAIN fs : FitsIn(status', dep', fs[k])
    PROVE  FramesFit' /\ WaitedFor'
  <1>0. StackType /\ StackType'
    BY StepKeeps DEF IInv, Safe
  <1>1. ASSUME NEW u \in Threads, NEW i \in DOMAIN (stack'[u])
        PROVE  FitsIn(status', dep', stack'[u][i])
    <2>1. CASE u = t /\ i \in DOMAIN fs /\ stack'[u][i] = fs[i]
      BY <2>1
    <2>2. ASSUME NEW j \in DOMAIN stack[u], stack'[u][i] = stack[u][j]
          PROVE  FitsIn(status', dep', stack'[u][i])
      <3>1. stack[u] \in Seq(Frames)
        BY <1>0 DEF StackType
      <3>2. stack[u][j] \in Frames /\ FitsIn(status, dep, stack[u][j])
        BY <3>1 DEF OrderInv, FramesFit
      <3> QED
        BY <2>2, <3>2, GrowsKeeps
    <2> QED
      BY <1>0, <2>1, <2>2, StepOrigin
  <1>2. FramesFit'
    BY <1>1 DEF FramesFit
  <1>3. WaitedFor'
    BY GrowsKeeps DEF OrderInv, WaitedFor, WaitsStep
  <1> QED
    BY <1>2, <1>3

\* The same where nothing happens on the stacks.
LEMMA OrderRest ==
    ASSUME IInv, OrderInv, Grows, WaitsStep, UNCHANGED stack
    PROVE  FramesFit' /\ WaitedFor'
  <1>1. ASSUME NEW u \in Threads, NEW i \in DOMAIN stack[u]
        PROVE  FitsIn(status', dep', stack[u][i])
    <2>1. stack[u] \in Seq(Frames)
      BY DEF IInv, Safe, StackType
    <2>2. stack[u][i] \in Frames /\ FitsIn(status, dep, stack[u][i])
      BY <2>1 DEF OrderInv, FramesFit
    <2> QED
      BY <2>2, GrowsKeeps
  <1>2. FramesFit'
    BY <1>1 DEF FramesFit
  <1>3. WaitedFor'
    BY GrowsKeeps DEF OrderInv, WaitedFor, WaitsStep
  <1> QED
    BY <1>2, <1>3

\* The callbacks that were counted stay noted when the same are held.
LEMMA NotedStays ==
    ASSUME IInv, CountedNoted, Grows, SameHeld, UNCHANGED submitted
    PROVE  CountedNoted'
  <1>1. ASSUME NEW s \in submitted', NEW p \in Prereqs[s]
        PROVE  Held(s, p)' \/ NotedIn(status', dep', s, p)
    <2>1. s \in Subs /\ p \in Events /\ s \in submitted
      BY RuntimeAssumption DEF IInv, DataType
    <2> QED
      BY <2>1, GrowsKeeps DEF CountedNoted, SameHeld
  <1> QED
    BY <1>1 DEF CountedNoted

\* Lists of frames that fit.
LEMMA FitsList ==
    ASSUME NEW x, NEW d
    PROVE  /\ \A k \in DOMAIN <<>> : FitsIn(x, d, <<>>[k])
           /\ \A f : FitsIn(x, d, f) => \A k \in DOMAIN <<f>> : FitsIn(x, d, <<f>>[k])
           /\ \A f, g : FitsIn(x, d, f) /\ FitsIn(x, d, g)
                 => \A k \in DOMAIN <<f, g>> : FitsIn(x, d, <<f, g>>[k])
  OBVIOUS

\* The frames an operation pushes, by what they must have seen.
LEMMA FitsOf ==
    ASSUME NEW x, NEW d
    PROVE  /\ \A s : \A op \in {"return", "register", "cancel", "request_stop", "join"} :
                 FitsIn(x, d, Frame(op, s)) /\ \A todo : FitsIn(x, d, WithTodo(op, s, todo))
           /\ \A e, todo : is_terminal(x[e]) => FitsIn(x, d, WithTodo("notify", e, todo))
           /\ \A s, p : is_terminal(x[p]) => FitsIn(x, d, WithPrereq("record", s, p))
           /\ \A s, p : NotedIn(x, d, s, p) => FitsIn(x, d, WithPrereq("count", s, p))
           /\ \A e, st : is_terminal(st) => FitsIn(x, d, WithStatus("mark", e, st))
           /\ \A s : \A op \in LaunchOps : s \in Resumable \/ ClearedIn(x, s) =>
                 FitsIn(x, d, Frame(op, s)) /\ \A st : FitsIn(x, d, WithStatus(op, s, st))
  <1>1. \A op, s, st : WithStatus(op, s, st).st = st
    BY DEF Frame, WithStatus
  <1> USE FrameParts, CarrierParts
  <1>2. \A s : \A op \in {"return", "register", "cancel", "request_stop", "join"} :
           FitsIn(x, d, Frame(op, s)) /\ \A todo : FitsIn(x, d, WithTodo(op, s, todo))
    BY DEF FitsIn, LaunchOps, ExecOps
  <1>3. \A e, todo : is_terminal(x[e]) => FitsIn(x, d, WithTodo("notify", e, todo))
    BY DEF FitsIn, LaunchOps, ExecOps
  <1>4. \A s, p : is_terminal(x[p]) => FitsIn(x, d, WithPrereq("record", s, p))
    BY DEF FitsIn, LaunchOps, ExecOps
  <1>5. \A s, p : NotedIn(x, d, s, p) => FitsIn(x, d, WithPrereq("count", s, p))
    BY DEF FitsIn, LaunchOps, ExecOps
  <1>6. \A e, st : is_terminal(st) => FitsIn(x, d, WithStatus("mark", e, st))
    BY <1>1 DEF FitsIn, LaunchOps, ExecOps
  <1>7. \A s : \A op \in LaunchOps : s \in Resumable \/ ClearedIn(x, s) =>
           FitsIn(x, d, Frame(op, s)) /\ \A st : FitsIn(x, d, WithStatus(op, s, st))
    BY DEF FitsIn, LaunchOps, ExecOps
  <1> QED
    BY <1>2, <1>3, <1>4, <1>5, <1>6, <1>7

\* A call goes on to at most one frame, which fits; statuses and counts stay.
LEMMA OrderGoes ==
    ASSUME IInv, OrderInv, NEW t \in Threads, NEW op, At(t, op),
           \/ Become(t, <<>>)
           \/ \E f \in Frames : FitsIn(status, dep, f) /\ Become(t, <<f>>),
           UNCHANGED <<status, dep>>,
           \A s \in Subs \ Resumable : queue'[s] > 0 => queue[s] > 0 \/ ClearedIn(status, s)
    PROVE  FramesFit' /\ WaitedFor'
  <1>1. Grows /\ WaitsStep /\ stack[t] # <<>>
    BY TopFrame DEF Grows, WaitsStep, IInv, Safe
  <1>2. CASE Become(t, <<>>)
    <2>1. <<>> \in Seq(Frames) /\ Steps(t, <<>>)
      BY <1>1, <1>2 DEF Steps
    <2> QED
      BY <1>1, <2>1, OrderMove, FitsList
  <1>3. ASSUME NEW f \in Frames, FitsIn(status, dep, f), Become(t, <<f>>)
        PROVE  FramesFit' /\ WaitedFor'
    <2>1. <<f>> \in Seq(Frames) /\ Steps(t, <<f>>)
      BY <1>1, <1>3 DEF Steps
    <2>2. FitsIn(status', dep', f)
      BY <1>3
    <2>3. \A k \in DOMAIN <<f>> : FitsIn(status', dep', <<f>>[k])
      BY <2>2
    <2> QED
      BY <1>1, <2>1, <2>3, OrderMove
  <1> QED
    BY <1>2, <1>3

\* A call begins with a frame that fits.
LEMMA OrderCall ==
    ASSUME IInv, OrderInv, NEW t \in Threads, NEW f \in Frames, FitsIn(status, dep, f), Call(t, <<f>>),
           UNCHANGED <<status, dep>>,
           \A s \in Subs \ Resumable : queue'[s] > 0 => queue[s] > 0
    PROVE  FramesFit' /\ WaitedFor'
  <1>1. Grows /\ WaitsStep
    BY DEF Grows, WaitsStep
  <1>2. <<f>> \in Seq(Frames) /\ Steps(t, <<f>>)
    BY DEF Steps
  <1>3. FitsIn(status', dep', f)
    OBVIOUS
  <1>4. \A k \in DOMAIN <<f>> : FitsIn(status', dep', <<f>>[k])
    BY <1>3
  <1> QED
    BY <1>1, <1>2, <1>4, OrderMove

\* complete() ends an event for good before its callbacks run.
LEMMA OrderComplete ==
    ASSUME IInv, OrderInv, NEW t \in Threads, NEW op, At(t, op),
           NEW e \in Events, NEW st \in Statuses, NEW rest, Complete(t, e, st, rest),
           rest = <<>> \/ \E g \in Frames : rest = <<g>> /\ FitsIn(status, dep, g),
           UNCHANGED <<dep, queue>>,
           st = "suspended" /\ e \in Subs \ Resumable => ClearedIn(status, e)
    PROVE  FramesFit' /\ WaitedFor' /\ Grows
  <1>1. stack[t] # <<>> /\ status \in [Events -> Statuses] /\ callbacks \in [Events -> SUBSET Subs]
    BY TopFrame DEF IInv, Safe, DataType
  <1>2. Grows
    BY <1>1 DEF Complete, eventVars, Grows
  <1>3. WaitsStep
    <2>1. status' = status \/ status' = [status EXCEPT ![e] = st]
      BY DEF Complete, eventVars
    <2>2. \A s \in Subs \ Resumable : status'[s] = "suspended" =>
              status[s] = "suspended" \/ (s = e /\ st = "suspended")
      BY <1>1, <2>1 DEF Events
    <2> QED
      BY <2>2 DEF WaitsStep
  <1>4. \A g \in Frames : FitsIn(status, dep, g) => FitsIn(status', dep', g)
    BY <1>2, GrowsKeeps
  <1>5. PICK n \in Frames : n = WithTodo("notify", e, callbacks[e])
    BY <1>1, FrameTypes DEF EventOps
  <1>6. CASE Become(t, rest)
    <2>0. <<>> \in Seq(Frames) /\ \A g \in Frames : <<g>> \in Seq(Frames)
      OBVIOUS
    <2>1. rest \in Seq(Frames) /\ Steps(t, rest)
      BY <1>1, <1>6, <2>0 DEF Steps
    <2>2. \A k \in DOMAIN rest : FitsIn(status', dep', rest[k])
      BY <1>4
    <2> QED
      BY <1>2, <1>3, <2>1, <2>2, OrderMove
  <1>7. CASE Become(t, <<n>> \o rest) /\ is_terminal(st) /\ status' = [status EXCEPT ![e] = st]
    <2>1. FitsIn(status', dep', n)
      <3>1. is_terminal(status'[e])
        BY <1>1, <1>7
      <3>2. n.op = "notify" /\ n.s = e
        BY <1>5, FrameParts
      <3> QED
        BY <3>1, <3>2 DEF FitsIn, LaunchOps, ExecOps
    <2>2. CASE rest = <<>>
      <3>1. <<n>> \in Seq(Frames) /\ Steps(t, <<n>>)
        BY <1>1, <1>7, <2>2, PairConcat DEF Steps
      <3>2. \A k \in DOMAIN <<n>> : FitsIn(status', dep', <<n>>[k])
        BY <2>1
      <3> QED
        BY <1>2, <1>3, <3>1, <3>2, OrderMove
    <2>3. ASSUME NEW g \in Frames, rest = <<g>>, FitsIn(status, dep, g)
          PROVE  FramesFit' /\ WaitedFor'
      <3>1. <<n>> \o rest = <<n, g>>
        BY <2>3, PairConcat
      <3>2. <<n, g>> \in Seq(Frames)
        OBVIOUS
      <3>3. Steps(t, <<n, g>>)
        BY <1>1, <1>7, <3>1, Zenon DEF Steps
      <3>4. FitsIn(status', dep', g)
        BY <1>4, <2>3
      <3>5. \A k \in DOMAIN <<n, g>> : FitsIn(status', dep', <<n, g>>[k])
        BY <2>1, <3>4
      <3> QED
        BY <1>2, <1>3, <3>2, <3>3, <3>5, OrderMove
    <2> QED
      BY <1>2, <2>2, <2>3
  <1> QED
    BY <1>2, <1>5, <1>6, <1>7 DEF Complete

\* The last callback clears its submission, if all prerequisites let it run.
LEMMA LastClears ==
    ASSUME IInv, CountInv, OrderInv, NEW t \in Threads, Count(t),
           dep[Top(t).s].remaining = 1, ~dep[Top(t).s].failed, ~dep[Top(t).s].cancelled
    PROVE  ClearedIn(status, Top(t).s)
  <1>1. PICK s \in Subs, q \in Events : s = Top(t).s /\ q = Top(t).p
    BY TopFrame, FrameFields DEF Count, SubOps, IInv, Safe
  <1>2. Held(s, q) /\ s \in submitted /\ Cardinality(Uncounted(s)) = 1
    BY <1>1, CountHands
  <1>3. /\ StackType /\ StackType' /\ Prereqs[s] \subseteq Events /\ IsFiniteSet(Prereqs[s])
        /\ status \in [Events -> Statuses]
    <2>1. IInv'
      BY ContinueStep DEF Continue
    <2> QED
      BY <2>1, RuntimeAssumption DEF IInv, Safe, DataType
  <1>4. Uncounted(s) = {p \in Prereqs[s] : Held(s, p)}
    BY <1>3, UncountedHeld
  <1>5. q \in Uncounted(s)
    BY <1>2, <1>4 DEF CountInv, CarriedOnce
  <1>6. ASSUME NEW p \in Prereqs[s]
        PROVE  NotedIn(status, dep, s, p)
    <2>1. CASE p = q
      <3>1. NotedIn(status, dep, Top(t).s, Top(t).p)
        <4>1. At(t, "count") /\ StackType
          BY <1>3 DEF Count
        <4>2. 1 \in DOMAIN stack[t] /\ stack[t][1] = Top(t) /\ Top(t).op = "count"
          BY <4>1, TopFrame
        <4> QED
          BY <4>2 DEF OrderInv, FramesFit, FitsIn
      <3> QED
        BY <1>1, <2>1, <3>1
    <2>2. CASE p # q
      <3>1. p \notin Uncounted(s)
        <4>1. IsFiniteSet(Uncounted(s))
          BY <1>3, <1>4, FS_Subset
        <4>2. PICK x : Uncounted(s) = {x}
          BY <1>2, <4>1, FS_Singleton
        <4> QED
          BY <1>5, <2>2, <4>2
      <3> QED
        BY <1>2, <1>4, <3>1 DEF OrderInv, CountedNoted
    <2> QED
      BY <2>1, <2>2
  <1>7. ASSUME NEW p \in Prereqs[s]
        PROVE  is_terminal(status[p]) /\ (s \in StopOnFailure => status[p] = "completed")
    BY <1>1, <1>6 DEF NotedIn, is_terminal, Terminal
  <1> QED
    BY <1>1, <1>7 DEF ClearedIn

\* The frame at the top has seen what its program point says.
LEMMA TopFits ==
    ASSUME IInv, OrderInv, NEW t \in Threads, NEW op, At(t, op)
    PROVE  FitsIn(status, dep, Top(t))
  <1>1. 1 \in DOMAIN stack[t] /\ stack[t][1] = Top(t)
    BY TopFrame DEF IInv, Safe
  <1> QED
    BY <1>1 DEF OrderInv, FramesFit

\* The steps of a call about the frames.
LEMMA OrderContinue ==
    ASSUME IInv, CountInv, OrderInv, NEW t \in Threads, Continue(t), ~Count(t)
    PROVE  FramesFit' /\ WaitedFor' /\ Grows
  <1>0. StackType /\ DataType
    BY DEF IInv, Safe
  <1>1. PICK f : f = Top(t)
    OBVIOUS
  <1>2. \A op \in ExecOps \cup SubOps : At(t, op) =>
            f \in Frames /\ f.op = op /\ f.s \in Subs /\ f.s \in Events /\ f.p \in Events
            /\ f.todo \subseteq Events /\ f.st \in Statuses /\ FitsIn(status, dep, f)
    BY <1>0, <1>1, TopFrame, TopFits, FrameFields DEF Events
  <1>3. \A op \in EventOps : At(t, op) =>
            f \in Frames /\ f.op = op /\ f.s \in Events
            /\ f.todo \subseteq Subs /\ f.st \in Statuses /\ FitsIn(status, dep, f)
    BY <1>0, <1>1, TopFrame, TopFits, FrameFields
  <1>4. UNCHANGED <<status, dep>> => Grows
    BY DEF Grows
  <1>5. \A op \in LaunchOps : At(t, op) => f.s \in Resumable \/ ClearedIn(status, f.s)
    BY <1>2 DEF FitsIn, LaunchOps, SubOps
  <1>6. ASSUME NEW op \in LaunchOps, At(t, op),
               \/ Become(t, <<>>)
               \/ \E g \in LaunchOps, st \in Statuses :
                     \/ Become(t, <<Frame(g, f.s)>>)
                     \/ Become(t, <<WithStatus(g, f.s, st)>>),
               UNCHANGED <<status, dep>>,
               \A s \in Subs \ Resumable : queue'[s] > 0 => queue[s] > 0 \/ s = f.s
        PROVE  FramesFit' /\ WaitedFor' /\ Grows
    <2>1. \A s \in Subs \ Resumable : queue'[s] > 0 => queue[s] > 0 \/ ClearedIn(status, s)
      BY <1>5, <1>6
    <2>2. f.s \in Subs /\ LaunchOps \subseteq ExecOps \cup SubOps
      BY <1>2, <1>6 DEF LaunchOps, SubOps
    <2>3. \A g \in LaunchOps, st \in Statuses :
             /\ Frame(g, f.s) \in Frames /\ FitsIn(status, dep, Frame(g, f.s))
             /\ WithStatus(g, f.s, st) \in Frames /\ FitsIn(status, dep, WithStatus(g, f.s, st))
      BY <1>5, <1>6, <2>2, FrameTypes, FitsOf
    <2>4. \/ Become(t, <<>>)
          \/ \E h \in Frames : FitsIn(status, dep, h) /\ Become(t, <<h>>)
      BY <1>6, <2>3
    <2> QED
      BY <1>4, <1>6, <2>1, <2>4, OrderGoes
  <1>7. /\ {"dispatch", "resume", "admit", "prescreen", "enqueue", "screen", "start", "step",
            "finish", "clear"} \subseteq LaunchOps
        /\ LaunchOps \subseteq ExecOps \cup SubOps
        /\ {"failed", "cancelled", "completed", "suspended", "running"} \subseteq Statuses
        /\ Terminal \subseteq Statuses
    BY DEF LaunchOps, ExecOps, SubOps, Statuses, Terminal
  <1>8. CASE Register(t)
    <2>1. At(t, "register") /\ f.s \in Subs /\ f.todo \subseteq Events /\ stack[t] # <<>>
      BY <1>0, <1>2, <1>8, TopFrame DEF Register, SubOps
    <2>2. UNCHANGED <<status, dep, queue>> /\ Grows
      BY <1>4, <1>8 DEF Register, poolVars
    <2>3. \A todo \in SUBSET Events : WithTodo("register", f.s, todo) \in Frames
                                    /\ FitsIn(status, dep, WithTodo("register", f.s, todo))
      BY <2>1, FrameTypes, FitsOf DEF SubOps
    <2>4. \A q \in f.todo : f.todo \ {q} \in SUBSET Events /\ q \in Events
      BY <2>1
    <2>5. CASE \/ Become(t, <<>>)
               \/ \E q \in f.todo : Become(t, <<WithTodo("register", f.s, f.todo \ {q})>>)
      <3>1. \/ Become(t, <<>>)
            \/ \E h \in Frames : FitsIn(status, dep, h) /\ Become(t, <<h>>)
        BY <2>3, <2>4, <2>5
      <3> QED
        BY <2>1, <2>2, <3>1, OrderGoes
    <2>6. ASSUME NEW q \in f.todo, is_terminal(status[q]),
                 Become(t, <<WithPrereq("record", f.s, q), WithTodo("register", f.s, f.todo \ {q})>>)
          PROVE  FramesFit' /\ WaitedFor'
      <3>1. PICK g, h : g = WithPrereq("record", f.s, q) /\ h = WithTodo("register", f.s, f.todo \ {q})
        OBVIOUS
      <3>2. g \in Frames /\ h \in Frames
        BY <2>1, <2>3, <2>4, <3>1, FrameTypes DEF SubOps
      <3>3. FitsIn(status', dep', g) /\ FitsIn(status', dep', h)
        BY <2>2, <2>3, <2>4, <2>6, <3>1, FitsOf
      <3>4. Become(t, <<g, h>>)
        BY <2>6, <3>1
      <3>5. <<g, h>> \in Seq(Frames) /\ Steps(t, <<g, h>>)
        BY <2>1, <3>2, <3>4 DEF Steps
      <3>6. \A k \in DOMAIN <<g, h>> : FitsIn(status', dep', <<g, h>>[k])
        BY <3>3
      <3>7. WaitsStep
        BY <2>2 DEF WaitsStep
      <3> QED
        BY <2>2, <3>5, <3>6, <3>7, OrderMove
    <2> QED
      BY <1>1, <1>8, <2>2, <2>5, <2>6 DEF Register
  <1>9. CASE Notify(t)
    <2>1. /\ At(t, "notify") /\ f.s \in Events /\ f.todo \subseteq Subs /\ is_terminal(status[f.s])
          /\ stack[t] # <<>>
      BY <1>0, <1>3, <1>9, TopFrame DEF Notify, EventOps, FitsIn
    <2>2. UNCHANGED <<status, dep, queue>> /\ Grows
      BY <1>4, <1>9 DEF Notify, eventVars, poolVars
    <2>3. CASE Become(t, <<>>)
      BY <2>1, <2>2, <2>3, OrderGoes
    <2>4. ASSUME NEW d \in f.todo,
                 Become(t, <<WithPrereq("record", d, f.s), WithTodo("notify", f.s, f.todo \ {d})>>)
          PROVE  FramesFit' /\ WaitedFor'
      <3>1. PICK g, h : g = WithPrereq("record", d, f.s) /\ h = WithTodo("notify", f.s, f.todo \ {d})
        OBVIOUS
      <3>2. g \in Frames /\ h \in Frames
        <4>1. d \in Subs /\ f.todo \ {d} \in SUBSET Subs
          BY <2>1
        <4> QED
          BY <2>1, <3>1, <4>1, FrameTypes DEF SubOps, EventOps
      <3>3. FitsIn(status', dep', g) /\ FitsIn(status', dep', h)
        BY <2>1, <2>2, <3>1, FitsOf
      <3>4. Become(t, <<g, h>>)
        BY <2>4, <3>1
      <3>5. <<g, h>> \in Seq(Frames) /\ Steps(t, <<g, h>>)
        BY <2>1, <3>2, <3>4 DEF Steps
      <3>6. \A k \in DOMAIN <<g, h>> : FitsIn(status', dep', <<g, h>>[k])
        BY <3>3
      <3>7. WaitsStep
        BY <2>2 DEF WaitsStep
      <3> QED
        BY <2>2, <3>5, <3>6, <3>7, OrderMove
    <2> QED
      BY <1>1, <1>9, <2>2, <2>3, <2>4 DEF Notify
  <1>10. CASE Record(t)
    <2>1. /\ At(t, "record") /\ f.s \in Subs /\ f.p \in Events /\ is_terminal(status[f.p])
          /\ stack[t] # <<>>
      BY <1>0, <1>2, <1>10, TopFrame DEF Record, SubOps, FitsIn
    <2>2. UNCHANGED <<status, queue>>
      BY <1>10 DEF Record, eventVars, poolVars
    <2>3. /\ Grows
          /\ f.s \in StopOnFailure => /\ status[f.p] = "failed" => dep'[f.s].failed
                                      /\ status[f.p] = "cancelled" => dep'[f.s].cancelled
      BY <1>1, <1>10, <2>2, RecordDoes DEF Grows
    <2>4. NotedIn(status', dep', f.s, f.p)
      BY <2>1, <2>2, <2>3 DEF NotedIn
    <2>5. PICK g \in Frames : g = WithPrereq("count", f.s, f.p)
      BY <2>1, FrameTypes DEF SubOps
    <2>6. FitsIn(status', dep', g)
      BY <2>4, <2>5, FitsOf
    <2>7. <<g>> \in Seq(Frames) /\ Steps(t, <<g>>)
      BY <1>1, <1>10, <2>1, <2>5 DEF Record, Steps
    <2>8. \A k \in DOMAIN <<g>> : FitsIn(status', dep', <<g>>[k])
      BY <2>6
    <2>9. WaitsStep
      BY <2>2 DEF WaitsStep
    <2> QED
      BY <2>3, <2>7, <2>8, <2>9, OrderMove
  <1>11. CASE Mark(t)
    <2>1. At(t, "mark") /\ f.s \in Events /\ f.st \in Statuses /\ is_terminal(f.st)
      BY <1>3, <1>11 DEF Mark, EventOps, FitsIn
    <2>2. Complete(t, f.s, f.st, <<>>) /\ UNCHANGED <<dep, queue>>
      BY <1>1, <1>11 DEF Mark, poolVars
    <2>3. f.st # "suspended"
      BY <2>1 DEF is_terminal, Terminal
    <2> QED
      BY <2>1, <2>2, <2>3, OrderComplete
  <1>12. ASSUME NEW op \in ExecOps, At(t, op), NEW st \in Statuses, NEW op2 \in ExecOps,
                Complete(t, f.s, st, <<Frame(op2, f.s)>>), UNCHANGED <<dep, queue>>
         PROVE  FramesFit' /\ WaitedFor' /\ Grows
    <2>1. op \in LaunchOps /\ op2 \in LaunchOps /\ f.s \in Subs /\ f.s \in Events
      BY <1>2, <1>12 DEF LaunchOps
    <2>2. f.s \in Resumable \/ ClearedIn(status, f.s)
      BY <1>5, <1>12, <2>1
    <2>3. PICK g \in Frames : g = Frame(op2, f.s)
      BY <1>12, <2>1, FrameTypes
    <2>4. FitsIn(status, dep, g)
      BY <2>1, <2>2, <2>3, FitsOf
    <2>5. st = "suspended" /\ f.s \in Subs \ Resumable => ClearedIn(status, f.s)
      BY <2>2
    <2> QED
      BY <1>12, <2>1, <2>3, <2>4, <2>5, OrderComplete
  <1>13. CASE Start(t)
    <2>1. At(t, "start") /\ Complete(t, f.s, "running", <<Frame("step", f.s)>>) /\ UNCHANGED <<dep, queue>>
      BY <1>1, <1>13 DEF Start, poolVars
    <2> QED
      BY <1>7, <1>12, <2>1 DEF ExecOps
  <1>14. CASE FinishStep(t)
    <2>1. At(t, "finish") /\ Complete(t, f.s, f.st, <<Frame("clear", f.s)>>) /\ UNCHANGED <<dep, queue>>
      BY <1>1, <1>14 DEF FinishStep, poolVars
    <2>2. f.st \in Statuses
      BY <1>2, <2>1 DEF ExecOps
    <2> QED
      BY <1>12, <2>1, <2>2 DEF ExecOps
  <1>15. CASE Dispatch(t)
    <2>1. Become(t, <<>>) \/ \E g \in {"screen", "admit"} : Become(t, <<Frame(g, f.s)>>)
      BY <1>1, <1>15 DEF Dispatch
    <2>2. At(t, "dispatch") /\ UNCHANGED <<status, dep, queue>>
      BY <1>15 DEF Dispatch, eventVars, poolVars
    <2> QED
      BY <1>6, <1>7, <2>1, <2>2
  <1>16. CASE Admit(t)
    <2>1. Become(t, <<Frame("prescreen", f.s)>>) \/ Become(t, <<WithStatus("finish", f.s, "failed")>>)
      BY <1>1, <1>16 DEF Admit, Finish
    <2>2. At(t, "admit") /\ UNCHANGED <<status, dep, queue>>
      BY <1>16 DEF Admit, eventVars, poolVars
    <2> QED
      BY <1>6, <1>7, <2>1, <2>2
  <1>17. CASE Prescreen(t)
    <2>1. Become(t, <<Frame("enqueue", f.s)>>) \/ Become(t, <<WithStatus("finish", f.s, "cancelled")>>)
      BY <1>1, <1>17 DEF Prescreen, Finish
    <2>2. At(t, "prescreen") /\ UNCHANGED <<status, dep, queue>>
      BY <1>17 DEF Prescreen, eventVars, poolVars
    <2> QED
      BY <1>6, <1>7, <2>1, <2>2
  <1>18. CASE Enqueue(t)
    <2>1. Become(t, <<>>) \/ Become(t, <<WithStatus("finish", f.s, "failed")>>)
      BY <1>1, <1>18 DEF Enqueue, Finish
    <2>2. At(t, "enqueue") /\ UNCHANGED <<status, dep>>
      BY <1>18 DEF Enqueue, eventVars
    <2>3. \A s \in Subs : queue'[s] > 0 => queue[s] > 0 \/ s = f.s
      <3>1. queue' = queue \/ queue' = [queue EXCEPT ![f.s] = @ + 1]
        BY <1>1, <1>18 DEF Enqueue
      <3> QED
        BY <1>0, <3>1 DEF DataType
    <2> QED
      BY <1>6, <1>7, <2>1, <2>2, <2>3
  <1>19. CASE Screen(t)
    <2>1. Become(t, <<Frame("start", f.s)>>) \/ Become(t, <<WithStatus("finish", f.s, "cancelled")>>)
      BY <1>1, <1>19 DEF Screen, Finish
    <2>2. At(t, "screen") /\ UNCHANGED <<status, dep, queue>>
      BY <1>19 DEF Screen, eventVars, poolVars
    <2> QED
      BY <1>6, <1>7, <2>1, <2>2
  <1>20. CASE Step(t)
    <2>1. \E st \in Statuses : Become(t, <<WithStatus("finish", f.s, st)>>)
      BY <1>1, <1>7, <1>20 DEF Step, Finish
    <2>2. At(t, "step") /\ UNCHANGED <<status, dep, queue>>
      BY <1>20 DEF Step, eventVars, poolVars
    <2> QED
      BY <1>6, <1>7, <2>1, <2>2
  <1>21. CASE Clear(t)
    <2>1. At(t, "clear") /\ Become(t, <<>>) /\ UNCHANGED <<status, dep, queue>>
      BY <1>21 DEF Clear, eventVars, poolVars
    <2> QED
      BY <1>6, <1>7, <2>1
  <1>22. CASE Resume(t)
    <2>1. Become(t, <<>>) \/ Become(t, <<Frame("dispatch", f.s)>>)
      BY <1>1, <1>22 DEF Resume
    <2>2. At(t, "resume") /\ UNCHANGED <<status, dep, queue>>
      BY <1>22 DEF Resume, eventVars, poolVars
    <2>3. \E st \in Statuses : TRUE
      BY <1>7
    <2> QED
      BY <1>6, <1>7, <2>1, <2>2, <2>3
  <1>23. ASSUME NEW op \in SubOps, At(t, op), UNCHANGED <<status, dep, queue>>,
                \/ Become(t, <<>>)
                \/ \E g \in Frames : FitsIn(status, dep, g) /\ Become(t, <<g>>)
         PROVE  FramesFit' /\ WaitedFor' /\ Grows
    BY <1>4, <1>23, OrderGoes
  <1>24. CASE Cancel(t)
    <2>1. At(t, "cancel") /\ UNCHANGED <<status, dep, queue>> /\ f.s \in Subs
      BY <1>2, <1>24 DEF Cancel, eventVars, poolVars, SubOps
    <2>2. CASE status[f.s] = "suspended"
      <3>1. f.s \in Resumable \/ ClearedIn(status, f.s)
        BY <2>1, <2>2 DEF OrderInv, WaitedFor
      <3>2. Frame("resume", f.s) \in Frames
        BY <2>1, FrameTypes DEF SubOps
      <3>3. FitsIn(status, dep, Frame("resume", f.s))
        BY <1>7, <3>1, FitsOf
      <3>4. Become(t, <<Frame("resume", f.s)>>)
        BY <1>1, <1>24, <2>2 DEF Cancel
      <3> QED
        BY <1>23, <2>1, <3>2, <3>3, <3>4 DEF SubOps
    <2>3. CASE status[f.s] # "suspended"
      <3>1. Become(t, <<>>)
        BY <1>1, <1>24, <2>3 DEF Cancel
      <3> QED
        BY <1>23, <2>1, <3>1 DEF SubOps
    <2> QED
      BY <2>2, <2>3
  <1>25. CASE SubmitReturn(t)
    <2>1. At(t, "return") /\ Become(t, <<>>) /\ UNCHANGED <<status, dep, queue>>
      BY <1>25 DEF SubmitReturn, eventVars, poolVars
    <2> QED
      BY <1>23, <2>1 DEF SubOps
  <1>26. CASE ShutdownStop(t)
    <2>1. At(t, "request_stop") /\ Become(t, <<Frame("join", AnySub)>>) /\ UNCHANGED <<status, dep, queue>>
      BY <1>26 DEF ShutdownStop, eventVars
    <2>2. Frame("join", AnySub) \in Frames /\ FitsIn(status, dep, Frame("join", AnySub))
      BY AnySubType, FrameTypes, FitsOf DEF SubOps
    <2> QED
      BY <1>23, <2>1, <2>2 DEF SubOps
  <1>27. CASE ShutdownJoin(t)
    <2>1. At(t, "join") /\ Become(t, <<>>) /\ UNCHANGED <<status, dep, queue>>
      BY <1>27 DEF ShutdownJoin, eventVars, poolVars
    <2> QED
      BY <1>23, <2>1 DEF SubOps
  <1> QED
    BY <1>8, <1>9, <1>10, <1>11, <1>13, <1>14, <1>15, <1>16, <1>17, <1>18, <1>19, <1>20, <1>21,
       <1>22, <1>24, <1>25, <1>26, <1>27 DEF Continue

\* The callback that counts, and what the last one does.
LEMMA OrderCount ==
    ASSUME IInv, CountInv, OrderInv, NEW t \in Threads, Count(t)
    PROVE  OrderInv'
  <1>1. PICK f : f = Top(t)
    OBVIOUS
  <1>2. /\ At(t, "count") /\ f \in Frames /\ f.s \in Subs /\ f.p \in Events
        /\ stack[t] # <<>> /\ NotedIn(status, dep, f.s, f.p)
    BY <1>1, TopFrame, TopFits, FrameFields DEF Count, SubOps, IInv, Safe, FitsIn
  <1>3. UNCHANGED <<status, queue, submitted>>
    BY DEF Count, eventVars, poolVars, callVars
  <1>4. Grows /\ WaitsStep
    BY <1>3, CountDoes DEF Grows, WaitsStep
  <1>5. PICK fs \in Seq(Frames) : Become(t, fs) /\ \A k \in DOMAIN fs : FitsIn(status', dep', fs[k])
    <2>1. \A k \in DOMAIN <<>> : FitsIn(status', dep', <<>>[k])
      OBVIOUS
    <2>2. ASSUME NEW st \in {"failed", "cancelled"}, Become(t, <<WithStatus("mark", f.s, st)>>)
          PROVE  \E fs \in Seq(Frames) : Become(t, fs) /\ \A k \in DOMAIN fs : FitsIn(status', dep', fs[k])
      <3>1. is_terminal(st) /\ st \in Statuses /\ f.s \in Events
        BY <1>2 DEF is_terminal, Terminal, Statuses, Events
      <3>2. PICK g : g = WithStatus("mark", f.s, st)
        OBVIOUS
      <3>3. g \in Frames /\ FitsIn(status', dep', g)
        BY <3>1, <3>2, FrameTypes, FitsOf DEF EventOps
      <3>4. <<g>> \in Seq(Frames) /\ Become(t, <<g>>) /\ \A k \in DOMAIN <<g>> : FitsIn(status', dep', <<g>>[k])
        BY <2>2, <3>2, <3>3
      <3> QED
        BY <3>4
    <2>3. ASSUME Become(t, <<Frame("dispatch", f.s)>>), dep[f.s].remaining = 1,
                 ~dep[f.s].failed, ~dep[f.s].cancelled
          PROVE  \E fs \in Seq(Frames) : Become(t, fs) /\ \A k \in DOMAIN fs : FitsIn(status', dep', fs[k])
      <3>1. ClearedIn(status', f.s)
        BY <1>1, <1>3, <2>3, LastClears
      <3>2. PICK g : g = Frame("dispatch", f.s)
        OBVIOUS
      <3>3. g \in Frames /\ FitsIn(status', dep', g)
        BY <1>2, <3>1, <3>2, FrameTypes, FitsOf DEF SubOps, LaunchOps
      <3>4. <<g>> \in Seq(Frames) /\ Become(t, <<g>>) /\ \A k \in DOMAIN <<g>> : FitsIn(status', dep', <<g>>[k])
        BY <2>3, <3>2, <3>3
      <3> QED
        BY <3>4
    <2>4. \/ Become(t, <<>>)
          \/ \E st \in {"failed", "cancelled"} : Become(t, <<WithStatus("mark", f.s, st)>>)
          \/ /\ Become(t, <<Frame("dispatch", f.s)>>)
             /\ dep[f.s].remaining = 1 /\ ~dep[f.s].failed /\ ~dep[f.s].cancelled
      BY <1>1 DEF Count
    <2>5. <<>> \in Seq(Frames)
      OBVIOUS
    <2> QED
      BY <2>1, <2>2, <2>3, <2>4, <2>5
  <1>6. FramesFit' /\ WaitedFor'
    <2>1. Steps(t, fs)
      BY <1>2, <1>5 DEF Steps
    <2> QED
      BY <1>4, <1>5, <2>1, OrderMove
  <1>7. ASSUME NEW s \in submitted', NEW p \in Prereqs[s]
        PROVE  Held(s, p)' \/ NotedIn(status', dep', s, p)
    <2>1. s \in Subs /\ p \in Events /\ s \in submitted
      BY <1>3, RuntimeAssumption DEF IInv, DataType
    <2>2. Held(s, p) => Held(s, p)' \/ (s = f.s /\ p = f.p)
      BY <1>1, <2>1, CountHands
    <2>3. Held(s, p) \/ NotedIn(status, dep, s, p)
      BY <2>1 DEF OrderInv, CountedNoted
    <2> QED
      BY <1>2, <1>4, <2>1, <2>2, <2>3, GrowsKeeps
  <1>8. CountedNoted'
    BY <1>7 DEF CountedNoted
  <1> QED
    BY <1>6, <1>8 DEF OrderInv

\* submit() launches at once only what has nothing to wait for.
LEMMA OrderSubmit ==
    ASSUME IInv, CountInv, OrderInv, NEW c \in Clients, NEW s \in Subs, Submit(c, s)
    PROVE  OrderInv'
  <1>0. c \in Threads /\ Prereqs[s] \in SUBSET Events
    BY RuntimeAssumption DEF Threads
  <1>1. PICK g, h : /\ g = IF Prereqs[s] = {} THEN Frame("dispatch", s)
                           ELSE WithTodo("register", s, Prereqs[s])
                    /\ h = Frame("return", s)
    OBVIOUS
  <1>2. /\ UNCHANGED <<status, queue>> /\ submitted' = submitted \cup {s}
        /\ Call(c, <<g, h>>)
    BY <1>1 DEF Submit, eventVars, poolVars
  <1>3. Grows /\ WaitsStep
    <2>1. \A d \in Subs : dep'[d].failed = dep[d].failed /\ dep'[d].cancelled = dep[d].cancelled
      <3> DEFINE D == [remaining : Int, failed : BOOLEAN, cancelled : BOOLEAN]
                 r == [dep[s] EXCEPT !.remaining = Cardinality(Prereqs[s])]
      <3>1. dep \in [Subs -> D]
        BY DEF IInv, DataType
      <3>2. dep' = [dep EXCEPT ![s] = r] /\ r.failed = dep[s].failed /\ r.cancelled = dep[s].cancelled
        BY <3>1 DEF Submit
      <3> HIDE DEF r
      <3> QED
        BY <3>1, <3>2
    <2> QED
      BY <1>2, <2>1 DEF Grows, WaitsStep
  <1>4. g \in Frames /\ h \in Frames
    BY <1>0, <1>1, FrameTypes DEF SubOps
  <1>5. FitsIn(status', dep', g) /\ FitsIn(status', dep', h)
    <2>1. FitsIn(status', dep', h)
      BY <1>1, FitsOf
    <2>2. CASE Prereqs[s] = {}
      <3>1. ClearedIn(status', s)
        BY <2>2 DEF ClearedIn
      <3>2. "dispatch" \in LaunchOps
        BY DEF LaunchOps
      <3>3. FitsIn(status', dep', Frame("dispatch", s))
        BY <3>1, <3>2, FitsOf
      <3> QED
        BY <1>1, <2>1, <2>2, <3>3
    <2>3. CASE Prereqs[s] # {}
      <3>1. FitsIn(status', dep', WithTodo("register", s, Prereqs[s]))
        BY FitsOf
      <3> QED
        BY <1>1, <2>1, <2>3, <3>1
    <2> QED
      BY <2>2, <2>3
  <1>6. FramesFit' /\ WaitedFor'
    <2>1. <<g, h>> \in Seq(Frames) /\ Steps(c, <<g, h>>)
      BY <1>2, <1>4 DEF Steps
    <2>2. \A k \in DOMAIN <<g, h>> : FitsIn(status', dep', <<g, h>>[k])
      BY <1>5
    <2> QED
      BY <1>0, <1>3, <2>1, <2>2, OrderMove
  <1>7. ASSUME NEW d \in submitted', NEW p \in Prereqs[d]
        PROVE  Held(d, p)' \/ NotedIn(status', dep', d, p)
    <2>1. d \in Subs /\ p \in Events /\ (d # s => d \in submitted)
      BY <1>2, RuntimeAssumption DEF IInv, DataType
    <2>2. CASE d = s
      BY <2>1, <2>2, SubmitHands
    <2>3. CASE d # s
      <3>1. Held(d, p)' <=> Held(d, p)
        BY <2>1, <2>3, SubmitHands
      <3>2. Held(d, p) \/ NotedIn(status, dep, d, p)
        BY <2>1, <2>3 DEF OrderInv, CountedNoted
      <3> QED
        BY <1>3, <2>1, <3>1, <3>2, GrowsKeeps
    <2> QED
      BY <2>2, <2>3
  <1>8. CountedNoted'
    BY <1>7 DEF CountedNoted
  <1> QED
    BY <1>6, <1>8 DEF OrderInv

\* The other calls of clients, the workers and stop requests.
LEMMA OrderOthers ==
    ASSUME IInv, CountInv, OrderInv,
           \/ \E c \in Clients : \/ \E s \in Subs : ResumeCall(c, s)
                                 \/ \E s \in Cancellable : CancelCall(c, s)
                                 \/ \E e \in Externals : CompleteExternal(c, e)
                                 \/ ShutdownCall(c)
           \/ \E w \in Workers : WorkerLoop(w)
           \/ \E s \in Cancellable : RequestStop(s)
           \/ UNCHANGED vars
    PROVE  OrderInv'
  <1>1. CountInv' /\ SameHeld
    BY OthersHand
  <1>2. UNCHANGED <<status, dep, submitted>> /\ Cancellable \subseteq Subs /\ queue \in [Subs -> Nat]
    BY RuntimeAssumption DEF ResumeCall, CancelCall, CompleteExternal, ShutdownCall, WorkerLoop, WorkerExit, Dequeue,
       RequestStop, vars, eventVars, poolVars, callVars, IInv, DataType
  <1>3. Grows
    BY <1>2 DEF Grows
  <1>4. CountedNoted'
    BY <1>1, <1>2, <1>3, NotedStays DEF OrderInv
  <1>5. ASSUME NEW t \in Threads, NEW f \in Frames, FitsIn(status, dep, f), Call(t, <<f>>),
               \A s \in Subs \ Resumable : queue'[s] > 0 => queue[s] > 0
        PROVE  FramesFit' /\ WaitedFor'
    BY <1>2, <1>5, OrderCall
  <1>6. ASSUME NEW c \in Clients, NEW s \in Subs, ResumeCall(c, s)
        PROVE  FramesFit' /\ WaitedFor'
    <2>1. Frame("resume", s) \in Frames
      BY FrameTypes DEF SubOps
    <2>2. s \in Resumable /\ "resume" \in LaunchOps
      BY <1>6 DEF ResumeCall, LaunchOps
    <2>3. FitsIn(status, dep, Frame("resume", s))
      BY <2>2, FitsOf
    <2> QED
      BY <1>5, <1>6, <2>1, <2>3 DEF ResumeCall, poolVars, Threads
  <1>7. ASSUME NEW c \in Clients, NEW s \in Subs, CancelCall(c, s)
        PROVE  FramesFit' /\ WaitedFor'
    <2>1. Frame("cancel", s) \in Frames /\ FitsIn(status, dep, Frame("cancel", s))
      BY FrameTypes, FitsOf DEF SubOps
    <2> QED
      BY <1>5, <1>7, <2>1 DEF CancelCall, poolVars, Threads
  <1>8. ASSUME NEW c \in Clients, NEW e \in Externals, CompleteExternal(c, e)
        PROVE  FramesFit' /\ WaitedFor'
    <2>1. PICK st \in Terminal : Call(c, <<WithStatus("mark", e, st)>>)
      BY <1>8 DEF CompleteExternal
    <2>2. st \in Statuses /\ is_terminal(st) /\ e \in Events
      BY DEF Terminal, Statuses, is_terminal, Events
    <2>3. WithStatus("mark", e, st) \in Frames
      BY <2>2, FrameTypes DEF EventOps
    <2>4. FitsIn(status, dep, WithStatus("mark", e, st))
      BY <2>2, FitsOf
    <2> QED
      BY <1>5, <1>8, <2>1, <2>3, <2>4 DEF CompleteExternal, poolVars, Threads
  <1>9. ASSUME NEW c \in Clients, ShutdownCall(c)
        PROVE  FramesFit' /\ WaitedFor'
    <2>1. Frame("request_stop", AnySub) \in Frames /\ FitsIn(status, dep, Frame("request_stop", AnySub))
      BY AnySubType, FrameTypes, FitsOf DEF SubOps
    <2> QED
      BY <1>5, <1>9, <2>1 DEF ShutdownCall, Threads
  <1>10. ASSUME NEW w \in Workers, NEW s \in Subs, Dequeue(w, s)
         PROVE  FramesFit' /\ WaitedFor'
    <2>1. queue[s] > 0 /\ queue' = [queue EXCEPT ![s] = @ - 1] /\ Call(w, <<Frame("screen", s)>>)
      BY <1>10 DEF Dequeue
    <2>2. s \in Resumable \/ ClearedIn(status, s)
      BY <2>1 DEF OrderInv, WaitedFor
    <2>3. Frame("screen", s) \in Frames /\ "screen" \in LaunchOps
      BY FrameTypes DEF ExecOps, LaunchOps
    <2>4. FitsIn(status, dep, Frame("screen", s))
      BY <2>2, <2>3, FitsOf
    <2>5. \A d \in Subs : queue'[d] > 0 => queue[d] > 0
      BY <1>2, <2>1
    <2> QED
      BY <1>5, <2>1, <2>3, <2>4, <2>5 DEF Threads
  <1>11. ASSUME UNCHANGED <<stack, queue>>
         PROVE  FramesFit' /\ WaitedFor'
    <2>1. WaitsStep
      BY <1>2, <1>11 DEF WaitsStep
    <2> QED
      BY <1>3, <1>11, <2>1, OrderRest
  <1>12. ASSUME NEW w \in Workers, WorkerExit(w)
         PROVE  FramesFit' /\ WaitedFor'
    BY <1>11, <1>12 DEF WorkerExit
  <1>13. ASSUME NEW s \in Subs, RequestStop(s)
         PROVE  FramesFit' /\ WaitedFor'
    BY <1>11, <1>13 DEF RequestStop, poolVars
  <1>14. ASSUME UNCHANGED vars
         PROVE  FramesFit' /\ WaitedFor'
    BY <1>11, <1>14 DEF vars, poolVars
  <1>15. FramesFit' /\ WaitedFor'
    BY <1>2, <1>6, <1>7, <1>8, <1>9, <1>10, <1>12, <1>13, <1>14 DEF WorkerLoop
  <1> QED
    BY <1>4, <1>15 DEF OrderInv

\* What was counted has ended, and what is launched was cleared.
THEOREM OrderInvariant == Spec => []OrderInv
  <1>1. Init => OrderInv
    <2> SUFFICES ASSUME Init PROVE OrderInv
      OBVIOUS
    <2>1. /\ \A t \in Threads : DOMAIN stack[t] = {}
          /\ submitted = {}
          /\ \A s \in Subs : queue[s] = 0 /\ status[s] = "pending"
      BY DEF Init, Events
    <2> QED
      BY <2>1 DEF OrderInv, FramesFit, CountedNoted, WaitedFor
  <1>2. IInv /\ CountInv /\ OrderInv /\ [Next]_vars => OrderInv'
    <2> SUFFICES ASSUME IInv, CountInv, OrderInv, [Next]_vars PROVE OrderInv'
      OBVIOUS
    <2>1. ASSUME NEW t \in Threads, Continue(t)
          PROVE  OrderInv'
      <3>1. CASE Count(t)
        BY <3>1, OrderCount
      <3>2. CASE ~Count(t)
        <4>1. CountInv' /\ SameHeld
          BY <2>1, <3>2, ContinueHands
        <4>2. FramesFit' /\ WaitedFor' /\ Grows
          BY <2>1, <3>2, OrderContinue
        <4>3. UNCHANGED submitted
          BY <2>1, ContinueSubmits
        <4>4. CountedNoted'
          BY <4>1, <4>2, <4>3, NotedStays DEF OrderInv
        <4> QED
          BY <4>2, <4>4 DEF OrderInv
      <3> QED
        BY <3>1, <3>2
    <2>2. ASSUME NEW c \in Clients, ClientCall(c)
          PROVE  OrderInv'
      BY <2>2, OrderSubmit, OrderOthers DEF ClientCall
    <2> QED
      BY <2>1, <2>2, OrderOthers DEF Next
  <1> QED
    BY <1>1, <1>2, Invariant, CountInvariant, PTL DEF Spec

\* The part of PrerequisitesFirst about the submissions that nobody resumes.
UnresumedWait ==
    \A s \in Subs \ Resumable : Somewhere(ExecOps, s) \/ queue[s] > 0 => Cleared(s)

LEMMA WaitsByInvariant ==
    ASSUME IInv, OrderInv
    PROVE  UnresumedWait
  <1> SUFFICES ASSUME NEW s \in Subs \ Resumable, Somewhere(ExecOps, s) \/ queue[s] > 0
               PROVE  Cleared(s)
    BY DEF UnresumedWait
  <1>1. CASE queue[s] > 0
    BY <1>1 DEF OrderInv, WaitedFor, ClearedIn, Cleared
  <1>2. CASE Somewhere(ExecOps, s)
    <2>0. PICK t \in Threads : \E i \in DOMAIN stack[t] : Holds(t, i, ExecOps, s)
      BY <1>2 DEF Somewhere
    <2>1. PICK i \in DOMAIN stack[t] : Holds(t, i, ExecOps, s)
      BY <2>0
    <2>2. FitsIn(status, dep, stack[t][i])
      BY DEF OrderInv, FramesFit
    <2> QED
      BY <2>1, <2>2 DEF Holds, FitsIn, LaunchOps, ClearedIn, Cleared
  <1> QED
    BY <1>1, <1>2

\* A submission that nobody resumes reaches its executor only after every one
\* of its prerequisites finished, and with stopOnPrerequisiteFailure completed;
\* a cancel, which may resume a suspended one, changes nothing about that.
THEOREM UnresumedWaits == Spec => []UnresumedWait
  BY OrderInvariant, Invariant, WaitsByInvariant, PTL

\* If clients never call resume(), every submission waits.
THEOREM WaitsForPrerequisites ==
    ASSUME Resumable = {}
    PROVE  Spec => []PrerequisitesFirst
  <1>1. UnresumedWait => PrerequisitesFirst
    BY DEF UnresumedWait, PrerequisitesFirst
  <1> QED
    BY <1>1, UnresumedWaits, PTL

-----------------------------------------------------------------------------
(* Steps that run, of submissions that nobody resumes.                      *)

\* The frames that launch s, execute it or mark it for its prerequisites.
OnceOps == ExecOps \cup {"dispatch", "mark"}
Once(s) == {f \in Frames : f.op \in OnceOps /\ f.s = s}

\* The frames in which a step of s runs.
StepsOf(s) == {f \in Frames : f.op = "step" /\ f.s = s}

\* With statuses x and stop requests y: what a frame relies on.  A submission
\* is executed again only to see that it was stopped.
LiveIn(x, y, f) ==
    /\ f.op = "cancel" => y[f.s]
    /\ f.op = "resume" => y[f.s] /\ x[f.s] # "pending"
    /\ f.op \in {"mark", "start"} => x[f.s] = "pending"
    /\ f.op \in {"dispatch", "admit", "prescreen", "enqueue", "screen"} =>
          x[f.s] = "pending" \/ y[f.s]
    /\ f.op = "step" => x[f.s] = "running"
    /\ f.op = "finish" => is_terminal(f.st) \/ f.st = "suspended"

\* Every callback of s was counted.
NoneHeld(s) == \A p \in Prereqs[s] : ~Held(s, p)

\* The last callback of s, or submit() itself, has decided what becomes of it.
Launched(s) == status[s] # "pending" \/ queue[s] > 0 \/ Some(Once(s))

FramesLive(s) ==
    \A u \in Threads : \A i \in DOMAIN stack[u] :
        stack[u][i].s = s => LiveIn(status, stop, stack[u][i])

LiveFor(s) ==
    /\ FramesLive(s)
    /\ Launched(s) => s \in submitted /\ NoneHeld(s)
    /\ status[s] = "pending" => AtMostOne(Once(s)) /\ (queue[s] > 0 => ~Some(Once(s)))
    /\ queue[s] > 0 => status[s] = "pending" \/ stop[s]

LiveInv == \A s \in Subs \ Resumable : LiveFor(s)

\* What a frame below the top relies on, when the status of its submission changes.
LEMMA LiveStays ==
    ASSUME NEW s \in Subs, NEW f \in Frames, f.s = s, LiveIn(status, stop, f),
           stop[s] => stop'[s], status'[s] # "pending",
           status[s] = "pending" => f \notin Once(s), f \notin StepsOf(s)
    PROVE  LiveIn(status', stop', f)
  <1>1. f.op \in {"mark", "start", "dispatch", "admit", "prescreen", "enqueue", "screen"}
            => f \in Once(s)
    BY DEF Once, OnceOps, ExecOps
  <1>2. f.op # "step"
    BY DEF StepsOf
  <1>3. f.op \notin {"mark", "start"}
    BY <1>1 DEF LiveIn
  <1>4. f.op \in {"dispatch", "admit", "prescreen", "enqueue", "screen"} => stop[s]
    BY <1>1 DEF LiveIn
  <1> QED
    BY <1>2, <1>3, <1>4 DEF LiveIn

\* A step keeps the invariant for s if
LEMMA LiveMove ==
    ASSUME StackType, NEW s \in Subs, LiveFor(s),
           NEW t \in Threads, NEW fs \in Seq(Frames), Steps(t, fs),
           \* stop requests, submissions and counted callbacks stay,
           stop[s] => stop'[s], s \in submitted => s \in submitted', NoneHeld(s) => NoneHeld(s)',
           \* the frames it puts rely on nothing else,
           \A k \in DOMAIN fs : fs[k].s = s => LiveIn(status', stop', fs[k]),
           \* it launches nothing that still waits,
           \/ Launched(s)
           \/ s \in submitted' /\ NoneHeld(s)'
           \/ status'[s] = "pending" /\ ~(queue'[s] > 0) /\ ~Puts(fs, Once(s)),
           \* nor launches a pending one twice,
           status'[s] = "pending" =>
               /\ status[s] = "pending"
               /\ PutsOne(fs, Once(s))
               /\ Puts(fs, Once(s)) => ~(queue'[s] > 0) /\ ~Elsewhere(t, Once(s))
               /\ queue'[s] > 0 => ~Elsewhere(t, Once(s)),
           queue'[s] > 0 => status'[s] = "pending" \/ stop'[s],
           \* and changes the status only where no other frame relies on it.
           \/ status'[s] = status[s]
           \/ /\ status'[s] # "pending"
              /\ status[s] = "pending" => ~Elsewhere(t, Once(s))
              /\ ~Elsewhere(t, StepsOf(s))
    PROVE  LiveFor(s)'
  <1> DEFINE A == Once(s)
  <1>1. /\ Some(A) <=> Takes(t, A) \/ Elsewhere(t, A)
        /\ Some(A)' <=> Puts(fs, A) \/ Elsewhere(t, A)
        /\ AtMostOne(A) /\ PutsOne(fs, A) /\ (Puts(fs, A) => ~Elsewhere(t, A)) => AtMostOne(A)'
    BY StepSets
  <1>2. FramesLive(s)'
    <2> SUFFICES ASSUME NEW u \in Threads, NEW i \in DOMAIN (stack'[u]), stack'[u][i].s = s
                 PROVE  LiveIn(status', stop', stack'[u][i])
      BY DEF FramesLive
    <2>1. CASE u = t /\ i \in DOMAIN fs /\ stack'[u][i] = fs[i]
      BY <2>1
    <2>2. ASSUME NEW j \in DOMAIN stack[u], u = t => j # 1, stack'[u][i] = stack[u][j]
          PROVE  LiveIn(status', stop', stack'[u][i])
      <3>1. PICK f : f = stack[u][j]
        OBVIOUS
      <3>2. f \in Frames
        BY <3>1 DEF StackType
      <3>3. LiveIn(status, stop, f) /\ f.s = s
        BY <2>2, <3>1 DEF LiveFor, FramesLive
      <3>4. CASE status'[s] = status[s]
        BY <2>2, <3>1, <3>3, <3>4 DEF LiveIn
      <3>5. CASE status'[s] # "pending" /\ (status[s] = "pending" => ~Elsewhere(t, A))
                 /\ ~Elsewhere(t, StepsOf(s))
        <4>1. (status[s] = "pending" => f \notin Once(s)) /\ f \notin StepsOf(s)
          BY <2>2, <3>1, <3>5 DEF Elsewhere
        <4> QED
          BY <2>2, <3>1, <3>2, <3>3, <3>5, <4>1, LiveStays
      <3> QED
        BY <3>4, <3>5
    <2> QED
      BY <2>1, <2>2, StepOrigin
  <1>3. Launched(s) <=> status[s] # "pending" \/ queue[s] > 0 \/ Some(A)
    BY DEF Launched
  <1>4. Launched(s)' <=> status'[s] # "pending" \/ queue'[s] > 0 \/ Some(A)'
    BY DEF Launched
  <1>5. Launched(s)' => s \in submitted' /\ NoneHeld(s)'
    <2>1. Launched(s) => s \in submitted /\ NoneHeld(s)
      BY DEF LiveFor
    <2>2. Elsewhere(t, A) => Launched(s)
      BY <1>1, <1>3
    <2> QED
      BY <1>1, <1>4, <2>1, <2>2
  <1>6. status'[s] = "pending" => AtMostOne(A)' /\ (queue'[s] > 0 => ~Some(A)')
    BY <1>1 DEF LiveFor
  <1> QED
    BY <1>2, <1>5, <1>6 DEF LiveFor

\* The program points that are not about executing a submission.
QuietOps == {"register", "record", "count", "notify", "return", "request_stop", "join"}

LEMMA QuietLive ==
    ASSUME NEW f, f.op \in QuietOps
    PROVE  /\ \A x, y : LiveIn(x, y, f)
           /\ \A s : f \notin Once(s)
  BY DEF QuietOps, LiveIn, Once, OnceOps, ExecOps

\* The invariant for s only depends on what launches, executes or marks s.
LEMMA LiveAway ==
    ASSUME StackType, NEW s \in Subs, LiveFor(s),
           NEW t \in Threads, NEW fs \in Seq(Frames), Steps(t, fs),
           stop[s] => stop'[s], s \in submitted => s \in submitted', NoneHeld(s) => NoneHeld(s)',
           \A k \in DOMAIN fs : fs[k].s = s => LiveIn(status', stop', fs[k]),
           ~Puts(fs, Once(s)), status'[s] = status[s], queue'[s] > 0 => queue[s] > 0
    PROVE  LiveFor(s)'
  <1>1. PutsOne(fs, Once(s))
    BY DEF Puts, PutsOne
  <1>2. Some(Once(s)) <=> Takes(t, Once(s)) \/ Elsewhere(t, Once(s))
    BY StepSets
  <1>3. status[s] = "pending" /\ queue[s] > 0 => ~Elsewhere(t, Once(s))
    BY <1>2 DEF LiveFor
  <1>4. Launched(s) \/ (status[s] = "pending" /\ ~(queue[s] > 0))
    BY DEF Launched
  <1>5. queue'[s] > 0 => status'[s] = "pending" \/ stop'[s]
    BY DEF LiveFor
  <1>6. \/ Launched(s)
        \/ status'[s] = "pending" /\ ~(queue'[s] > 0) /\ ~Puts(fs, Once(s))
    BY <1>4
  <1>7. status'[s] = "pending" =>
            /\ status[s] = "pending" /\ PutsOne(fs, Once(s))
            /\ Puts(fs, Once(s)) => ~(queue'[s] > 0) /\ ~Elsewhere(t, Once(s))
            /\ queue'[s] > 0 => ~Elsewhere(t, Once(s))
    BY <1>1, <1>3
  <1> QED
    BY <1>5, <1>6, <1>7, LiveMove

\* A step that puts frames of other calls only,
LEMMA LiveQuiet ==
    ASSUME StackType, NEW s \in Subs, LiveFor(s),
           NEW t \in Threads, NEW fs \in Seq(Frames), Steps(t, fs),
           \A k \in DOMAIN fs : fs[k].op \in QuietOps,
           UNCHANGED <<status, stop, queue>>,
           s \in submitted => s \in submitted', NoneHeld(s) => NoneHeld(s)'
    PROVE  LiveFor(s)'
  <1>1. ~Puts(fs, Once(s))
    BY QuietLive DEF Puts
  <1>2. \A k \in DOMAIN fs : fs[k].s = s => LiveIn(status', stop', fs[k])
    BY QuietLive
  <1> QED
    BY <1>1, <1>2, LiveAway

\* or that goes on to at most one frame of its own call.
LEMMA LiveGoes ==
    ASSUME IInv, NEW s \in Subs, LiveFor(s), NEW t \in Threads, NEW op, At(t, op),
           \/ Become(t, <<>>)
           \/ \E g \in Frames : /\ g.s = Top(t).s /\ Become(t, <<g>>)
                                /\ g.s = s => LiveIn(status, stop, g)
                                /\ g.s = s /\ g.op \in OnceOps => op \in OnceOps \/ status[s] # "pending",
           UNCHANGED <<status, stop, queue, submitted>>, NoneHeld(s) => NoneHeld(s)'
    PROVE  LiveFor(s)'
  <1>1. StackType /\ stack[t] # <<>> /\ Top(t) \in Frames /\ Top(t).op = op
    BY TopFrame DEF IInv, Safe
  <1>2. CASE Become(t, <<>>)
    <2>1. <<>> \in Seq(Frames) /\ Steps(t, <<>>) /\ ~Puts(<<>>, Once(s))
          /\ \A k \in DOMAIN <<>> : <<>>[k].s = s => LiveIn(status', stop', <<>>[k])
      BY <1>1, <1>2, PutsOf DEF Steps
    <2> QED
      BY <1>1, <2>1, LiveAway
  <1>3. ASSUME NEW g \in Frames, g.s = Top(t).s, Become(t, <<g>>), g.s = s => LiveIn(status, stop, g),
               g.s = s /\ g.op \in OnceOps => op \in OnceOps \/ status[s] # "pending"
        PROVE  LiveFor(s)'
    <2>1. <<g>> \in Seq(Frames) /\ Steps(t, <<g>>)
      BY <1>1, <1>3 DEF Steps
    <2>2. \A k \in DOMAIN <<g>> : <<g>>[k].s = s => LiveIn(status', stop', <<g>>[k])
      BY <1>3
    <2>3. (Puts(<<g>>, Once(s)) <=> g \in Once(s)) /\ PutsOne(<<g>>, Once(s))
      BY PutsOf
    <2>4. CASE g \notin Once(s)
      BY <1>1, <2>1, <2>2, <2>3, <2>4, LiveAway
    <2>5. CASE g \in Once(s)
      <3>1. g.s = s /\ g.op \in OnceOps
        BY <2>5 DEF Once
      <3>2. op \in OnceOps => Takes(t, Once(s))
        BY <1>1, <1>3, <3>1 DEF Takes, Once
      <3>3. /\ Some(Once(s)) <=> Takes(t, Once(s)) \/ Elsewhere(t, Once(s))
            /\ AtMostOne(Once(s)) /\ Takes(t, Once(s)) => ~Elsewhere(t, Once(s))
        BY <1>1, <2>1, StepSets
      <3>4. Launched(s)
        BY <1>3, <3>1, <3>2, <3>3 DEF Launched
      <3>5. status[s] = "pending" => Takes(t, Once(s))
        BY <1>3, <3>1, <3>2
      <3>6. status[s] = "pending" => ~Elsewhere(t, Once(s)) /\ ~(queue[s] > 0)
        BY <3>3, <3>5 DEF LiveFor
      <3>7. status'[s] = "pending" =>
                /\ status[s] = "pending" /\ PutsOne(<<g>>, Once(s))
                /\ Puts(<<g>>, Once(s)) => ~(queue'[s] > 0) /\ ~Elsewhere(t, Once(s))
                /\ queue'[s] > 0 => ~Elsewhere(t, Once(s))
        BY <2>3, <3>6
      <3>8. queue'[s] > 0 => status'[s] = "pending" \/ stop'[s]
        BY DEF LiveFor
      <3> QED
        BY <1>1, <2>1, <2>2, <3>4, <3>7, <3>8, LiveMove
    <2> QED
      BY <2>4, <2>5
  <1> QED
    BY <1>2, <1>3

\* What the frame at the top of a stack relies on.
LEMMA TopLive ==
    ASSUME StackType, NEW t \in Threads, NEW op, At(t, op), LiveFor(Top(t).s)
    PROVE  LiveIn(status, stop, Top(t))
  <1>1. 1 \in DOMAIN stack[t] /\ stack[t][1] = Top(t)
    BY TopFrame
  <1> QED
    BY <1>1 DEF LiveFor, FramesLive

\* No other frame executes what the top of a stack executes.
LEMMA OthersIdle ==
    ASSUME IInv, NEW t \in Threads, NEW op \in ExecOps, At(t, op), NEW s, s = Top(t).s
    PROVE  /\ ~Elsewhere(t, StepsOf(s))
           /\ queue[s] = 0
  <1>1. /\ 1 \in DOMAIN stack[t] /\ stack[t][1] = Top(t) /\ Top(t).op = op
        /\ OneOwner /\ OwnedFrames
    BY TopFrame DEF IInv, Safe, Ownership
  <1>2. queue[s] = 0
    BY <1>1 DEF OwnedFrames
  <1>3. ASSUME NEW u \in Threads, NEW i \in DOMAIN stack[u], u = t => i # 1,
               stack[u][i] \in StepsOf(s)
        PROVE  FALSE
    <2>1. stack[u][i].op \in ExecOps /\ stack[u][i].s = s
      BY <1>3 DEF StepsOf, ExecOps
    <2> QED
      BY <1>1, <1>3, <2>1 DEF OneOwner
  <1> QED
    BY <1>2, <1>3 DEF Elsewhere

\* complete() by whoever launches, executes or marks the submission.
LEMMA LiveComplete ==
    ASSUME IInv, NEW s \in Subs, LiveFor(s), NEW t \in Threads, NEW op \in OnceOps, At(t, op),
           NEW e \in Events, e = Top(t).s, NEW st \in Statuses, e = s => st # "pending",
           NEW rest, Complete(t, e, st, rest),
           rest = <<>> \/ \E g \in Frames : /\ rest = <<g>> /\ g.s = e
                                            /\ e = s => LiveIn(status', stop', g),
           e = s => status[s] = "pending" \/ op \in ExecOps,
           UNCHANGED <<stop, queue, submitted>>, NoneHeld(s) => NoneHeld(s)'
    PROVE  LiveFor(s)'
  <1>1. /\ StackType /\ stack[t] # <<>> /\ Top(t) \in Frames /\ Top(t).op = op
        /\ status \in [Events -> Statuses] /\ callbacks \in [Events -> SUBSET Subs] /\ s \in Events
    BY TopFrame DEF IInv, Safe, DataType, Events
  <1>2. PICK n \in Frames : n = WithTodo("notify", e, callbacks[e])
    BY <1>1, FrameTypes DEF EventOps
  <1>3. n.op \in QuietOps /\ n.s = e
    BY <1>2, FrameParts DEF QuietOps
  <1>4. PICK fs \in Seq(Frames) :
            /\ Become(t, fs)
            /\ \A k \in DOMAIN fs : fs[k].s = e /\ (e = s => LiveIn(status', stop', fs[k]))
    <2>1. CASE rest = <<>>
      <3>1. Become(t, <<>>) \/ Become(t, <<n>>)
        BY <1>2, <2>1, PairConcat DEF Complete
      <3>2. <<>> \in Seq(Frames) /\ <<n>> \in Seq(Frames)
        OBVIOUS
      <3>3. \A k \in DOMAIN <<n>> : <<n>>[k].s = e /\ (e = s => LiveIn(status', stop', <<n>>[k]))
        BY <1>3, QuietLive
      <3>4. \A k \in DOMAIN <<>> : <<>>[k].s = e /\ (e = s => LiveIn(status', stop', <<>>[k]))
        OBVIOUS
      <3> QED
        BY <3>1, <3>2, <3>3, <3>4
    <2>2. ASSUME NEW g \in Frames, rest = <<g>>, g.s = e, e = s => LiveIn(status', stop', g)
          PROVE  \E fs \in Seq(Frames) :
                     /\ Become(t, fs)
                     /\ \A k \in DOMAIN fs : fs[k].s = e /\ (e = s => LiveIn(status', stop', fs[k]))
      <3>1. <<n>> \o rest = <<n, g>>
        BY <2>2, PairConcat
      <3>2. Become(t, rest) \/ Become(t, <<n>> \o rest)
        BY <1>2 DEF Complete
      <3>3. Become(t, <<g>>) \/ Become(t, <<n, g>>)
        BY <2>2, <3>1, <3>2, Zenon
      <3>4. <<g>> \in Seq(Frames) /\ <<n, g>> \in Seq(Frames)
        OBVIOUS
      <3>5. \A k \in DOMAIN <<g>> : <<g>>[k].s = e /\ (e = s => LiveIn(status', stop', <<g>>[k]))
        BY <2>2
      <3>6. e = s => LiveIn(status', stop', n)
        BY <1>3, QuietLive
      <3>7. \A k \in DOMAIN <<n, g>> : <<n, g>>[k].s = e /\ (e = s => LiveIn(status', stop', <<n, g>>[k]))
        BY <1>3, <2>2, <3>6
      <3> QED
        BY <3>3, <3>4, <3>5, <3>7
    <2> QED
      BY <2>1, <2>2
  <1>5. Steps(t, fs)
    BY <1>1, <1>4 DEF Steps
  <1>6. status' = status \/ status' = [status EXCEPT ![e] = st]
    BY DEF Complete, eventVars
  <1>7. CASE e # s
    <2>1. ~Puts(fs, Once(s))
      BY <1>4, <1>7 DEF Puts, Once
    <2>2. status'[s] = status[s]
      BY <1>1, <1>6, <1>7
    <2> QED
      BY <1>1, <1>4, <1>5, <1>7, <2>1, <2>2, LiveAway
  <1>8. CASE e = s
    <2>1. Takes(t, Once(s))
      BY <1>1, <1>8 DEF Takes, Once
    <2>2. /\ Some(Once(s)) <=> Takes(t, Once(s)) \/ Elsewhere(t, Once(s))
          /\ AtMostOne(Once(s)) /\ Takes(t, Once(s)) => ~Elsewhere(t, Once(s))
      BY <1>1, <1>5, StepSets
    <2>3. status'[s] # "pending"
      <3>1. is_terminal(status[s]) => status[s] # "pending"
        BY DEF is_terminal, Terminal
      <3> QED
        BY <1>1, <1>8, <3>1 DEF Complete, eventVars
    <2>4. status[s] = "pending" => ~Elsewhere(t, Once(s)) /\ ~(queue[s] > 0)
      BY <2>1, <2>2 DEF LiveFor
    <2>5. ~Elsewhere(t, StepsOf(s)) /\ ~(queue[s] > 0)
      <3>1. CASE op \in ExecOps
        <4>1. ~Elsewhere(t, StepsOf(s)) /\ queue[s] = 0
          BY <1>8, <3>1, OthersIdle
        <4> QED
          BY <4>1
      <3>2. CASE status[s] = "pending"
        <4>1. StepsOf(s) \subseteq Once(s)
          BY DEF StepsOf, Once, OnceOps, ExecOps
        <4> QED
          BY <2>4, <3>2, <4>1 DEF Elsewhere
      <3> QED
        BY <1>8, <3>1, <3>2
    <2>6. Launched(s)
      BY <2>1, <2>2 DEF Launched
    <2>7. ~(queue'[s] > 0)
      BY <2>5
    <2> QED
      BY <1>1, <1>4, <1>5, <1>8, <2>3, <2>4, <2>5, <2>6, <2>7, LiveMove
  <1> QED
    BY <1>7, <1>8

\* The frames of an execution, by what they rely on.
LEMMA LiveOf ==
    ASSUME NEW x, NEW y, NEW s
    PROVE  /\ y[s] => LiveIn(x, y, Frame("cancel", s))
           /\ y[s] /\ x[s] # "pending" => LiveIn(x, y, Frame("resume", s))
           /\ x[s] = "pending" => LiveIn(x, y, Frame("start", s)) /\ \A st : LiveIn(x, y, WithStatus("mark", s, st))
           /\ x[s] = "pending" \/ y[s] =>
                  \A op \in {"dispatch", "admit", "prescreen", "enqueue", "screen"} : LiveIn(x, y, Frame(op, s))
           /\ x[s] = "running" => LiveIn(x, y, Frame("step", s))
           /\ \A st : is_terminal(st) \/ st = "suspended" => LiveIn(x, y, WithStatus("finish", s, st))
           /\ LiveIn(x, y, Frame("clear", s))
           /\ \A op \in QuietOps : LiveIn(x, y, Frame(op, s))
  <1>1. \A op, st : WithStatus(op, s, st).st = st
    BY DEF Frame, WithStatus
  <1> QED
    BY <1>1, FrameParts DEF LiveIn, QuietOps

\* The steps of a call, but for the callback that counts.
LEMMA LiveContinue ==
    ASSUME IInv, CountInv, OrderInv, NEW s \in Subs \ Resumable, LiveFor(s),
           NEW t \in Threads, Continue(t), ~Count(t)
    PROVE  LiveFor(s)'
  <1>0. StackType /\ DataType /\ s \in Subs
    BY DEF IInv, Safe
  <1>1. PICK f : f = Top(t)
    OBVIOUS
  <1>2. UNCHANGED submitted /\ (NoneHeld(s) => NoneHeld(s)')
    <2>1. SameHeld /\ UNCHANGED submitted
      BY ContinueHands, ContinueSubmits
    <2> QED
      BY <2>1, RuntimeAssumption DEF NoneHeld, SameHeld
  <1>3. \A op \in ExecOps \cup SubOps : At(t, op) =>
            /\ f \in Frames /\ f.op = op /\ f.s \in Subs /\ f.s \in Events /\ f.p \in Events
            /\ f.todo \subseteq Events /\ f.st \in Statuses
            /\ f.s = s => LiveIn(status, stop, f)
    BY <1>0, <1>1, TopFrame, TopLive, FrameFields DEF Events
  <1>4. \A op \in EventOps : At(t, op) =>
            /\ f \in Frames /\ f.op = op /\ f.s \in Events /\ f.todo \subseteq Subs /\ f.st \in Statuses
            /\ f.s = s => LiveIn(status, stop, f)
            /\ FitsIn(status, dep, f)
    BY <1>0, <1>1, TopFrame, TopLive, TopFits, FrameFields
  <1>5. ASSUME NEW op, At(t, op), UNCHANGED <<status, stop, queue>>,
               \/ Become(t, <<>>)
               \/ \E g \in Frames : /\ g.s = f.s /\ Become(t, <<g>>)
                                    /\ g.s = s => LiveIn(status, stop, g)
                                    /\ g.s = s /\ g.op \in OnceOps => op \in OnceOps \/ status[s] # "pending"
        PROVE  LiveFor(s)'
    BY <1>0, <1>1, <1>2, <1>5, LiveGoes
  <1>6. ASSUME NEW fs \in Seq(Frames), stack[t] # <<>>, Become(t, fs),
               \A k \in DOMAIN fs : fs[k].op \in QuietOps, UNCHANGED <<status, stop, queue>>
        PROVE  LiveFor(s)'
    <2>1. Steps(t, fs)
      BY <1>6 DEF Steps
    <2> QED
      BY <1>0, <1>2, <1>6, <2>1, LiveQuiet
  <1>7. /\ {"admit", "prescreen", "enqueue", "screen", "start", "step", "finish", "clear"} \subseteq ExecOps
        /\ ExecOps \subseteq OnceOps /\ {"dispatch", "mark"} \subseteq OnceOps
        /\ {"failed", "cancelled", "completed", "suspended", "running"} \subseteq Statuses
        /\ {"failed", "cancelled"} \subseteq Terminal
        /\ Terminal \subseteq Statuses
        /\ \A st : st \in Terminal <=> is_terminal(st)
    BY DEF OnceOps, ExecOps, Statuses, Terminal, is_terminal
  <1>8. CASE Register(t)
    <2>1. At(t, "register") /\ UNCHANGED <<status, stop, queue>>
      BY <1>8 DEF Register, poolVars
    <2>2. f.s \in Subs /\ f.todo \subseteq Events /\ stack[t] # <<>>
      BY <1>0, <1>3, <2>1, TopFrame DEF SubOps
    <2>3. PICK fs \in Seq(Frames) : Become(t, fs) /\ \A k \in DOMAIN fs : fs[k].op \in QuietOps
      <3>1. CASE f.todo = {} /\ Become(t, <<>>)
        <4>1. <<>> \in Seq(Frames) /\ \A k \in DOMAIN <<>> : <<>>[k].op \in QuietOps
          OBVIOUS
        <4> QED
          BY <3>1, <4>1
      <3>2. ASSUME NEW p \in f.todo,
                   \/ Become(t, <<WithPrereq("record", f.s, p), WithTodo("register", f.s, f.todo \ {p})>>)
                   \/ Become(t, <<WithTodo("register", f.s, f.todo \ {p})>>)
            PROVE  \E fs \in Seq(Frames) : Become(t, fs) /\ \A k \in DOMAIN fs : fs[k].op \in QuietOps
        <4>1. PICK g, h : g = WithPrereq("record", f.s, p) /\ h = WithTodo("register", f.s, f.todo \ {p})
          OBVIOUS
        <4>2. f.todo \ {p} \in SUBSET Events /\ p \in Events
          BY <2>2
        <4>3. g \in Frames /\ h \in Frames
          BY <2>2, <4>1, <4>2, FrameTypes DEF SubOps
        <4>4. g.op \in QuietOps /\ h.op \in QuietOps
          BY <4>1, FrameParts DEF QuietOps
        <4>5. /\ <<h>> \in Seq(Frames) /\ <<g, h>> \in Seq(Frames)
              /\ \A k \in DOMAIN <<h>> : <<h>>[k].op \in QuietOps
              /\ \A k \in DOMAIN <<g, h>> : <<g, h>>[k].op \in QuietOps
          BY <4>3, <4>4
        <4>6. Become(t, <<h>>) \/ Become(t, <<g, h>>)
          BY <3>2, <4>1
        <4> QED
          BY <4>5, <4>6
      <3> QED
        BY <1>1, <1>8, <3>1, <3>2 DEF Register
    <2> QED
      BY <1>6, <2>1, <2>2, <2>3
  <1>9. CASE SubmitReturn(t)
    <2>1. At(t, "return") /\ Become(t, <<>>) /\ UNCHANGED <<status, stop, queue>>
      BY <1>9 DEF SubmitReturn, eventVars, poolVars
    <2> QED
      BY <1>5, <2>1
  <1>10. CASE Record(t)
    <2>1. At(t, "record") /\ Become(t, <<WithPrereq("count", f.s, f.p)>>) /\ UNCHANGED <<status, stop, queue>>
      BY <1>1, <1>10 DEF Record, eventVars, poolVars
    <2>2. f.s \in Subs /\ f.p \in Events /\ stack[t] # <<>>
      BY <1>0, <1>3, <2>1, TopFrame DEF SubOps
    <2>3. PICK g : g = WithPrereq("count", f.s, f.p)
      OBVIOUS
    <2>4. g \in Frames
      BY <2>2, <2>3, FrameTypes DEF SubOps
    <2>5. g.op \in QuietOps
      BY <2>3, FrameParts DEF QuietOps
    <2>6. <<g>> \in Seq(Frames) /\ \A k \in DOMAIN <<g>> : <<g>>[k].op \in QuietOps
      BY <2>4, <2>5
    <2> QED
      BY <1>6, <2>1, <2>2, <2>3, <2>6
  <1>11. CASE Notify(t)
    <2>1. At(t, "notify") /\ UNCHANGED <<status, stop, queue>>
      BY <1>11 DEF Notify, eventVars, poolVars
    <2>2. f.s \in Events /\ f.todo \subseteq Subs /\ stack[t] # <<>>
      BY <1>0, <1>4, <2>1, TopFrame DEF EventOps
    <2>3. PICK fs \in Seq(Frames) : Become(t, fs) /\ \A k \in DOMAIN fs : fs[k].op \in QuietOps
      <3>1. CASE f.todo = {} /\ Become(t, <<>>)
        <4>1. <<>> \in Seq(Frames) /\ \A k \in DOMAIN <<>> : <<>>[k].op \in QuietOps
          OBVIOUS
        <4> QED
          BY <3>1, <4>1
      <3>2. ASSUME NEW d \in f.todo,
                   Become(t, <<WithPrereq("record", d, f.s), WithTodo("notify", f.s, f.todo \ {d})>>)
            PROVE  \E fs \in Seq(Frames) : Become(t, fs) /\ \A k \in DOMAIN fs : fs[k].op \in QuietOps
        <4>1. PICK g, h : g = WithPrereq("record", d, f.s) /\ h = WithTodo("notify", f.s, f.todo \ {d})
          OBVIOUS
        <4>2. f.todo \ {d} \in SUBSET Subs /\ d \in Subs
          BY <2>2
        <4>3. g \in Frames /\ h \in Frames
          BY <2>2, <4>1, <4>2, FrameTypes DEF SubOps, EventOps
        <4>4. g.op \in QuietOps /\ h.op \in QuietOps
          BY <4>1, FrameParts DEF QuietOps
        <4>5. <<g, h>> \in Seq(Frames) /\ \A k \in DOMAIN <<g, h>> : <<g, h>>[k].op \in QuietOps
          BY <4>3, <4>4
        <4>6. Become(t, <<g, h>>)
          BY <3>2, <4>1
        <4> QED
          BY <4>5, <4>6
      <3> QED
        BY <1>1, <1>11, <3>1, <3>2 DEF Notify
    <2> QED
      BY <1>6, <2>1, <2>2, <2>3
  <1>12. CASE Mark(t)
    <2>1. At(t, "mark") /\ Complete(t, f.s, f.st, <<>>) /\ UNCHANGED <<stop, queue>>
      BY <1>1, <1>12 DEF Mark, poolVars
    <2>2. /\ f.op = "mark" /\ f.s \in Events /\ f.st \in Statuses
          /\ f.s = s => LiveIn(status, stop, f)
          /\ FitsIn(status, dep, f)
      BY <1>4, <2>1 DEF EventOps
    <2>3. f.st # "pending" /\ (f.s = s => status[s] = "pending")
      BY <2>2 DEF FitsIn, LiveIn, is_terminal, Terminal
    <2> QED
      BY <1>0, <1>1, <1>2, <1>7, <2>1, <2>2, <2>3, LiveComplete
  <1>13. CASE Dispatch(t)
    <2>1. At(t, "dispatch") /\ UNCHANGED <<status, stop, queue>> /\ "dispatch" \in SubOps
      BY <1>13 DEF Dispatch, eventVars, poolVars, SubOps
    <2>2. \/ Become(t, <<>>)
          \/ \E op \in {"screen", "admit"} : Become(t, <<Frame(op, f.s)>>)
      BY <1>1, <1>13 DEF Dispatch
    <2>3. ASSUME NEW op \in {"screen", "admit"}, Become(t, <<Frame(op, f.s)>>)
          PROVE  LiveFor(s)'
      <3>1. Frame(op, f.s) \in Frames /\ Frame(op, f.s).s = f.s
        BY <1>3, <2>1, FrameTypes, FrameParts DEF ExecOps
      <3>2. f.s = s => LiveIn(status, stop, Frame(op, f.s))
        <4>1. f.s = s => status[s] = "pending" \/ stop[s]
          BY <1>3, <2>1 DEF LiveIn
        <4> QED
          BY <4>1, LiveOf
      <3> QED
        BY <1>5, <1>7, <2>1, <2>3, <3>1, <3>2
    <2> QED
      BY <1>5, <2>1, <2>2, <2>3
  <1>14. CASE Admit(t)
    <2>1. At(t, "admit") /\ UNCHANGED <<status, stop, queue>> /\ "admit" \in ExecOps
      BY <1>14 DEF Admit, eventVars, poolVars, ExecOps
    <2>2. PICK g : /\ Become(t, <<g>>)
                   /\ g = Frame("prescreen", f.s) \/ g = WithStatus("finish", f.s, "failed")
      BY <1>1, <1>14 DEF Admit, Finish
    <2>3. g \in Frames /\ g.s = f.s
      BY <1>3, <1>7, <2>1, <2>2, FrameTypes, FrameParts
    <2>4. f.s = s => LiveIn(status, stop, g)
      <3>1. f.s = s => status[s] = "pending" \/ stop[s]
        BY <1>3, <2>1 DEF LiveIn
      <3> QED
        BY <1>7, <2>2, <3>1, LiveOf
    <2> QED
      BY <1>5, <1>7, <2>1, <2>2, <2>3, <2>4
  <1>15. CASE Prescreen(t)
    <2>1. At(t, "prescreen") /\ UNCHANGED <<status, stop, queue>> /\ "prescreen" \in ExecOps
      BY <1>15 DEF Prescreen, eventVars, poolVars, ExecOps
    <2>2. PICK g : /\ Become(t, <<g>>)
                   /\ g = Frame("enqueue", f.s) \/ g = WithStatus("finish", f.s, "cancelled")
      BY <1>1, <1>15 DEF Prescreen, Finish
    <2>3. g \in Frames /\ g.s = f.s
      BY <1>3, <1>7, <2>1, <2>2, FrameTypes, FrameParts
    <2>4. f.s = s => LiveIn(status, stop, g)
      <3>1. f.s = s => status[s] = "pending" \/ stop[s]
        BY <1>3, <2>1 DEF LiveIn
      <3> QED
        BY <1>7, <2>2, <3>1, LiveOf
    <2> QED
      BY <1>5, <1>7, <2>1, <2>2, <2>3, <2>4
  <1>16. CASE Enqueue(t)
    <2>1. At(t, "enqueue") /\ UNCHANGED <<status, stop>> /\ "enqueue" \in ExecOps
      BY <1>16 DEF Enqueue, eventVars, ExecOps
    <2>2. f.s = s => status[s] = "pending" \/ stop[s]
      BY <1>3, <2>1 DEF LiveIn
    <2>3. CASE Become(t, <<WithStatus("finish", f.s, "failed")>>) /\ UNCHANGED queue
      <3>1. WithStatus("finish", f.s, "failed") \in Frames /\ WithStatus("finish", f.s, "failed").s = f.s
        BY <1>3, <1>7, <2>1, FrameTypes, FrameParts
      <3>2. f.s = s => LiveIn(status, stop, WithStatus("finish", f.s, "failed"))
        BY <1>7, LiveOf
      <3> QED
        BY <1>5, <1>7, <2>1, <2>3, <3>1, <3>2
    <2>4. CASE Become(t, <<>>) /\ queue' = [queue EXCEPT ![f.s] = @ + 1]
      <3>1. /\ stack[t] # <<>> /\ f \in Frames /\ f.op = "enqueue" /\ f.s \in Subs
            /\ queue \in [Subs -> Nat]
        BY <1>0, <1>3, <2>1, TopFrame DEF DataType
      <3>2. <<>> \in Seq(Frames) /\ Steps(t, <<>>)
        BY <2>4, <3>1 DEF Steps
      <3>3. /\ ~Puts(<<>>, Once(s)) /\ PutsOne(<<>>, Once(s))
            /\ \A k \in DOMAIN <<>> : <<>>[k].s = s => LiveIn(status', stop', <<>>[k])
        BY PutsOf
      <3>4. CASE f.s # s
        <4>1. queue'[s] = queue[s]
          BY <2>4, <3>1, <3>4
        <4> QED
          BY <1>0, <1>2, <2>1, <3>2, <3>3, <4>1, LiveAway
      <3>5. CASE f.s = s
        <4>1. Takes(t, Once(s))
          BY <1>1, <1>7, <2>1, <3>1, <3>5 DEF Takes, Once
        <4>2. /\ Some(Once(s)) <=> Takes(t, Once(s)) \/ Elsewhere(t, Once(s))
              /\ AtMostOne(Once(s)) /\ Takes(t, Once(s)) => ~Elsewhere(t, Once(s))
          BY <1>0, <3>2, StepSets
        <4>3. Launched(s)
          BY <4>1, <4>2 DEF Launched
        <4>4. status[s] = "pending" => ~Elsewhere(t, Once(s))
          BY <4>1, <4>2 DEF LiveFor
        <4> QED
          BY <1>0, <1>2, <2>1, <2>2, <3>2, <3>3, <3>5, <4>3, <4>4, LiveMove
      <3> QED
        BY <3>4, <3>5
    <2> QED
      BY <1>1, <1>16, <2>3, <2>4 DEF Enqueue, Finish
  <1>17. CASE Screen(t)
    <2>1. At(t, "screen") /\ UNCHANGED <<status, stop, queue>> /\ "screen" \in ExecOps
      BY <1>17 DEF Screen, eventVars, poolVars, ExecOps
    <2>2. PICK g : /\ Become(t, <<g>>)
                   /\ \/ ~stop[f.s] /\ g = Frame("start", f.s)
                      \/ g = WithStatus("finish", f.s, "cancelled")
      BY <1>1, <1>17 DEF Screen, Finish
    <2>3. g \in Frames /\ g.s = f.s
      BY <1>3, <1>7, <2>1, <2>2, FrameTypes, FrameParts
    <2>4. f.s = s => LiveIn(status, stop, g)
      <3>1. f.s = s => status[s] = "pending" \/ stop[s]
        BY <1>3, <2>1 DEF LiveIn
      <3> QED
        BY <1>7, <2>2, <3>1, LiveOf
    <2> QED
      BY <1>5, <1>7, <2>1, <2>2, <2>3, <2>4
  <1>18. CASE Start(t)
    <2>1. At(t, "start") /\ Complete(t, f.s, "running", <<Frame("step", f.s)>>) /\ UNCHANGED <<stop, queue>>
      BY <1>1, <1>18 DEF Start, poolVars
    <2>2. f.s \in Subs /\ f.s \in Events /\ (f.s = s => status[s] = "pending")
      BY <1>3, <1>7, <2>1 DEF LiveIn
    <2>3. PICK g \in Frames : g = Frame("step", f.s) /\ g.s = f.s
      BY <1>7, <2>2, FrameTypes, FrameParts
    <2>4. f.s = s => LiveIn(status', stop', g)
      <3>1. f.s = s => status'[s] = "running"
        <4>1. status \in [Events -> Statuses] /\ ~is_terminal("pending")
          BY <1>0 DEF DataType, is_terminal, Terminal
        <4> QED
          BY <2>1, <2>2, <4>1 DEF Complete
      <3> QED
        BY <2>3, <3>1, LiveOf
    <2>5. Complete(t, f.s, "running", <<g>>)
      BY <2>1, <2>3
    <2> QED
      BY <1>0, <1>1, <1>2, <1>7, <2>1, <2>2, <2>3, <2>4, <2>5, LiveComplete
  <1>19. CASE Step(t)
    <2>1. At(t, "step") /\ UNCHANGED <<status, stop, queue>> /\ "step" \in ExecOps
      BY <1>19 DEF Step, eventVars, poolVars, ExecOps
    <2>2. PICK st \in Terminal \cup {"suspended"} : Become(t, <<WithStatus("finish", f.s, st)>>)
      BY <1>1, <1>19 DEF Step, Finish
    <2>3. WithStatus("finish", f.s, st) \in Frames /\ WithStatus("finish", f.s, st).s = f.s
      BY <1>3, <1>7, <2>1, FrameTypes, FrameParts
    <2>4. LiveIn(status, stop, WithStatus("finish", f.s, st))
      BY <1>7, LiveOf
    <2> QED
      BY <1>5, <1>7, <2>1, <2>2, <2>3, <2>4
  <1>20. CASE FinishStep(t)
    <2>1. At(t, "finish") /\ Complete(t, f.s, f.st, <<Frame("clear", f.s)>>) /\ UNCHANGED <<stop, queue>>
      BY <1>1, <1>20 DEF FinishStep, poolVars
    <2>2. f.s \in Subs /\ f.s \in Events /\ f.st \in Statuses /\ (f.s = s => LiveIn(status, stop, f)) /\ f.op = "finish"
      BY <1>3, <1>7, <2>1
    <2>3. PICK g \in Frames : g = Frame("clear", f.s) /\ g.s = f.s
      BY <1>7, <2>2, FrameTypes, FrameParts
    <2>4. LiveIn(status', stop', g)
      BY <2>3, LiveOf
    <2>5. Complete(t, f.s, f.st, <<g>>)
      BY <2>1, <2>3
    <2>6. f.s = s => f.st # "pending"
      BY <2>2 DEF LiveIn, is_terminal, Terminal
    <2> QED
      BY <1>0, <1>1, <1>2, <1>7, <2>1, <2>2, <2>3, <2>4, <2>5, <2>6, LiveComplete
  <1>21. CASE Clear(t)
    <2>1. At(t, "clear") /\ Become(t, <<>>) /\ UNCHANGED <<status, stop, queue>>
      BY <1>21 DEF Clear, eventVars, poolVars
    <2> QED
      BY <1>5, <2>1
  <1>22. CASE Resume(t)
    <2>1. At(t, "resume") /\ UNCHANGED <<status, stop, queue>> /\ "resume" \in SubOps
      BY <1>22 DEF Resume, eventVars, poolVars, SubOps
    <2>2. Become(t, <<>>) \/ Become(t, <<Frame("dispatch", f.s)>>)
      BY <1>1, <1>22 DEF Resume
    <2>3. f.s = s => stop[s] /\ status[s] # "pending"
      BY <1>3, <2>1 DEF LiveIn
    <2>4. Frame("dispatch", f.s) \in Frames /\ Frame("dispatch", f.s).s = f.s
      BY <1>3, <2>1, FrameTypes, FrameParts DEF SubOps
    <2>5. f.s = s => LiveIn(status, stop, Frame("dispatch", f.s))
      BY <2>3, LiveOf
    <2> QED
      BY <1>5, <2>1, <2>2, <2>3, <2>4, <2>5
  <1>23. CASE Cancel(t)
    <2>1. At(t, "cancel") /\ UNCHANGED <<status, stop, queue>> /\ "cancel" \in SubOps
      BY <1>23 DEF Cancel, eventVars, poolVars, SubOps
    <2>2. Become(t, <<>>) \/ (status[f.s] = "suspended" /\ Become(t, <<Frame("resume", f.s)>>))
      BY <1>1, <1>23 DEF Cancel
    <2>3. f.s = s => stop[s]
      BY <1>3, <2>1 DEF LiveIn
    <2>4. Frame("resume", f.s) \in Frames /\ Frame("resume", f.s).s = f.s /\ Frame("resume", f.s).op \notin OnceOps
      BY <1>3, <2>1, FrameTypes, FrameParts DEF SubOps, OnceOps, ExecOps
    <2>5. f.s = s /\ status[f.s] = "suspended" => LiveIn(status, stop, Frame("resume", f.s))
      BY <2>3, LiveOf
    <2> QED
      BY <1>5, <2>1, <2>2, <2>3, <2>4, <2>5
  <1>24. CASE ShutdownStop(t)
    <2>1. At(t, "request_stop") /\ Become(t, <<Frame("join", AnySub)>>) /\ UNCHANGED <<status, stop, queue>>
      BY <1>24 DEF ShutdownStop, eventVars
    <2>2. Frame("join", AnySub) \in Frames /\ Frame("join", AnySub).op \in QuietOps /\ stack[t] # <<>>
      BY <1>0, <2>1, AnySubType, FrameTypes, FrameParts, TopFrame DEF SubOps, QuietOps
    <2>3. /\ <<Frame("join", AnySub)>> \in Seq(Frames)
          /\ \A k \in DOMAIN <<Frame("join", AnySub)>> : <<Frame("join", AnySub)>>[k].op \in QuietOps
      BY <2>2
    <2> QED
      BY <1>6, <2>1, <2>2, <2>3
  <1>25. CASE ShutdownJoin(t)
    <2>1. At(t, "join") /\ Become(t, <<>>) /\ UNCHANGED <<status, stop, queue>>
      BY <1>25 DEF ShutdownJoin, eventVars, poolVars
    <2> QED
      BY <1>5, <2>1
  <1> QED
    BY <1>8, <1>9, <1>10, <1>11, <1>12, <1>13, <1>14, <1>15, <1>16, <1>17, <1>18, <1>19, <1>20,
       <1>21, <1>22, <1>23, <1>24, <1>25 DEF Continue

\* A submission that a callback still holds is pending, and nothing launched it;
\* the last callback launches it, or marks it.
LEMMA LiveCount ==
    ASSUME IInv, CountInv, NEW s \in Subs, LiveFor(s), NEW t \in Threads, Count(t)
    PROVE  LiveFor(s)'
  <1>1. PICK f : f = Top(t)
    OBVIOUS
  <1>2. /\ StackType /\ StackType' /\ At(t, "count") /\ stack[t] # <<>>
        /\ f \in Frames /\ f.op = "count" /\ f.s \in Subs /\ f.s \in Events /\ f.p \in Events
    <2>1. IInv'
      BY ContinueStep DEF Continue
    <2> QED
      BY <1>1, <2>1, TopFrame, FrameFields DEF Count, SubOps, IInv, Safe, Events
  <1>3. UNCHANGED <<status, stop, queue, submitted>>
    BY DEF Count, eventVars, poolVars, callVars
  <1>4. /\ Held(f.s, f.p) /\ f.s \in submitted
        /\ dep[f.s].remaining = Cardinality(Uncounted(f.s))
        /\ \A d \in Subs, p \in Events : Held(d, p)' <=> Held(d, p) /\ ~(d = f.s /\ p = f.p)
    BY <1>1, CountHands
  <1>5. NoneHeld(s) => NoneHeld(s)'
    BY <1>4, RuntimeAssumption DEF NoneHeld
  <1>6. CASE Become(t, <<>>)
    <2>1. <<>> \in Seq(Frames) /\ Steps(t, <<>>) /\ \A k \in DOMAIN <<>> : <<>>[k].op \in QuietOps
      BY <1>2, <1>6 DEF Steps
    <2> QED
      BY <1>2, <1>3, <1>5, <2>1, LiveQuiet
  <1>7. ASSUME dep[f.s].remaining = 1, NEW g \in Frames, g.s = f.s, Become(t, <<g>>),
               \A x, y : x[f.s] = "pending" => LiveIn(x, y, g)
        PROVE  LiveFor(s)'
    <2>1. <<g>> \in Seq(Frames) /\ Steps(t, <<g>>)
      BY <1>2, <1>7 DEF Steps
    <2>2. (Puts(<<g>>, Once(s)) <=> g \in Once(s)) /\ PutsOne(<<g>>, Once(s))
      BY PutsOf
    <2>3. CASE f.s # s
      <3>1. g \notin Once(s)
        BY <1>7, <2>3 DEF Once
      <3>2. \A k \in DOMAIN <<g>> : <<g>>[k].s = s => LiveIn(status', stop', <<g>>[k])
        BY <1>7, <2>3
      <3> QED
        BY <1>2, <1>3, <1>5, <2>1, <2>2, <3>1, <3>2, LiveAway
    <2>4. CASE f.s = s
      <3>1. Held(s, f.p) /\ f.p \in Prereqs[s]
        BY <1>2, <1>4, <2>4 DEF CountInv, CarriedOnce
      <3>2. ~Launched(s)
        BY <3>1 DEF LiveFor, NoneHeld
      <3>3. status[s] = "pending" /\ ~(queue[s] > 0) /\ ~Some(Once(s))
        BY <3>2 DEF Launched
      <3>4. ~Elsewhere(t, Once(s))
        BY <1>2, <2>1, <3>3, StepSets
      <3>5. s \in submitted' /\ NoneHeld(s)'
        <4>1. Uncounted(s) = {p \in Prereqs[s] : Held(s, p)} /\ Cardinality(Uncounted(s)) = 1
              /\ Prereqs[s] \subseteq Events /\ IsFiniteSet(Prereqs[s])
          BY <1>2, <1>4, <1>7, <2>4, UncountedHeld, RuntimeAssumption
        <4>2. IsFiniteSet(Uncounted(s))
          BY <4>1, FS_Subset
        <4>3. PICK x : Uncounted(s) = {x}
          BY <4>1, <4>2, FS_Singleton
        <4>4. x = f.p
          BY <3>1, <4>1, <4>3
        <4>5. \A p \in Prereqs[s] : ~Held(s, p)'
          BY <1>4, <2>4, <4>1, <4>3, <4>4
        <4> QED
          BY <1>3, <1>4, <2>4, <4>5 DEF NoneHeld
      <3>6. \A k \in DOMAIN <<g>> : <<g>>[k].s = s => LiveIn(status', stop', <<g>>[k])
        BY <1>3, <1>7, <2>4, <3>3
      <3> QED
        BY <1>2, <1>3, <1>5, <2>1, <2>2, <3>3, <3>4, <3>5, <3>6, LiveMove
    <2> QED
      BY <2>3, <2>4
  <1>8. \/ Become(t, <<>>)
        \/ /\ dep[f.s].remaining = 1
           /\ \E st \in {"failed", "cancelled"} : Become(t, <<WithStatus("mark", f.s, st)>>)
        \/ dep[f.s].remaining = 1 /\ Become(t, <<Frame("dispatch", f.s)>>)
    BY <1>1 DEF Count
  <1>9. ASSUME dep[f.s].remaining = 1, NEW st \in {"failed", "cancelled"},
               Become(t, <<WithStatus("mark", f.s, st)>>)
        PROVE  LiveFor(s)'
    <2>1. PICK g : g = WithStatus("mark", f.s, st)
      OBVIOUS
    <2>2. g \in Frames
      BY <1>2, <2>1, FrameTypes DEF EventOps, Statuses
    <2>3. g.s = f.s
      BY <2>1, FrameParts
    <2>4. \A x, y : x[f.s] = "pending" => LiveIn(x, y, g)
      BY <2>1, LiveOf
    <2> QED
      BY <1>7, <1>9, <2>1, <2>2, <2>3, <2>4
  <1>10. ASSUME dep[f.s].remaining = 1, Become(t, <<Frame("dispatch", f.s)>>)
         PROVE  LiveFor(s)'
    <2>1. PICK g : g = Frame("dispatch", f.s)
      OBVIOUS
    <2>2. g \in Frames
      BY <1>2, <2>1, FrameTypes DEF SubOps
    <2>3. g.s = f.s
      BY <2>1, FrameParts
    <2>4. \A x, y : x[f.s] = "pending" => LiveIn(x, y, g)
      BY <2>1, LiveOf
    <2> QED
      BY <1>7, <1>10, <2>1, <2>2, <2>3, <2>4
  <1> QED
    BY <1>6, <1>8, <1>9, <1>10

\* submit() launches at most its own submission, which nothing launched before.
LEMMA LiveSubmit ==
    ASSUME IInv, CountInv, NEW s \in Subs, LiveFor(s), NEW c \in Clients, NEW d \in Subs, Submit(c, d)
    PROVE  LiveFor(s)'
  <1>0. c \in Threads /\ Prereqs[d] \in SUBSET Events /\ StackType /\ Prereqs[s] \in SUBSET Events
    BY RuntimeAssumption DEF Threads, IInv, Safe
  <1>1. PICK g, h : /\ g = IF Prereqs[d] = {} THEN Frame("dispatch", d)
                           ELSE WithTodo("register", d, Prereqs[d])
                    /\ h = Frame("return", d)
    OBVIOUS
  <1>2. /\ UNCHANGED <<status, stop, queue>> /\ submitted' = submitted \cup {d}
        /\ d \notin submitted /\ Call(c, <<g, h>>)
    BY <1>1 DEF Submit, eventVars, poolVars
  <1>3. g \in Frames /\ h \in Frames
    BY <1>0, <1>1, FrameTypes DEF SubOps
  <1>4. h.op \in QuietOps /\ g.s = d /\ h.s = d
    BY <1>1, FrameParts DEF QuietOps
  <1>5. <<g, h>> \in Seq(Frames) /\ Steps(c, <<g, h>>)
    BY <1>2, <1>3 DEF Steps
  <1>6. s \in submitted => s \in submitted'
    BY <1>2
  <1>7. \A p \in Events : Held(s, p)' <=> Held(s, p) \/ (s = d /\ p \in Prereqs[d])
    BY SubmitHands
  <1>8. CASE Prereqs[d] # {}
    <2>1. g.op \in QuietOps
      BY <1>1, <1>8, FrameParts DEF QuietOps
    <2>2. g \notin Once(s) /\ h \notin Once(s)
      BY <1>4, <2>1, QuietLive
    <2>3. ~Puts(<<g, h>>, Once(s))
      BY <2>2, PutsOf
    <2>4. LiveIn(status', stop', g) /\ LiveIn(status', stop', h)
      BY <1>4, <2>1, QuietLive
    <2>5. \A k \in DOMAIN <<g, h>> : <<g, h>>[k].s = s => LiveIn(status', stop', <<g, h>>[k])
      BY <2>4
    <2>6. CASE s # d
      <3>1. NoneHeld(s) => NoneHeld(s)'
        BY <1>0, <1>7, <2>6 DEF NoneHeld
      <3> QED
        BY <1>0, <1>2, <1>5, <1>6, <2>3, <2>5, <3>1, LiveAway
    <2>7. CASE s = d
      <3>1. ~Launched(s)
        BY <1>2, <2>7 DEF LiveFor
      <3>2. status[s] = "pending" /\ ~(queue[s] > 0) /\ ~Some(Once(s))
        BY <3>1 DEF Launched
      <3>3. ~Some(Once(s))'
        BY <1>0, <1>5, <2>3, <3>2, StepSets
      <3>4. FramesLive(s)'
        <4> SUFFICES ASSUME NEW u \in Threads, NEW i \in DOMAIN (stack'[u]), stack'[u][i].s = s
                     PROVE  LiveIn(status', stop', stack'[u][i])
          BY DEF FramesLive
        <4>1. CASE i \in DOMAIN <<g, h>> /\ stack'[u][i] = <<g, h>>[i]
          BY <2>5, <4>1
        <4>2. ASSUME NEW j \in DOMAIN stack[u], stack'[u][i] = stack[u][j]
              PROVE  LiveIn(status', stop', stack'[u][i])
          BY <1>2, <4>2 DEF LiveFor, FramesLive
        <4>3. PICK fs \in Seq(Frames) : fs = <<g, h>> /\ Steps(c, fs)
          BY <1>5
        <4>4. \/ i \in DOMAIN fs /\ stack'[u][i] = fs[i]
              \/ \E j \in DOMAIN stack[u] : stack'[u][i] = stack[u][j]
          <5>1. CASE u = c
            BY <1>0, <1>2, <4>3, <5>1 DEF Call, StackType
          <5>2. CASE u # c
            BY <1>0, <1>2, <5>2 DEF Call, StackType
          <5> QED
            BY <5>1, <5>2
        <4> QED
          BY <4>1, <4>2, <4>3, <4>4
      <3>5. ~Launched(s)' /\ (status'[s] = "pending" => AtMostOne(Once(s))')
        BY <1>2, <3>2, <3>3 DEF Launched, AtMostOne, Some
      <3> QED
        BY <1>2, <3>2, <3>4, <3>5 DEF LiveFor
    <2> QED
      BY <2>6, <2>7
  <1>9. CASE Prereqs[d] = {}
    <2>1. g.op = "dispatch" /\ \A x, y : x[d] = "pending" => LiveIn(x, y, g)
      BY <1>1, <1>9, FrameParts, LiveOf
    <2>2. NoneHeld(s) => NoneHeld(s)'
      BY <1>0, <1>7, <1>9 DEF NoneHeld
    <2>3. h \notin Once(s) /\ LiveIn(status', stop', h)
      BY <1>4, QuietLive
    <2>4. (Puts(<<g, h>>, Once(s)) <=> g \in Once(s)) /\ PutsOne(<<g, h>>, Once(s))
      BY <2>3, PutsOf
    <2>5. CASE s # d
      <3>1. g \notin Once(s)
        BY <1>4, <2>5 DEF Once
      <3>2. \A k \in DOMAIN <<g, h>> : <<g, h>>[k].s = s => LiveIn(status', stop', <<g, h>>[k])
        BY <1>4, <2>5
      <3> QED
        BY <1>0, <1>2, <1>5, <1>6, <2>2, <2>4, <3>1, <3>2, LiveAway
    <2>6. CASE s = d
      <3>1. ~Launched(s)
        BY <1>2, <2>6 DEF LiveFor
      <3>2. status[s] = "pending" /\ ~(queue[s] > 0) /\ ~Some(Once(s))
        BY <3>1 DEF Launched
      <3>3. ~Elsewhere(c, Once(s))
        BY <1>0, <1>5, <3>2, StepSets
      <3>4. s \in submitted' /\ NoneHeld(s)'
        BY <1>2, <1>9, <2>6 DEF NoneHeld
      <3>5. LiveIn(status', stop', g)
        BY <1>2, <2>1, <2>6, <3>2
      <3>6. \A k \in DOMAIN <<g, h>> : <<g, h>>[k].s = s => LiveIn(status', stop', <<g, h>>[k])
        BY <2>3, <3>5
      <3> QED
        BY <1>0, <1>2, <1>5, <1>6, <2>2, <2>4, <3>2, <3>3, <3>4, <3>6, LiveMove
    <2> QED
      BY <2>5, <2>6
  <1> QED
    BY <1>8, <1>9

\* The other calls of clients, the workers and stop requests.
LEMMA LiveOthers ==
    ASSUME IInv, CountInv, NEW s \in Subs \ Resumable, LiveFor(s),
           \/ \E c \in Clients : \/ \E d \in Subs : ResumeCall(c, d)
                                 \/ \E d \in Cancellable : CancelCall(c, d)
                                 \/ \E e \in Externals : CompleteExternal(c, e)
                                 \/ ShutdownCall(c)
           \/ \E w \in Workers : WorkerLoop(w)
           \/ \E d \in Cancellable : RequestStop(d)
           \/ UNCHANGED vars
    PROVE  LiveFor(s)'
  <1>1. /\ UNCHANGED <<status, submitted>> /\ Cancellable \subseteq Subs /\ StackType
        /\ queue \in [Subs -> Nat] /\ stop \in [Subs -> BOOLEAN] /\ s \in Subs
    BY RuntimeAssumption DEF ResumeCall, CancelCall, CompleteExternal, ShutdownCall, WorkerLoop, WorkerExit, Dequeue,
       RequestStop, vars, eventVars, poolVars, callVars, IInv, Safe, DataType
  <1>2. NoneHeld(s) => NoneHeld(s)'
    <2>1. SameHeld
      BY OthersHand
    <2> QED
      BY <2>1, RuntimeAssumption DEF NoneHeld, SameHeld
  <1>3. ASSUME NEW t \in Threads, NEW g \in Frames, Call(t, <<g>>),
               stop[s] => stop'[s], queue'[s] > 0 => queue[s] > 0,
               g \notin Once(s), g.s = s => LiveIn(status', stop', g)
        PROVE  LiveFor(s)'
    <2>1. <<g>> \in Seq(Frames) /\ Steps(t, <<g>>)
      BY <1>3 DEF Steps
    <2>2. \A k \in DOMAIN <<g>> : <<g>>[k].s = s => LiveIn(status', stop', <<g>>[k])
      BY <1>3
    <2>3. ~Puts(<<g>>, Once(s))
      BY <1>3, PutsOf
    <2> QED
      BY <1>1, <1>2, <1>3, <2>1, <2>2, <2>3, LiveAway
  <1>4. ASSUME NEW c \in Clients, NEW d \in Subs, ResumeCall(c, d)
        PROVE  LiveFor(s)'
    <2>1. PICK g : g = Frame("resume", d)
      OBVIOUS
    <2>2. g \in Frames
      BY <2>1, FrameTypes DEF SubOps
    <2>3. g.s = d /\ g.op = "resume"
      BY <2>1, FrameParts
    <2>4. g \notin Once(s)
      BY <2>3 DEF Once, OnceOps, ExecOps
    <2>5. Call(c, <<g>>) /\ UNCHANGED <<stop, queue>> /\ d # s
      BY <1>4, <2>1 DEF ResumeCall, poolVars
    <2> QED
      BY <1>3, <2>2, <2>3, <2>4, <2>5 DEF Threads
  <1>5. ASSUME NEW c \in Clients, NEW d \in Subs, CancelCall(c, d)
        PROVE  LiveFor(s)'
    <2>1. PICK g : g = Frame("cancel", d)
      OBVIOUS
    <2>2. g \in Frames
      BY <2>1, FrameTypes DEF SubOps
    <2>3. g.s = d /\ g.op = "cancel"
      BY <2>1, FrameParts
    <2>4. g \notin Once(s)
      BY <2>3 DEF Once, OnceOps, ExecOps
    <2>5. Call(c, <<g>>) /\ UNCHANGED queue /\ stop' = [stop EXCEPT ![d] = TRUE]
      BY <1>5, <2>1 DEF CancelCall, poolVars
    <2>6. (stop[s] => stop'[s]) /\ stop'[d]
      BY <1>1, <2>5
    <2>7. g.s = s => LiveIn(status', stop', g)
      BY <2>1, <2>3, <2>6, LiveOf
    <2> QED
      BY <1>3, <2>2, <2>4, <2>5, <2>6, <2>7 DEF Threads
  <1>6. ASSUME NEW c \in Clients, NEW e \in Externals, CompleteExternal(c, e)
        PROVE  LiveFor(s)'
    <2>1. PICK st \in Terminal : Call(c, <<WithStatus("mark", e, st)>>)
      BY <1>6 DEF CompleteExternal
    <2>2. PICK g : g = WithStatus("mark", e, st)
      OBVIOUS
    <2>3. g \in Frames
      BY <2>2, FrameTypes DEF EventOps, Events, Terminal, Statuses
    <2>4. g.s = e /\ e # s
      BY <1>1, <2>2, FrameParts, RuntimeAssumption
    <2>5. g \notin Once(s)
      BY <2>4 DEF Once
    <2>6. UNCHANGED <<stop, queue>> /\ Call(c, <<g>>)
      BY <1>6, <2>1, <2>2 DEF CompleteExternal, poolVars
    <2> QED
      BY <1>3, <2>3, <2>4, <2>5, <2>6 DEF Threads
  <1>7. ASSUME NEW c \in Clients, ShutdownCall(c)
        PROVE  LiveFor(s)'
    <2>1. PICK g : g = Frame("request_stop", AnySub)
      OBVIOUS
    <2>2. g \in Frames
      BY <2>1, AnySubType, FrameTypes DEF SubOps
    <2>3. g.op \in QuietOps
      BY <2>1, FrameParts DEF QuietOps
    <2>4. g \notin Once(s) /\ LiveIn(status', stop', g)
      BY <2>3, QuietLive
    <2>5. UNCHANGED <<stop, queue>> /\ Call(c, <<g>>)
      BY <1>7, <2>1 DEF ShutdownCall
    <2> QED
      BY <1>3, <2>2, <2>4, <2>5 DEF Threads
  <1>8. ASSUME NEW w \in Workers, NEW d \in Subs, Dequeue(w, d)
        PROVE  LiveFor(s)'
    <2>1. /\ queue[d] > 0 /\ queue' = [queue EXCEPT ![d] = @ - 1] /\ Call(w, <<Frame("screen", d)>>)
          /\ UNCHANGED stop /\ w \in Threads
      BY <1>8 DEF Dequeue, Threads
    <2>2. PICK g : g = Frame("screen", d)
      OBVIOUS
    <2>3. g \in Frames
      BY <2>2, FrameTypes DEF ExecOps
    <2>4. g.s = d
      BY <2>2, FrameParts
    <2>5. CASE d # s
      <3>1. g \notin Once(s) /\ queue'[s] = queue[s]
        BY <1>1, <2>1, <2>4, <2>5 DEF Once
      <3> QED
        BY <1>3, <2>1, <2>2, <2>3, <2>4, <2>5, <3>1
    <2>6. CASE d = s
      <3>1. status[s] = "pending" \/ stop[s]
        BY <2>1, <2>6 DEF LiveFor
      <3>2. LiveIn(status', stop', g)
        BY <1>1, <2>1, <2>2, <2>6, <3>1, LiveOf
      <3>3. Launched(s)
        BY <2>1, <2>6 DEF Launched
      <3>4. queue'[s] = 0
        <4>1. queue[s] <= 1
          BY DEF IInv, Safe, Ownership, OwnedEntries
        <4> QED
          BY <1>1, <2>1, <2>6, <4>1
      <3>5. <<g>> \in Seq(Frames) /\ Steps(w, <<g>>)
        BY <2>1, <2>2, <2>3 DEF Steps
      <3>6. status[s] = "pending" => ~Elsewhere(w, Once(s))
        <4>1. status[s] = "pending" => ~Some(Once(s))
          BY <2>1, <2>6 DEF LiveFor
        <4> QED
          BY <1>1, <2>1, <3>5, <4>1, StepSets
      <3>7. PutsOne(<<g>>, Once(s))
        BY PutsOf
      <3>8. \A k \in DOMAIN <<g>> : <<g>>[k].s = s => LiveIn(status', stop', <<g>>[k])
        BY <3>2
      <3>9. ~(queue'[s] > 0)
        BY <3>4
      <3> QED
        BY <1>1, <1>2, <2>1, <3>3, <3>5, <3>6, <3>7, <3>8, <3>9, LiveMove
    <2> QED
      BY <2>5, <2>6
  <1>9. ASSUME UNCHANGED <<stack, queue>>, stop[s] => stop'[s]
        PROVE  LiveFor(s)'
    <2>1. FramesLive(s)'
      <3>1. \A f : f.s = s /\ LiveIn(status, stop, f) => LiveIn(status', stop', f)
        BY <1>1, <1>9 DEF LiveIn
      <3> QED
        BY <1>9, <3>1 DEF LiveFor, FramesLive
    <2>2. /\ Launched(s)' <=> Launched(s)
          /\ AtMostOne(Once(s))' <=> AtMostOne(Once(s))
          /\ Some(Once(s))' <=> Some(Once(s))
      BY <1>1, <1>9 DEF Launched, AtMostOne, Some
    <2> QED
      BY <1>1, <1>2, <1>9, <2>1, <2>2 DEF LiveFor
  <1>10. ASSUME NEW w \in Workers, WorkerExit(w)
         PROVE  LiveFor(s)'
    BY <1>9, <1>10 DEF WorkerExit
  <1>11. ASSUME NEW d \in Subs, RequestStop(d)
         PROVE  LiveFor(s)'
    <2>1. UNCHANGED <<stack, queue>> /\ stop' = [stop EXCEPT ![d] = TRUE]
      BY <1>11 DEF RequestStop, poolVars
    <2> QED
      BY <1>1, <1>9, <2>1
  <1>12. ASSUME UNCHANGED vars
         PROVE  LiveFor(s)'
    BY <1>9, <1>12 DEF vars, poolVars
  <1> QED
    BY <1>1, <1>4, <1>5, <1>6, <1>7, <1>8, <1>10, <1>11, <1>12 DEF WorkerLoop

\* What every frame relies on holds until the frame is taken.
THEOREM LiveInvariant == Spec => []LiveInv
  <1>1. Init => LiveInv
    <2> SUFFICES ASSUME Init, NEW s \in Subs PROVE LiveFor(s)
      BY DEF LiveInv
    <2>1. /\ \A t \in Threads : DOMAIN stack[t] = {}
          /\ queue[s] = 0 /\ status[s] = "pending"
      BY DEF Init, Events
    <2>2. ~Some(Once(s)) /\ AtMostOne(Once(s)) /\ FramesLive(s)
      BY <2>1 DEF Some, AtMostOne, FramesLive
    <2> QED
      BY <2>1, <2>2 DEF LiveFor, Launched
  <1>2. IInv /\ CountInv /\ OrderInv /\ LiveInv /\ [Next]_vars => LiveInv'
    <2> SUFFICES ASSUME IInv, CountInv, OrderInv, LiveInv, [Next]_vars, NEW s \in Subs \ Resumable
                 PROVE  LiveFor(s)'
      BY DEF LiveInv
    <2>0. LiveFor(s)
      BY DEF LiveInv
    <2>1. ASSUME NEW t \in Threads, Continue(t)
          PROVE  LiveFor(s)'
      BY <2>0, <2>1, LiveCount, LiveContinue
    <2>2. ASSUME NEW c \in Clients, ClientCall(c)
          PROVE  LiveFor(s)'
      BY <2>0, <2>2, LiveSubmit, LiveOthers DEF ClientCall
    <2> QED
      BY <2>0, <2>1, <2>2, LiveOthers DEF Next
  <1> QED
    BY <1>1, <1>2, Invariant, CountInvariant, OrderInvariant, PTL DEF Spec

\* The part of LiveStep about the submissions that nobody resumes.
UnresumedLive == \A s \in Subs \ Resumable : Somewhere({"step"}, s) => status[s] = "running"

\* While a step of a submission that nobody resumes runs, its event says
\* running: no callback, no cancellation and no other worker has ended it.
THEOREM UnresumedLives == Spec => []UnresumedLive
  <1>1. LiveInv => UnresumedLive
    <2> SUFFICES ASSUME LiveInv, NEW s \in Subs \ Resumable, Somewhere({"step"}, s)
                 PROVE  status[s] = "running"
      BY DEF UnresumedLive
    <2>1. PICK t \in Threads : \E i \in DOMAIN stack[t] : Holds(t, i, {"step"}, s)
      BY DEF Somewhere
    <2>2. PICK i \in DOMAIN stack[t] : Holds(t, i, {"step"}, s)
      BY <2>1
    <2>3. LiveIn(status, stop, stack[t][i])
      BY <2>2 DEF LiveInv, LiveFor, FramesLive, Holds
    <2> QED
      BY <2>2, <2>3 DEF Holds, LiveIn
  <1> QED
    BY <1>1, LiveInvariant, PTL

\* If clients never call resume(), every step that runs is live.
THEOREM StepsAreLive ==
    ASSUME Resumable = {}
    PROVE  Spec => []LiveStep
  <1>1. UnresumedLive => LiveStep
    BY DEF UnresumedLive, LiveStep
  <1> QED
    BY <1>1, UnresumedLives, PTL

=============================================================================
