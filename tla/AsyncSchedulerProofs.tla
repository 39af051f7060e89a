------------------------- MODULE AsyncSchedulerProofs -------------------------
(* Theorems about AsyncScheduler, for any number of workers and clients, any  *)
(* graph and any scripts.                                                     *)
EXTENDS AsyncScheduler, SequenceTheorems, FiniteSetTheorems, TLAPS

-----------------------------------------------------------------------------
(* Frames and stacks.                                                       *)

NodeOps  == {"schedule", "s_load"}
VisitOps == {"request_stop", "stop_store", "stop_notify", "join"}

\* The frames that occur: some program points only with a job, with a node, or
\* with a worker's number.
Sound == {f \in Frames : /\ f.op \in HoldOps => f.job \in Jobs
                         /\ f.op \in NodeOps => f.job \in Nodes
                         /\ f.op \in VisitOps => f.pos <= N}

\* Those of calls that worker_loop_() or a client has made.
Inner == {f \in Sound : f.op \notin LoopOps}

\* A worker is in worker_loop_(), and in calls made from its top only.
Bottom(s) == s[Len(s)].op

Shape(s) ==
    /\ s # <<>> /\ Bottom(s) \in LoopOps
    /\ Len(s) > 1 => Bottom(s) = "top"
    /\ \A i \in 1..(Len(s) - 1) : s[i] \in Inner

LEMMA StacksReplaced ==
    ASSUME NEW F, NEW s \in [Threads -> Seq(F)], NEW t \in Threads, s[t] # <<>>,
           NEW fs \in Seq(F)
    PROVE  LET s2 == [s EXCEPT ![t] = fs \o Tail(@)] IN
           /\ s2 \in [Threads -> Seq(F)]
           /\ s2[t] = fs \o Tail(s[t])
           /\ \A u \in Threads : u # t => s2[u] = s[u]
<1>1. s[t] \in Seq(F) /\ Tail(s[t]) \in Seq(F)
  OBVIOUS
<1>2. fs \o Tail(s[t]) \in Seq(F)
  BY <1>1
<1> QED
  BY <1>2

\* A frame of the loop is the only one on its stack.
LEMMA LoopAlone ==
    ASSUME NEW s \in Seq(Sound), Shape(s), Head(s).op \in LoopOps
    PROVE  Len(s) = 1 /\ Tail(s) = <<>> /\ Bottom(s) = Head(s).op
<1>1. PICK n \in Nat : n = Len(s)
  BY LenProperties
<1>2. Head(s) = s[1] /\ n # 0
  BY <1>1 DEF Shape
<1>3. ~(n > 1)
  BY <1>1, <1>2 DEF Shape, Inner
<1>4. n = 1
  BY <1>2, <1>3
<1>5. Tail(s) = <<>>
  <2>1. s # <<>> /\ Len(s) = 1
    BY <1>1, <1>4 DEF Shape
  <2>2. Tail(s) \in Seq(Sound) /\ Len(Tail(s)) = Len(s) - 1
    BY <2>1, HeadTailProperties
  <2>3. Len(Tail(s)) = 0
    BY <2>1, <2>2
  <2> QED
    BY <2>2, <2>3, EmptySeq
<1> QED
  BY <1>1, <1>2, <1>4, <1>5 DEF Bottom

\* A step of a call leaves the loop's frame where it is.
LEMMA LoopBelow ==
    ASSUME NEW s \in Seq(Sound), Shape(s), Head(s).op \notin LoopOps, NEW fs \in Seq(Inner)
    PROVE  /\ fs \o Tail(s) \in Seq(Sound)
           /\ Shape(fs \o Tail(s)) /\ Bottom(fs \o Tail(s)) = "top" /\ Bottom(s) = "top"
<1> DEFINE r == Tail(s)
           n == Len(s)
<1>1. n \in Nat /\ n > 0 /\ Head(s) = s[1]
  BY DEF Shape
<1>2. n > 1
  BY <1>1 DEF Shape, Bottom
<1>3. r \in Seq(Sound) /\ Len(r) = n - 1 /\ \A i \in 1..(n - 1) : r[i] = s[i + 1]
  BY <1>1, HeadTailProperties
<1>4. fs \in Seq(Sound)
  BY DEF Inner
<1> HIDE DEF r, n
<1>5. /\ fs \o r \in Seq(Sound) /\ Len(fs \o r) = Len(fs) + (n - 1)
      /\ \A i \in 1..(Len(fs) + (n - 1)) :
            (fs \o r)[i] = IF i <= Len(fs) THEN fs[i] ELSE r[i - Len(fs)]
  <2>1. r \in Seq(Sound) /\ Len(r) = n - 1
    BY <1>3
  <2> QED
    BY <1>4, <2>1, ConcatProperties
<1>6. Bottom(s) = "top"
  BY <1>2 DEF Shape, n
<1>7. Len(fs) \in Nat
  BY <1>4
<1>8. (fs \o r)[Len(fs \o r)] = s[n]
  <2>1. (fs \o r)[Len(fs) + (n - 1)] = r[n - 1]
    BY <1>1, <1>2, <1>5, <1>7
  <2> QED
    BY <1>1, <1>2, <1>3, <1>5, <2>1
<1>9. ASSUME NEW i \in 1..(Len(fs \o r) - 1)
      PROVE  (fs \o r)[i] \in Inner
  <2>1. CASE i <= Len(fs)
    BY <1>1, <1>2, <1>5, <1>7, <2>1
  <2>2. CASE i > Len(fs)
    <3>1. (fs \o r)[i] = r[i - Len(fs)] /\ i - Len(fs) \in 1..(n - 2)
      BY <1>1, <1>2, <1>5, <1>7, <2>2
    <3>2. r[i - Len(fs)] = s[(i - Len(fs)) + 1] /\ (i - Len(fs)) + 1 \in 1..(n - 1)
      BY <1>1, <1>2, <1>3, <1>7, <3>1
    <3> QED
      BY <3>1, <3>2 DEF Shape, n
  <2> QED
    BY <1>7, <2>1, <2>2
<1>10. fs \o r # <<>>
  BY <1>1, <1>2, <1>5, <1>7
<1>11. Bottom(fs \o r) = "top"
  BY <1>6, <1>8 DEF Bottom, n
<1> QED
  BY <1>5, <1>6, <1>9, <1>10, <1>11 DEF Shape, r, LoopOps

-----------------------------------------------------------------------------
(* The invariant.                                                           *)

Values ==
    /\ queue \in [0..N -> [Jobs -> Nat]]
    /\ status \in [Workers -> 0..2] /\ pauseState \in 0..1
    /\ steal \in 0..(N - 1) /\ remaining \in Int
    /\ stop \subseteq Workers
    /\ numDeps \in [Nodes -> Int]
    /\ state \in [Nodes -> {"idle", "planned", "running", "done"}]
    /\ at \in [Clients -> Nat \ {0}]
    /\ runs \in [Jobs -> Nat] /\ finished \subseteq Jobs
    /\ late \in [Workers -> Nat]

Stacks(s) == s \in [Threads -> Seq(Sound)] /\ \A w \in Workers : Shape(s[w])

\* Past the tests of the pause and of the stop request, before the next job.
Looking == {"local", "global", "steal", "scan"}

\* A worker that has taken a job since pause() cannot look for another: it gets
\* past the pause only if its stop was requested, and then it leaves.
PauseKept ==
    \A w \in Workers :
        /\ late[w] <= 1
        /\ pauseState = 1 /\ late[w] = 1 =>
              /\ Bottom(stack[w]) \notin Looking
              /\ Bottom(stack[w]) = "stopped" => w \in stop

SchedInv == Values /\ Stacks(stack) /\ PauseKept

\* What most steps do to the stacks: no worker's loop moves, or only from its sleep
\* back to the test of what it waits for.
Kept(s, s2) ==
    /\ Stacks(s2)
    /\ \A w \in Workers : Bottom(s2[w]) = Bottom(s[w]) \/ Bottom(s2[w]) \in {"test", "p_test"}

\* Worker w's loop goes from one program point to another.
Turn(w, s, s2, from, to) ==
    /\ Stacks(s2) /\ Bottom(s[w]) = from /\ Bottom(s2[w]) = to
    /\ \A x \in Workers : x # w => Bottom(s2[x]) = Bottom(s[x])

LEMMA KeptTwice ==
    ASSUME NEW s, NEW s2, NEW s3, Kept(s, s2), Kept(s2, s3)
    PROVE  Kept(s, s3)
BY DEF Kept

LEMMA QuietStep ==
    ASSUME PauseKept, Kept(stack, stack'), pauseState' \in {pauseState, 0}, UNCHANGED late,
           stop \subseteq stop'
    PROVE  PauseKept'
BY DEF PauseKept, Kept, Looking

LEMMA FrameIs ==
    ASSUME NEW op \in LoopOps \cup ProcessOps \cup EnqueueOps \cup WakeOps \cup ClientOps
    PROVE  /\ Frame(op) \in Frames /\ Frame(op).op = op
           /\ Frame(op).pos = 1 /\ Frame(op).to = 0 /\ Frame(op).todo = <<>>
           /\ \A j \in Jobs : /\ JobFrame(op, j) \in Frames /\ JobFrame(op, j).op = op
                              /\ JobFrame(op, j).job = j
<1>1. 0 \in 0..N /\ 1 \in 1..(N + 1) /\ <<>> \in Seq(Nodes)
  BY SchedulerAssumption
<1>2. Frame(op) \in Frames /\ Frame(op).op = op
  BY <1>1 DEF Frame, Frames
<1>3. Frame(op).pos = 1 /\ Frame(op).to = 0 /\ Frame(op).todo = <<>>
  BY DEF Frame
<1>4. ASSUME NEW j \in Jobs
      PROVE  JobFrame(op, j) \in Frames /\ JobFrame(op, j).op = op /\ JobFrame(op, j).job = j
  BY <1>1, <1>4 DEF Frame, JobFrame, Frames
<1> QED
  BY <1>2, <1>3, <1>4

\* A step of a call, of a worker or of a client.
LEMMA CallStep ==
    ASSUME NEW s, Stacks(s), NEW t \in Threads, s[t] # <<>>, Head(s[t]).op \notin LoopOps,
           NEW fs \in Seq(Inner), NEW s2, s2 = [s EXCEPT ![t] = fs \o Tail(@)]
    PROVE  Kept(s, s2)
<1>1. fs \in Seq(Sound) /\ s[t] \in Seq(Sound)
  BY DEF Inner, Stacks
<1>2. /\ s2 \in [Threads -> Seq(Sound)] /\ s2[t] = fs \o Tail(s[t])
      /\ \A u \in Threads : u # t => s2[u] = s[u]
  BY <1>1, StacksReplaced DEF Stacks
<1>3. ASSUME NEW w \in Workers
      PROVE  Shape(s2[w]) /\ Bottom(s2[w]) = Bottom(s[w])
  <2>1. CASE w = t
    <3>1. Shape(s[t])
      BY <2>1 DEF Stacks
    <3>2. Shape(fs \o Tail(s[t])) /\ Bottom(fs \o Tail(s[t])) = "top" /\ Bottom(s[t]) = "top"
      BY <1>1, <3>1, LoopBelow
    <3> QED
      BY <1>2, <2>1, <3>2
  <2>2. CASE w # t
    BY <1>2, <2>2 DEF Stacks, Threads
  <2> QED
    BY <2>1, <2>2
<1> QED
  BY <1>2, <1>3 DEF Kept, Stacks

LEMMA SingleShape ==
    ASSUME NEW f \in Sound, f.op \in LoopOps
    PROVE  <<f>> \in Seq(Sound) /\ Shape(<<f>>) /\ Bottom(<<f>>) = f.op
BY DEF Shape, Bottom

\* A step of the loop itself.
LEMMA LoopStep ==
    ASSUME NEW s, Stacks(s), NEW w \in Workers, s[w] # <<>>, Head(s[w]).op \in LoopOps,
           NEW f \in Sound, f.op \in LoopOps, NEW fs, fs = <<f>>,
           NEW s2, s2 = [s EXCEPT ![w] = fs \o Tail(@)]
    PROVE  Turn(w, s, s2, Head(s[w]).op, f.op)
<1>1. s \in [Threads -> Seq(Sound)] /\ s[w] \in Seq(Sound) /\ w \in Threads /\ Shape(s[w])
  BY DEF Stacks, Threads
<1>2. Tail(s[w]) = <<>> /\ Bottom(s[w]) = Head(s[w]).op
  BY <1>1, LoopAlone
<1>3. <<f>> \in Seq(Sound) /\ Shape(<<f>>) /\ Bottom(<<f>>) = f.op
  BY SingleShape
<1>4. /\ s2 \in [Threads -> Seq(Sound)] /\ s2[w] = <<f>> \o Tail(s[w])
      /\ \A u \in Threads : u # w => s2[u] = s[u]
  BY <1>1, <1>3, StacksReplaced
<1>5. s2[w] = <<f>>
  BY <1>2, <1>3, <1>4, ConcatEmptySeq
<1>6. \A x \in Workers : Shape(s2[x])
  BY <1>3, <1>4, <1>5 DEF Stacks, Threads
<1> QED
  BY <1>2, <1>3, <1>4, <1>5, <1>6 DEF Turn, Stacks, Threads

\* A worker takes a job: a call from the top of its loop.
LEMMA TakeStep ==
    ASSUME NEW s, Stacks(s), NEW w \in Workers, s[w] # <<>>, Head(s[w]).op \in LoopOps,
           NEW g \in Inner, NEW f \in Sound, f.op = "top", NEW fs, fs = <<g, f>>,
           NEW s2, s2 = [s EXCEPT ![w] = fs \o Tail(@)]
    PROVE  Turn(w, s, s2, Head(s[w]).op, "top")
<1>1. s \in [Threads -> Seq(Sound)] /\ s[w] \in Seq(Sound) /\ w \in Threads /\ Shape(s[w])
  BY DEF Stacks, Threads
<1>2. Tail(s[w]) = <<>> /\ Bottom(s[w]) = Head(s[w]).op
  BY <1>1, LoopAlone
<1>3. <<g, f>> \in Seq(Sound) /\ Shape(<<g, f>>) /\ Bottom(<<g, f>>) = "top"
  BY DEF Shape, Bottom, Inner, LoopOps
<1>4. /\ s2 \in [Threads -> Seq(Sound)] /\ s2[w] = <<g, f>> \o Tail(s[w])
      /\ \A u \in Threads : u # w => s2[u] = s[u]
  BY <1>1, <1>3, StacksReplaced
<1>5. s2[w] = <<g, f>>
  BY <1>2, <1>3, <1>4, ConcatEmptySeq
<1>6. \A x \in Workers : Shape(s2[x])
  BY <1>3, <1>4, <1>5 DEF Stacks, Threads
<1> QED
  BY <1>2, <1>3, <1>4, <1>5, <1>6 DEF Turn, Stacks, Threads

\* A notification.
LEMMA NotifiedStep ==
    ASSUME NEW s, Stacks(s), NEW S, NEW asleep, NEW test,
           <<asleep, test>> \in {<<"asleep", "test">>, <<"p_asleep", "p_test">>}
    PROVE  Kept(s, Notified(s, S, asleep, test))
<1> DEFINE s2 == Notified(s, S, asleep, test)
<1>1. test \in {"test", "p_test"} /\ asleep \in LoopOps
  BY DEF LoopOps
<1>2. Frame(test) \in Sound /\ Frame(test).op = test /\ test \in LoopOps
  BY <1>1, FrameIs DEF Sound, LoopOps, HoldOps, NodeOps, VisitOps
<1>3. <<Frame(test)>> \in Seq(Sound) /\ Shape(<<Frame(test)>>) /\ Bottom(<<Frame(test)>>) = test
  BY <1>2, SingleShape
<1>4. \A u \in Threads : s2[u] = s[u] \/ s2[u] = <<Frame(test)>>
  BY DEF Notified
<1>5. s2 \in [Threads -> Seq(Sound)]
  BY <1>3 DEF Notified, Stacks
<1> HIDE DEF s2
<1>6. ASSUME NEW w \in Workers
      PROVE  Shape(s2[w]) /\ (Bottom(s2[w]) = Bottom(s[w]) \/ Bottom(s2[w]) \in {"test", "p_test"})
  BY <1>1, <1>3, <1>4 DEF Stacks, Threads
<1> QED
  BY <1>5, <1>6 DEF Kept, Stacks, s2

-----------------------------------------------------------------------------
(* Frames of calls.                                                         *)

CallOps == ProcessOps \cup EnqueueOps \cup WakeOps \cup ClientOps

LEMMA TopIs ==
    ASSUME Stacks(stack), NEW t \in Threads, NEW op, At(t, op)
    PROVE  Top(t) \in Sound /\ Top(t).op = op /\ stack[t] # <<>> /\ Head(stack[t]).op = op
BY HeadTailProperties DEF Stacks, At, Top

LEMMA FieldsAre ==
    ASSUME NEW f \in Sound
    PROVE  /\ f.to \in 0..N /\ f.todo \in Seq(Nodes) /\ f.pos \in 1..(N + 1)
           /\ f.op \in HoldOps => f.job \in Jobs
           /\ f.op \in NodeOps => f.job \in Nodes
           /\ f.op \in VisitOps => f.pos <= N
BY DEF Sound, Frames

LEMMA GoneTo ==
    ASSUME NEW f \in Sound, NEW op \in CallOps,
           op \in HoldOps => f.job \in Jobs, op \in NodeOps => f.job \in Nodes,
           op \in VisitOps => f.pos <= N
    PROVE  /\ [f EXCEPT !.op = op] \in Inner
           /\ <<[f EXCEPT !.op = op]>> \in Seq(Inner)
<1>1. op \notin LoopOps
  BY DEF CallOps, LoopOps, ProcessOps, EnqueueOps, WakeOps, ClientOps
<1>2. [f EXCEPT !.op = op] \in Frames
  BY DEF CallOps, Sound, Frames
<1>3. /\ [f EXCEPT !.op = op].op = op /\ [f EXCEPT !.op = op].job = f.job
      /\ [f EXCEPT !.op = op].pos = f.pos
  BY DEF Sound, Frames
<1>4. [f EXCEPT !.op = op] \in Inner
  BY <1>1, <1>2, <1>3 DEF Inner, Sound
<1> QED
  BY <1>4

LEMMA NewFrame ==
    ASSUME NEW op \in CallOps, op \notin HoldOps, op \notin NodeOps
    PROVE  Frame(op) \in Inner /\ <<Frame(op)>> \in Seq(Inner)
<1>1. op \notin LoopOps
  BY DEF CallOps, LoopOps, ProcessOps, EnqueueOps, WakeOps, ClientOps
<1>2. Frame(op) \in Frames /\ Frame(op).op = op /\ Frame(op).pos = 1
  BY FrameIs DEF CallOps
<1>3. Frame(op) \in Inner
  BY <1>1, <1>2, SchedulerAssumption DEF Inner, Sound
<1> QED
  BY <1>3

LEMMA NewJobFrame ==
    ASSUME NEW op \in CallOps, op \notin VisitOps, NEW j \in Jobs, op \in NodeOps => j \in Nodes
    PROVE  JobFrame(op, j) \in Inner /\ <<JobFrame(op, j)>> \in Seq(Inner)
<1>1. op \notin LoopOps
  BY DEF CallOps, LoopOps, ProcessOps, EnqueueOps, WakeOps, ClientOps
<1>2. JobFrame(op, j) \in Frames /\ JobFrame(op, j).op = op /\ JobFrame(op, j).job = j
  BY FrameIs DEF CallOps
<1>3. JobFrame(op, j) \in Inner
  BY <1>1, <1>2 DEF Inner, Sound
<1> QED
  BY <1>3

LEMMA NewEnqueue ==
    ASSUME NEW j \in Jobs, NEW to \in 0..N
    PROVE  EnqueueFrame(j, to) \in Inner /\ <<EnqueueFrame(j, to)>> \in Seq(Inner)
<1> DEFINE op == IF to = 0 THEN "e_global" ELSE "e_hint"
           f == JobFrame(op, j)
<1>1. op \in CallOps /\ op \notin VisitOps /\ op \notin NodeOps
  BY DEF CallOps, EnqueueOps, VisitOps, NodeOps
<1>2. f \in Inner
  BY <1>1, NewJobFrame
<1>3. EnqueueFrame(j, to) = [f EXCEPT !.to = to]
  BY DEF EnqueueFrame
<1> HIDE DEF f
<1>4. /\ [f EXCEPT !.to = to] \in Frames /\ [f EXCEPT !.to = to].op = f.op
      /\ [f EXCEPT !.to = to].job = f.job /\ [f EXCEPT !.to = to].pos = f.pos
  BY <1>2 DEF Inner, Sound, Frames
<1>5. [f EXCEPT !.to = to] \in Inner
  BY <1>2, <1>4 DEF Inner, Sound
<1> QED
  BY <1>3, <1>5

\* Other fields a step sets.
LEMMA SetTodo ==
    ASSUME NEW f \in Inner, NEW todo \in Seq(Nodes)
    PROVE  [f EXCEPT !.todo = todo] \in Inner /\ <<[f EXCEPT !.todo = todo]>> \in Seq(Inner)
<1>1. /\ [f EXCEPT !.todo = todo] \in Frames /\ [f EXCEPT !.todo = todo].op = f.op
      /\ [f EXCEPT !.todo = todo].job = f.job /\ [f EXCEPT !.todo = todo].pos = f.pos
  BY DEF Inner, Sound, Frames
<1>2. [f EXCEPT !.todo = todo] \in Inner
  BY <1>1 DEF Inner, Sound
<1> QED
  BY <1>2

LEMMA SetTo ==
    ASSUME NEW f \in Inner, NEW to \in 0..N
    PROVE  [f EXCEPT !.to = to] \in Inner /\ <<[f EXCEPT !.to = to]>> \in Seq(Inner)
<1>1. /\ [f EXCEPT !.to = to] \in Frames /\ [f EXCEPT !.to = to].op = f.op
      /\ [f EXCEPT !.to = to].job = f.job /\ [f EXCEPT !.to = to].pos = f.pos
  BY DEF Inner, Sound, Frames
<1>2. [f EXCEPT !.to = to] \in Inner
  BY <1>1 DEF Inner, Sound
<1> QED
  BY <1>2

LEMMA SetPos ==
    ASSUME NEW f \in Inner, NEW pos \in 1..(N + 1), f.op \in VisitOps => pos <= N
    PROVE  [f EXCEPT !.pos = pos] \in Inner /\ <<[f EXCEPT !.pos = pos]>> \in Seq(Inner)
<1>1. /\ [f EXCEPT !.pos = pos] \in Frames /\ [f EXCEPT !.pos = pos].op = f.op
      /\ [f EXCEPT !.pos = pos].job = f.job /\ [f EXCEPT !.pos = pos].pos = pos
  BY DEF Inner, Sound, Frames
<1>2. [f EXCEPT !.pos = pos] \in Inner
  BY <1>1 DEF Inner, Sound
<1> QED
  BY <1>2

LEMMA TailIsSeq ==
    ASSUME NEW todo \in Seq(Nodes), todo # <<>>
    PROVE  Head(todo) \in Nodes /\ Tail(todo) \in Seq(Nodes)
BY HeadTailProperties

LEMMA Becomes ==
    ASSUME Stacks(stack), NEW t \in Threads, NEW op \in CallOps, At(t, op),
           NEW fs \in Seq(Inner), Become(t, fs)
    PROVE  Kept(stack, stack')
<1>1. stack[t] # <<>> /\ Head(stack[t]).op = op
  BY TopIs
<1>2. op \notin LoopOps
  BY DEF CallOps, LoopOps, ProcessOps, EnqueueOps, WakeOps, ClientOps
<1>3. stack' = [stack EXCEPT ![t] = fs \o Tail(@)]
  BY DEF Become, Replaced
<1> QED
  BY <1>1, <1>2, <1>3, CallStep

LEMMA Goes ==
    ASSUME Stacks(stack), NEW t \in Threads, NEW op \in CallOps, At(t, op), NEW op2 \in CallOps,
           op2 \in HoldOps => op \in HoldOps, op2 \in NodeOps => op \in NodeOps,
           op2 \in VisitOps => op \in VisitOps, Goto(t, op2)
    PROVE  Kept(stack, stack')
<1>1. Top(t) \in Sound /\ Top(t).op = op
  BY TopIs
<1>2. <<[Top(t) EXCEPT !.op = op2]>> \in Seq(Inner)
  BY <1>1, FieldsAre, GoneTo
<1>3. Become(t, <<[Top(t) EXCEPT !.op = op2]>>)
  BY DEF Goto
<1> QED
  BY <1>2, <1>3, Becomes

\* A call returns.
LEMMA Returns ==
    ASSUME Stacks(stack), NEW t \in Threads, NEW op \in CallOps, At(t, op), Become(t, <<>>)
    PROVE  Kept(stack, stack')
BY EmptySeq, Becomes

\* A notification with it.
LEMMA Notifies ==
    ASSUME Stacks(stack), NEW t \in Threads, NEW op \in CallOps, At(t, op),
           NEW fs \in Seq(Inner), NEW S, NEW asleep, NEW test,
           <<asleep, test>> \in {<<"asleep", "test">>, <<"p_asleep", "p_test">>},
           stack' = Notified(Replaced(t, fs), S, asleep, test)
    PROVE  Kept(stack, stack')
<1>1. stack[t] # <<>> /\ Head(stack[t]).op = op
  BY TopIs
<1>2. op \notin LoopOps
  BY DEF CallOps, LoopOps, ProcessOps, EnqueueOps, WakeOps, ClientOps
<1>3. Kept(stack, Replaced(t, fs))
  BY <1>1, <1>2, CallStep DEF Replaced
<1>4. Stacks(Replaced(t, fs))
  BY <1>3 DEF Kept
<1>5. Kept(Replaced(t, fs), Notified(Replaced(t, fs), S, asleep, test))
  BY <1>4, NotifiedStep
<1> QED
  BY <1>3, <1>5, KeptTwice

LEMMA NotifiesWorker ==
    ASSUME Stacks(stack), NEW t \in Threads, NEW op \in CallOps, At(t, op),
           NEW fs \in Seq(Inner), NEW w, NotifyWorker(t, w, fs)
    PROVE  Kept(stack, stack')
<1> DEFINE S == {w}
<1>1. stack' = Notified(Replaced(t, fs), S, "asleep", "test")
  BY DEF NotifyWorker
<1> HIDE DEF S
<1>2. <<"asleep", "test">> \in {<<"asleep", "test">>, <<"p_asleep", "p_test">>}
  OBVIOUS
<1> QED
  BY <1>1, <1>2, Notifies

LEMMA NotifiesPaused ==
    ASSUME Stacks(stack), NEW t \in Threads, NEW op \in CallOps, At(t, op),
           NEW fs \in Seq(Inner), NotifyPaused(t, fs)
    PROVE  Kept(stack, stack')
<1>1. stack' = Notified(Replaced(t, fs), Workers, "p_asleep", "p_test")
  BY DEF NotifyPaused
<1>2. <<"p_asleep", "p_test">> \in {<<"asleep", "test">>, <<"p_asleep", "p_test">>}
  OBVIOUS
<1> QED
  BY <1>1, <1>2, Notifies

LEMMA StatusIs ==
    ASSUME Values, NEW w, NEW v \in 0..2, status' = [status EXCEPT ![w] = v]
    PROVE  status' \in [Workers -> 0..2]
BY DEF Values

-----------------------------------------------------------------------------
(* process_().                                                              *)

LEMMA RunStep ==
    ASSUME SchedInv, NEW w \in Workers, Run(w)
    PROVE  Values' /\ Kept(stack, stack')
<1>0. w \in Threads
  BY DEF Threads
<1>1. Top(w) \in Sound /\ Top(w).op = "run"
  BY <1>0, TopIs DEF SchedInv, Run
<1>2. Top(w).job \in Jobs
  BY <1>1, FieldsAre DEF HoldOps
<1>3. Values'
  BY <1>2 DEF SchedInv, Values, Run, shared
<1>4. Kept(stack, stack')
  BY <1>0, Goes DEF SchedInv, Run, CallOps, ProcessOps, HoldOps, NodeOps, VisitOps
<1> QED
  BY <1>3, <1>4

LEMMA BodyStep ==
    ASSUME SchedInv, NEW w \in Workers, Body(w)
    PROVE  Values' /\ Kept(stack, stack')
<1>0. w \in Threads /\ w \in 0..N /\ 0 \in 0..N
  BY SchedulerAssumption DEF Threads, Workers
<1>1. Top(w) \in Sound /\ Top(w).op = "body"
  BY <1>0, TopIs DEF SchedInv, Body
<1>2. PICK j \in Jobs : j = Top(w).job
  BY <1>1, FieldsAre DEF HoldOps
<1>3. Values'
  BY <1>2 DEF SchedInv, Values, Body, shared
<1>4. /\ EnqueueFrame(j, w) \in Inner /\ EnqueueFrame(j, 0) \in Inner
      /\ Frame("again") \in Inner /\ Frame("finish") \in Inner /\ Frame("succ") \in Inner
  BY <1>0, NewEnqueue, NewFrame DEF CallOps, ProcessOps, HoldOps, NodeOps
<1>5. Stacks(stack) /\ At(w, "body") /\ "body" \in CallOps
  BY DEF SchedInv, Body, CallOps, ProcessOps
<1>6. CASE /\ runs[j] <= Suspends[j]
           /\ Become(w, IF j \in Nodes THEN <<EnqueueFrame(j, w), Frame("again")>>
                        ELSE <<EnqueueFrame(j, 0), Frame("finish")>>)
  <2>1. /\ <<EnqueueFrame(j, w), Frame("again")>> \in Seq(Inner)
        /\ <<EnqueueFrame(j, 0), Frame("finish")>> \in Seq(Inner)
    BY <1>4
  <2>2. \/ Become(w, <<EnqueueFrame(j, w), Frame("again")>>)
        \/ Become(w, <<EnqueueFrame(j, 0), Frame("finish")>>)
    BY <1>6
  <2> QED
    BY <1>0, <1>3, <1>5, <2>1, <2>2, Becomes
<1>7. CASE Become(w, <<IF j \in Nodes THEN [Frame("succ") EXCEPT !.todo = Succs[j]]
                       ELSE Frame("finish")>>)
  <2>1. j \in Nodes => Succs[j] \in Seq(Nodes)
    BY SchedulerAssumption
  <2>2. j \in Nodes => [Frame("succ") EXCEPT !.todo = Succs[j]] \in Inner
    BY <1>4, <2>1, SetTodo
  <2>3. CASE j \in Nodes
    <3>1. <<[Frame("succ") EXCEPT !.todo = Succs[j]]>> \in Seq(Inner)
      BY <2>2, <2>3
    <3>2. Become(w, <<[Frame("succ") EXCEPT !.todo = Succs[j]]>>)
      BY <1>7, <2>3
    <3> QED
      BY <1>0, <1>3, <1>5, <3>1, <3>2, Becomes
  <2>4. CASE j \notin Nodes
    <3>1. Become(w, <<Frame("finish")>>)
      BY <1>7, <2>4
    <3>2. <<Frame("finish")>> \in Seq(Inner)
      BY <1>4
    <3> QED
      BY <1>0, <1>3, <1>5, <3>1, <3>2, Becomes
  <2> QED
    BY <2>3, <2>4
<1> QED
  BY <1>2, <1>3, <1>6, <1>7 DEF Body

LEMMA SuccessorStep ==
    ASSUME SchedInv, NEW w \in Workers, Successor(w)
    PROVE  Values' /\ Kept(stack, stack')
<1>0. w \in Threads /\ 0 \in 0..N
  BY SchedulerAssumption DEF Threads
<1>1. Top(w) \in Sound /\ Top(w).op = "succ"
  BY <1>0, TopIs DEF SchedInv, Successor
<1>2. PICK f \in Sound : f = Top(w)
  BY <1>1
<1>3. f \in Inner /\ f.todo \in Seq(Nodes)
  BY <1>1, <1>2, FieldsAre DEF Inner, LoopOps
<1>4. CASE f.todo = <<>> /\ Goto(w, "finish") /\ UNCHANGED numDeps
  <2>1. Values'
    BY <1>4 DEF SchedInv, Values, Successor, shared, history
  <2>2. Kept(stack, stack')
    BY <1>0, <1>4, Goes DEF SchedInv, Successor, CallOps, ProcessOps, HoldOps, NodeOps, VisitOps
  <2> QED
    BY <2>1, <2>2
<1>5. ASSUME f.todo # <<>>
      PROVE  Values' /\ Kept(stack, stack')
  <2>1. PICK n \in Nodes : n = Head(f.todo)
    BY <1>3, <1>5, TailIsSeq
  <2>2. PICK rest \in Inner : rest = [f EXCEPT !.todo = Tail(f.todo)]
    BY <1>3, <1>5, TailIsSeq, SetTodo
  <2>3. rest = [f EXCEPT !.todo = Tail(@)]
    BY <2>2
  <2>4. /\ numDeps' = [numDeps EXCEPT ![n] = @ - 1]
        /\ Become(w, IF numDeps[n] = 1 THEN <<EnqueueFrame(n, 0), rest>> ELSE <<rest>>)
    BY <1>2, <1>5, <2>1, <2>3 DEF Successor
  <2>5. Values'
    BY <2>4 DEF SchedInv, Values, Successor, shared, history
  <2>6. EnqueueFrame(n, 0) \in Inner
    BY <1>0, NewEnqueue DEF Jobs
  <2>7. <<EnqueueFrame(n, 0), rest>> \in Seq(Inner) /\ <<rest>> \in Seq(Inner)
    BY <2>6
  <2>8. (IF numDeps[n] = 1 THEN <<EnqueueFrame(n, 0), rest>> ELSE <<rest>>) \in Seq(Inner)
    BY <2>7
  <2>9. Kept(stack, stack')
    BY <1>0, <2>4, <2>8, Becomes DEF SchedInv, Successor, CallOps, ProcessOps
  <2> QED
    BY <2>5, <2>9
<1> QED
  BY <1>2, <1>4, <1>5 DEF Successor

LEMMA DoneStep ==
    ASSUME SchedInv, NEW w \in Workers, Again(w) \/ Finish(w)
    PROVE  Values' /\ Kept(stack, stack')
<1>0. w \in Threads
  BY DEF Threads
<1>1. CASE Again(w)
  <2>1. Values'
    BY <1>1 DEF SchedInv, Values, Again, graphVars, history
  <2>2. Kept(stack, stack')
    BY <1>0, <1>1, Goes DEF SchedInv, Again, CallOps, ProcessOps, HoldOps, NodeOps, VisitOps
  <2> QED
    BY <2>1, <2>2
<1>2. CASE Finish(w)
  <2>1. Values'
    BY <1>2 DEF SchedInv, Values, Finish, graphVars, history
  <2>2. Kept(stack, stack')
    BY <1>0, <1>2, Returns DEF SchedInv, Finish, CallOps, ProcessOps
  <2> QED
    BY <2>1, <2>2
<1> QED
  BY <1>1, <1>2

-----------------------------------------------------------------------------
(* enqueue_() and wake_any_worker_().                                       *)

LEMMA EnqueueHintStep ==
    ASSUME SchedInv, NEW t \in Threads, EnqueueHint(t)
    PROVE  Values' /\ Kept(stack, stack')
<1>1. Stacks(stack) /\ At(t, "e_hint") /\ "e_hint" \in CallOps
  BY DEF SchedInv, EnqueueHint, CallOps, EnqueueOps
<1>2. Top(t) \in Sound /\ Top(t).op = "e_hint"
  BY <1>1, TopIs
<1>3. PICK j \in Jobs : j = Top(t).job
  BY <1>2, FieldsAre DEF HoldOps
<1>4. Values'
  BY DEF SchedInv, Values, EnqueueHint, shared, graphVars, history
<1>5. CASE Goto(t, "e_local")
  <2>1. Kept(stack, stack')
    BY <1>1, <1>5, Goes DEF CallOps, EnqueueOps, HoldOps, NodeOps, VisitOps
  <2> QED
    BY <1>4, <2>1
<1>6. CASE Become(t, <<EnqueueFrame(j, 0)>>)
  <2>1. <<EnqueueFrame(j, 0)>> \in Seq(Inner)
    BY SchedulerAssumption, NewEnqueue
  <2> QED
    BY <1>1, <1>4, <1>6, <2>1, Becomes
<1> QED
  BY <1>3, <1>5, <1>6 DEF EnqueueHint

LEMMA PushIs ==
    ASSUME Values, NEW q \in 0..N, NEW j \in Jobs
    PROVE  /\ Push(q, j) => queue' \in [0..N -> [Jobs -> Nat]]
           /\ Pop(q, j) => queue' \in [0..N -> [Jobs -> Nat]]
<1>1. queue \in [0..N -> [Jobs -> Nat]] /\ queue[q] \in [Jobs -> Nat] /\ queue[q][j] \in Nat
  BY DEF Values
<1>2. ASSUME Push(q, j)
      PROVE  queue' \in [0..N -> [Jobs -> Nat]]
  BY <1>1, <1>2 DEF Push
<1>3. ASSUME Pop(q, j)
      PROVE  queue' \in [0..N -> [Jobs -> Nat]]
  BY <1>1, <1>3 DEF Pop
<1> QED
  BY <1>2, <1>3

LEMMA PushLocalStep ==
    ASSUME SchedInv, NEW t \in Threads, PushLocal(t)
    PROVE  Values' /\ Kept(stack, stack')
<1>1. Stacks(stack) /\ At(t, "e_local") /\ "e_local" \in CallOps /\ Values
  BY DEF SchedInv, PushLocal, CallOps, EnqueueOps
<1>2. Top(t) \in Sound /\ Top(t).op = "e_local"
  BY <1>1, TopIs
<1>3. Top(t).job \in Jobs /\ Top(t).to \in 0..N
  BY <1>2, FieldsAre DEF HoldOps
<1>4. queue' \in [0..N -> [Jobs -> Nat]]
  BY <1>1, <1>3, PushIs DEF PushLocal, Values
<1>5. Values'
  BY <1>4 DEF SchedInv, Values, PushLocal, graphVars, history
<1>6. Goto(t, "e_count") \/ Goto(t, "e_full")
  BY DEF PushLocal
<1>7. Kept(stack, stack')
  BY <1>1, <1>6, Goes DEF CallOps, EnqueueOps, HoldOps, NodeOps, VisitOps
<1> QED
  BY <1>5, <1>7

LEMMA DisplaceStep ==
    ASSUME SchedInv, NEW t \in Threads, Displace(t)
    PROVE  Values' /\ Kept(stack, stack')
<1>1. Stacks(stack) /\ At(t, "e_full") /\ "e_full" \in CallOps /\ Values
  BY DEF SchedInv, Displace, CallOps, EnqueueOps
<1>2. Top(t) \in Sound /\ Top(t).op = "e_full"
  BY <1>1, TopIs
<1>3. Top(t).job \in Jobs /\ Top(t).to \in 0..N
  BY <1>2, FieldsAre DEF HoldOps
<1>4. PICK retry \in Inner : retry = [Top(t) EXCEPT !.op = "e_local"]
  BY <1>2, <1>3, GoneTo DEF CallOps, EnqueueOps, NodeOps, VisitOps
<1>5. CASE \E j \in Jobs : Pop(Top(t).to, j) /\ Become(t, <<JobFrame("e_spill", j), retry>>)
  <2>1. PICK j \in Jobs : Pop(Top(t).to, j) /\ Become(t, <<JobFrame("e_spill", j), retry>>)
    BY <1>5
  <2>2. queue' \in [0..N -> [Jobs -> Nat]]
    BY <1>1, <1>3, <2>1, PushIs
  <2>3. Values'
    BY <2>2 DEF SchedInv, Values, Displace, graphVars, history
  <2>4. JobFrame("e_spill", j) \in Inner
    BY NewJobFrame DEF CallOps, EnqueueOps, NodeOps, VisitOps
  <2>5. <<JobFrame("e_spill", j), retry>> \in Seq(Inner)
    BY <2>4
  <2> QED
    BY <1>1, <2>1, <2>3, <2>5, Becomes
<1>6. CASE Become(t, <<retry>>) /\ UNCHANGED queue
  <2>1. Values'
    BY <1>6 DEF SchedInv, Values, Displace, graphVars, history
  <2>2. <<retry>> \in Seq(Inner)
    OBVIOUS
  <2> QED
    BY <1>1, <1>6, <2>1, <2>2, Becomes
<1> QED
  BY <1>4, <1>5, <1>6 DEF Displace

LEMMA PushStep ==
    ASSUME SchedInv, NEW t \in Threads, Spill(t) \/ PushGlobal(t)
    PROVE  Values' /\ Kept(stack, stack')
<1>1. PICK op \in {"e_spill", "e_global"} : At(t, op)
  BY DEF Spill, PushGlobal
<1>2. Stacks(stack) /\ Values /\ op \in CallOps
  BY DEF SchedInv, CallOps, EnqueueOps
<1>3. Top(t) \in Sound /\ Top(t).op = op
  BY <1>1, <1>2, TopIs
<1>4. Top(t).job \in Jobs /\ 0 \in 0..N
  BY <1>3, FieldsAre, SchedulerAssumption DEF HoldOps
<1>5. queue' \in [0..N -> [Jobs -> Nat]]
  BY <1>2, <1>4, PushIs DEF Spill, PushGlobal
<1>6. Values'
  BY <1>5 DEF SchedInv, Values, Spill, PushGlobal, graphVars, history
<1>7. CASE Spill(t)
  <2>1. <<Frame("wake")>> \in Seq(Inner)
    BY NewFrame DEF CallOps, WakeOps, HoldOps, NodeOps
  <2>2. Become(t, <<Frame("wake")>>)
    BY <1>7 DEF Spill
  <2> QED
    BY <1>1, <1>2, <1>6, <2>1, <2>2, Becomes
<1>8. CASE PushGlobal(t)
  <2>1. At(t, "e_global") /\ Goto(t, "e_count")
    BY <1>8 DEF PushGlobal
  <2>2. Kept(stack, stack')
    BY <1>2, <2>1, Goes DEF CallOps, EnqueueOps, HoldOps, NodeOps, VisitOps
  <2> QED
    BY <1>6, <2>2
<1> QED
  BY <1>7, <1>8

LEMMA CountStep ==
    ASSUME SchedInv, NEW t \in Threads, Count(t)
    PROVE  Values' /\ Kept(stack, stack')
<1>1. Stacks(stack) /\ At(t, "e_count") /\ "e_count" \in CallOps
  BY DEF SchedInv, Count, CallOps, EnqueueOps
<1>2. Values'
  BY DEF SchedInv, Values, Count, graphVars, history
<1>3. Become(t, <<Frame("wake")>>) \/ Goto(t, "e_store")
  BY DEF Count
<1>4. <<Frame("wake")>> \in Seq(Inner)
  BY NewFrame DEF CallOps, WakeOps, HoldOps, NodeOps
<1>5. Become(t, <<Frame("wake")>>) => Kept(stack, stack')
  BY <1>1, <1>4, Becomes
<1>6. Goto(t, "e_store") => Kept(stack, stack')
  BY <1>1, Goes DEF CallOps, EnqueueOps, HoldOps, NodeOps, VisitOps
<1> QED
  BY <1>2, <1>3, <1>5, <1>6

LEMMA WakeWorkerStep ==
    ASSUME SchedInv, NEW t \in Threads, WakeStore(t) \/ WakeNotify(t)
    PROVE  Values' /\ Kept(stack, stack')
<1>1. CASE WakeStore(t)
  <2>1. Stacks(stack) /\ At(t, "e_store") /\ Goto(t, "e_notify")
    BY <1>1 DEF SchedInv, WakeStore
  <2>2. Kept(stack, stack')
    BY <2>1, Goes DEF CallOps, EnqueueOps, HoldOps, NodeOps, VisitOps
  <2>3. status' = [status EXCEPT ![Top(t).to] = 2] /\ Values /\ 2 \in 0..2
    BY <1>1 DEF SchedInv, WakeStore
  <2>4. status' \in [Workers -> 0..2]
    BY <2>3, StatusIs
  <2>5. Values'
    BY <1>1, <2>4 DEF SchedInv, Values, WakeStore, graphVars, history
  <2> QED
    BY <2>2, <2>5
<1>2. CASE WakeNotify(t)
  <2>1. Stacks(stack) /\ At(t, "e_notify") /\ "e_notify" \in CallOps
    BY <1>2 DEF SchedInv, WakeNotify, CallOps, EnqueueOps
  <2>2. <<Frame("wake")>> \in Seq(Inner) /\ <<>> \in Seq(Inner)
    BY NewFrame, EmptySeq DEF CallOps, WakeOps, HoldOps, NodeOps
  <2>3. PICK fs \in Seq(Inner) : NotifyWorker(t, Top(t).to, fs)
    BY <1>2, <2>2 DEF WakeNotify
  <2>4. Kept(stack, stack')
    BY <2>1, <2>3, NotifiesWorker
  <2>5. Values'
    BY <1>2 DEF SchedInv, Values, WakeNotify, shared, graphVars, history
  <2> QED
    BY <2>4, <2>5
<1> QED
  BY <1>1, <1>2

LEMMA BumpIs ==
    ASSUME steal \in 0..(N - 1), Bump
    PROVE  steal' \in 0..(N - 1)
BY SchedulerAssumption DEF Bump

LEMMA WakeScanStep ==
    ASSUME SchedInv, NEW t \in Threads, WakeScan(t)
    PROVE  Values' /\ Kept(stack, stack')
<1>1. Stacks(stack) /\ At(t, "wake") /\ "wake" \in CallOps /\ Values
  BY DEF SchedInv, WakeScan, CallOps, WakeOps
<1>2. Top(t) \in Sound /\ Top(t).op = "wake"
  BY <1>1, TopIs
<1>3. PICK i \in 1..(N + 1) : i = Top(t).pos
  BY <1>2, FieldsAre
<1>4. Frame("w_notify") \in Inner /\ Top(t) \in Inner
  BY <1>2, NewFrame DEF CallOps, WakeOps, HoldOps, NodeOps, Inner, LoopOps
<1>5. CASE /\ i <= N /\ status[i] = 0
           /\ status' = [status EXCEPT ![i] = 2]
           /\ Become(t, <<[Frame("w_notify") EXCEPT !.to = i]>>)
           /\ UNCHANGED steal
  <2>1. i \in 0..N
    BY <1>5
  <2>2. <<[Frame("w_notify") EXCEPT !.to = i]>> \in Seq(Inner)
    BY <1>4, <2>1, SetTo
  <2>3. status' \in [Workers -> 0..2]
    <3>1. 2 \in 0..2 /\ status' = [status EXCEPT ![i] = 2]
      BY <1>5
    <3> QED
      BY <1>1, <3>1, StatusIs
  <2>4. Values'
    BY <1>5, <2>3 DEF SchedInv, Values, WakeScan, graphVars, history
  <2> QED
    BY <1>1, <1>5, <2>2, <2>4, Becomes
<1>6. CASE /\ i <= N
           /\ Become(t, <<[Top(t) EXCEPT !.pos = i + 1]>>)
           /\ UNCHANGED <<status, steal>>
  <2>1. i + 1 \in 1..(N + 1)
    BY <1>6, SchedulerAssumption
  <2>2. <<[Top(t) EXCEPT !.pos = i + 1]>> \in Seq(Inner)
    BY <1>2, <1>4, <2>1, SetPos DEF VisitOps
  <2>3. Values'
    BY <1>6 DEF SchedInv, Values, WakeScan, graphVars, history
  <2> QED
    BY <1>1, <1>6, <2>2, <2>3, Becomes
<1>7. CASE /\ Bump
           /\ Become(t, <<[Frame("w_notify") EXCEPT !.to = steal + 1]>>)
           /\ UNCHANGED status
  <2>1. steal + 1 \in 0..N
    BY <1>1, SchedulerAssumption DEF Values
  <2>2. <<[Frame("w_notify") EXCEPT !.to = steal + 1]>> \in Seq(Inner)
    BY <1>4, <2>1, SetTo
  <2>3. steal' \in 0..(N - 1)
    BY <1>1, <1>7, BumpIs DEF Values
  <2>4. Values'
    BY <1>7, <2>3 DEF SchedInv, Values, WakeScan, graphVars, history
  <2> QED
    BY <1>1, <1>7, <2>2, <2>4, Becomes
<1> QED
  BY <1>3, <1>5, <1>6, <1>7 DEF WakeScan

LEMMA WakeOneStep ==
    ASSUME SchedInv, NEW t \in Threads, WakeOne(t)
    PROVE  Values' /\ Kept(stack, stack')
<1>1. Stacks(stack) /\ At(t, "w_notify") /\ "w_notify" \in CallOps
  BY DEF SchedInv, WakeOne, CallOps, WakeOps
<1>2. NotifyWorker(t, Top(t).to, <<>>)
  BY DEF WakeOne
<1>3. <<>> \in Seq(Inner)
  BY EmptySeq
<1>4. Kept(stack, stack')
  BY <1>1, <1>2, <1>3, NotifiesWorker
<1>5. Values'
  BY DEF SchedInv, Values, WakeOne, shared, graphVars, history
<1> QED
  BY <1>4, <1>5

-----------------------------------------------------------------------------
(* The clients' calls.                                                      *)

LEMMA CallFrameIs ==
    ASSUME NEW call \in Call
    PROVE  CallFrame(call) \in Inner
<1>1. /\ call.op = "enqueue" => call.job \in Jobs /\ call.to \in 0..N
      /\ call.op = "schedule" => call.job \in Nodes
      /\ call.op \in {"enqueue", "schedule", "submit", "wait", "pause", "resume", "shutdown"}
  BY DEF Call, Jobs
<1>2. CASE call.op = "enqueue"
  <2>1. CallFrame(call) = EnqueueFrame(call.job, call.to)
    BY <1>2 DEF CallFrame
  <2> QED
    BY <1>1, <1>2, <2>1, NewEnqueue
<1>3. CASE call.op = "schedule"
  <2>1. CallFrame(call) = JobFrame("schedule", call.job)
    BY <1>3 DEF CallFrame
  <2>2. "schedule" \in CallOps /\ "schedule" \notin VisitOps
    BY DEF CallOps, ClientOps, VisitOps
  <2> QED
    BY <1>1, <1>3, <2>1, <2>2, NewJobFrame DEF Jobs
<1>4. CASE call.op = "submit"
  <2>1. CallFrame(call) = [Frame("s_next") EXCEPT !.todo = Order]
    BY <1>4 DEF CallFrame
  <2>2. Frame("s_next") \in Inner
    BY NewFrame DEF CallOps, ClientOps, HoldOps, NodeOps
  <2> QED
    BY <2>1, <2>2, SetTodo, SchedulerAssumption
<1>5. CASE call.op = "shutdown"
  <2>1. CallFrame(call) = Frame("unpause")
    BY <1>5 DEF CallFrame
  <2> QED
    BY <2>1, NewFrame DEF CallOps, ClientOps, HoldOps, NodeOps
<1>6. CASE call.op \in {"wait", "pause", "resume"}
  <2>1. CallFrame(call) = Frame(call.op)
    BY <1>6 DEF CallFrame
  <2> QED
    BY <1>6, <2>1, NewFrame DEF CallOps, ClientOps, HoldOps, NodeOps
<1> QED
  BY <1>1, <1>2, <1>3, <1>4, <1>5, <1>6

LEMMA BeginStep ==
    ASSUME SchedInv, NEW c \in Clients, Begin(c)
    PROVE  Values' /\ Kept(stack, stack')
<1>1. PICK call \in Call : call = Script[c][at[c]]
  <2>1. at[c] \in Nat \ {0} /\ at[c] <= Len(Script[c]) /\ Script[c] \in Seq(Call)
    BY SchedulerAssumption DEF SchedInv, Values, Begin
  <2>2. at[c] \in 1..Len(Script[c])
    BY <2>1
  <2> QED
    BY <2>1, <2>2, ElementOfSeq
<1>2. stack' = [stack EXCEPT ![c] = <<CallFrame(call)>>]
  BY <1>1 DEF Begin
<1>3. <<CallFrame(call)>> \in Seq(Sound)
  <2>1. CallFrame(call) \in Sound
    BY CallFrameIs DEF Inner
  <2> QED
    BY <2>1
<1>4. stack \in [Threads -> Seq(Sound)]
  BY DEF SchedInv, Stacks
<1>5. stack' \in [Threads -> Seq(Sound)]
  BY <1>2, <1>3, <1>4
<1>6. \A w \in Workers : stack'[w] = stack[w]
  BY <1>2, <1>4, SchedulerAssumption DEF Threads
<1>7. Kept(stack, stack')
  BY <1>5, <1>6 DEF SchedInv, Stacks, Kept
<1>8. Values'
  BY DEF SchedInv, Values, Begin, shared, history
<1> QED
  BY <1>7, <1>8

LEMMA SubmitNextStep ==
    ASSUME SchedInv, NEW c \in Clients, SubmitNext(c)
    PROVE  Values' /\ Kept(stack, stack')
<1>0. c \in Threads
  BY DEF Threads
<1>1. Stacks(stack) /\ At(c, "s_next") /\ "s_next" \in CallOps
  BY DEF SchedInv, SubmitNext, CallOps, ClientOps
<1>2. PICK f \in Inner : f = Top(c)
  BY <1>0, <1>1, TopIs DEF Inner, LoopOps
<1>3. f.todo \in Seq(Nodes)
  BY FieldsAre DEF Inner
<1>4. Values'
  BY DEF SchedInv, Values, SubmitNext, shared, graphVars, history
<1>5. CASE f.todo = <<>>
  <2>1. Become(c, <<>>)
    BY <1>2, <1>5 DEF SubmitNext
  <2> QED
    BY <1>0, <1>1, <1>4, <2>1, Returns
<1>6. CASE f.todo # <<>>
  <2>1. PICK n \in Nodes : n = Head(f.todo)
    BY <1>3, <1>6, TailIsSeq
  <2>2. PICK rest \in Inner : rest = [f EXCEPT !.todo = Tail(f.todo)]
    BY <1>3, <1>6, TailIsSeq, SetTodo
  <2>3. rest = [f EXCEPT !.todo = Tail(@)]
    BY <2>2
  <2>4. JobFrame("schedule", n) \in Inner
    BY NewJobFrame DEF CallOps, ClientOps, VisitOps, Jobs
  <2>5. <<JobFrame("schedule", n), rest>> \in Seq(Inner) /\ <<rest>> \in Seq(Inner)
    BY <2>4
  <2>6. Become(c, <<JobFrame("schedule", n), rest>>) \/ Become(c, <<rest>>)
    BY <1>2, <1>6, <2>1, <2>3 DEF SubmitNext
  <2> QED
    BY <1>0, <1>1, <1>4, <2>5, <2>6, Becomes
<1> QED
  BY <1>5, <1>6

LEMMA ScheduleStep ==
    ASSUME SchedInv, NEW c \in Clients, Schedule(c)
    PROVE  Values' /\ Kept(stack, stack')
<1>0. c \in Threads
  BY DEF Threads
<1>1. Stacks(stack) /\ At(c, "schedule") /\ "schedule" \in CallOps
  BY DEF SchedInv, Schedule, CallOps, ClientOps
<1>2. Values'
  BY DEF SchedInv, Values, Schedule, shared, history
<1>3. Goto(c, "s_load") \/ Become(c, <<>>)
  BY DEF Schedule
<1>4. Goto(c, "s_load") => Kept(stack, stack')
  BY <1>0, <1>1, Goes DEF CallOps, ClientOps, HoldOps, NodeOps, VisitOps
<1>5. Become(c, <<>>) => Kept(stack, stack')
  BY <1>0, <1>1, Returns
<1> QED
  BY <1>2, <1>3, <1>4, <1>5

LEMMA ScheduleLoadStep ==
    ASSUME SchedInv, NEW c \in Clients, ScheduleLoad(c)
    PROVE  Values' /\ Kept(stack, stack')
<1>0. c \in Threads
  BY DEF Threads
<1>1. Stacks(stack) /\ At(c, "s_load") /\ "s_load" \in CallOps
  BY DEF SchedInv, ScheduleLoad, CallOps, ClientOps
<1>2. Top(c) \in Sound /\ Top(c).op = "s_load"
  BY <1>0, <1>1, TopIs
<1>3. PICK n \in Nodes : n = Top(c).job
  BY <1>2, FieldsAre DEF NodeOps
<1>4. Values'
  BY DEF SchedInv, Values, ScheduleLoad, shared, graphVars, history
<1>5. CASE Become(c, <<EnqueueFrame(n, 0)>>)
  <2>1. <<EnqueueFrame(n, 0)>> \in Seq(Inner)
    BY SchedulerAssumption, NewEnqueue DEF Jobs
  <2> QED
    BY <1>0, <1>1, <1>4, <1>5, <2>1, Becomes
<1>6. CASE Become(c, [i \in DOMAIN Preds[n] |-> JobFrame("schedule", Preds[n][i])])
  <2>1. Preds[n] \in Seq(Nodes)
    BY SchedulerAssumption
  <2>2. PICK p \in Seq(Nodes) : p = Preds[n]
    BY <2>1
  <2>3. ASSUME NEW i \in 1..Len(p)
        PROVE  JobFrame("schedule", p[i]) \in Inner
    <3>1. p[i] \in Nodes
      BY ElementOfSeq
    <3> QED
      BY <3>1, NewJobFrame DEF CallOps, ClientOps, VisitOps, Jobs
  <2>4. [i \in 1..Len(p) |-> JobFrame("schedule", p[i])] \in Seq(Inner)
    BY <2>3, IsASeq, LenProperties
  <2>5. DOMAIN p = 1..Len(p)
    BY LenProperties
  <2>6. [i \in DOMAIN Preds[n] |-> JobFrame("schedule", Preds[n][i])] \in Seq(Inner)
    BY <2>2, <2>4, <2>5
  <2>7. PICK fs \in Seq(Inner) : Become(c, fs)
    BY <1>6, <2>6
  <2> QED
    BY <1>0, <1>1, <1>4, <2>7, Becomes
<1>7. \/ Become(c, <<EnqueueFrame(n, 0)>>)
      \/ Become(c, [i \in DOMAIN Preds[n] |-> JobFrame("schedule", Preds[n][i])])
  BY <1>3 DEF ScheduleLoad
<1> QED
  BY <1>5, <1>6, <1>7

LEMMA WaitStep ==
    ASSUME SchedInv, NEW c \in Clients, Wait(c)
    PROVE  Values' /\ Kept(stack, stack')
<1>0. c \in Threads
  BY DEF Threads
<1>1. Stacks(stack) /\ At(c, "wait") /\ "wait" \in CallOps
  BY DEF SchedInv, Wait, CallOps, ClientOps
<1>2. PICK f \in Inner : f = Top(c)
  BY <1>0, <1>1, TopIs DEF Inner, LoopOps
<1>3. Values'
  BY DEF SchedInv, Values, Wait, shared, graphVars, history
<1>4. Frame("wake") \in Inner
  BY NewFrame DEF CallOps, WakeOps, HoldOps, NodeOps
<1>5. <<Frame("wake"), f>> \in Seq(Inner) /\ <<>> \in Seq(Inner)
  BY <1>4, EmptySeq
<1>6. Become(c, <<>>) \/ Become(c, <<Frame("wake"), f>>)
  BY <1>2 DEF Wait
<1> QED
  BY <1>0, <1>1, <1>3, <1>5, <1>6, Becomes

LEMMA PauseStep ==
    ASSUME SchedInv, NEW c \in Clients, Pause(c)
    PROVE  Values' /\ Kept(stack, stack')
<1>0. c \in Threads
  BY DEF Threads
<1>1. Stacks(stack) /\ At(c, "pause") /\ "pause" \in CallOps /\ Become(c, <<>>)
  BY DEF SchedInv, Pause, CallOps, ClientOps
<1>2. Values'
  BY DEF SchedInv, Values, Pause, graphVars
<1>3. Kept(stack, stack')
  BY <1>0, <1>1, Returns
<1> QED
  BY <1>2, <1>3

LEMMA ResumeStep ==
    ASSUME SchedInv, NEW c \in Clients, Resume(c)
    PROVE  Values' /\ Kept(stack, stack')
<1>0. c \in Threads
  BY DEF Threads
<1>1. Values'
  BY DEF SchedInv, Values, Resume, graphVars, history
<1>2. CASE At(c, "resume") /\ (Goto(c, "r_notify") \/ Become(c, <<>>))
  <2>1. Stacks(stack) /\ "resume" \in CallOps
    BY DEF SchedInv, CallOps, ClientOps
  <2>2. Goto(c, "r_notify") => Kept(stack, stack')
    BY <1>0, <1>2, <2>1, Goes DEF CallOps, ClientOps, HoldOps, NodeOps, VisitOps
  <2>3. Become(c, <<>>) => Kept(stack, stack')
    BY <1>0, <1>2, <2>1, Returns
  <2> QED
    BY <1>1, <1>2, <2>2, <2>3
<1>3. CASE At(c, "r_notify") /\ NotifyPaused(c, <<Frame("wake")>>)
  <2>1. Stacks(stack) /\ "r_notify" \in CallOps
    BY DEF SchedInv, CallOps, ClientOps
  <2>2. <<Frame("wake")>> \in Seq(Inner)
    BY NewFrame DEF CallOps, WakeOps, HoldOps, NodeOps
  <2> QED
    BY <1>0, <1>1, <1>3, <2>1, <2>2, NotifiesPaused
<1> QED
  BY <1>2, <1>3 DEF Resume

LEMMA ShutdownResumeStep ==
    ASSUME SchedInv, NEW c \in Clients, ShutdownResume(c)
    PROVE  Values' /\ Kept(stack, stack')
<1>0. c \in Threads
  BY DEF Threads
<1>1. Values'
  BY DEF SchedInv, Values, ShutdownResume, graphVars, history
<1>2. CASE At(c, "unpause") /\ Goto(c, "u_notify")
  <2>1. Kept(stack, stack')
    BY <1>0, <1>2, Goes DEF SchedInv, CallOps, ClientOps, HoldOps, NodeOps, VisitOps
  <2> QED
    BY <1>1, <2>1
<1>3. CASE At(c, "u_notify") /\ NotifyPaused(c, <<Frame("request_stop")>>)
  <2>1. Stacks(stack) /\ "u_notify" \in CallOps
    BY DEF SchedInv, CallOps, ClientOps
  <2>2. <<Frame("request_stop")>> \in Seq(Inner)
    BY NewFrame DEF CallOps, ClientOps, HoldOps, NodeOps
  <2> QED
    BY <1>0, <1>1, <1>3, <2>1, <2>2, NotifiesPaused
<1> QED
  BY <1>2, <1>3 DEF ShutdownResume

\* The frame for the next worker.
LEMMA NextWorker ==
    ASSUME NEW f \in Inner, NEW op \in VisitOps, f.pos < N
    PROVE  <<[f EXCEPT !.op = op, !.pos = @ + 1]>> \in Seq(Inner)
<1>1. f \in Frames /\ f.pos \in 1..(N + 1) /\ f.pos + 1 \in 1..(N + 1) /\ f.pos + 1 <= N
  BY SchedulerAssumption DEF Inner, Sound, Frames
<1> DEFINE g == [f EXCEPT !.op = op, !.pos = @ + 1]
<1>2. op \in ClientOps /\ op \notin LoopOps /\ op \notin HoldOps /\ op \notin NodeOps
  BY DEF VisitOps, ClientOps, LoopOps, HoldOps, NodeOps
<1>3. g \in Frames /\ g.op = op /\ g.pos = f.pos + 1
  BY <1>1, <1>2 DEF Frames
<1>4. g \in Inner
  BY <1>1, <1>2, <1>3 DEF Inner, Sound
<1> QED
  BY <1>4

LEMMA Advances ==
    ASSUME Stacks(stack), NEW c \in Threads, NEW op \in VisitOps, At(c, op),
           NEW next \in Seq(Inner), Advance(c, op, next)
    PROVE  Kept(stack, stack')
<1>1. op \in CallOps /\ op \notin LoopOps
  BY DEF VisitOps, CallOps, ClientOps, LoopOps
<1>2. PICK f \in Inner : f = Top(c)
  BY <1>1, TopIs DEF Inner
<1>3. CASE f.pos < N
  <2>1. <<[f EXCEPT !.op = op, !.pos = @ + 1]>> \in Seq(Inner)
    BY <1>3, NextWorker
  <2>2. Become(c, <<[f EXCEPT !.op = op, !.pos = @ + 1]>>)
    BY <1>2, <1>3 DEF Advance
  <2> QED
    BY <1>1, <2>1, <2>2, Becomes
<1>4. CASE ~(f.pos < N)
  <2>1. Become(c, next)
    BY <1>2, <1>4 DEF Advance
  <2> QED
    BY <1>1, <2>1, Becomes
<1> QED
  BY <1>3, <1>4

LEMMA ShutdownStopStep ==
    ASSUME SchedInv, NEW c \in Clients, ShutdownStop(c)
    PROVE  Values' /\ Kept(stack, stack')
<1>0. c \in Threads
  BY DEF Threads
<1>1. Stacks(stack) /\ At(c, "request_stop") /\ "request_stop" \in VisitOps
  BY DEF SchedInv, ShutdownStop, VisitOps
<1>2. Top(c) \in Sound /\ Top(c).op = "request_stop"
  BY <1>0, <1>1, TopIs
<1>3. Top(c).pos \in Workers
  BY <1>1, <1>2, FieldsAre, SchedulerAssumption DEF Workers
<1>4. Values'
  BY <1>3 DEF SchedInv, Values, ShutdownStop, graphVars, history
<1>5. <<Frame("stop_store")>> \in Seq(Inner)
  BY NewFrame DEF CallOps, ClientOps, HoldOps, NodeOps
<1>6. Advance(c, "request_stop", <<Frame("stop_store")>>)
  BY DEF ShutdownStop
<1> QED
  BY <1>0, <1>1, <1>4, <1>5, <1>6, Advances

LEMMA ShutdownWakeStep ==
    ASSUME SchedInv, NEW c \in Clients, ShutdownWake(c)
    PROVE  Values' /\ Kept(stack, stack')
<1>0. c \in Threads
  BY DEF Threads
<1>1. CASE At(c, "stop_store") /\ status' = [status EXCEPT ![Top(c).pos] = 2] /\ Goto(c, "stop_notify")
  <2>1. status' \in [Workers -> 0..2]
    <3>1. Values /\ 2 \in 0..2 /\ status' = [status EXCEPT ![Top(c).pos] = 2]
      BY <1>1 DEF SchedInv
    <3> QED
      BY <3>1, StatusIs
  <2>2. Values'
    BY <2>1 DEF SchedInv, Values, ShutdownWake, graphVars, history
  <2>3. Kept(stack, stack')
    BY <1>0, <1>1, Goes DEF SchedInv, CallOps, ClientOps, HoldOps, NodeOps, VisitOps
  <2> QED
    BY <2>2, <2>3
<1>2. CASE /\ At(c, "stop_notify")
           /\ NotifyWorker(c, Top(c).pos,
                IF Top(c).pos < N THEN <<[Top(c) EXCEPT !.op = "stop_store", !.pos = @ + 1]>>
                ELSE <<Frame("join")>>)
           /\ UNCHANGED status
  <2>1. Stacks(stack) /\ "stop_notify" \in CallOps /\ "stop_store" \in VisitOps
    BY DEF SchedInv, CallOps, ClientOps, VisitOps
  <2>2. PICK f \in Inner : f = Top(c)
    BY <1>0, <1>2, <2>1, TopIs DEF Inner, LoopOps
  <2>3. f.pos < N => <<[f EXCEPT !.op = "stop_store", !.pos = @ + 1]>> \in Seq(Inner)
    BY <2>1, NextWorker
  <2>4. <<Frame("join")>> \in Seq(Inner)
    BY NewFrame DEF CallOps, ClientOps, HoldOps, NodeOps
  <2>5. PICK fs \in Seq(Inner) : NotifyWorker(c, f.pos, fs)
    <3>1. CASE f.pos < N
      BY <1>2, <2>2, <2>3, <3>1
    <3>2. CASE ~(f.pos < N)
      BY <1>2, <2>2, <2>4, <3>2
    <3> QED
      BY <3>1, <3>2
  <2>6. Kept(stack, stack')
    BY <1>0, <1>2, <2>1, <2>5, NotifiesWorker
  <2>7. Values'
    BY <1>2 DEF SchedInv, Values, ShutdownWake, graphVars, history
  <2> QED
    BY <2>6, <2>7
<1> QED
  BY <1>1, <1>2 DEF ShutdownWake

LEMMA ShutdownJoinStep ==
    ASSUME SchedInv, NEW c \in Clients, ShutdownJoin(c)
    PROVE  Values' /\ Kept(stack, stack')
<1>0. c \in Threads
  BY DEF Threads
<1>1. Stacks(stack) /\ At(c, "join") /\ "join" \in VisitOps /\ <<>> \in Seq(Inner)
  BY EmptySeq DEF SchedInv, ShutdownJoin, VisitOps
<1>2. Values'
  BY DEF SchedInv, Values, ShutdownJoin, shared, graphVars, history
<1>3. Advance(c, "join", <<>>)
  BY DEF ShutdownJoin
<1> QED
  BY <1>0, <1>1, <1>2, <1>3, Advances

-----------------------------------------------------------------------------
(* worker_loop_().                                                          *)

LEMMA LoopBecomes ==
    ASSUME Stacks(stack), NEW w \in Workers, NEW op \in LoopOps, At(w, op),
           NEW f \in Sound, f.op \in LoopOps, Become(w, <<f>>)
    PROVE  Turn(w, stack, stack', op, f.op)
<1>1. stack[w] # <<>> /\ Head(stack[w]).op = op
  BY TopIs DEF Threads
<1>2. PICK fs \in Seq(Sound) : fs = <<f>> /\ stack' = [stack EXCEPT ![w] = fs \o Tail(@)]
  <2>1. <<f>> \in Seq(Sound)
    OBVIOUS
  <2> QED
    BY <2>1 DEF Become, Replaced
<1>3. Head(stack[w]).op \in LoopOps
  BY <1>1
<1>4. Turn(w, stack, stack', Head(stack[w]).op, f.op)
  BY <1>1, <1>2, <1>3, LoopStep
<1> QED
  BY <1>1, <1>4

LEMMA LoopFrame ==
    ASSUME NEW f \in Sound, NEW op \in LoopOps
    PROVE  [f EXCEPT !.op = op] \in Sound /\ [f EXCEPT !.op = op].op = op
<1>1. op \notin HoldOps /\ op \notin NodeOps /\ op \notin VisitOps
  BY DEF LoopOps, HoldOps, NodeOps, VisitOps
<1>2. [f EXCEPT !.op = op] \in Frames /\ [f EXCEPT !.op = op].op = op
  BY DEF Sound, Frames
<1> QED
  BY <1>1, <1>2 DEF Sound

LEMMA LoopGoes ==
    ASSUME Stacks(stack), NEW w \in Workers, NEW op \in LoopOps, At(w, op),
           NEW op2 \in LoopOps, Goto(w, op2)
    PROVE  Turn(w, stack, stack', op, op2)
<1>1. Top(w) \in Sound
  BY TopIs DEF Threads
<1>2. PICK f \in Sound : f = [Top(w) EXCEPT !.op = op2] /\ f.op = op2
  BY <1>1, LoopFrame
<1>3. Become(w, <<f>>)
  BY <1>2 DEF Goto
<1> QED
  BY <1>2, <1>3, LoopBecomes

\* A turn that begins to look for work does so behind both tests.
LEMMA TurnKeeps ==
    ASSUME PauseKept, NEW w \in Workers, NEW from, NEW to, Turn(w, stack, stack', from, to),
           UNCHANGED <<pauseState, late, stop>>,
           to \in Looking => from \in Looking \/ (from = "stopped" /\ w \notin stop),
           to = "stopped" => pauseState = 0 \/ w \in stop
    PROVE  PauseKept'
<1>1. SUFFICES ASSUME NEW x \in Workers
               PROVE  /\ late[x] <= 1
                      /\ pauseState = 1 /\ late[x] = 1 =>
                            /\ Bottom(stack'[x]) \notin Looking
                            /\ Bottom(stack'[x]) = "stopped" => x \in stop
  BY DEF PauseKept
<1>2. CASE x # w
  BY <1>2 DEF PauseKept, Turn
<1>3. CASE x = w
  BY <1>3 DEF PauseKept, Turn
<1> QED
  BY <1>2, <1>3

\* Taking a job is counted once between two calls of pause().
LEMMA TakeKeeps ==
    ASSUME Values, PauseKept, NEW w \in Workers, NEW from \in Looking,
           Turn(w, stack, stack', from, "top"), UNCHANGED <<pauseState, stop>>,
           late' = [late EXCEPT ![w] = @ + pauseState]
    PROVE  PauseKept'
<1>1. /\ late \in [Workers -> Nat] /\ pauseState \in 0..1
      /\ late'[w] = late[w] + pauseState /\ \A x \in Workers : x # w => late'[x] = late[x]
  BY DEF Values
<1>2. SUFFICES ASSUME NEW x \in Workers
               PROVE  /\ late'[x] <= 1
                      /\ pauseState = 1 /\ late'[x] = 1 =>
                            /\ Bottom(stack'[x]) \notin Looking
                            /\ Bottom(stack'[x]) = "stopped" => x \in stop
  BY DEF PauseKept
<1>3. CASE x # w
  BY <1>1, <1>3 DEF PauseKept, Turn
<1>4. CASE x = w
  <2>1. late[w] \in Nat /\ late[w] <= 1 /\ (pauseState = 1 => late[w] # 1)
    BY <1>1 DEF PauseKept, Turn
  <2>2. late'[w] <= 1
    BY <1>1, <2>1
  <2> QED
    BY <1>4, <2>2 DEF Turn, Looking
<1> QED
  BY <1>3, <1>4

LEMMA LoopGuardStep ==
    ASSUME SchedInv, NEW w \in Workers,
           LoopTop(w) \/ LoopMark(w) \/ LoopPaused(w) \/ LoopStopped(w) \/ LoopCas(w) \/ LoopWait(w)
    PROVE  SchedInv'
<1>0. Stacks(stack) /\ Values /\ PauseKept
  BY DEF SchedInv
<1>1. Values'
  <2>1. CASE LoopMark(w) \/ LoopCas(w)
    <3>1. status' \in [Workers -> 0..2]
      <4>1. \/ status' = [status EXCEPT ![w] = 0] \/ status' = [status EXCEPT ![w] = 1]
            \/ UNCHANGED status
        BY <2>1 DEF LoopMark, LoopCas
      <4>2. 0 \in 0..2 /\ 1 \in 0..2
        OBVIOUS
      <4>3. UNCHANGED status => status' \in [Workers -> 0..2]
        BY <1>0 DEF Values
      <4> QED
        BY <1>0, <4>1, <4>2, <4>3, StatusIs
    <3> QED
      BY <1>0, <2>1, <3>1 DEF Values, LoopMark, LoopCas, graphVars, history
  <2>2. CASE LoopTop(w) \/ LoopPaused(w) \/ LoopStopped(w) \/ LoopWait(w)
    BY <1>0, <2>2 DEF Values, LoopTop, LoopPaused, LoopStopped, LoopWait, shared, graphVars, history
  <2> QED
    BY <2>1, <2>2
<1>2. UNCHANGED <<pauseState, late, stop>>
  BY DEF LoopTop, LoopMark, LoopPaused, LoopStopped, LoopCas, LoopWait, shared, history
<1>3. PICK from \in LoopOps, to \in LoopOps :
         /\ At(w, from) /\ Goto(w, to)
         /\ to \in Looking => from = "stopped" /\ w \notin stop
         /\ to = "stopped" => pauseState = 0 \/ w \in stop
  <2>1. CASE LoopTop(w)
    BY <2>1 DEF LoopTop, LoopOps, Looking
  <2>2. CASE LoopMark(w)
    BY <2>2 DEF LoopMark, LoopOps, Looking
  <2>3. CASE LoopPaused(w)
    BY <2>3 DEF LoopPaused, LoopOps, Looking
  <2>4. CASE LoopStopped(w)
    BY <2>4 DEF LoopStopped, LoopOps, Looking
  <2>5. CASE LoopCas(w)
    BY <2>5 DEF LoopCas, LoopOps, Looking
  <2>6. CASE LoopWait(w)
    BY <2>6 DEF LoopWait, LoopOps, Looking
  <2> QED
    BY <2>1, <2>2, <2>3, <2>4, <2>5, <2>6
<1>4. Turn(w, stack, stack', from, to)
  BY <1>0, <1>3, LoopGoes
<1>5. PauseKept'
  BY <1>0, <1>2, <1>3, <1>4, TurnKeeps
<1> QED
  BY <1>1, <1>4, <1>5 DEF SchedInv, Turn

LEMMA TakeTurn ==
    ASSUME SchedInv, NEW w \in Workers, NEW from \in Looking, At(w, from), NEW q \in 0..N,
           Take(w, q), UNCHANGED <<status, pauseState, remaining, stop, graphVars, at>>
    PROVE  SchedInv'
<1>0. Stacks(stack) /\ Values /\ PauseKept /\ w \in Threads /\ from \in LoopOps
  BY DEF SchedInv, Threads, Looking, LoopOps
<1>1. PICK j \in Jobs : Pop(q, j) /\ Become(w, <<JobFrame("run", j), Frame("top")>>)
  BY DEF Take
<1>2. queue' \in [0..N -> [Jobs -> Nat]]
  BY <1>0, <1>1, PushIs
<1>3. late' = [late EXCEPT ![w] = @ + pauseState] /\ UNCHANGED <<steal, runs, finished>>
  BY DEF Take
<1>4. late' \in [Workers -> Nat]
  BY <1>0, <1>3 DEF Values
<1>5. Values'
  BY <1>0, <1>2, <1>3, <1>4 DEF Values, graphVars
<1>6. JobFrame("run", j) \in Inner
  BY NewJobFrame DEF CallOps, ProcessOps, NodeOps, VisitOps
<1>7. Frame("top") \in Sound /\ Frame("top").op = "top"
  BY FrameIs DEF Sound, LoopOps, HoldOps, NodeOps, VisitOps
<1>8. stack[w] # <<>> /\ Head(stack[w]).op = from
  BY <1>0, TopIs
<1>9. PICK g \in Inner, f \in Sound, fs \in Seq(Sound) :
         /\ f.op = "top" /\ fs = <<g, f>>
         /\ stack' = [stack EXCEPT ![w] = fs \o Tail(@)]
  <2>1. JobFrame("run", j) \in Sound
    BY <1>6 DEF Inner
  <2>2. <<JobFrame("run", j), Frame("top")>> \in Seq(Sound)
    BY <1>7, <2>1
  <2> QED
    BY <1>1, <1>6, <1>7, <2>2 DEF Become, Replaced
<1>10. Turn(w, stack, stack', from, "top")
  <2>1. Head(stack[w]).op \in LoopOps
    BY <1>0, <1>8
  <2>2. Turn(w, stack, stack', Head(stack[w]).op, "top")
    BY <1>0, <1>8, <1>9, <2>1, TakeStep
  <2> QED
    BY <1>8, <2>2
<1>11. PauseKept'
  BY <1>0, <1>3, <1>10, TakeKeeps
<1> QED
  BY <1>5, <1>10, <1>11 DEF SchedInv, Turn

\* A worker that looks for work and has not found any in one place.
LEMMA LookTurn ==
    ASSUME SchedInv, Values', NEW w \in Workers, NEW from \in Looking,
           NEW to \in Looking \cup {"cas"}, Turn(w, stack, stack', from, to),
           UNCHANGED <<pauseState, late, stop>>
    PROVE  SchedInv'
<1>1. PauseKept'
  BY TurnKeeps DEF SchedInv, Looking
<1> QED
  BY <1>1 DEF SchedInv, Turn

LEMMA LoopQueueStep ==
    ASSUME SchedInv, NEW w \in Workers, LoopLocal(w) \/ LoopGlobal(w)
    PROVE  SchedInv'
<1>0. Stacks(stack) /\ w \in 0..N /\ 0 \in 0..N
  BY SchedulerAssumption DEF SchedInv, Workers
<1>1. UNCHANGED <<status, pauseState, remaining, stop, graphVars, at>>
  BY DEF LoopLocal, LoopGlobal
<1>2. PICK from \in Looking : /\ At(w, from)
                              /\ \/ \E q \in 0..N : Take(w, q)
                                 \/ /\ \E to \in {"global", "steal", "cas"} : Goto(w, to)
                                    /\ UNCHANGED <<queue, steal, history>>
  BY <1>0 DEF LoopLocal, LoopGlobal, Looking
<1>3. CASE \E q \in 0..N : Take(w, q)
  BY <1>1, <1>2, <1>3, TakeTurn
<1>4. CASE /\ \E to \in {"global", "steal", "cas"} : Goto(w, to)
           /\ UNCHANGED <<queue, steal, history>>
  <2>1. PICK to \in {"global", "steal", "cas"} : Goto(w, to)
    BY <1>4
  <2>2. to \in LoopOps /\ from \in LoopOps /\ to \in Looking \cup {"cas"}
    BY DEF LoopOps, Looking
  <2>3. Turn(w, stack, stack', from, to)
    BY <1>0, <1>2, <2>1, <2>2, LoopGoes
  <2>4. Values'
    BY <1>1, <1>4 DEF SchedInv, Values, graphVars, history
  <2>5. UNCHANGED <<pauseState, late, stop>>
    BY <1>1, <1>4 DEF history
  <2> QED
    BY <2>2, <2>3, <2>4, <2>5, LookTurn
<1> QED
  BY <1>2, <1>3, <1>4

LEMMA LoopStealStep ==
    ASSUME SchedInv, NEW w \in Workers, LoopSteal(w)
    PROVE  SchedInv'
<1>0. Stacks(stack) /\ Values
  BY DEF SchedInv
<1>1. steal \in 0..N /\ steal' \in 0..(N - 1)
  BY <1>0, BumpIs, SchedulerAssumption DEF Values, LoopSteal
<1>2. Values'
  BY <1>0, <1>1 DEF Values, LoopSteal, graphVars, history
<1>3. Frame("scan") \in Sound /\ Frame("scan").op = "scan"
  BY FrameIs DEF Sound, LoopOps, HoldOps, NodeOps, VisitOps
<1>4. PICK f \in Sound : f = [Frame("scan") EXCEPT !.to = steal] /\ f.op = "scan"
  <2>1. PICK g \in Sound : g = Frame("scan") /\ g.op = "scan"
    BY <1>3
  <2>2. [g EXCEPT !.to = steal] \in Frames /\ [g EXCEPT !.to = steal].op = "scan"
    BY <1>1, <2>1 DEF Sound, Frames
  <2>3. [g EXCEPT !.to = steal] \in Sound
    BY <2>2 DEF Sound, HoldOps, NodeOps, VisitOps
  <2> QED
    BY <2>1, <2>2, <2>3
<1>5. At(w, "steal") /\ Become(w, <<f>>) /\ UNCHANGED <<pauseState, late, stop>>
  BY <1>4 DEF LoopSteal, history
<1>6. Turn(w, stack, stack', "steal", "scan")
  BY <1>0, <1>4, <1>5, LoopBecomes DEF LoopOps
<1> QED
  BY <1>2, <1>5, <1>6, LookTurn DEF Looking

LEMMA LoopScanStep ==
    ASSUME SchedInv, NEW w \in Workers, LoopScan(w)
    PROVE  SchedInv'
<1>0. Stacks(stack) /\ At(w, "scan") /\ w \in Threads
  BY DEF SchedInv, LoopScan, Threads
<1>1. UNCHANGED <<status, pauseState, remaining, stop, graphVars, at>>
  BY DEF LoopScan
<1>2. PICK f \in Sound : f = Top(w) /\ f.op = "scan"
  BY <1>0, TopIs
<1>3. f.to \in 0..N /\ f.pos \in 1..(N + 1)
  BY FieldsAre
<1> DEFINE victim == ((f.to + f.pos - 1) % N) + 1
<1>4. victim \in 0..N
  <2>1. f.to + f.pos - 1 \in Int /\ N \in Nat /\ N > 0
    BY <1>3, SchedulerAssumption
  <2>2. (f.to + f.pos - 1) % N \in 0..(N - 1)
    BY <2>1
  <2> QED
    BY <2>1, <2>2
<1>5. \/ Take(w, victim)
      \/ /\ f.pos <= N /\ Become(w, <<[f EXCEPT !.pos = @ + 1]>>)
         /\ UNCHANGED <<queue, steal, history>>
      \/ Become(w, <<Frame("cas")>>) /\ UNCHANGED <<queue, steal, history>>
  BY <1>2 DEF LoopScan
<1> HIDE DEF victim
<1>6. CASE Take(w, victim)
  BY <1>0, <1>1, <1>4, <1>6, TakeTurn DEF Looking
<1>7. CASE /\ f.pos <= N /\ Become(w, <<[f EXCEPT !.pos = @ + 1]>>)
           /\ UNCHANGED <<queue, steal, history>>
  <2>1. f.pos + 1 \in 1..(N + 1)
    BY <1>3, <1>7, SchedulerAssumption
  <2>2. PICK g \in Sound : g = [f EXCEPT !.pos = @ + 1] /\ g.op = "scan"
    <3>1. /\ [f EXCEPT !.pos = @ + 1] \in Frames /\ [f EXCEPT !.pos = @ + 1].op = "scan"
      BY <1>2, <2>1 DEF Sound, Frames
    <3>2. [f EXCEPT !.pos = @ + 1] \in Sound
      BY <3>1 DEF Sound, HoldOps, NodeOps, VisitOps
    <3> QED
      BY <3>1, <3>2
  <2>3. Turn(w, stack, stack', "scan", "scan")
    BY <1>0, <1>7, <2>2, LoopBecomes DEF LoopOps
  <2>4. Values'
    BY <1>1, <1>7 DEF SchedInv, Values, graphVars, history
  <2>5. UNCHANGED <<pauseState, late, stop>>
    BY <1>1, <1>7 DEF history
  <2> QED
    BY <2>3, <2>4, <2>5, LookTurn DEF Looking
<1>8. CASE Become(w, <<Frame("cas")>>) /\ UNCHANGED <<queue, steal, history>>
  <2>1. PICK g \in Sound : g = Frame("cas") /\ g.op = "cas"
    BY FrameIs DEF Sound, LoopOps, HoldOps, NodeOps, VisitOps
  <2>2. Turn(w, stack, stack', "scan", "cas")
    BY <1>0, <1>8, <2>1, LoopBecomes DEF LoopOps
  <2>3. Values'
    BY <1>1, <1>8 DEF SchedInv, Values, graphVars, history
  <2>4. UNCHANGED <<pauseState, late, stop>>
    BY <1>1, <1>8 DEF history
  <2> QED
    BY <2>2, <2>3, <2>4, LookTurn DEF Looking
<1> QED
  BY <1>5, <1>6, <1>7, <1>8

-----------------------------------------------------------------------------
(* The theorems.                                                            *)

LEMMA SchedInit ==
    ASSUME Init
    PROVE  SchedInv
<1>0. N \in Nat /\ N > 0 /\ 0 \in 0..N /\ 1 \in 1..(N + 1)
  BY SchedulerAssumption
<1>1. Values
  <2>1. \A n \in Nodes : Len(Preds[n]) \in Int
    BY SchedulerAssumption, LenProperties
  <2>2. numDeps \in [Nodes -> Int]
    BY <2>1 DEF Init
  <2>3. steal \in 0..(N - 1)
    BY <1>0 DEF Init
  <2> QED
    BY <2>2, <2>3 DEF Init, Values
<1>2. Frame("top") \in Sound /\ Frame("top").op = "top" /\ "top" \in LoopOps
  BY FrameIs DEF Sound, LoopOps, HoldOps, NodeOps, VisitOps
<1>3. <<Frame("top")>> \in Seq(Sound) /\ Shape(<<Frame("top")>>) /\ <<>> \in Seq(Sound)
  BY <1>2, SingleShape, EmptySeq
<1>4. Stacks(stack)
  BY <1>3 DEF Init, Stacks, Threads
<1>5. PauseKept
  BY DEF Init, PauseKept
<1> QED
  BY <1>1, <1>4, <1>5 DEF SchedInv

LEMMA ClientKeeps ==
    ASSUME SchedInv, NEW c \in Clients, ClientStep(c)
    PROVE  SchedInv'
<1>1. Values' /\ Kept(stack, stack')
  BY BeginStep, SubmitNextStep, ScheduleStep, ScheduleLoadStep, WaitStep, PauseStep, ResumeStep,
     ShutdownResumeStep, ShutdownStopStep, ShutdownWakeStep, ShutdownJoinStep
     DEF ClientStep, shutdown
<1>2. CASE Pause(c)
  <2>1. CASE pauseState = 0
    <3>1. late' = [w \in Workers |-> 0]
      BY <1>2, <2>1 DEF Pause
    <3>2. PauseKept'
      BY <3>1 DEF PauseKept
    <3> QED
      BY <1>1, <3>2 DEF SchedInv, Kept
  <2>2. CASE pauseState # 0
    <3>1. UNCHANGED <<pauseState, late, stop>>
      BY <1>2, <2>2 DEF Pause, SchedInv, Values
    <3>2. PauseKept'
      BY <1>1, <3>1, QuietStep DEF SchedInv
    <3> QED
      BY <1>1, <3>2 DEF SchedInv, Kept
  <2> QED
    BY <2>1, <2>2
<1>3. CASE ~Pause(c)
  <2>1. pauseState' \in {pauseState, 0} /\ UNCHANGED late /\ stop \subseteq stop'
    BY <1>3 DEF ClientStep, shutdown, Begin, SubmitNext, Schedule, ScheduleLoad, Wait, Resume,
       ShutdownResume, ShutdownStop, ShutdownWake, ShutdownJoin, shared, history
  <2>2. PauseKept'
    BY <1>1, <2>1, QuietStep DEF SchedInv
  <2> QED
    BY <1>1, <2>2 DEF SchedInv, Kept
<1> QED
  BY <1>2, <1>3

LEMMA WorkerKeeps ==
    ASSUME SchedInv, NEW w \in Workers, WorkerStep(w)
    PROVE  SchedInv'
<1>1. CASE worker_loop_(w)
  BY <1>1, LoopGuardStep, LoopQueueStep, LoopStealStep, LoopScanStep DEF worker_loop_
<1>2. CASE process_(w)
  <2>1. Values' /\ Kept(stack, stack')
    BY <1>2, RunStep, BodyStep, SuccessorStep, DoneStep DEF process_
  <2>2. UNCHANGED <<pauseState, late, stop>>
    BY <1>2 DEF process_, Run, Body, Successor, Again, Finish, shared, history
  <2>3. PauseKept'
    BY <2>1, <2>2, QuietStep DEF SchedInv
  <2> QED
    BY <2>1, <2>3 DEF SchedInv, Kept
<1> QED
  BY <1>1, <1>2 DEF WorkerStep

LEMMA AnyKeeps ==
    ASSUME SchedInv, NEW t \in Threads, AnyStep(t)
    PROVE  SchedInv'
<1>1. Values' /\ Kept(stack, stack')
  BY EnqueueHintStep, PushLocalStep, DisplaceStep, PushStep, CountStep, WakeWorkerStep,
     WakeScanStep, WakeOneStep DEF AnyStep, enqueue_, wake_any_worker_
<1>2. UNCHANGED <<pauseState, late, stop>>
  BY DEF AnyStep, enqueue_, wake_any_worker_, EnqueueHint, PushLocal, Displace, Spill, PushGlobal,
     Count, WakeStore, WakeNotify, WakeScan, WakeOne, shared, history
<1>3. PauseKept'
  BY <1>1, <1>2, QuietStep DEF SchedInv
<1> QED
  BY <1>1, <1>3 DEF SchedInv, Kept

LEMMA SchedStep ==
    ASSUME SchedInv, [Next]_vars
    PROVE  SchedInv'
<1>1. CASE Next
  BY <1>1, ClientKeeps, WorkerKeeps, AnyKeeps DEF Next
<1>2. CASE UNCHANGED vars
  BY <1>2 DEF vars, SchedInv, Values, Stacks, PauseKept
<1> QED
  BY <1>1, <1>2

\* A worker is in worker_loop_() from its start to its return, with calls above it
\* only while it has a job, and whoever took a job since pause() is out of reach of
\* the queues.
THEOREM SchedInvariant == Spec => []SchedInv
<1> QED
  BY SchedInit, SchedStep, PTL DEF Spec

\* The scheduler's variables keep their types, whatever is submitted, enqueued,
\* paused or shut down, and in whatever order: in particular no count of a queue
\* goes below zero, and no worker outside the scheduler is addressed.
THEOREM SchedulerTypes == Spec => []TypeOK
<1>1. ASSUME SchedInv
      PROVE  TypeOK
  <2>1. Seq(Sound) \subseteq Seq(Frames)
    BY SeqMonotonic DEF Sound
  <2> QED
    BY <1>1, <2>1 DEF SchedInv, Values, Stacks, TypeOK
<1> QED
  BY <1>1, SchedInvariant, PTL

\* pause() returns while workers are still between the test of _pauseState and a
\* queue: each takes at most one more job before it notices.
THEOREM PauseLetsOneThrough == Spec => []PauseHolds
<1>1. ASSUME SchedInv
      PROVE  PauseHolds
  BY <1>1 DEF SchedInv, PauseKept, PauseHolds
<1> QED
  BY <1>1, SchedInvariant, PTL

-----------------------------------------------------------------------------
(* A graph that is submitted once.                                          *)

NoRepeats(s) == \A i, j \in DOMAIN s : s[i] = s[j] => i = j

\* The lists of a node's neighbours are those of one relation.
Linked ==
    /\ \A m, n \in Nodes : n \in ToSet(Succs[m]) <=> m \in ToSet(Preds[n])
    /\ \A n \in Nodes : NoRepeats(Succs[n]) /\ NoRepeats(Preds[n])

\* In this list, a node comes before its predecessors.
PredsLater(todo) ==
    \A i \in DOMAIN todo : \A p \in ToSet(Preds[todo[i]]) : \E j \in DOMAIN todo : i < j /\ todo[j] = p

\* The calls of addNode() and addEdge() made one graph, successors first, since
\* submit() may otherwise find a node that is ready and schedule it again; the
\* graph is submitted once, and no node is scheduled by hand.
GraphRules ==
    /\ Linked
    /\ NoRepeats(Order) /\ PredsLater(Order)
    /\ \A c \in Clients : \A k \in DOMAIN Script[c] : Script[c][k].op # "schedule"
    /\ \A c, d \in Clients : \A k \in DOMAIN Script[c] : \A l \in DOMAIN Script[d] :
          Script[c][k].op = "submit" /\ Script[d][l].op = "submit" => c = d /\ k = l

\* A frame that is going to have n run, or may yet schedule it.
Claims(f, n) ==
    \/ f.op \in HoldOps \cup NodeOps /\ f.job = n
    \/ f.op = "s_next" /\ n \in ToSet(f.todo)

\* A frame of a body that has returned, which has yet to tell n.
Debt(f, n) == f.op = "succ" /\ n \in ToSet(f.todo)

Claiming(n) == {f \in Sound : Claims(f, n)}
Debtors(n)  == {f \in Sound : Debt(f, n)}
Processing  == {f \in Sound : f.op \in ProcessOps}

Has(s, X)    == \E i \in DOMAIN s : s[i] \in X
OnceIn(s, X) == \A i, j \in DOMAIN s : s[i] \in X /\ s[j] \in X => i = j

\* Node n is in one queue, once, or claimed by one frame, or neither.
Exclusive(qu, s, n) ==
    /\ \A t \in Threads : OnceIn(s[t], Claiming(n))
    /\ \A t, u \in Threads : Has(s[t], Claiming(n)) /\ Has(s[u], Claiming(n)) => t = u
    /\ \A q \in 0..N : qu[q][n] <= 1
    /\ \A q, r \in 0..N : qu[q][n] > 0 /\ qu[r][n] > 0 => q = r
    /\ \A q \in 0..N : \A t \in Threads : ~(qu[q][n] > 0 /\ Has(s[t], Claiming(n)))

Untouched(n) == n \notin finished /\ runs[n] = 0
Ready(n)     == numDeps[n] = 0 /\ n \notin finished /\ runs[n] <= Suspends[n]
Entered(n)   == numDeps[n] = 0 /\ n \notin finished /\ runs[n] <= Suspends[n] + 1

ClaimOK(f, n) ==
    Claims(f, n) => /\ f.op = "s_next" => Untouched(n)
                    /\ f.op = "body" => Entered(n)
                    /\ f.op \notin {"s_next", "body"} => Ready(n)

\* What the lists in frames are.
Lists(f) ==
    /\ f.op = "succ" => NoRepeats(f.todo) /\ \A n \in ToSet(f.todo) : ToSet(Preds[n]) # {}
    /\ f.op = "s_next" => NoRepeats(f.todo) /\ PredsLater(f.todo)

\* The predecessors of n whose bodies have not returned, and the workers that have
\* yet to tell n about one.
Missing(n, done) == {p \in ToSet(Preds[n]) : p \notin done}
Owing(n, s)      == {w \in Workers : Has(s[w], Debtors(n))}

Submitted == \E c \in Clients : \E k \in DOMAIN Script[c] : k < at[c] /\ Script[c][k].op = "submit"

Claimed(s)    == \A n \in Nodes : Exclusive(queue, s, n)
FramesOK(s)   == \A t \in Threads : \A f \in ToSet(s[t]) : Lists(f) /\ \A n \in Nodes : ClaimOK(f, n)
QueuesOK      == \A q \in 0..N : \A n \in Nodes : queue[q][n] > 0 => Ready(n)
NodesOK       == \A n \in Nodes : /\ runs[n] > 0 \/ n \in finished => numDeps[n] = 0
                                  /\ runs[n] <= Suspends[n] + 1
Counted(s)    == \A n \in Nodes :
                     numDeps[n] = Cardinality(Missing(n, finished)) + Cardinality(Owing(n, s))
Before(s)     == ~Submitted => \A n \in Nodes : /\ Untouched(n)
                                                /\ \A t \in Threads : ~Has(s[t], Claiming(n))
                                                /\ \A q \in 0..N : queue[q][n] = 0
OneProcess(s) == \A w \in Workers : OnceIn(s[w], Processing)

GraphOf(s) ==
    /\ Claimed(s) /\ FramesOK(s) /\ QueuesOK /\ NodesOK /\ Counted(s) /\ Before(s) /\ OneProcess(s)

GraphInv == GraphOf(stack)

-----------------------------------------------------------------------------
(* Which frames are on a stack.                                             *)

LEMMA ToSetConcat ==
    ASSUME NEW S, NEW a \in Seq(S), NEW b \in Seq(S)
    PROVE  ToSet(a \o b) = ToSet(a) \cup ToSet(b)
<1>1. PICK m \in Nat, n \in Nat : m = Len(a) /\ n = Len(b)
  BY LenProperties
<1>2. /\ a \o b \in Seq(S) /\ Len(a \o b) = m + n
      /\ \A i \in 1..(m + n) : (a \o b)[i] = IF i <= m THEN a[i] ELSE b[i - m]
  BY <1>1, ConcatProperties
<1>3. DOMAIN a = 1..m /\ DOMAIN b = 1..n /\ DOMAIN (a \o b) = 1..(m + n)
  BY <1>1, <1>2, LenProperties
<1>4. ASSUME NEW i \in 1..(m + n)
      PROVE  (a \o b)[i] \in ToSet(a) \cup ToSet(b)
  <2>1. CASE i <= m
    BY <1>2, <1>3, <2>1 DEF ToSet
  <2>2. CASE ~(i <= m)
    <3>1. i - m \in 1..n /\ (a \o b)[i] = b[i - m]
      BY <1>2, <2>2
    <3> QED
      BY <1>3, <3>1 DEF ToSet
  <2> QED
    BY <2>1, <2>2
<1>5. ASSUME NEW i \in 1..m
      PROVE  a[i] \in ToSet(a \o b)
  <2>1. i \in 1..(m + n) /\ (a \o b)[i] = a[i]
    BY <1>2
  <2> QED
    BY <1>3, <2>1 DEF ToSet
<1>6. ASSUME NEW i \in 1..n
      PROVE  b[i] \in ToSet(a \o b)
  <2>1. m + i \in 1..(m + n) /\ (a \o b)[m + i] = b[i]
    BY <1>2
  <2> QED
    BY <1>3, <2>1 DEF ToSet
<1>7. ToSet(a \o b) \subseteq ToSet(a) \cup ToSet(b)
  BY <1>3, <1>4 DEF ToSet
<1>8. ToSet(a) \cup ToSet(b) \subseteq ToSet(a \o b)
  BY <1>3, <1>5, <1>6 DEF ToSet
<1> QED
  BY <1>7, <1>8

LEMMA ItemsReplaced ==
    ASSUME NEW S, NEW s \in Seq(S), s # <<>>, NEW fs \in Seq(S)
    PROVE  /\ ToSet(s) = {Head(s)} \cup ToSet(Tail(s))
           /\ ToSet(fs \o Tail(s)) = ToSet(fs) \cup ToSet(Tail(s))
<1> DEFINE r == Tail(s)
<1>1. PICK n \in Nat : n = Len(s) - 1 /\ Len(s) = n + 1
  BY LenProperties, EmptySeq
<1>2. r \in Seq(S) /\ Len(r) = n /\ Head(s) = s[1] /\ \A i \in 1..n : r[i] = s[i + 1]
  BY <1>1, HeadTailProperties
<1>3. DOMAIN s = 1..(n + 1) /\ DOMAIN r = 1..n
  BY <1>1, <1>2, LenProperties
<1> HIDE DEF r
<1>4. ToSet(s) = {Head(s)} \cup ToSet(r)
  <2>1. ASSUME NEW i \in 1..(n + 1)
        PROVE  i = 1 \/ \E j \in 1..n : i = j + 1
    <3>1. i = 1 \/ (i - 1 \in 1..n /\ i = (i - 1) + 1)
      BY <1>1
    <3> QED
      BY <3>1
  <2>2. ASSUME NEW j \in 1..n
        PROVE  r[j] \in ToSet(s)
    <3>1. j + 1 \in DOMAIN s /\ s[j + 1] = r[j]
      BY <1>1, <1>2, <1>3
    <3> QED
      BY <3>1 DEF ToSet
  <2>3. 1 \in DOMAIN s
    BY <1>1, <1>3
  <2>4. ToSet(s) \subseteq {Head(s)} \cup ToSet(r)
    <3>1. ASSUME NEW i \in 1..(n + 1)
          PROVE  s[i] = Head(s) \/ \E j \in 1..n : s[i] = r[j]
      BY <1>2, <2>1
    <3> QED
      BY <1>3, <3>1 DEF ToSet
  <2>5. {Head(s)} \cup ToSet(r) \subseteq ToSet(s)
    <3>1. Head(s) \in ToSet(s)
      BY <1>2, <2>3 DEF ToSet
    <3>2. ToSet(r) \subseteq ToSet(s)
      BY <1>3, <2>2 DEF ToSet
    <3> QED
      BY <3>1, <3>2
  <2> QED
    BY <2>4, <2>5
<1>5. ToSet(fs \o r) = ToSet(fs) \cup ToSet(r)
  BY <1>2, ToSetConcat
<1> QED
  BY <1>4, <1>5 DEF r

LEMMA HasIs ==
    ASSUME NEW s, NEW X
    PROVE  Has(s, X) <=> ToSet(s) \cap X # {}
BY DEF Has, ToSet

LEMMA HasReplaced ==
    ASSUME NEW S, NEW s \in Seq(S), s # <<>>, NEW fs \in Seq(S), NEW X
    PROVE  /\ Has(s, X) <=> Head(s) \in X \/ Has(Tail(s), X)
           /\ Has(fs \o Tail(s), X) <=> Has(fs, X) \/ Has(Tail(s), X)
BY ItemsReplaced, HasIs

LEMMA OnceReplaced ==
    ASSUME NEW S, NEW s \in Seq(S), s # <<>>, NEW fs \in Seq(S), NEW X, OnceIn(s, X)
    PROVE  /\ ~(Head(s) \in X /\ Has(Tail(s), X))
           /\ OnceIn(fs, X) /\ ~(Has(fs, X) /\ Has(Tail(s), X)) => OnceIn(fs \o Tail(s), X)
<1> DEFINE r == Tail(s)
<1>1. PICK n \in Nat, m \in Nat : Len(s) = n + 1 /\ n = Len(s) - 1 /\ m = Len(fs)
  BY LenProperties, EmptySeq
<1>2. r \in Seq(S) /\ Len(r) = n /\ Head(s) = s[1] /\ \A i \in 1..n : r[i] = s[i + 1]
  BY <1>1, HeadTailProperties
<1>3. DOMAIN s = 1..(n + 1) /\ DOMAIN r = 1..n /\ DOMAIN fs = 1..m
  BY <1>1, <1>2, LenProperties
<1> HIDE DEF r
<1>4. \A i \in 1..n : i + 1 \in DOMAIN s /\ i + 1 # 1
  BY <1>3
<1>5. ~(Head(s) \in X /\ Has(r, X))
  <2>1. SUFFICES ASSUME Head(s) \in X, NEW i \in 1..n, r[i] \in X
                 PROVE  FALSE
    BY <1>3 DEF Has
  <2>2. s[i + 1] \in X /\ s[1] \in X /\ 1 \in DOMAIN s
    BY <1>2, <1>3, <2>1
  <2> QED
    BY <1>4, <2>2 DEF OnceIn
<1>6. ASSUME OnceIn(fs, X), ~(Has(fs, X) /\ Has(r, X))
      PROVE  OnceIn(fs \o r, X)
  <2>1. /\ fs \o r \in Seq(S) /\ Len(fs \o r) = m + n
        /\ \A i \in 1..(m + n) : (fs \o r)[i] = IF i <= m THEN fs[i] ELSE r[i - m]
    <3>1. r \in Seq(S) /\ Len(r) = n /\ Len(fs) = m
      BY <1>1, <1>2
    <3> QED
      BY <3>1, ConcatProperties
  <2>2. DOMAIN (fs \o r) = 1..(m + n)
    BY <2>1, LenProperties
  <2>3. SUFFICES ASSUME NEW i \in 1..(m + n), NEW j \in 1..(m + n),
                        (fs \o r)[i] \in X, (fs \o r)[j] \in X
                 PROVE  i = j
    BY <2>2 DEF OnceIn
  <2>4. ASSUME NEW k \in 1..(m + n), k <= m, (fs \o r)[k] \in X
        PROVE  k \in DOMAIN fs /\ fs[k] \in X /\ Has(fs, X)
    <3>1. k \in DOMAIN fs /\ fs[k] \in X
      BY <1>3, <2>1, <2>4
    <3> QED
      BY <3>1 DEF Has
  <2>5. ASSUME NEW k \in 1..(m + n), ~(k <= m), (fs \o r)[k] \in X
        PROVE  /\ k - m \in 1..n /\ r[k - m] \in X /\ Has(r, X)
               /\ (k - m) + 1 \in DOMAIN s /\ s[(k - m) + 1] \in X
    <3>1. k - m \in 1..n
      BY <2>5
    <3>2. r[k - m] \in X
      BY <2>1, <2>5
    <3>3. Has(r, X)
      BY <1>3, <3>1, <3>2 DEF Has
    <3> QED
      BY <1>2, <1>4, <3>1, <3>2, <3>3
  <2>6. CASE i <= m /\ j <= m
    BY <1>6, <2>3, <2>4, <2>6 DEF OnceIn
  <2>7. CASE ~(i <= m) /\ ~(j <= m)
    <3>1. (i - m) + 1 = (j - m) + 1
      BY <2>3, <2>5, <2>7 DEF OnceIn
    <3> QED
      BY <3>1
  <2> QED
    BY <1>6, <2>3, <2>4, <2>5, <2>6, <2>7
<1> QED
  BY <1>5, <1>6 DEF r

\* Stacks of none, one and two frames.
LEMMA ShortStacks ==
    ASSUME NEW a, NEW b
    PROVE  /\ ToSet(<<>>) = {} /\ ToSet(<<a>>) = {a} /\ ToSet(<<a, b>>) = {a, b}
           /\ \A X : OnceIn(<<>>, X) /\ OnceIn(<<a>>, X)
           /\ \A X : ~(a \in X /\ b \in X) => OnceIn(<<a, b>>, X)
<1>1. DOMAIN <<>> = {} /\ DOMAIN <<a>> = {1} /\ DOMAIN <<a, b>> = {1, 2}
  OBVIOUS
<1>2. ToSet(<<>>) = {} /\ ToSet(<<a>>) = {a} /\ ToSet(<<a, b>>) = {a, b}
  BY <1>1 DEF ToSet
<1>3. \A X : OnceIn(<<>>, X) /\ OnceIn(<<a>>, X)
  BY <1>1 DEF OnceIn
<1>4. \A X : ~(a \in X /\ b \in X) => OnceIn(<<a, b>>, X)
  BY <1>1 DEF OnceIn
<1> QED
  BY <1>2, <1>3, <1>4

-----------------------------------------------------------------------------
(* What a step of one thread does to claims.                                *)

\* Thread t's top frame becomes fs.
Put(s, s2, t, fs) ==
    /\ s \in [Threads -> Seq(Sound)] /\ t \in Threads /\ s[t] # <<>> /\ fs \in Seq(Sound)
    /\ s2 = [s EXCEPT ![t] = fs \o Tail(@)]

QueueType == [0..N -> [Jobs -> Nat]]

Popped(qu, qu2, q, j) == qu[q][j] > 0 /\ qu2 = [qu EXCEPT ![q][j] = @ - 1]

LEMMA PutIs ==
    ASSUME NEW s, NEW s2, NEW t, NEW fs, Put(s, s2, t, fs)
    PROVE  /\ t \in Threads /\ Head(s[t]) \in Sound /\ s2 \in [Threads -> Seq(Sound)]
           /\ \A u \in Threads : u # t => s2[u] = s[u]
           /\ ToSet(s[t]) = {Head(s[t])} \cup ToSet(Tail(s[t]))
           /\ ToSet(s2[t]) = ToSet(fs) \cup ToSet(Tail(s[t]))
<1>1. s[t] \in Seq(Sound) /\ s[t] # <<>> /\ fs \in Seq(Sound)
  BY DEF Put
<1>2. /\ s2 \in [Threads -> Seq(Sound)] /\ s2[t] = fs \o Tail(s[t])
      /\ \A u \in Threads : u # t => s2[u] = s[u]
  BY StacksReplaced DEF Put
<1>3. Head(s[t]) \in Sound
  BY <1>1, HeadTailProperties
<1>4. /\ ToSet(s[t]) = {Head(s[t])} \cup ToSet(Tail(s[t]))
      /\ ToSet(fs \o Tail(s[t])) = ToSet(fs) \cup ToSet(Tail(s[t]))
  BY <1>1, ItemsReplaced
<1> QED
  BY <1>2, <1>3, <1>4 DEF Put

LEMMA PutHas ==
    ASSUME NEW s, NEW s2, NEW t, NEW fs, Put(s, s2, t, fs), NEW X
    PROVE  /\ Has(s[t], X) <=> Head(s[t]) \in X \/ Has(Tail(s[t]), X)
           /\ Has(s2[t], X) <=> Has(fs, X) \/ Has(Tail(s[t]), X)
           /\ OnceIn(s[t], X) => ~(Head(s[t]) \in X /\ Has(Tail(s[t]), X))
           /\ OnceIn(s[t], X) /\ OnceIn(fs, X) /\ ~(Has(fs, X) /\ Has(Tail(s[t]), X))
                => OnceIn(s2[t], X)
<1>1. s[t] \in Seq(Sound) /\ s[t] # <<>> /\ fs \in Seq(Sound)
  BY DEF Put
<1>2. s2[t] = fs \o Tail(s[t])
  BY StacksReplaced DEF Put
<1> QED
  BY <1>1, <1>2, HasReplaced, OnceReplaced

\* No node is claimed that was not.
LEMMA KeepsClaim ==
    ASSUME NEW n \in Nodes, NEW s, NEW s2, NEW t, NEW fs, Put(s, s2, t, fs),
           NEW qu \in QueueType, NEW qu2 \in QueueType, Exclusive(qu, s, n),
           \A q \in 0..N : qu2[q][n] <= qu[q][n],
           OnceIn(fs, Claiming(n)), Has(fs, Claiming(n)) => Head(s[t]) \in Claiming(n)
    PROVE  Exclusive(qu2, s2, n)
<1> DEFINE X == Claiming(n)
<1>1. \A q \in 0..N : qu[q][n] \in Nat /\ qu2[q][n] \in Nat
  BY DEF QueueType, Jobs
<1>2. t \in Threads /\ \A u \in Threads : u # t => s2[u] = s[u]
  BY PutIs
<1>3. OnceIn(s[t], X)
  BY <1>2 DEF Exclusive
<1>4. OnceIn(s2[t], X) /\ (Has(s2[t], X) => Has(s[t], X))
  BY <1>3, PutHas
<1>5. \A u \in Threads : OnceIn(s2[u], X) /\ (Has(s2[u], X) => Has(s[u], X))
  BY <1>2, <1>4 DEF Exclusive
<1>6. \A q \in 0..N : qu2[q][n] <= 1 /\ (qu2[q][n] > 0 => qu[q][n] > 0)
  BY <1>1 DEF Exclusive
<1> QED
  BY <1>5, <1>6 DEF Exclusive

\* The top frame's claim becomes one of a queue.
LEMMA PushClaim ==
    ASSUME NEW n \in Nodes, NEW s, NEW s2, NEW t, NEW fs, Put(s, s2, t, fs),
           NEW qu \in QueueType, NEW qu2 \in QueueType, Exclusive(qu, s, n),
           NEW q \in 0..N, qu2 = [qu EXCEPT ![q][n] = @ + 1],
           Head(s[t]) \in Claiming(n), ~Has(fs, Claiming(n))
    PROVE  Exclusive(qu2, s2, n)
<1> DEFINE X == Claiming(n)
<1>1. t \in Threads /\ \A u \in Threads : u # t => s2[u] = s[u]
  BY PutIs
<1>2. OnceIn(s[t], X) /\ Has(s[t], X)
  BY <1>1, PutHas DEF Exclusive
<1>3. ~Has(s2[t], X)
  BY <1>2, PutHas
<1>4. \A u \in Threads : ~Has(s2[u], X)
  BY <1>1, <1>2, <1>3 DEF Exclusive
<1>5. \A u \in Threads : OnceIn(s2[u], X)
  BY <1>4 DEF OnceIn, Has
<1>6. n \in Jobs /\ \A r \in 0..N : qu[r][n] \in Nat /\ ~(qu[r][n] > 0)
  BY <1>1, <1>2 DEF QueueType, Jobs, Exclusive
<1>7. \A r \in 0..N : qu[r][n] = 0
  BY <1>6
<1>8. \A r \in 0..N : qu2[r][n] = IF r = q THEN 1 ELSE 0
  BY <1>6, <1>7 DEF QueueType
<1> QED
  BY <1>4, <1>5, <1>8 DEF Exclusive

\* A queue's claim becomes one of a frame.
LEMMA PopClaim ==
    ASSUME NEW n \in Nodes, NEW s, NEW s2, NEW t, NEW fs, Put(s, s2, t, fs),
           NEW qu \in QueueType, NEW qu2 \in QueueType, Exclusive(qu, s, n),
           NEW q \in 0..N, Popped(qu, qu2, q, n),
           OnceIn(fs, Claiming(n))
    PROVE  Exclusive(qu2, s2, n)
<1> DEFINE X == Claiming(n)
<1>0. qu[q][n] > 0 /\ qu2 = [qu EXCEPT ![q][n] = @ - 1]
  BY DEF Popped
<1>1. t \in Threads /\ \A u \in Threads : u # t => s2[u] = s[u]
  BY PutIs
<1>2. \A u \in Threads : ~Has(s[u], X)
  BY <1>0 DEF Exclusive
<1>3. OnceIn(s2[t], X)
  BY <1>1, <1>2, PutHas DEF Exclusive
<1>4. \A u \in Threads : OnceIn(s2[u], X) /\ (u # t => ~Has(s2[u], X))
  BY <1>1, <1>2, <1>3 DEF Exclusive
<1>5. n \in Jobs /\ \A r \in 0..N : qu[r][n] \in Nat /\ qu[r][n] <= 1 /\ (r # q => ~(qu[r][n] > 0))
  BY <1>0 DEF QueueType, Jobs, Exclusive
<1>6. qu[q][n] = 1 /\ \A r \in 0..N : r # q => qu[r][n] = 0
  BY <1>0, <1>5
<1>7. \A r \in 0..N : qu2[r][n] = 0
  BY <1>0, <1>5, <1>6 DEF QueueType
<1> QED
  BY <1>4, <1>7 DEF Exclusive

\* A node that nobody has claimed.
LEMMA NewClaim ==
    ASSUME NEW n \in Nodes, NEW s, NEW s2, NEW t, NEW fs, Put(s, s2, t, fs),
           NEW qu \in QueueType, \A q \in 0..N : qu[q][n] = 0,
           \A u \in Threads : ~Has(s[u], Claiming(n)), \A u \in Threads : OnceIn(s[u], Claiming(n)),
           OnceIn(fs, Claiming(n))
    PROVE  Exclusive(qu, s2, n)
<1> DEFINE X == Claiming(n)
<1>1. t \in Threads /\ \A u \in Threads : u # t => s2[u] = s[u]
  BY PutIs
<1>2. OnceIn(s2[t], X)
  BY <1>1, PutHas
<1>3. \A u \in Threads : OnceIn(s2[u], X) /\ (u # t => ~Has(s2[u], X))
  BY <1>1, <1>2
<1> QED
  BY <1>3 DEF Exclusive

LEMMA TailClaims ==
    ASSUME NEW n \in Nodes, NEW s, NEW s2, NEW t, NEW fs, Put(s, s2, t, fs), NEW qu,
           Exclusive(qu, s, n), Head(s[t]) \in Claiming(n)
    PROVE  /\ ~Has(Tail(s[t]), Claiming(n)) /\ \A u \in Threads : u # t => ~Has(s[u], Claiming(n))
           /\ \A q \in 0..N : ~(qu[q][n] > 0)
<1>1. t \in Threads
  BY PutIs
<1>2. Has(s[t], Claiming(n)) /\ OnceIn(s[t], Claiming(n))
  BY <1>1, PutHas DEF Exclusive
<1> QED
  BY <1>1, <1>2, PutHas DEF Exclusive

\* Steps that enter no body and return from none.
LEMMA Moved ==
    ASSUME SchedInv, GraphInv, UNCHANGED <<numDeps, runs, finished, at>>,
           NEW t, NEW fs, Put(stack, stack', t, fs),
           \A n \in Nodes : Exclusive(queue', stack', n),
           \A f \in ToSet(fs) : Lists(f) /\ \A n \in Nodes : ClaimOK(f, n),
           \A q \in 0..N : \A n \in Nodes : queue'[q][n] > 0 => Ready(n),
           ~Submitted => \A n \in Nodes : /\ ~Has(fs, Claiming(n))
                                          /\ \A q \in 0..N : queue'[q][n] = 0,
           t \in Workers => \A n \in Nodes : Has(fs, Debtors(n)) <=> Head(stack[t]) \in Debtors(n),
           t \in Workers => /\ OnceIn(fs, Processing)
                            /\ ~(Has(fs, Processing) /\ Has(Tail(stack[t]), Processing))
    PROVE  GraphInv'
<1>1. /\ t \in Threads /\ \A u \in Threads : u # t => stack'[u] = stack[u]
      /\ ToSet(stack[t]) = {Head(stack[t])} \cup ToSet(Tail(stack[t]))
      /\ ToSet(stack'[t]) = ToSet(fs) \cup ToSet(Tail(stack[t]))
  <2>1. t \in Threads
    BY PutIs
  <2>2. \A u \in Threads : u # t => stack'[u] = stack[u]
    BY PutIs
  <2>3. ToSet(stack[t]) = {Head(stack[t])} \cup ToSet(Tail(stack[t]))
    BY PutIs
  <2>4. ToSet(stack'[t]) = ToSet(fs) \cup ToSet(Tail(stack[t]))
    BY PutIs
  <2> QED
    BY <2>1, <2>2, <2>3, <2>4
<1>2. Claimed(stack)'
  BY DEF Claimed
<1>3. FramesOK(stack)'
  <2>1. FramesOK(stack)
    BY DEF GraphInv, GraphOf
  <2>2. \A u \in Threads : \A f \in ToSet(stack'[u]) : Lists(f) /\ \A n \in Nodes : ClaimOK(f, n)
    BY <1>1, <2>1 DEF FramesOK
  <2> QED
    BY <2>2 DEF FramesOK, ClaimOK, Untouched, Ready, Entered
<1>4. QueuesOK'
  BY DEF QueuesOK, Ready
<1>5. NodesOK'
  BY DEF GraphInv, GraphOf, NodesOK
<1>6. Counted(stack)'
  <2>1. ASSUME NEW n \in Nodes
        PROVE  Owing(n, stack') = Owing(n, stack)
    <3>1. ASSUME NEW w \in Workers
          PROVE  Has(stack'[w], Debtors(n)) <=> Has(stack[w], Debtors(n))
      <4>1. CASE w = t
        BY <4>1, PutHas
      <4>2. CASE w # t
        BY <1>1, <4>2 DEF Threads
      <4> QED
        BY <4>1, <4>2
    <3> QED
      BY <3>1 DEF Owing
  <2> QED
    BY <2>1 DEF GraphInv, GraphOf, Counted
<1>7. Before(stack)'
  <2>1. Submitted' <=> Submitted
    BY DEF Submitted
  <2>2. ASSUME ~Submitted, NEW n \in Nodes, NEW u \in Threads
        PROVE  ~Has(stack'[u], Claiming(n))
    <3>1. ~Has(stack[u], Claiming(n))
      BY <2>2 DEF GraphInv, GraphOf, Before
    <3> QED
      BY <1>1, <2>2, <3>1, PutHas
  <2>3. ASSUME ~Submitted, NEW n \in Nodes
        PROVE  Untouched(n)'
    BY <2>3 DEF GraphInv, GraphOf, Before, Untouched
  <2> QED
    BY <2>1, <2>2, <2>3 DEF Before
<1>8. OneProcess(stack)'
  <2>1. ASSUME NEW w \in Workers
        PROVE  OnceIn(stack'[w], Processing)
    <3>1. OnceIn(stack[w], Processing)
      BY DEF GraphInv, GraphOf, OneProcess
    <3>2. CASE w = t
      BY <3>1, <3>2, PutHas
    <3>3. CASE w # t
      BY <1>1, <3>1, <3>3 DEF Threads
    <3> QED
      BY <3>2, <3>3
  <2> QED
    BY <2>1 DEF OneProcess
<1> QED
  BY <1>2, <1>3, <1>4, <1>5, <1>6, <1>7, <1>8 DEF GraphInv, GraphOf

-----------------------------------------------------------------------------
(* Steps that move no node.                                                 *)

PlainOps == LoopOps \cup WakeOps \cup {"e_count", "e_store", "e_notify"}
            \cup (ClientOps \ {"s_next", "schedule", "s_load"})

Plain == {f \in Sound : f.op \in PlainOps}

LEMMA PlainIs ==
    ASSUME NEW f \in Plain
    PROVE  /\ f \in Sound /\ f \notin Processing /\ Lists(f)
           /\ \A n : f \notin Claiming(n) /\ f \notin Debtors(n) /\ ClaimOK(f, n)
<1>1. /\ f.op \notin HoldOps /\ f.op \notin NodeOps /\ f.op \notin ProcessOps
      /\ f.op # "s_next" /\ f.op # "succ"
  BY DEF Plain, PlainOps, LoopOps, WakeOps, ClientOps, HoldOps, NodeOps, ProcessOps
<1>2. \A n : ~Claims(f, n) /\ ~Debt(f, n)
  BY <1>1 DEF Claims, Debt
<1> QED
  BY <1>1, <1>2 DEF Plain, Processing, Lists, Claiming, Debtors, ClaimOK

Fewer(a, b) ==
    /\ \A f \in ToSet(b) : f \in ToSet(a) \/ f \in Plain
    /\ \A n \in Nodes : OnceIn(a, Claiming(n)) => OnceIn(b, Claiming(n))
    /\ OnceIn(a, Processing) => OnceIn(b, Processing)

\* No new claims, and the same debts.
Mute(s, s2) ==
    /\ \A t \in Threads : Fewer(s[t], s2[t])
    /\ \A w \in Workers : \A n \in Nodes : Has(s2[w], Debtors(n)) <=> Has(s[w], Debtors(n))

LEMMA MuteTwice ==
    ASSUME NEW s, NEW s2, NEW s3, Mute(s, s2), Mute(s2, s3)
    PROVE  Mute(s, s3)
BY DEF Mute, Fewer

LEMMA MuteIs ==
    ASSUME NEW s, NEW s2, Mute(s, s2), NEW t \in Threads, NEW n \in Nodes
    PROVE  Has(s2[t], Claiming(n)) => Has(s[t], Claiming(n))
<1>1. \A f \in ToSet(s2[t]) : f \in Claiming(n) => f \in ToSet(s[t])
  BY PlainIs DEF Mute, Fewer
<1> QED
  BY <1>1, HasIs

LEMMA Muted ==
    ASSUME GraphInv, UNCHANGED <<queue, numDeps, runs, finished, at>>, Mute(stack, stack')
    PROVE  GraphInv'
<1>1. \A t \in Threads : \A n \in Nodes : Has(stack'[t], Claiming(n)) => Has(stack[t], Claiming(n))
  BY MuteIs
<1>2. Claimed(stack)'
  <2>1. ASSUME NEW n \in Nodes
        PROVE  Exclusive(queue, stack', n)
    <3>1. Exclusive(queue, stack, n)
      BY DEF GraphInv, GraphOf, Claimed
    <3>2. \A t \in Threads : OnceIn(stack'[t], Claiming(n))
      BY <3>1 DEF Exclusive, Mute, Fewer
    <3> QED
      BY <1>1, <3>1, <3>2 DEF Exclusive
  <2> QED
    BY <2>1 DEF Claimed
<1>3. FramesOK(stack)'
  <2>1. ASSUME NEW t \in Threads, NEW f \in ToSet(stack'[t])
        PROVE  Lists(f) /\ \A n \in Nodes : ClaimOK(f, n)
    <3>1. f \in ToSet(stack[t]) \/ f \in Plain
      BY DEF Mute, Fewer
    <3> QED
      BY <3>1, PlainIs DEF GraphInv, GraphOf, FramesOK
  <2> QED
    BY <2>1 DEF FramesOK, ClaimOK, Untouched, Ready, Entered
<1>4. QueuesOK'
  BY DEF GraphInv, GraphOf, QueuesOK, Ready
<1>5. NodesOK'
  BY DEF GraphInv, GraphOf, NodesOK
<1>6. Counted(stack)'
  <2>1. \A n \in Nodes : Owing(n, stack') = Owing(n, stack)
    BY DEF Owing, Mute
  <2> QED
    BY <2>1 DEF GraphInv, GraphOf, Counted
<1>7. Before(stack)'
  <2>1. Submitted' <=> Submitted
    BY DEF Submitted
  <2> QED
    BY <1>1, <2>1 DEF GraphInv, GraphOf, Before, Untouched
<1>8. OneProcess(stack)'
  <2>1. \A w \in Workers : OnceIn(stack'[w], Processing)
    BY DEF GraphInv, GraphOf, OneProcess, Mute, Fewer, Threads
  <2> QED
    BY <2>1 DEF OneProcess
<1> QED
  BY <1>2, <1>3, <1>4, <1>5, <1>6, <1>7, <1>8 DEF GraphInv, GraphOf

LEMMA SameFewer ==
    ASSUME NEW a
    PROVE  Fewer(a, a)
BY DEF Fewer

LEMMA PlainOnce ==
    ASSUME NEW fs \in Seq(Plain)
    PROVE  /\ fs \in Seq(Sound) /\ ToSet(fs) \subseteq Plain
           /\ \A n : ~Has(fs, Claiming(n)) /\ ~Has(fs, Debtors(n)) /\ OnceIn(fs, Claiming(n))
           /\ ~Has(fs, Processing) /\ OnceIn(fs, Processing)
<1>1. fs \in Seq(Sound)
  BY DEF Plain
<1>2. ToSet(fs) \subseteq Plain
  BY ElementOfSeq, LenProperties DEF ToSet
<1>3. \A n : ~Has(fs, Claiming(n)) /\ ~Has(fs, Debtors(n))
  BY <1>2, PlainIs, HasIs
<1>4. ~Has(fs, Processing)
  BY <1>2, PlainIs, HasIs
<1> QED
  BY <1>1, <1>2, <1>3, <1>4 DEF Has, OnceIn

LEMMA PutMute ==
    ASSUME NEW s, NEW s2, NEW t, NEW fs \in Seq(Plain), Put(s, s2, t, fs),
           \A n \in Nodes : Head(s[t]) \notin Debtors(n)
    PROVE  Mute(s, s2)
<1>1. t \in Threads
  BY PutIs
<1>2. \A u \in Threads : u # t => s2[u] = s[u]
  BY PutIs
<1>3. /\ ToSet(s[t]) = {Head(s[t])} \cup ToSet(Tail(s[t]))
      /\ ToSet(s2[t]) = ToSet(fs) \cup ToSet(Tail(s[t]))
  <2>1. ToSet(s[t]) = {Head(s[t])} \cup ToSet(Tail(s[t]))
    BY PutIs
  <2>2. ToSet(s2[t]) = ToSet(fs) \cup ToSet(Tail(s[t]))
    BY PutIs
  <2> QED
    BY <2>1, <2>2
<1>4. Fewer(s[t], s2[t])
  <2>1. \A f \in ToSet(s2[t]) : f \in ToSet(s[t]) \/ f \in Plain
    BY <1>3, PlainOnce
  <2>2. \A n \in Nodes : OnceIn(s[t], Claiming(n)) => OnceIn(s2[t], Claiming(n))
    BY PlainOnce, PutHas
  <2>3. OnceIn(s[t], Processing) => OnceIn(s2[t], Processing)
    BY PlainOnce, PutHas
  <2> QED
    BY <2>1, <2>2, <2>3 DEF Fewer
<1>5. \A n \in Nodes : Has(s2[t], Debtors(n)) <=> Has(s[t], Debtors(n))
  BY PlainOnce, PutHas
<1> QED
  BY <1>1, <1>2, <1>4, <1>5, SameFewer DEF Mute, Threads

LEMMA NotifiedMute ==
    ASSUME NEW s, Stacks(s), NEW S, NEW asleep, NEW test,
           <<asleep, test>> \in {<<"asleep", "test">>, <<"p_asleep", "p_test">>}
    PROVE  Mute(s, Notified(s, S, asleep, test))
<1> DEFINE s2 == Notified(s, S, asleep, test)
<1>1. test \in LoopOps /\ asleep \in LoopOps
  BY DEF LoopOps
<1>2. PICK f \in Plain : f = Frame(test)
  BY <1>1, FrameIs DEF Plain, PlainOps, Sound, LoopOps, HoldOps, NodeOps, VisitOps
<1>3. \A u \in Threads : s2[u] = s[u] \/ (s2[u] = <<f>> /\ s[u] # <<>> /\ Head(s[u]).op = asleep)
  BY <1>2 DEF Notified
<1> HIDE DEF s2
<1>4. ToSet(<<f>>) = {f} /\ \A X : OnceIn(<<f>>, X)
  BY ShortStacks
<1>5. ASSUME NEW u \in Threads
      PROVE  Fewer(s[u], s2[u])
  <2>1. Fewer(s[u], <<f>>)
    BY <1>4 DEF Fewer
  <2> QED
    BY <1>3, <2>1, SameFewer
<1>6. ASSUME NEW w \in Workers, NEW n \in Nodes
      PROVE  Has(s2[w], Debtors(n)) <=> Has(s[w], Debtors(n))
  <2>1. CASE s2[w] = s[w]
    BY <2>1
  <2>2. CASE s2[w] = <<f>> /\ s[w] # <<>> /\ Head(s[w]).op = asleep
    <3>1. ~Has(<<f>>, Debtors(n))
      BY <1>4, PlainIs, HasIs
    <3>2. s[w] \in Seq(Sound) /\ Shape(s[w])
      BY DEF Stacks, Threads
    <3>3. Tail(s[w]) = <<>>
      BY <1>1, <2>2, <3>2, LoopAlone
    <3>4. ToSet(s[w]) = {Head(s[w])} \cup ToSet(Tail(s[w]))
      BY <2>2, <3>2, ItemsReplaced, EmptySeq
    <3>5. ToSet(s[w]) = {Head(s[w])}
      BY <3>3, <3>4, ShortStacks
    <3>6. Head(s[w]) \notin Debtors(n)
      BY <1>1, <2>2 DEF Debtors, Debt, LoopOps
    <3> QED
      BY <2>2, <3>1, <3>5, <3>6, HasIs
  <2> QED
    BY <1>3, <2>1, <2>2 DEF Threads
<1> QED
  BY <1>5, <1>6 DEF Mute, s2

LEMMA BecomePut ==
    ASSUME Stacks(stack), NEW t \in Threads, NEW op, At(t, op), NEW fs \in Seq(Sound), Become(t, fs)
    PROVE  /\ Put(stack, stack', t, fs)
           /\ Head(stack[t]) = Top(t) /\ Top(t).op = op /\ Top(t) \in Sound
<1>1. stack[t] # <<>> /\ Top(t) \in Sound /\ Top(t).op = op
  BY TopIs
<1> QED
  BY <1>1 DEF Put, Become, Replaced, Stacks, Top

LEMMA NoDebt ==
    ASSUME NEW t \in Threads, NEW op, op # "succ", Top(t).op = op
    PROVE  \A n : Top(t) \notin Debtors(n)
BY DEF Debtors, Debt

LEMMA PlainBecome ==
    ASSUME Stacks(stack), NEW t \in Threads, NEW op, op # "succ", At(t, op),
           NEW fs \in Seq(Plain), Become(t, fs)
    PROVE  Mute(stack, stack')
<1>1. fs \in Seq(Sound)
  BY PlainOnce
<1>2. Put(stack, stack', t, fs) /\ Head(stack[t]) = Top(t) /\ Top(t).op = op
  BY <1>1, BecomePut
<1>3. \A n \in Nodes : Head(stack[t]) \notin Debtors(n)
  BY <1>2, NoDebt
<1> QED
  BY <1>2, <1>3, PutMute

LEMMA PlainFrame ==
    ASSUME NEW f \in Sound, NEW op \in PlainOps, op \in VisitOps => f.pos <= N
    PROVE  [f EXCEPT !.op = op] \in Plain
<1>1. op \notin HoldOps /\ op \notin NodeOps
  BY DEF PlainOps, LoopOps, WakeOps, ClientOps, HoldOps, NodeOps
<1>2. /\ [f EXCEPT !.op = op] \in Frames /\ [f EXCEPT !.op = op].op = op
      /\ [f EXCEPT !.op = op].pos = f.pos
  BY DEF Sound, Frames, PlainOps, LoopOps, WakeOps, EnqueueOps, ClientOps
<1> QED
  BY <1>1, <1>2 DEF Plain, Sound

LEMMA PlainGoes ==
    ASSUME Stacks(stack), NEW t \in Threads, NEW op, op # "succ", At(t, op),
           NEW op2 \in PlainOps, op2 \in VisitOps => op \in VisitOps, Goto(t, op2)
    PROVE  Mute(stack, stack')
<1>1. Top(t) \in Sound /\ Top(t).op = op
  BY TopIs
<1>2. PICK f \in Plain : f = [Top(t) EXCEPT !.op = op2]
  BY <1>1, FieldsAre, PlainFrame
<1>3. <<f>> \in Seq(Plain)
  OBVIOUS
<1>4. Become(t, <<f>>)
  BY <1>2 DEF Goto
<1> QED
  BY <1>3, <1>4, PlainBecome

LEMMA NewPlain ==
    ASSUME NEW op \in PlainOps
    PROVE  Frame(op) \in Plain /\ <<Frame(op)>> \in Seq(Plain)
<1>1. op \notin HoldOps /\ op \notin NodeOps
  BY DEF PlainOps, LoopOps, WakeOps, ClientOps, HoldOps, NodeOps
<1>2. Frame(op) \in Frames /\ Frame(op).op = op /\ Frame(op).pos = 1
  BY FrameIs DEF PlainOps, EnqueueOps
<1>3. Frame(op) \in Plain
  BY <1>1, <1>2, SchedulerAssumption DEF Plain, Sound
<1> QED
  BY <1>3

\* The other fields a plain frame is given.
LEMMA PlainFields ==
    ASSUME NEW f \in Plain
    PROVE  /\ \A to \in 0..N : [f EXCEPT !.to = to] \in Plain
           /\ \A pos \in 1..(N + 1) : f.op \notin VisitOps => [f EXCEPT !.pos = pos] \in Plain
<1>1. ASSUME NEW to \in 0..N
      PROVE  [f EXCEPT !.to = to] \in Plain
  <2>1. /\ [f EXCEPT !.to = to] \in Frames /\ [f EXCEPT !.to = to].op = f.op
        /\ [f EXCEPT !.to = to].job = f.job /\ [f EXCEPT !.to = to].pos = f.pos
    BY DEF Plain, Sound, Frames
  <2> QED
    BY <2>1 DEF Plain, Sound
<1>2. ASSUME NEW pos \in 1..(N + 1), f.op \notin VisitOps
      PROVE  [f EXCEPT !.pos = pos] \in Plain
  <2>1. /\ [f EXCEPT !.pos = pos] \in Frames /\ [f EXCEPT !.pos = pos].op = f.op
        /\ [f EXCEPT !.pos = pos].job = f.job
    BY DEF Plain, Sound, Frames
  <2> QED
    BY <1>2, <2>1 DEF Plain, Sound
<1> QED
  BY <1>1, <1>2

LEMMA PlainNotifies ==
    ASSUME Stacks(stack), NEW t \in Threads, NEW op \in CallOps, op # "succ", At(t, op),
           NEW fs \in Seq(Plain), fs \in Seq(Inner), NEW S, NEW asleep, NEW test,
           <<asleep, test>> \in {<<"asleep", "test">>, <<"p_asleep", "p_test">>},
           stack' = Notified(Replaced(t, fs), S, asleep, test)
    PROVE  Mute(stack, stack')
<1>1. stack[t] # <<>> /\ Head(stack[t]).op = op /\ Top(t) = Head(stack[t])
  BY TopIs DEF Top
<1>2. op \notin LoopOps
  BY DEF CallOps, LoopOps, ProcessOps, EnqueueOps, WakeOps, ClientOps
<1>3. Kept(stack, Replaced(t, fs))
  BY <1>1, <1>2, CallStep DEF Replaced
<1>4. Stacks(Replaced(t, fs))
  BY <1>3 DEF Kept
<1>5. fs \in Seq(Sound)
  BY PlainOnce
<1>6. Put(stack, Replaced(t, fs), t, fs)
  BY <1>1, <1>5 DEF Put, Replaced, Stacks
<1>7. \A n \in Nodes : Head(stack[t]) \notin Debtors(n)
  BY <1>1, NoDebt
<1>8. Mute(stack, Replaced(t, fs))
  BY <1>6, <1>7, PutMute
<1>9. Mute(Replaced(t, fs), Notified(Replaced(t, fs), S, asleep, test))
  BY <1>4, NotifiedMute
<1> QED
  BY <1>8, <1>9, MuteTwice

LEMMA PlainNotifiesWorker ==
    ASSUME Stacks(stack), NEW t \in Threads, NEW op \in CallOps, op # "succ", At(t, op),
           NEW fs \in Seq(Plain), fs \in Seq(Inner), NEW w, NotifyWorker(t, w, fs)
    PROVE  Mute(stack, stack')
<1> DEFINE S == {w}
<1>1. stack' = Notified(Replaced(t, fs), S, "asleep", "test")
  BY DEF NotifyWorker
<1> HIDE DEF S
<1>2. <<"asleep", "test">> \in {<<"asleep", "test">>, <<"p_asleep", "p_test">>}
  OBVIOUS
<1> QED
  BY <1>1, <1>2, PlainNotifies

LEMMA PlainNotifiesPaused ==
    ASSUME Stacks(stack), NEW t \in Threads, NEW op \in CallOps, op # "succ", At(t, op),
           NEW fs \in Seq(Plain), fs \in Seq(Inner), NotifyPaused(t, fs)
    PROVE  Mute(stack, stack')
<1>1. stack' = Notified(Replaced(t, fs), Workers, "p_asleep", "p_test")
  BY DEF NotifyPaused
<1>2. <<"p_asleep", "p_test">> \in {<<"asleep", "test">>, <<"p_asleep", "p_test">>}
  OBVIOUS
<1> QED
  BY <1>1, <1>2, PlainNotifies

\* New calls are plain, but those that are about a node.
LEMMA PlainInner ==
    ASSUME NEW op \in PlainOps \ LoopOps
    PROVE  <<Frame(op)>> \in Seq(Plain) /\ <<Frame(op)>> \in Seq(Inner)
<1>1. Frame(op) \in Plain
  BY NewPlain
<1>2. Frame(op).op = op
  BY FrameIs DEF PlainOps, EnqueueOps
<1>3. Frame(op) \in Inner
  BY <1>1, <1>2 DEF Plain, Inner
<1> QED
  BY <1>1, <1>3

-----------------------------------------------------------------------------
(* A claim that passes from hand to hand.                                   *)

JobOps == HoldOps \cup NodeOps

LEMMA JobClaims ==
    ASSUME NEW f \in Sound, f.op \in JobOps
    PROVE  /\ \A n : f \in Claiming(n) <=> f.job = n
           /\ \A n : f \notin Debtors(n)
           /\ Lists(f)
<1>1. f.op # "s_next" /\ f.op # "succ"
  BY DEF JobOps, HoldOps, NodeOps
<1> QED
  BY <1>1 DEF Claiming, Claims, Debtors, Debt, Lists, JobOps

LEMMA InvTypes ==
    ASSUME SchedInv
    PROVE  Stacks(stack) /\ Values /\ queue \in QueueType /\ numDeps \in [Nodes -> Int]
           /\ runs \in [Jobs -> Nat] /\ \A n \in Nodes : n \in Jobs
BY DEF SchedInv, Values, QueueType, Jobs

\* What is known of the top frame.
LEMMA TopFacts ==
    ASSUME GraphInv, Stacks(stack), NEW t \in Threads, NEW op, At(t, op)
    PROVE  /\ Top(t) \in ToSet(stack[t]) /\ Lists(Top(t))
           /\ \A n \in Nodes : ClaimOK(Top(t), n)
           /\ \A n : Top(t) \in Claiming(n) => Has(stack[t], Claiming(n))
<1>1. stack[t] # <<>> /\ stack[t] \in Seq(Sound) /\ Top(t) = Head(stack[t])
  BY TopIs DEF Stacks, Top
<1>2. ToSet(stack[t]) = {Head(stack[t])} \cup ToSet(Tail(stack[t]))
  BY <1>1, ItemsReplaced, EmptySeq
<1>3. Top(t) \in ToSet(stack[t])
  BY <1>1, <1>2
<1> QED
  BY <1>3, HasIs DEF GraphInv, GraphOf, FramesOK

LEMMA Shifted ==
    ASSUME SchedInv, GraphInv, UNCHANGED <<queue, numDeps, runs, finished, at>>,
           NEW t \in Threads, NEW op, At(t, op), NEW fs \in Seq(Sound), Become(t, fs),
           \A n \in Nodes : Top(t) \notin Debtors(n),
           \A f \in ToSet(fs) : f.op # "succ" /\ Lists(f) /\ \A n \in Nodes : ClaimOK(f, n),
           \A n \in Nodes : OnceIn(fs, Claiming(n)),
           \A n \in Nodes : Has(fs, Claiming(n)) => Top(t) \in Claiming(n),
           OnceIn(fs, Processing), Has(fs, Processing) => op \in ProcessOps
    PROVE  GraphInv'
<1>1. Stacks(stack) /\ queue \in QueueType
  BY InvTypes
<1>2. Put(stack, stack', t, fs) /\ Head(stack[t]) = Top(t) /\ Top(t).op = op /\ Top(t) \in Sound
  BY <1>1, BecomePut
<1>3. ASSUME NEW n \in Nodes
      PROVE  Exclusive(queue', stack', n)
  <2>1. Exclusive(queue, stack, n)
    BY DEF GraphInv, GraphOf, Claimed
  <2>2. \A q \in 0..N : queue[q][n] <= queue[q][n]
    BY <1>1 DEF QueueType, Jobs
  <2> QED
    BY <1>1, <1>2, <2>1, <2>2, KeepsClaim
<1>4. \A n : ~Has(fs, Debtors(n))
  BY HasIs DEF Debtors, Debt
<1>5. \A q \in 0..N : \A n \in Nodes : queue'[q][n] > 0 => Ready(n)
  BY DEF GraphInv, GraphOf, QueuesOK
<1>6. ASSUME ~Submitted, NEW n \in Nodes
      PROVE  ~Has(fs, Claiming(n)) /\ \A q \in 0..N : queue'[q][n] = 0
  <2>1. ~Has(stack[t], Claiming(n)) /\ \A q \in 0..N : queue[q][n] = 0
    BY <1>6 DEF GraphInv, GraphOf, Before
  <2>2. Top(t) \notin Claiming(n)
    BY <1>2, <2>1, PutHas
  <2> QED
    BY <2>1, <2>2
<1>7. ASSUME t \in Workers
      PROVE  ~(Has(fs, Processing) /\ Has(Tail(stack[t]), Processing))
  <2>1. OnceIn(stack[t], Processing)
    BY <1>7 DEF GraphInv, GraphOf, OneProcess
  <2>2. ~(Head(stack[t]) \in Processing /\ Has(Tail(stack[t]), Processing))
    BY <1>2, <2>1, PutHas
  <2> QED
    BY <1>2, <2>2 DEF Processing
<1> QED
  BY <1>2, <1>3, <1>4, <1>5, <1>6, <1>7, Moved

\* A claim becomes one of another frame.
LEMMA JobShifted ==
    ASSUME SchedInv, GraphInv, UNCHANGED <<queue, numDeps, runs, finished, at>>,
           NEW t \in Threads, NEW op \in JobOps \ {"body"}, At(t, op),
           NEW f \in Sound, f.op \in JobOps \ ProcessOps, f.job = Top(t).job, Become(t, <<f>>)
    PROVE  GraphInv'
<1>1. Stacks(stack)
  BY InvTypes
<1>2. Top(t) \in Sound /\ Top(t).op = op
  BY <1>1, TopIs
<1>3. <<f>> \in Seq(Sound) /\ ToSet(<<f>>) = {f} /\ \A X : OnceIn(<<f>>, X)
  <2>1. <<f>> \in Seq(Sound)
    OBVIOUS
  <2>2. ToSet(<<f>>) = {f} /\ \A X : OnceIn(<<f>>, X)
    BY ShortStacks
  <2> QED
    BY <2>1, <2>2
<1>4. /\ \A n : f \in Claiming(n) <=> f.job = n
      /\ Lists(f) /\ f.op # "succ" /\ f.op # "body" /\ f.op # "s_next" /\ f \notin Processing
  BY JobClaims DEF Processing, JobOps, HoldOps, NodeOps, ProcessOps
<1>5. /\ \A n : Top(t) \in Claiming(n) <=> f.job = n
      /\ \A n : Top(t) \notin Debtors(n)
  BY <1>2, JobClaims
<1>6. ASSUME NEW n \in Nodes
      PROVE  ClaimOK(f, n)
  <2>1. ClaimOK(Top(t), n)
    BY <1>1, TopFacts
  <2>2. op # "s_next"
    BY DEF JobOps, HoldOps, NodeOps
  <2> QED
    BY <1>2, <1>4, <1>5, <2>1, <2>2 DEF ClaimOK, Claiming
<1>7. ~Has(<<f>>, Processing)
  BY <1>3, <1>4, HasIs
<1>8. \A n \in Nodes : Has(<<f>>, Claiming(n)) => Top(t) \in Claiming(n)
  BY <1>3, <1>4, <1>5, HasIs
<1> QED
  BY <1>3, <1>4, <1>5, <1>6, <1>7, <1>8, Shifted

LEMMA PushGraph ==
    ASSUME SchedInv, GraphInv, UNCHANGED <<numDeps, runs, finished, at>>,
           NEW t \in Threads, NEW op \in HoldOps \ ProcessOps, At(t, op),
           NEW q \in 0..N, Push(q, Top(t).job), NEW fs \in Seq(Plain), Become(t, fs)
    PROVE  GraphInv'
<1>1. Stacks(stack) /\ Values /\ queue \in QueueType
  BY InvTypes
<1>2. fs \in Seq(Sound)
  BY PlainOnce
<1>3. Put(stack, stack', t, fs) /\ Head(stack[t]) = Top(t) /\ Top(t).op = op /\ Top(t) \in Sound
  BY <1>1, <1>2, BecomePut
<1>4. PICK j \in Jobs : j = Top(t).job
  BY <1>3, FieldsAre
<1>5. /\ \A n : Top(t) \in Claiming(n) <=> j = n
      /\ \A n : Top(t) \notin Debtors(n)
      /\ op # "body" /\ op # "s_next"
  BY <1>3, <1>4, JobClaims DEF JobOps, HoldOps, ProcessOps
<1>6. queue' = [queue EXCEPT ![q][j] = @ + 1]
  BY <1>4 DEF Push
<1>7. queue' \in QueueType
  BY <1>1, <1>4, PushIs DEF QueueType
<1>8. \A n : ~Has(fs, Claiming(n)) /\ ~Has(fs, Debtors(n)) /\ OnceIn(fs, Claiming(n))
  BY PlainOnce
<1>9. ASSUME NEW n \in Nodes
      PROVE  Exclusive(queue', stack', n)
  <2>1. Exclusive(queue, stack, n)
    BY DEF GraphInv, GraphOf, Claimed
  <2>2. CASE n = j
    BY <1>1, <1>3, <1>5, <1>6, <1>7, <1>8, <2>1, <2>2, PushClaim
  <2>3. CASE n # j
    <3>1. \A r \in 0..N : queue'[r][n] <= queue[r][n]
      BY <1>1, <1>6, <2>3 DEF QueueType, Jobs
    <3> QED
      BY <1>1, <1>3, <1>7, <1>8, <2>1, <3>1, KeepsClaim
  <2> QED
    BY <2>2, <2>3
<1>10. ASSUME NEW r \in 0..N, NEW n \in Nodes, queue'[r][n] > 0
       PROVE  Ready(n)
  <2>1. CASE n = j
    <3>1. ClaimOK(Top(t), n)
      BY <1>1, TopFacts
    <3> QED
      BY <1>3, <1>5, <2>1, <3>1 DEF ClaimOK, Claiming
  <2>2. CASE n # j
    <3>1. queue[r][n] > 0
      BY <1>1, <1>6, <1>10, <2>2 DEF QueueType, Jobs
    <3> QED
      BY <3>1 DEF GraphInv, GraphOf, QueuesOK
  <2> QED
    BY <2>1, <2>2
<1>11. ASSUME ~Submitted, NEW n \in Nodes
       PROVE  ~Has(fs, Claiming(n)) /\ \A r \in 0..N : queue'[r][n] = 0
  <2>1. ~Has(stack[t], Claiming(n)) /\ \A r \in 0..N : queue[r][n] = 0
    BY <1>11 DEF GraphInv, GraphOf, Before
  <2>2. n # j
    BY <1>3, <1>5, <2>1, PutHas
  <2> QED
    BY <1>1, <1>6, <1>8, <2>1, <2>2 DEF QueueType, Jobs
<1>12. \A f \in ToSet(fs) : Lists(f) /\ \A n \in Nodes : ClaimOK(f, n)
  BY PlainOnce, PlainIs
<1>13. OnceIn(fs, Processing) /\ ~Has(fs, Processing)
  BY PlainOnce
<1> QED
  BY <1>3, <1>5, <1>8, <1>9, <1>10, <1>11, <1>12, <1>13, Moved

\* A job is taken out of a queue.
LEMMA PopGraph ==
    ASSUME SchedInv, GraphInv, UNCHANGED <<numDeps, runs, finished, at>>,
           NEW t \in Threads, NEW op, At(t, op), NEW q \in 0..N, NEW j \in Jobs, Pop(q, j),
           NEW fs \in Seq(Sound), Become(t, fs),
           \A n \in Nodes : Top(t) \notin Debtors(n), \A n \in Nodes : ~Has(fs, Debtors(n)),
           \A f \in ToSet(fs) : Lists(f) /\ f.op \notin {"s_next", "body"},
           \A n \in Nodes : Has(fs, Claiming(n)) => Top(t) \in Claiming(n) \/ n = j,
           op \notin {"s_next", "body"},
           (\A n \in Nodes : n = j => Top(t) \notin Claiming(n))
             => \A m \in Nodes : OnceIn(fs, Claiming(m)),
           OnceIn(fs, Processing), ~(Has(fs, Processing) /\ Has(Tail(stack[t]), Processing))
    PROVE  GraphInv'
<1>1. Stacks(stack) /\ Values /\ queue \in QueueType
  BY InvTypes
<1>2. Put(stack, stack', t, fs) /\ Head(stack[t]) = Top(t) /\ Top(t).op = op /\ Top(t) \in Sound
  BY <1>1, BecomePut
<1>3. queue[q][j] > 0 /\ queue' = [queue EXCEPT ![q][j] = @ - 1]
  BY DEF Pop
<1>4. queue' \in QueueType
  BY <1>1, PushIs DEF QueueType
<1>5. \A n \in Nodes : Exclusive(queue, stack, n)
  BY DEF GraphInv, GraphOf, Claimed
<1>6. \A n \in Nodes : n = j => Top(t) \notin Claiming(n)
  BY <1>2, <1>3, <1>5, TailClaims
<1>7. ASSUME NEW r \in 0..N, NEW n \in Nodes
      PROVE  queue[r][n] \in Nat /\ queue'[r][n] <= queue[r][n]
  BY <1>1, <1>3 DEF QueueType, Jobs
<1>8. ASSUME NEW n \in Nodes
      PROVE  Exclusive(queue', stack', n)
  <2>1. OnceIn(fs, Claiming(n)) /\ Exclusive(queue, stack, n)
    BY <1>5, <1>6
  <2>2. CASE n = j
    <3>1. Popped(queue, queue', q, n)
      BY <1>3, <2>2 DEF Popped
    <3> QED
      BY <1>1, <1>2, <1>4, <2>1, <3>1, PopClaim
  <2>3. CASE n # j
    BY <1>1, <1>2, <1>4, <1>7, <2>1, <2>3, KeepsClaim
  <2> QED
    BY <2>2, <2>3
<1>9. ASSUME NEW r \in 0..N, NEW n \in Nodes, queue'[r][n] > 0
      PROVE  Ready(n)
  <2>1. queue'[r][n] \in Nat
    BY <1>4 DEF QueueType, Jobs
  <2>2. queue[r][n] > 0
    BY <1>7, <1>9, <2>1
  <2> QED
    BY <2>2 DEF GraphInv, GraphOf, QueuesOK
<1>10. ASSUME NEW f \in ToSet(fs), NEW n \in Nodes
       PROVE  ClaimOK(f, n)
  <2>1. SUFFICES ASSUME Claims(f, n)
                 PROVE  Ready(n)
    BY DEF ClaimOK
  <2>2. f \in Sound
    BY ElementOfSeq, LenProperties DEF ToSet
  <2>3. Has(fs, Claiming(n))
    BY <2>1, <2>2, HasIs DEF Claiming
  <2>4. CASE n = j
    BY <1>3, <2>4 DEF GraphInv, GraphOf, QueuesOK
  <2>5. CASE Top(t) \in Claiming(n)
    <3>1. ClaimOK(Top(t), n)
      BY <1>1, TopFacts
    <3> QED
      BY <1>2, <2>5, <3>1 DEF ClaimOK, Claiming
  <2> QED
    BY <2>3, <2>4, <2>5
<1>11. ASSUME ~Submitted, NEW n \in Nodes
       PROVE  ~Has(fs, Claiming(n)) /\ \A r \in 0..N : queue'[r][n] = 0
  <2>1. ~Has(stack[t], Claiming(n)) /\ \A r \in 0..N : queue[r][n] = 0
    BY <1>11 DEF GraphInv, GraphOf, Before
  <2>2. n # j /\ Top(t) \notin Claiming(n)
    BY <1>2, <1>3, <2>1, PutHas
  <2> QED
    BY <1>1, <1>3, <2>1, <2>2 DEF QueueType, Jobs
<1> QED
  BY <1>2, <1>8, <1>9, <1>10, <1>11, Moved


-----------------------------------------------------------------------------
(* worker_loop_() and graphs.                                               *)

LEMMA GuardGraph ==
    ASSUME SchedInv, GraphInv, NEW w \in Workers,
           LoopTop(w) \/ LoopMark(w) \/ LoopPaused(w) \/ LoopStopped(w) \/ LoopCas(w) \/ LoopWait(w)
    PROVE  GraphInv'
<1>0. Stacks(stack) /\ w \in Threads
  BY DEF SchedInv, Threads
<1>1. UNCHANGED <<queue, numDeps, runs, finished, at>>
  BY DEF LoopTop, LoopMark, LoopPaused, LoopStopped, LoopCas, LoopWait, shared, graphVars, history
<1>2. PICK from \in LoopOps, to \in LoopOps : At(w, from) /\ Goto(w, to)
  <2>1. CASE LoopTop(w) \/ LoopMark(w) \/ LoopStopped(w)
    BY <2>1 DEF LoopTop, LoopMark, LoopStopped, LoopOps
  <2>2. CASE LoopPaused(w)
    BY <2>2 DEF LoopPaused, LoopOps
  <2>3. CASE LoopCas(w) \/ LoopWait(w)
    BY <2>3 DEF LoopCas, LoopWait, LoopOps
  <2> QED
    BY <2>1, <2>2, <2>3
<1>3. from # "succ" /\ to \in PlainOps /\ to \notin VisitOps
  BY DEF LoopOps, PlainOps, VisitOps
<1>4. Mute(stack, stack')
  BY <1>0, <1>2, <1>3, PlainGoes
<1> QED
  BY <1>1, <1>4, Muted

LEMMA TakeGraph ==
    ASSUME SchedInv, GraphInv, NEW w \in Workers, NEW from \in Looking, At(w, from), NEW q \in 0..N,
           Take(w, q), UNCHANGED <<graphVars, at>>
    PROVE  GraphInv'
<1>0. Stacks(stack) /\ w \in Threads /\ from \in LoopOps
  BY DEF SchedInv, Threads, Looking, LoopOps
<1>1. PICK j \in Jobs : Pop(q, j) /\ Become(w, <<JobFrame("run", j), Frame("top")>>)
  BY DEF Take
<1>2. UNCHANGED <<numDeps, runs, finished, at>>
  BY DEF Take, graphVars
<1>3. PICK g \in Sound : g = JobFrame("run", j) /\ g.op = "run" /\ g.job = j
  <2>1. JobFrame("run", j) \in Inner
    BY NewJobFrame DEF CallOps, ProcessOps, NodeOps, VisitOps
  <2>2. JobFrame("run", j).op = "run" /\ JobFrame("run", j).job = j
    BY FrameIs DEF ProcessOps
  <2> QED
    BY <2>1, <2>2 DEF Inner
<1>4. PICK f \in Plain : f = Frame("top")
  BY NewPlain DEF PlainOps, LoopOps
<1>5. /\ \A n : g \in Claiming(n) <=> j = n
      /\ \A n : g \notin Debtors(n)
      /\ Lists(g) /\ g.op \notin {"s_next", "body"}
  BY <1>3, JobClaims DEF JobOps, HoldOps
<1>6. /\ f \in Sound /\ f \notin Processing /\ Lists(f) /\ f.op \notin {"s_next", "body"}
      /\ \A n : f \notin Claiming(n) /\ f \notin Debtors(n)
  BY PlainIs DEF Plain, PlainOps, LoopOps, WakeOps, ClientOps
<1>7. PICK fs \in Seq(Sound) : /\ fs = <<g, f>> /\ ToSet(fs) = {g, f}
                               /\ \A X : ~(g \in X /\ f \in X) => OnceIn(fs, X)
                               /\ Become(w, fs)
  <2>1. <<g, f>> \in Seq(Sound)
    BY <1>6
  <2> QED
    BY <1>1, <1>3, <1>4, <2>1, ShortStacks
<1>8. Top(w) \in Sound /\ Top(w).op = from /\ Top(w) = Head(stack[w]) /\ stack[w] # <<>>
  BY <1>0, TopIs DEF Top
<1>9. \A n \in Nodes : Top(w) \notin Debtors(n)
  BY <1>0, <1>8, NoDebt DEF Looking
<1>10. \A n \in Nodes : ~Has(fs, Debtors(n))
  BY <1>5, <1>6, <1>7, HasIs
<1>11. \A n \in Nodes : Has(fs, Claiming(n)) => n = j
  BY <1>5, <1>6, <1>7, HasIs
<1>12. \A n \in Nodes : OnceIn(fs, Claiming(n))
  BY <1>6, <1>7
<1>13. OnceIn(fs, Processing)
  BY <1>6, <1>7
<1>14. ~Has(Tail(stack[w]), Processing)
  <2>1. stack[w] \in Seq(Sound) /\ Shape(stack[w])
    BY <1>0 DEF Stacks
  <2>2. Tail(stack[w]) = <<>>
    BY <1>0, <1>8, <2>1, LoopAlone
  <2> QED
    BY <2>2 DEF Has
<1>15. from \notin {"s_next", "body"}
  BY DEF Looking
<1> QED
  BY <1>0, <1>1, <1>2, <1>5, <1>6, <1>7, <1>9, <1>10, <1>11, <1>12, <1>13, <1>14, <1>15, PopGraph

LEMMA QueueGraph ==
    ASSUME SchedInv, GraphInv, NEW w \in Workers, LoopLocal(w) \/ LoopGlobal(w)
    PROVE  GraphInv'
<1>0. Stacks(stack) /\ w \in 0..N /\ 0 \in 0..N /\ w \in Threads
  BY SchedulerAssumption DEF SchedInv, Workers, Threads
<1>1. UNCHANGED <<graphVars, at>>
  BY DEF LoopLocal, LoopGlobal
<1>2. PICK from \in Looking : /\ At(w, from)
                              /\ \/ \E q \in 0..N : Take(w, q)
                                 \/ /\ \E to \in {"global", "steal", "cas"} : Goto(w, to)
                                    /\ UNCHANGED <<queue, steal, history>>
  BY <1>0 DEF LoopLocal, LoopGlobal, Looking
<1>3. CASE \E q \in 0..N : Take(w, q)
  BY <1>1, <1>2, <1>3, TakeGraph
<1>4. CASE /\ \E to \in {"global", "steal", "cas"} : Goto(w, to)
           /\ UNCHANGED <<queue, steal, history>>
  <2>1. PICK to \in {"global", "steal", "cas"} : Goto(w, to)
    BY <1>4
  <2>2. to \in PlainOps /\ to \notin VisitOps /\ from # "succ"
    BY DEF LoopOps, PlainOps, Looking, VisitOps
  <2>3. Mute(stack, stack')
    BY <1>0, <1>2, <2>1, <2>2, PlainGoes
  <2>4. UNCHANGED <<queue, numDeps, runs, finished, at>>
    BY <1>1, <1>4 DEF graphVars, history
  <2> QED
    BY <2>3, <2>4, Muted
<1> QED
  BY <1>2, <1>3, <1>4

LEMMA StealGraph ==
    ASSUME SchedInv, GraphInv, NEW w \in Workers, LoopSteal(w)
    PROVE  GraphInv'
<1>0. Stacks(stack) /\ w \in Threads /\ At(w, "steal")
  BY DEF SchedInv, Threads, LoopSteal
<1>1. steal \in 0..N
  BY SchedulerAssumption DEF SchedInv, Values
<1>2. PICK g \in Plain : g = Frame("scan")
  BY NewPlain DEF PlainOps, LoopOps
<1>3. <<[g EXCEPT !.to = steal]>> \in Seq(Plain)
  <2>1. [g EXCEPT !.to = steal] \in Plain
    BY <1>1, PlainFields
  <2> QED
    BY <2>1
<1>4. Become(w, <<[g EXCEPT !.to = steal]>>)
  BY <1>2 DEF LoopSteal
<1>5. Mute(stack, stack')
  BY <1>0, <1>3, <1>4, PlainBecome
<1>6. UNCHANGED <<queue, numDeps, runs, finished, at>>
  BY DEF LoopSteal, graphVars, history
<1> QED
  BY <1>5, <1>6, Muted

LEMMA ScanGraph ==
    ASSUME SchedInv, GraphInv, NEW w \in Workers, LoopScan(w)
    PROVE  GraphInv'
<1>0. Stacks(stack) /\ At(w, "scan") /\ w \in Threads
  BY DEF SchedInv, LoopScan, Threads
<1>1. UNCHANGED <<graphVars, at>>
  BY DEF LoopScan
<1>2. PICK f \in Plain : f = Top(w) /\ f.op = "scan" /\ f \in Sound
  BY <1>0, TopIs DEF Plain, PlainOps, LoopOps
<1>3. f.to \in 0..N /\ f.pos \in 1..(N + 1)
  BY <1>2, FieldsAre
<1> DEFINE victim == ((f.to + f.pos - 1) % N) + 1
<1>4. victim \in 0..N
  <2>1. f.to + f.pos - 1 \in Int /\ N \in Nat /\ N > 0
    BY <1>3, SchedulerAssumption
  <2>2. (f.to + f.pos - 1) % N \in 0..(N - 1)
    BY <2>1
  <2> QED
    BY <2>1, <2>2
<1>5. \/ Take(w, victim)
      \/ /\ f.pos <= N /\ Become(w, <<[f EXCEPT !.pos = @ + 1]>>)
         /\ UNCHANGED <<queue, steal, history>>
      \/ Become(w, <<Frame("cas")>>) /\ UNCHANGED <<queue, steal, history>>
  BY <1>2 DEF LoopScan
<1> HIDE DEF victim
<1>6. CASE Take(w, victim)
  BY <1>0, <1>1, <1>4, <1>6, TakeGraph DEF Looking
<1>7. CASE /\ f.pos <= N /\ Become(w, <<[f EXCEPT !.pos = @ + 1]>>)
           /\ UNCHANGED <<queue, steal, history>>
  <2>1. f.pos + 1 \in 1..(N + 1) /\ [f EXCEPT !.pos = @ + 1] = [f EXCEPT !.pos = f.pos + 1]
    BY <1>3, <1>7, SchedulerAssumption
  <2>2. [f EXCEPT !.pos = f.pos + 1] \in Plain
    BY <1>2, <2>1, PlainFields DEF VisitOps
  <2>3. <<[f EXCEPT !.pos = @ + 1]>> \in Seq(Plain)
    BY <2>1, <2>2
  <2>4. Mute(stack, stack')
    BY <1>0, <1>7, <2>3, PlainBecome
  <2>5. UNCHANGED <<queue, numDeps, runs, finished, at>>
    BY <1>1, <1>7 DEF graphVars, history
  <2> QED
    BY <2>4, <2>5, Muted
<1>8. CASE Become(w, <<Frame("cas")>>) /\ UNCHANGED <<queue, steal, history>>
  <2>1. <<Frame("cas")>> \in Seq(Plain)
    BY NewPlain DEF PlainOps, LoopOps
  <2>2. Mute(stack, stack')
    BY <1>0, <1>8, <2>1, PlainBecome
  <2>3. UNCHANGED <<queue, numDeps, runs, finished, at>>
    BY <1>1, <1>8 DEF graphVars, history
  <2> QED
    BY <2>2, <2>3, Muted
<1> QED
  BY <1>5, <1>6, <1>7, <1>8

-----------------------------------------------------------------------------
(* enqueue_(), wake_any_worker_() and graphs.                               *)

LEMMA EnqueueIs ==
    ASSUME NEW j \in Jobs, NEW to \in 0..N
    PROVE  /\ EnqueueFrame(j, to) \in Sound /\ EnqueueFrame(j, to).job = j
           /\ EnqueueFrame(j, to).op \in {"e_global", "e_hint"}
<1> DEFINE op == IF to = 0 THEN "e_global" ELSE "e_hint"
           f == JobFrame(op, j)
<1>1. f \in Frames /\ f.op = op /\ f.job = j
  BY FrameIs DEF EnqueueOps
<1>2. EnqueueFrame(j, to) = [f EXCEPT !.to = to]
  BY DEF EnqueueFrame
<1> HIDE DEF f
<1>3. [f EXCEPT !.to = to].op = op /\ [f EXCEPT !.to = to].job = j
  BY <1>1 DEF Frames
<1>4. EnqueueFrame(j, to) \in Sound
  BY NewEnqueue DEF Inner
<1> QED
  BY <1>2, <1>3, <1>4

LEMMA HintGraph ==
    ASSUME SchedInv, GraphInv, NEW t \in Threads, EnqueueHint(t)
    PROVE  GraphInv'
<1>1. Stacks(stack) /\ At(t, "e_hint") /\ "e_hint" \in JobOps \ {"body"}
  BY DEF SchedInv, EnqueueHint, JobOps, HoldOps
<1>2. Top(t) \in Sound /\ Top(t).op = "e_hint"
  BY <1>1, TopIs
<1>3. PICK j \in Jobs : j = Top(t).job
  BY <1>2, FieldsAre DEF HoldOps
<1>4. UNCHANGED <<queue, numDeps, runs, finished, at>>
  BY DEF EnqueueHint, shared, graphVars, history
<1>5. PICK f \in Sound : f.op \in JobOps \ ProcessOps /\ f.job = j /\ Become(t, <<f>>)
  <2>1. CASE Goto(t, "e_local")
    <3>1. /\ [Top(t) EXCEPT !.op = "e_local"] \in Inner
      BY <1>2, <1>3, GoneTo DEF CallOps, EnqueueOps, NodeOps, VisitOps
    <3>2. [Top(t) EXCEPT !.op = "e_local"].op = "e_local" /\ [Top(t) EXCEPT !.op = "e_local"].job = j
      BY <1>2, <1>3 DEF Sound, Frames
    <3> QED
      BY <2>1, <3>1, <3>2 DEF Goto, Inner, JobOps, HoldOps, ProcessOps
  <2>2. CASE Become(t, <<EnqueueFrame(j, 0)>>)
    <3>1. 0 \in 0..N
      BY SchedulerAssumption
    <3>2. EnqueueFrame(j, 0).op \in JobOps \ ProcessOps
      BY <3>1, EnqueueIs DEF JobOps, HoldOps, ProcessOps
    <3> QED
      BY <2>2, <3>1, <3>2, EnqueueIs
  <2> QED
    BY <1>3, <2>1, <2>2 DEF EnqueueHint
<1> QED
  BY <1>1, <1>3, <1>4, <1>5, JobShifted

LEMMA PushLocalGraph ==
    ASSUME SchedInv, GraphInv, NEW t \in Threads, PushLocal(t)
    PROVE  GraphInv'
<1>1. Stacks(stack) /\ At(t, "e_local") /\ "e_local" \in HoldOps \ ProcessOps
      /\ "e_local" \in JobOps \ {"body"}
  BY DEF SchedInv, PushLocal, JobOps, HoldOps, ProcessOps
<1>2. Top(t) \in Sound /\ Top(t).op = "e_local"
  BY <1>1, TopIs
<1>3. PICK f \in Sound : f = Top(t) /\ f.job \in Jobs /\ f.to \in 0..N
  BY <1>2, FieldsAre DEF HoldOps
<1>4. UNCHANGED <<numDeps, runs, finished, at>>
  BY DEF PushLocal, graphVars, history
<1>5. CASE Push(f.to, f.job) /\ Goto(t, "e_count")
  <2>1. [f EXCEPT !.op = "e_count"] \in Plain
    BY PlainFrame DEF PlainOps, VisitOps
  <2>2. <<[f EXCEPT !.op = "e_count"]>> \in Seq(Plain)
    BY <2>1
  <2>3. Become(t, <<[f EXCEPT !.op = "e_count"]>>)
    BY <1>3, <1>5 DEF Goto
  <2>4. Push(f.to, Top(t).job)
    BY <1>3, <1>5
  <2> QED
    BY <1>1, <1>3, <1>4, <2>2, <2>3, <2>4, PushGraph
<1>6. CASE Goto(t, "e_full") /\ UNCHANGED queue
  <2>1. PICK g \in Sound : g = [f EXCEPT !.op = "e_full"]
    BY <1>3, GoneTo DEF CallOps, EnqueueOps, NodeOps, VisitOps, Inner
  <2>2. g.op \in JobOps \ ProcessOps /\ g.job = f.job
    BY <2>1 DEF Sound, Frames, JobOps, HoldOps, ProcessOps
  <2>3. Become(t, <<g>>) /\ g.job = Top(t).job
    BY <1>3, <1>6, <2>1, <2>2 DEF Goto
  <2> QED
    BY <1>1, <1>4, <1>6, <2>2, <2>3, JobShifted
<1> QED
  BY <1>3, <1>5, <1>6 DEF PushLocal

LEMMA PushGlobalGraph ==
    ASSUME SchedInv, GraphInv, NEW t \in Threads, Spill(t) \/ PushGlobal(t)
    PROVE  GraphInv'
<1>1. Stacks(stack) /\ 0 \in 0..N
  BY SchedulerAssumption DEF SchedInv
<1>2. UNCHANGED <<numDeps, runs, finished, at>> /\ Push(0, Top(t).job)
  BY DEF Spill, PushGlobal, graphVars, history
<1>3. CASE Spill(t)
  <2>1. <<Frame("wake")>> \in Seq(Plain)
    BY NewPlain DEF PlainOps, WakeOps
  <2>2. At(t, "e_spill") /\ Become(t, <<Frame("wake")>>) /\ "e_spill" \in HoldOps \ ProcessOps
    BY <1>3 DEF Spill, HoldOps, ProcessOps
  <2> QED
    BY <1>1, <1>2, <2>1, <2>2, PushGraph
<1>4. CASE PushGlobal(t)
  <2>1. At(t, "e_global") /\ Goto(t, "e_count") /\ "e_global" \in HoldOps \ ProcessOps
    BY <1>4 DEF PushGlobal, HoldOps, ProcessOps
  <2>2. [Top(t) EXCEPT !.op = "e_count"] \in Plain
    BY <1>1, <2>1, TopIs, PlainFrame DEF PlainOps, VisitOps
  <2>3. <<[Top(t) EXCEPT !.op = "e_count"]>> \in Seq(Plain)
    BY <2>2
  <2>4. Become(t, <<[Top(t) EXCEPT !.op = "e_count"]>>)
    BY <2>1 DEF Goto
  <2> QED
    BY <1>1, <1>2, <2>1, <2>3, <2>4, PushGraph
<1> QED
  BY <1>3, <1>4

LEMMA DisplaceGraph ==
    ASSUME SchedInv, GraphInv, NEW t \in Threads, Displace(t)
    PROVE  GraphInv'
<1>1. Stacks(stack) /\ At(t, "e_full") /\ "e_full" \in JobOps \ {"body"}
  BY DEF SchedInv, Displace, JobOps, HoldOps
<1>2. Top(t) \in Sound /\ Top(t).op = "e_full"
  BY <1>1, TopIs
<1>3. PICK f \in Sound : f = Top(t) /\ f.job \in Jobs /\ f.to \in 0..N /\ f.op = "e_full"
  BY <1>2, FieldsAre DEF HoldOps
<1>4. UNCHANGED <<numDeps, runs, finished, at>>
  BY DEF Displace, graphVars, history
<1>5. PICK retry \in Sound : /\ retry = [f EXCEPT !.op = "e_local"]
                             /\ retry.op = "e_local" /\ retry.job = f.job
  <2>1. [f EXCEPT !.op = "e_local"] \in Sound
    BY <1>3, GoneTo DEF CallOps, EnqueueOps, NodeOps, VisitOps, Inner
  <2>2. [f EXCEPT !.op = "e_local"].op = "e_local" /\ [f EXCEPT !.op = "e_local"].job = f.job
    BY DEF Sound, Frames
  <2> QED
    BY <2>1, <2>2
<1>6. CASE \E j \in Jobs : Pop(f.to, j) /\ Become(t, <<JobFrame("e_spill", j), retry>>)
  <2>1. PICK j \in Jobs : Pop(f.to, j) /\ Become(t, <<JobFrame("e_spill", j), retry>>)
    BY <1>6
  <2>2. PICK g \in Sound : g = JobFrame("e_spill", j) /\ g.op = "e_spill" /\ g.job = j
    <3>1. JobFrame("e_spill", j) \in Inner
      BY NewJobFrame DEF CallOps, EnqueueOps, NodeOps, VisitOps
    <3>2. JobFrame("e_spill", j).op = "e_spill" /\ JobFrame("e_spill", j).job = j
      BY FrameIs DEF EnqueueOps
    <3> QED
      BY <3>1, <3>2 DEF Inner
  <2>3. /\ \A n : g \in Claiming(n) <=> j = n
        /\ \A n : g \notin Debtors(n)
        /\ Lists(g) /\ g.op \notin {"s_next", "body"} /\ g \notin Processing
    BY <2>2, JobClaims DEF JobOps, HoldOps, Processing, ProcessOps
  <2>4. /\ \A n : retry \in Claiming(n) <=> f.job = n
        /\ \A n : retry \notin Debtors(n)
        /\ Lists(retry) /\ retry.op \notin {"s_next", "body"} /\ retry \notin Processing
    BY <1>5, JobClaims DEF JobOps, HoldOps, Processing, ProcessOps
  <2>5. /\ \A n : Top(t) \in Claiming(n) <=> f.job = n
        /\ \A n : Top(t) \notin Debtors(n)
    BY <1>3, JobClaims DEF JobOps, HoldOps
  <2>6. PICK fs \in Seq(Sound) : /\ ToSet(fs) = {g, retry}
                                 /\ \A X : ~(g \in X /\ retry \in X) => OnceIn(fs, X)
                                 /\ Become(t, fs)
    <3>1. <<g, retry>> \in Seq(Sound)
      OBVIOUS
    <3> QED
      BY <2>1, <2>2, <3>1, ShortStacks
  <2>7. \A n \in Nodes : ~Has(fs, Debtors(n))
    BY <2>3, <2>4, <2>6, HasIs
  <2>8. \A n \in Nodes : Has(fs, Claiming(n)) => Top(t) \in Claiming(n) \/ n = j
    BY <2>3, <2>4, <2>5, <2>6, HasIs
  <2>9. (\A n \in Nodes : n = j => Top(t) \notin Claiming(n))
          => \A m \in Nodes : OnceIn(fs, Claiming(m))
    BY <2>3, <2>4, <2>5, <2>6
  <2>10. OnceIn(fs, Processing) /\ ~Has(fs, Processing)
    BY <2>3, <2>4, <2>6, HasIs
  <2>11. \A h \in ToSet(fs) : Lists(h) /\ h.op \notin {"s_next", "body"}
    BY <2>3, <2>4, <2>6
  <2>12. "e_full" \notin {"s_next", "body"}
    OBVIOUS
  <2> QED
    BY <1>1, <1>3, <1>4, <2>1, <2>5, <2>6, <2>7, <2>8, <2>9, <2>10, <2>11, <2>12, PopGraph
<1>7. CASE Become(t, <<retry>>) /\ UNCHANGED queue
  <2>1. retry.op \in JobOps \ ProcessOps /\ retry.job = Top(t).job
    BY <1>3, <1>5 DEF JobOps, HoldOps, ProcessOps
  <2> QED
    BY <1>1, <1>4, <1>7, <2>1, JobShifted
<1> QED
  BY <1>3, <1>5, <1>6, <1>7 DEF Displace

LEMMA CountGraph ==
    ASSUME SchedInv, GraphInv, NEW t \in Threads, Count(t) \/ WakeStore(t)
    PROVE  GraphInv'
<1>1. Stacks(stack)
  BY DEF SchedInv
<1>2. UNCHANGED <<queue, numDeps, runs, finished, at>>
  BY DEF Count, WakeStore, graphVars, history
<1>3. <<Frame("wake")>> \in Seq(Plain)
  BY NewPlain DEF PlainOps, WakeOps
<1>4. CASE Count(t)
  <2>1. At(t, "e_count") /\ (Become(t, <<Frame("wake")>>) \/ Goto(t, "e_store"))
    BY <1>4 DEF Count
  <2>2. Goto(t, "e_store") => Mute(stack, stack')
    BY <1>1, <2>1, PlainGoes DEF PlainOps, VisitOps
  <2>3. Become(t, <<Frame("wake")>>) => Mute(stack, stack')
    BY <1>1, <1>3, <2>1, PlainBecome
  <2> QED
    BY <1>2, <2>1, <2>2, <2>3, Muted
<1>5. CASE WakeStore(t)
  <2>1. At(t, "e_store") /\ Goto(t, "e_notify")
    BY <1>5 DEF WakeStore
  <2>2. Mute(stack, stack')
    BY <1>1, <2>1, PlainGoes DEF PlainOps, VisitOps
  <2> QED
    BY <1>2, <2>2, Muted
<1> QED
  BY <1>4, <1>5

LEMMA WakeGraph ==
    ASSUME SchedInv, GraphInv, NEW t \in Threads, WakeNotify(t) \/ WakeOne(t)
    PROVE  GraphInv'
<1>1. Stacks(stack)
  BY DEF SchedInv
<1>2. UNCHANGED <<queue, numDeps, runs, finished, at>>
  BY DEF WakeNotify, WakeOne, shared, graphVars, history
<1>3. PICK op \in {"e_notify", "w_notify"}, fs \in {<<Frame("wake")>>, <<>>} :
         At(t, op) /\ NotifyWorker(t, Top(t).to, fs)
  BY DEF WakeNotify, WakeOne
<1>4. fs \in Seq(Plain) /\ fs \in Seq(Inner)
  <2>1. <<>> \in Seq(Plain) /\ <<>> \in Seq(Inner)
    BY EmptySeq
  <2>2. <<Frame("wake")>> \in Seq(Plain) /\ <<Frame("wake")>> \in Seq(Inner)
    BY PlainInner DEF PlainOps, WakeOps, LoopOps
  <2> QED
    BY <2>1, <2>2
<1>5. op \in CallOps /\ op # "succ"
  BY DEF CallOps, EnqueueOps, WakeOps
<1>6. Mute(stack, stack')
  BY <1>1, <1>3, <1>4, <1>5, PlainNotifiesWorker
<1> QED
  BY <1>2, <1>6, Muted

LEMMA WakeScanGraph ==
    ASSUME SchedInv, GraphInv, NEW t \in Threads, WakeScan(t)
    PROVE  GraphInv'
<1>1. Stacks(stack) /\ At(t, "wake") /\ Values
  BY DEF SchedInv, WakeScan
<1>2. UNCHANGED <<queue, numDeps, runs, finished, at>>
  BY DEF WakeScan, graphVars, history
<1>3. PICK f \in Plain : f = Top(t) /\ f.op = "wake" /\ f.pos \in 1..(N + 1)
  <2>1. Top(t) \in Sound /\ Top(t).op = "wake"
    BY <1>1, TopIs
  <2> QED
    BY <2>1, FieldsAre DEF Plain, PlainOps, WakeOps
<1>4. PICK g \in Plain : g = Frame("w_notify")
  BY NewPlain DEF PlainOps, WakeOps
<1>5. PICK fs \in Seq(Plain) : Become(t, fs)
  <2>1. CASE f.pos <= N /\ Become(t, <<[g EXCEPT !.to = f.pos]>>)
    <3>1. [g EXCEPT !.to = f.pos] \in Plain
      <4>1. f.pos \in 0..N
        BY <1>3, <2>1
      <4> QED
        BY <4>1, PlainFields
    <3>2. <<[g EXCEPT !.to = f.pos]>> \in Seq(Plain)
      BY <3>1
    <3> QED
      BY <2>1, <3>2
  <2>2. CASE f.pos <= N /\ Become(t, <<[f EXCEPT !.pos = f.pos + 1]>>)
    <3>1. [f EXCEPT !.pos = f.pos + 1] \in Plain
      <4>1. f.pos + 1 \in 1..(N + 1) /\ f.op \notin VisitOps
        BY <1>3, <2>2, SchedulerAssumption DEF VisitOps
      <4> QED
        BY <4>1, PlainFields
    <3>2. <<[f EXCEPT !.pos = f.pos + 1]>> \in Seq(Plain)
      BY <3>1
    <3> QED
      BY <2>2, <3>2
  <2>3. CASE Become(t, <<[g EXCEPT !.to = steal + 1]>>)
    <3>1. [g EXCEPT !.to = steal + 1] \in Plain
      <4>1. steal + 1 \in 0..N
        BY <1>1, SchedulerAssumption DEF Values
      <4> QED
        BY <4>1, PlainFields
    <3>2. <<[g EXCEPT !.to = steal + 1]>> \in Seq(Plain)
      BY <3>1
    <3> QED
      BY <2>3, <3>2
  <2> QED
    BY <1>3, <1>4, <2>1, <2>2, <2>3 DEF WakeScan
<1>6. Mute(stack, stack')
  BY <1>1, <1>5, PlainBecome
<1> QED
  BY <1>2, <1>6, Muted

LEMMA AnyGraph ==
    ASSUME SchedInv, GraphInv, NEW t \in Threads, AnyStep(t)
    PROVE  GraphInv'
BY HintGraph, PushLocalGraph, DisplaceGraph, PushGlobalGraph, CountGraph, WakeGraph, WakeScanGraph
   DEF AnyStep, enqueue_, wake_any_worker_

-----------------------------------------------------------------------------
(* The clients' calls and graphs.                                           *)

LEMMA WaitGraph ==
    ASSUME SchedInv, GraphInv, NEW c \in Clients, Wait(c) \/ Pause(c)
    PROVE  GraphInv'
<1>0. c \in Threads /\ Stacks(stack)
  BY DEF Threads, SchedInv
<1>1. UNCHANGED <<queue, numDeps, runs, finished, at>>
  BY DEF Wait, Pause, shared, graphVars, history
<1>2. PICK op \in {"wait", "pause"} : At(c, op)
  BY DEF Wait, Pause
<1>3. PICK f \in Plain : f = Top(c)
  BY <1>0, <1>2, TopIs DEF Plain, PlainOps, ClientOps
<1>4. PICK g \in Plain : g = Frame("wake")
  BY NewPlain DEF PlainOps, WakeOps
<1>5. <<>> \in Seq(Plain) /\ <<g, f>> \in Seq(Plain)
  BY EmptySeq
<1>6. Become(c, <<>>) \/ Become(c, <<g, f>>)
  BY <1>3, <1>4 DEF Wait, Pause
<1>7. Mute(stack, stack')
  BY <1>0, <1>2, <1>5, <1>6, PlainBecome
<1> QED
  BY <1>1, <1>7, Muted

LEMMA ResumeGraph ==
    ASSUME SchedInv, GraphInv, NEW c \in Clients, Resume(c) \/ ShutdownResume(c)
    PROVE  GraphInv'
<1>0. c \in Threads /\ Stacks(stack)
  BY DEF Threads, SchedInv
<1>1. UNCHANGED <<queue, numDeps, runs, finished, at>>
  BY DEF Resume, ShutdownResume, graphVars, history
<1>2. PICK op \in {"resume", "r_notify", "unpause", "u_notify"} :
         /\ At(c, op)
         /\ \/ Goto(c, "r_notify") \/ Goto(c, "u_notify") \/ Become(c, <<>>)
            \/ NotifyPaused(c, <<Frame("wake")>>) \/ NotifyPaused(c, <<Frame("request_stop")>>)
  BY DEF Resume, ShutdownResume
<1>3. op \in CallOps /\ op # "succ" /\ op \notin VisitOps
  BY DEF CallOps, ClientOps, VisitOps
<1>4. CASE Goto(c, "r_notify") \/ Goto(c, "u_notify")
  <2>1. "r_notify" \in PlainOps \ VisitOps /\ "u_notify" \in PlainOps \ VisitOps
    BY DEF PlainOps, ClientOps, VisitOps
  <2>2. Mute(stack, stack')
    BY <1>0, <1>2, <1>3, <1>4, <2>1, PlainGoes
  <2> QED
    BY <1>1, <2>2, Muted
<1>5. CASE Become(c, <<>>)
  <2>1. <<>> \in Seq(Plain)
    BY EmptySeq
  <2>2. Mute(stack, stack')
    BY <1>0, <1>2, <1>3, <1>5, <2>1, PlainBecome
  <2> QED
    BY <1>1, <2>2, Muted
<1>6. CASE NotifyPaused(c, <<Frame("wake")>>) \/ NotifyPaused(c, <<Frame("request_stop")>>)
  <2>1. <<Frame("wake")>> \in Seq(Plain) /\ <<Frame("wake")>> \in Seq(Inner)
    BY PlainInner DEF PlainOps, WakeOps, LoopOps
  <2>2. <<Frame("request_stop")>> \in Seq(Plain) /\ <<Frame("request_stop")>> \in Seq(Inner)
    BY PlainInner DEF PlainOps, ClientOps, LoopOps
  <2>3. Mute(stack, stack')
    BY <1>0, <1>2, <1>3, <1>6, <2>1, <2>2, PlainNotifiesPaused
  <2> QED
    BY <1>1, <2>3, Muted
<1> QED
  BY <1>2, <1>4, <1>5, <1>6

\* The frame for the next worker is plain too.
LEMMA PlainNext ==
    ASSUME NEW f \in Plain, NEW op \in VisitOps, f.op \notin LoopOps, f.pos < N
    PROVE  /\ <<[f EXCEPT !.op = op, !.pos = @ + 1]>> \in Seq(Plain)
           /\ <<[f EXCEPT !.op = op, !.pos = @ + 1]>> \in Seq(Inner)
<1> DEFINE g == [f EXCEPT !.op = op, !.pos = @ + 1]
<1>1. f \in Frames /\ f.pos \in 1..(N + 1) /\ f.pos + 1 \in 1..(N + 1) /\ f.pos + 1 <= N
  BY SchedulerAssumption DEF Plain, Sound, Frames
<1>2. /\ op \in ClientOps \ {"s_next", "schedule", "s_load"}
      /\ op \notin LoopOps /\ op \notin HoldOps /\ op \notin NodeOps
  BY DEF VisitOps, ClientOps, LoopOps, HoldOps, NodeOps
<1>3. g \in Frames /\ g.op = op /\ g.pos = f.pos + 1
  BY <1>1, <1>2 DEF Frames
<1>4. g \in Plain /\ g \in Inner
  BY <1>1, <1>2, <1>3 DEF Plain, PlainOps, Inner, Sound
<1> QED
  BY <1>4

LEMMA PlainAdvances ==
    ASSUME Stacks(stack), NEW c \in Threads, NEW op \in VisitOps, At(c, op),
           NEW next \in Seq(Plain), Advance(c, op, next)
    PROVE  Mute(stack, stack')
<1>1. op \in PlainOps /\ op \notin LoopOps /\ op # "succ"
  BY DEF VisitOps, PlainOps, ClientOps, LoopOps
<1>2. PICK f \in Plain : f = Top(c) /\ f.op = op
  BY <1>1, TopIs DEF Plain
<1>3. CASE f.pos < N
  <2>1. <<[f EXCEPT !.op = op, !.pos = @ + 1]>> \in Seq(Plain)
    BY <1>1, <1>2, <1>3, PlainNext
  <2>2. Become(c, <<[f EXCEPT !.op = op, !.pos = @ + 1]>>)
    BY <1>2, <1>3 DEF Advance
  <2> QED
    BY <1>1, <2>1, <2>2, PlainBecome
<1>4. CASE ~(f.pos < N)
  <2>1. Become(c, next)
    BY <1>2, <1>4 DEF Advance
  <2> QED
    BY <1>1, <2>1, PlainBecome
<1> QED
  BY <1>3, <1>4

LEMMA ShutdownGraph ==
    ASSUME SchedInv, GraphInv, NEW c \in Clients, ShutdownStop(c) \/ ShutdownJoin(c)
    PROVE  GraphInv'
<1>0. c \in Threads /\ Stacks(stack)
  BY DEF Threads, SchedInv
<1>1. UNCHANGED <<queue, numDeps, runs, finished, at>>
  BY DEF ShutdownStop, ShutdownJoin, shared, graphVars, history
<1>2. <<Frame("stop_store")>> \in Seq(Plain) /\ <<>> \in Seq(Plain)
  BY NewPlain, EmptySeq DEF PlainOps, ClientOps
<1>3. PICK op \in VisitOps, next \in Seq(Plain) : At(c, op) /\ Advance(c, op, next)
  BY <1>2 DEF ShutdownStop, ShutdownJoin, VisitOps
<1>4. Mute(stack, stack')
  BY <1>0, <1>3, PlainAdvances
<1> QED
  BY <1>1, <1>4, Muted

LEMMA ShutdownWakeGraph ==
    ASSUME SchedInv, GraphInv, NEW c \in Clients, ShutdownWake(c)
    PROVE  GraphInv'
<1>0. c \in Threads /\ Stacks(stack)
  BY DEF Threads, SchedInv
<1>1. UNCHANGED <<queue, numDeps, runs, finished, at>>
  BY DEF ShutdownWake, graphVars, history
<1>2. CASE At(c, "stop_store") /\ Goto(c, "stop_notify")
  <2>1. Mute(stack, stack')
    BY <1>0, <1>2, PlainGoes DEF PlainOps, ClientOps, VisitOps
  <2> QED
    BY <1>1, <2>1, Muted
<1>3. CASE /\ At(c, "stop_notify")
           /\ NotifyWorker(c, Top(c).pos,
                IF Top(c).pos < N THEN <<[Top(c) EXCEPT !.op = "stop_store", !.pos = @ + 1]>>
                ELSE <<Frame("join")>>)
  <2>1. "stop_notify" \in CallOps /\ "stop_store" \in VisitOps
    BY DEF CallOps, ClientOps, VisitOps
  <2>2. PICK f \in Plain : f = Top(c) /\ f.op \notin LoopOps
    BY <1>0, <1>3, TopIs DEF Plain, PlainOps, ClientOps, LoopOps
  <2>3. f.pos < N => /\ <<[f EXCEPT !.op = "stop_store", !.pos = @ + 1]>> \in Seq(Plain)
                     /\ <<[f EXCEPT !.op = "stop_store", !.pos = @ + 1]>> \in Seq(Inner)
    BY <2>1, <2>2, PlainNext
  <2>4. <<Frame("join")>> \in Seq(Plain) /\ <<Frame("join")>> \in Seq(Inner)
    BY PlainInner DEF PlainOps, ClientOps, LoopOps
  <2>5. PICK fs \in Seq(Plain) : fs \in Seq(Inner) /\ NotifyWorker(c, f.pos, fs)
    <3>1. CASE f.pos < N
      BY <1>3, <2>2, <2>3, <3>1
    <3>2. CASE ~(f.pos < N)
      BY <1>3, <2>2, <2>4, <3>2
    <3> QED
      BY <3>1, <3>2
  <2>6. Mute(stack, stack')
    BY <1>0, <1>3, <2>1, <2>5, PlainNotifiesWorker
  <2> QED
    BY <1>1, <2>6, Muted
<1> QED
  BY <1>2, <1>3 DEF ShutdownWake

LEMMA ScheduleGraph ==
    ASSUME SchedInv, GraphInv, NEW c \in Clients, Schedule(c)
    PROVE  GraphInv'
<1>0. c \in Threads /\ Stacks(stack) /\ At(c, "schedule") /\ "schedule" \in JobOps \ {"body"}
  BY DEF Threads, SchedInv, Schedule, JobOps, NodeOps
<1>1. UNCHANGED <<queue, numDeps, runs, finished, at>>
  BY DEF Schedule, shared, history
<1>2. PICK f \in Sound : f = Top(c) /\ f.op = "schedule" /\ f.job \in Nodes
  BY <1>0, TopIs, FieldsAre DEF NodeOps
<1>3. CASE Goto(c, "s_load")
  <2>1. PICK g \in Sound : g = [f EXCEPT !.op = "s_load"]
    BY <1>2, GoneTo DEF CallOps, ClientOps, HoldOps, VisitOps, Inner
  <2>2. g.op \in JobOps \ ProcessOps /\ g.job = f.job
    BY <2>1 DEF Sound, Frames, JobOps, NodeOps, ProcessOps
  <2>3. Become(c, <<g>>) /\ g.job = Top(c).job
    BY <1>2, <1>3, <2>1, <2>2 DEF Goto
  <2> QED
    BY <1>0, <1>1, <2>2, <2>3, JobShifted
<1>4. CASE Become(c, <<>>)
  <2>1. <<>> \in Seq(Plain)
    BY EmptySeq
  <2>2. Mute(stack, stack')
    BY <1>0, <1>4, <2>1, PlainBecome
  <2> QED
    BY <1>1, <2>2, Muted
<1> QED
  BY <1>3, <1>4 DEF Schedule

\* A node that is scheduled has no dependencies left: submit() asked for roots only.
LEMMA ScheduleLoadGraph ==
    ASSUME SchedInv, GraphInv, NEW c \in Clients, ScheduleLoad(c)
    PROVE  GraphInv'
<1>0. c \in Threads /\ Stacks(stack) /\ At(c, "s_load") /\ "s_load" \in JobOps \ {"body"}
  BY DEF Threads, SchedInv, ScheduleLoad, JobOps, NodeOps
<1>1. UNCHANGED <<queue, numDeps, runs, finished, at>>
  BY DEF ScheduleLoad, shared, graphVars, history
<1>2. PICK f \in Sound : f = Top(c) /\ f.op = "s_load" /\ f.job \in Nodes
  BY <1>0, TopIs, FieldsAre DEF NodeOps
<1>3. numDeps[f.job] = 0
  <2>1. ClaimOK(f, f.job)
    BY <1>0, <1>2, TopFacts
  <2> QED
    BY <1>2, <2>1 DEF ClaimOK, Claims, NodeOps, Ready
<1>4. Become(c, <<EnqueueFrame(f.job, 0)>>)
  BY <1>2, <1>3 DEF ScheduleLoad
<1>5. f.job \in Jobs /\ 0 \in 0..N
  BY <1>2, SchedulerAssumption DEF Jobs
<1>6. PICK g \in Sound : g = EnqueueFrame(f.job, 0) /\ g.job = f.job /\ g.op \in JobOps \ ProcessOps
  BY <1>5, EnqueueIs DEF JobOps, HoldOps, ProcessOps
<1> QED
  BY <1>0, <1>1, <1>2, <1>4, <1>6, JobShifted

\* The rest of a frame's list.
LEMMA TodoTail ==
    ASSUME NEW todo \in Seq(Nodes), todo # <<>>, NoRepeats(todo)
    PROVE  /\ ToSet(todo) = {Head(todo)} \cup ToSet(Tail(todo)) /\ Head(todo) \notin ToSet(Tail(todo))
           /\ NoRepeats(Tail(todo))
           /\ PredsLater(todo) => PredsLater(Tail(todo))
<1> DEFINE r == Tail(todo)
<1>1. PICK n \in Nat : n = Len(todo) - 1 /\ Len(todo) = n + 1
  BY LenProperties, EmptySeq
<1>2. r \in Seq(Nodes) /\ Len(r) = n /\ Head(todo) = todo[1] /\ \A i \in 1..n : r[i] = todo[i + 1]
  BY <1>1, HeadTailProperties
<1>3. DOMAIN todo = 1..(n + 1) /\ DOMAIN r = 1..n
  BY <1>1, <1>2, LenProperties
<1>4. ToSet(todo) = {Head(todo)} \cup ToSet(r)
  BY ItemsReplaced, EmptySeq
<1> HIDE DEF r
<1>5. \A i \in 1..n : i + 1 \in DOMAIN todo /\ i + 1 # 1
  BY <1>3
<1>6. Head(todo) \notin ToSet(r)
  <2>1. SUFFICES ASSUME NEW i \in 1..n, r[i] = todo[1]
                 PROVE  FALSE
    BY <1>2, <1>3 DEF ToSet
  <2>2. todo[i + 1] = todo[1] /\ 1 \in DOMAIN todo
    BY <1>2, <1>3, <2>1
  <2> QED
    BY <1>5, <2>2 DEF NoRepeats
<1>7. NoRepeats(r)
  <2>1. SUFFICES ASSUME NEW i \in 1..n, NEW j \in 1..n, r[i] = r[j]
                 PROVE  i = j
    BY <1>3 DEF NoRepeats
  <2>2. todo[i + 1] = todo[j + 1]
    BY <1>2, <2>1
  <2>3. i + 1 = j + 1
    BY <1>5, <2>2 DEF NoRepeats
  <2> QED
    BY <2>3
<1>8. ASSUME PredsLater(todo)
      PROVE  PredsLater(r)
  <2>1. SUFFICES ASSUME NEW i \in 1..n, NEW p \in ToSet(Preds[r[i]])
                 PROVE  \E j \in DOMAIN r : i < j /\ r[j] = p
    BY <1>3 DEF PredsLater
  <2>2. p \in ToSet(Preds[todo[i + 1]]) /\ i + 1 \in DOMAIN todo
    BY <1>2, <1>5
  <2>3. PICK k \in 1..(n + 1) : i + 1 < k /\ todo[k] = p
    BY <1>3, <1>8, <2>2 DEF PredsLater
  <2>4. k - 1 \in 1..n /\ i < k - 1 /\ (k - 1) + 1 = k
    BY <2>3
  <2>5. r[k - 1] = p
    BY <1>2, <2>3, <2>4
  <2> QED
    BY <1>3, <2>4, <2>5
<1> QED
  BY <1>4, <1>6, <1>7, <1>8 DEF r

\* The predecessors of a listed node are listed.
LEMMA ListedPreds ==
    ASSUME NEW todo, PredsLater(todo), NEW n \in ToSet(todo), NEW p \in ToSet(Preds[n])
    PROVE  p \in ToSet(todo)
<1>1. PICK i \in DOMAIN todo : todo[i] = n
  BY DEF ToSet
<1>2. PICK j \in DOMAIN todo : todo[j] = p
  BY <1>1 DEF PredsLater
<1> QED
  BY <1>2 DEF ToSet

\* A frame with the rest of its list.
LEMMA RestIs ==
    ASSUME NEW f \in Sound, f.op \in {"s_next", "succ"}, f.todo # <<>>
    PROVE  /\ [f EXCEPT !.todo = Tail(@)] \in Sound
           /\ [f EXCEPT !.todo = Tail(@)].op = f.op
           /\ [f EXCEPT !.todo = Tail(@)].todo = Tail(f.todo)
           /\ f.todo \in Seq(Nodes) /\ Head(f.todo) \in Nodes
<1>1. f.todo \in Seq(Nodes)
  BY FieldsAre
<1>2. Head(f.todo) \in Nodes /\ Tail(f.todo) \in Seq(Nodes)
  BY <1>1, TailIsSeq
<1>3. f \in Inner
  BY DEF Inner, LoopOps
<1>4. [f EXCEPT !.todo = Tail(f.todo)] \in Inner
  BY <1>2, <1>3, SetTodo
<1>5. [f EXCEPT !.todo = Tail(@)] = [f EXCEPT !.todo = Tail(f.todo)]
  BY DEF Sound, Frames
<1>6. /\ [f EXCEPT !.todo = Tail(f.todo)].op = f.op
      /\ [f EXCEPT !.todo = Tail(f.todo)].todo = Tail(f.todo)
  BY DEF Sound, Frames
<1> QED
  BY <1>1, <1>2, <1>4, <1>5, <1>6 DEF Inner

LEMMA SubmitNextGraph ==
    ASSUME SchedInv, GraphInv, NEW c \in Clients, SubmitNext(c)
    PROVE  GraphInv'
<1>0. c \in Threads /\ Stacks(stack) /\ At(c, "s_next")
  BY DEF Threads, SchedInv, SubmitNext
<1>1. UNCHANGED <<queue, numDeps, runs, finished, at>>
  BY DEF SubmitNext, shared, graphVars, history
<1>2. PICK f \in Sound : f = Top(c) /\ f.op = "s_next"
  BY <1>0, TopIs
<1>3. CASE f.todo = <<>>
  <2>1. Become(c, <<>>)
    BY <1>2, <1>3 DEF SubmitNext
  <2>2. <<>> \in Seq(Plain)
    BY EmptySeq
  <2>3. Mute(stack, stack')
    BY <1>0, <2>1, <2>2, PlainBecome
  <2> QED
    BY <1>1, <2>3, Muted
<1>4. CASE f.todo # <<>>
  <2>1. PICK n \in Nodes : n = Head(f.todo)
    BY <1>2, <1>4, RestIs
  <2>2. PICK rest \in Sound : /\ rest = [f EXCEPT !.todo = Tail(@)]
                              /\ rest.op = "s_next" /\ rest.todo = Tail(f.todo)
    BY <1>2, <1>4, RestIs
  <2>3. NoRepeats(f.todo) /\ PredsLater(f.todo) /\ \A m \in Nodes : ClaimOK(f, m)
    BY <1>0, <1>2, TopFacts DEF Lists
  <2>4. /\ ToSet(f.todo) = {n} \cup ToSet(rest.todo) /\ n \notin ToSet(rest.todo)
        /\ NoRepeats(rest.todo) /\ PredsLater(rest.todo)
    <3>1. f.todo \in Seq(Nodes)
      BY <1>2, <1>4, RestIs
    <3> QED
      BY <1>4, <2>1, <2>2, <2>3, <3>1, TodoTail
  <2>5. /\ \A m : f \in Claiming(m) <=> m \in ToSet(f.todo)
        /\ \A m : rest \in Claiming(m) <=> m \in ToSet(rest.todo)
    BY <1>2, <2>2 DEF Claiming, Claims, HoldOps, NodeOps
  <2>6. \A m \in Nodes : Top(c) \notin Debtors(m)
    BY <1>2 DEF Debtors, Debt
  <2>7. \A m \in ToSet(f.todo) : m \in Nodes => Untouched(m)
    BY <1>2, <2>3 DEF ClaimOK, Claims
  <2>8. Lists(rest) /\ \A m \in Nodes : ClaimOK(rest, m)
    BY <2>2, <2>4, <2>7 DEF Lists, ClaimOK, Claims, HoldOps, NodeOps
  <2>9. CASE numDeps[n] = 0
    <3>1. PICK g \in Sound : g = JobFrame("schedule", n) /\ g.op = "schedule" /\ g.job = n
      <4>1. JobFrame("schedule", n) \in Inner
        BY NewJobFrame DEF CallOps, ClientOps, VisitOps, Jobs
      <4>2. JobFrame("schedule", n).op = "schedule" /\ JobFrame("schedule", n).job = n
        BY FrameIs DEF ClientOps, Jobs
      <4> QED
        BY <4>1, <4>2 DEF Inner
    <3>2. /\ \A m : g \in Claiming(m) <=> n = m
          /\ Lists(g)
      BY <3>1, JobClaims DEF JobOps, NodeOps
    <3>3. Ready(n)
      <4>1. Untouched(n) /\ Suspends[n] \in Nat
        BY <2>4, <2>7, SchedulerAssumption DEF Jobs
      <4> QED
        BY <2>9, <4>1 DEF Untouched, Ready
    <3>4. \A m \in Nodes : ClaimOK(g, m)
      BY <3>1, <3>3 DEF ClaimOK, Claims
    <3>5. PICK fs \in Seq(Sound) : /\ fs = <<g, rest>> /\ ToSet(fs) = {g, rest}
                                   /\ \A X : ~(g \in X /\ rest \in X) => OnceIn(fs, X)
      <4>1. <<g, rest>> \in Seq(Sound)
        OBVIOUS
      <4> QED
        BY <4>1, ShortStacks
    <3>6. Become(c, fs)
      BY <1>2, <1>4, <2>1, <2>2, <2>9, <3>1, <3>5 DEF SubmitNext
    <3>7. \A m \in Nodes : OnceIn(fs, Claiming(m))
      BY <2>4, <2>5, <3>2, <3>5
    <3>8. \A m \in Nodes : Has(fs, Claiming(m)) => Top(c) \in Claiming(m)
      BY <1>2, <2>4, <2>5, <3>2, <3>5, HasIs
    <3>9. g \notin Processing /\ rest \notin Processing
      BY <2>2, <3>1 DEF Processing, ProcessOps
    <3>10. OnceIn(fs, Processing) /\ ~Has(fs, Processing)
      BY <3>5, <3>9, HasIs
    <3>11. \A h \in ToSet(fs) : h.op # "succ" /\ Lists(h) /\ \A m \in Nodes : ClaimOK(h, m)
      BY <2>2, <2>8, <3>1, <3>2, <3>4, <3>5
    <3> QED
      BY <1>0, <1>1, <2>6, <3>6, <3>7, <3>8, <3>10, <3>11, Shifted
  <2>10. CASE numDeps[n] # 0
    <3>1. PICK fs \in Seq(Sound) : fs = <<rest>> /\ ToSet(fs) = {rest} /\ \A X : OnceIn(fs, X)
      <4>1. <<rest>> \in Seq(Sound)
        OBVIOUS
      <4> QED
        BY <4>1, ShortStacks
    <3>2. Become(c, fs)
      BY <1>2, <1>4, <2>1, <2>2, <2>10, <3>1 DEF SubmitNext
    <3>3. \A m \in Nodes : Has(fs, Claiming(m)) => Top(c) \in Claiming(m)
      BY <1>2, <2>4, <2>5, <3>1, HasIs
    <3>4. ~Has(fs, Processing)
      BY <2>2, <3>1, HasIs DEF Processing, ProcessOps
    <3>5. \A h \in ToSet(fs) : h.op # "succ" /\ Lists(h) /\ \A m \in Nodes : ClaimOK(h, m)
      BY <2>2, <2>8, <3>1
    <3>6. OnceIn(fs, Processing) /\ \A m \in Nodes : OnceIn(fs, Claiming(m))
      BY <3>1
    <3> QED
      BY <1>0, <1>1, <2>6, <3>2, <3>3, <3>4, <3>5, <3>6, Shifted
  <2> QED
    BY <2>9, <2>10
<1> QED
  BY <1>3, <1>4

\* What a call's frame is, when nobody calls schedule() himself.
LEMMA NewCall ==
    ASSUME NEW call \in Call, call.op # "schedule", GraphRules
    PROVE  LET f == CallFrame(call) IN
           /\ f \in Sound /\ f \notin Processing /\ \A n : f \notin Debtors(n)
           /\ Lists(f)
           /\ call.op # "submit" => \A n \in Nodes : f \notin Claiming(n)
           /\ call.op = "submit" => f.op = "s_next"
<1> DEFINE f == CallFrame(call)
<1>1. f \in Sound
  BY CallFrameIs DEF Inner
<1>2. /\ call.op = "enqueue" => call.job \in Fns /\ call.to \in 0..N
      /\ call.op \in {"enqueue", "schedule", "submit", "wait", "pause", "resume", "shutdown"}
  BY DEF Call
<1>3. CASE call.op = "enqueue"
  <2>1. f = EnqueueFrame(call.job, call.to)
    BY <1>3 DEF CallFrame
  <2>2. call.job \in Jobs /\ call.job \notin Nodes
    BY <1>2, <1>3, SchedulerAssumption DEF Jobs
  <2>3. f.job = call.job /\ f.op \in {"e_global", "e_hint"}
    BY <1>2, <1>3, <2>1, <2>2, EnqueueIs
  <2> HIDE DEF f
  <2>4. /\ \A n : f \in Claiming(n) <=> f.job = n
        /\ \A n : f \notin Debtors(n)
        /\ Lists(f)
    BY <1>1, <2>3, JobClaims DEF JobOps, HoldOps
  <2> QED
    BY <1>1, <1>3, <2>2, <2>3, <2>4 DEF f, Processing, ProcessOps
<1>4. CASE call.op = "submit"
  <2>1. f = [Frame("s_next") EXCEPT !.todo = Order]
    BY <1>4 DEF CallFrame
  <2>2. f.op = "s_next" /\ f.todo = Order
    BY <2>1 DEF Frame
  <2> HIDE DEF f
  <2>3. Lists(f)
    BY <2>2 DEF Lists, GraphRules
  <2>4. f \notin Processing /\ \A n : f \notin Debtors(n)
    BY <2>2 DEF Processing, ProcessOps, Debtors, Debt
  <2> QED
    BY <1>1, <1>4, <2>2, <2>3, <2>4 DEF f
<1>5. CASE call.op \in {"wait", "pause", "resume", "shutdown"}
  <2>1. PICK op \in {"wait", "pause", "resume", "unpause"} : f = Frame(op)
    BY <1>5 DEF CallFrame
  <2>2. f \in Plain
    BY <2>1, NewPlain DEF PlainOps, ClientOps
  <2> HIDE DEF f
  <2> QED
    BY <1>1, <1>5, <2>2, PlainIs DEF f
<1> QED
  BY <1>2, <1>3, <1>4, <1>5

LEMMA BeginGraph ==
    ASSUME SchedInv, GraphInv, GraphRules, NEW c \in Clients, Begin(c)
    PROVE  GraphInv'
<1>1. PICK k \in Nat : k = at[c] /\ k \in 1..Len(Script[c])
  <2>1. at[c] \in Nat \ {0} /\ at[c] <= Len(Script[c]) /\ Script[c] \in Seq(Call)
    BY SchedulerAssumption DEF SchedInv, Values, Begin
  <2> QED
    BY <2>1
<1>2. Script[c] \in Seq(Call) /\ DOMAIN Script[c] = 1..Len(Script[c])
  BY SchedulerAssumption, LenProperties
<1>3. PICK call \in Call : call = Script[c][k] /\ call.op # "schedule"
  <2>1. Script[c][k] \in Call
    BY <1>1, <1>2, ElementOfSeq
  <2>2. Script[c][k].op # "schedule"
    BY <1>1, <1>2 DEF GraphRules
  <2> QED
    BY <2>1, <2>2
<1>4. PICK f \in Sound : /\ f = CallFrame(call) /\ f \notin Processing /\ \A n : f \notin Debtors(n)
                         /\ Lists(f)
                         /\ call.op # "submit" => \A n \in Nodes : f \notin Claiming(n)
                         /\ call.op = "submit" => f.op = "s_next"
  BY <1>3, NewCall
<1>5. PICK fs \in Seq(Sound) : fs = <<f>> /\ ToSet(fs) = {f} /\ \A X : OnceIn(fs, X)
  <2>1. <<f>> \in Seq(Sound)
    OBVIOUS
  <2> QED
    BY <2>1, ShortStacks
<1>6. c \in Threads /\ stack[c] = <<>> /\ stack' = [stack EXCEPT ![c] = fs]
  BY <1>1, <1>3, <1>4, <1>5 DEF Begin, Threads
<1>7. stack'[c] = fs /\ \A u \in Threads : u # c => stack'[u] = stack[u]
  BY <1>6 DEF SchedInv, Stacks
<1>8. UNCHANGED <<queue, numDeps, runs, finished>> /\ at' = [at EXCEPT ![c] = @ + 1]
  BY DEF Begin, shared, history
<1>9. /\ at \in [Clients -> Nat] /\ at'[c] = k + 1
      /\ \A d \in Clients : d # c => at'[d] = at[d]
  BY <1>1, <1>8 DEF SchedInv, Values
<1>10. Submitted => Submitted'
  <2>1. SUFFICES ASSUME NEW d \in Clients, NEW i \in DOMAIN Script[d], i < at[d],
                        Script[d][i].op = "submit"
                 PROVE  Submitted'
    BY DEF Submitted
  <2>2. i \in Nat
    BY SchedulerAssumption, LenProperties
  <2>3. i < at'[d]
    BY <1>1, <1>9, <2>1, <2>2
  <2> QED
    BY <2>1, <2>3 DEF Submitted
<1>11. ASSUME call.op = "submit"
       PROVE  ~Submitted /\ Submitted'
  <2>1. k < at'[c] /\ k \in DOMAIN Script[c]
    BY <1>1, <1>2, <1>9
  <2>2. Submitted'
    BY <1>3, <1>11, <2>1 DEF Submitted
  <2>3. SUFFICES ASSUME NEW d \in Clients, NEW i \in DOMAIN Script[d], i < at[d],
                        Script[d][i].op = "submit"
                 PROVE  FALSE
    BY <2>2 DEF Submitted
  <2>4. c = d /\ k = i
    BY <1>3, <1>11, <2>1, <2>3 DEF GraphRules
  <2> QED
    BY <1>1, <2>3, <2>4
<1>12. \A n : ~Has(fs, Debtors(n))
  BY <1>4, <1>5, HasIs
<1>13. \A n : ~Has(<<>>, Claiming(n)) /\ ~Has(<<>>, Debtors(n))
  BY DEF Has
<1>14. call.op # "submit" => \A n \in Nodes : ~Has(fs, Claiming(n))
  BY <1>4, <1>5, HasIs
<1>15. Claimed(stack)'
  <2>1. ASSUME NEW n \in Nodes
        PROVE  Exclusive(queue, stack', n)
    <3>1. Exclusive(queue, stack, n)
      BY DEF GraphInv, GraphOf, Claimed
    <3>2. \A u \in Threads : OnceIn(stack'[u], Claiming(n))
      BY <1>5, <1>7, <3>1 DEF Exclusive
    <3>3. CASE call.op = "submit"
      <4>1. (\A u \in Threads : ~Has(stack[u], Claiming(n))) /\ (\A q \in 0..N : queue[q][n] = 0)
        BY <1>11, <3>3 DEF GraphInv, GraphOf, Before
      <4>2. \A u \in Threads : Has(stack'[u], Claiming(n)) => u = c
        BY <1>7, <4>1
      <4> QED
        BY <3>2, <4>1, <4>2 DEF Exclusive
    <3>4. CASE call.op # "submit"
      <4>1. \A u \in Threads : Has(stack'[u], Claiming(n)) => Has(stack[u], Claiming(n))
        BY <1>7, <1>14, <3>4
      <4> QED
        BY <3>1, <3>2, <4>1 DEF Exclusive
    <3> QED
      BY <3>3, <3>4
  <2> QED
    BY <1>8, <2>1 DEF Claimed
<1>16. FramesOK(stack)'
  <2>1. ASSUME NEW n \in Nodes
        PROVE  ClaimOK(f, n)
    <3>1. CASE call.op = "submit"
      <4>1. Untouched(n)
        BY <1>11, <3>1 DEF GraphInv, GraphOf, Before
      <4> QED
        BY <1>4, <3>1, <4>1 DEF ClaimOK
    <3>2. CASE call.op # "submit"
      BY <1>4, <3>2 DEF ClaimOK, Claiming
    <3> QED
      BY <3>1, <3>2
  <2>2. ASSUME NEW u \in Threads, NEW g \in ToSet(stack'[u])
        PROVE  Lists(g) /\ \A n \in Nodes : ClaimOK(g, n)
    <3>1. CASE u = c
      BY <1>4, <1>5, <1>7, <2>1, <2>2, <3>1
    <3>2. CASE u # c
      BY <1>7, <2>2, <3>2 DEF GraphInv, GraphOf, FramesOK
    <3> QED
      BY <3>1, <3>2
  <2> QED
    BY <1>8, <2>2 DEF FramesOK, ClaimOK, Untouched, Ready, Entered
<1>17. QueuesOK' /\ NodesOK'
  BY <1>8 DEF GraphInv, GraphOf, QueuesOK, NodesOK, Ready
<1>18. \A w \in Workers : stack'[w] = stack[w]
  BY <1>7, SchedulerAssumption DEF Threads
<1>19. Counted(stack)'
  <2>1. \A n \in Nodes : Owing(n, stack') = Owing(n, stack)
    BY <1>18 DEF Owing
  <2> QED
    BY <1>8, <2>1 DEF GraphInv, GraphOf, Counted
<1>20. Before(stack)'
  <2>1. SUFFICES ASSUME ~Submitted'
                 PROVE  \A n \in Nodes : /\ Untouched(n)'
                                         /\ \A u \in Threads : ~Has(stack'[u], Claiming(n))
                                         /\ \A q \in 0..N : queue[q][n] = 0
    BY <1>8 DEF Before
  <2>2. ~Submitted /\ call.op # "submit"
    BY <1>10, <1>11, <2>1
  <2>3. \A n \in Nodes : /\ Untouched(n)
                         /\ \A u \in Threads : ~Has(stack[u], Claiming(n))
                         /\ \A q \in 0..N : queue[q][n] = 0
    BY <2>2 DEF GraphInv, GraphOf, Before
  <2>4. \A n \in Nodes : Untouched(n)'
    BY <1>8, <2>3 DEF Untouched
  <2> QED
    BY <1>7, <1>14, <2>2, <2>3, <2>4
<1>21. OneProcess(stack)'
  BY <1>18 DEF GraphInv, GraphOf, OneProcess
<1> QED
  BY <1>15, <1>16, <1>17, <1>19, <1>20, <1>21 DEF GraphInv, GraphOf

-----------------------------------------------------------------------------
(* process_() and graphs.                                                   *)

\* A step that changes what is known of one node, x.
LEMMA Touched ==
    ASSUME SchedInv, GraphInv, UNCHANGED <<queue, at>>, NEW x \in Jobs,
           NEW t, NEW fs, Put(stack, stack', t, fs),
           \A m \in Nodes : m # x => /\ numDeps'[m] = numDeps[m] /\ runs'[m] = runs[m]
                                     /\ m \in finished' <=> m \in finished,
           \A n \in Nodes : Exclusive(queue, stack', n),
           \A f \in ToSet(fs) : Lists(f) /\ \A n \in Nodes : ClaimOK(f, n)',
           x \in Nodes =>
              /\ \A u \in Threads : \A f \in ToSet(IF u = t THEN Tail(stack[t]) ELSE stack[u]) :
                    ClaimOK(f, x)'
              /\ \A q \in 0..N : ~(queue[q][x] > 0)
              /\ (runs'[x] > 0 \/ x \in finished') => numDeps'[x] = 0
              /\ runs'[x] <= Suspends[x] + 1,
           Counted(stack)',
           Submitted \/ (/\ \A n \in Nodes : ~Has(fs, Claiming(n))
                         /\ x \in Nodes => Untouched(x)'),
           t \in Workers => /\ OnceIn(fs, Processing)
                            /\ ~(Has(fs, Processing) /\ Has(Tail(stack[t]), Processing))
    PROVE  GraphInv'
<1>1. /\ t \in Threads /\ \A u \in Threads : u # t => stack'[u] = stack[u]
      /\ ToSet(stack[t]) = {Head(stack[t])} \cup ToSet(Tail(stack[t]))
      /\ ToSet(stack'[t]) = ToSet(fs) \cup ToSet(Tail(stack[t]))
  <2>1. t \in Threads
    BY PutIs
  <2>2. \A u \in Threads : u # t => stack'[u] = stack[u]
    BY PutIs
  <2>3. ToSet(stack[t]) = {Head(stack[t])} \cup ToSet(Tail(stack[t]))
    BY PutIs
  <2>4. ToSet(stack'[t]) = ToSet(fs) \cup ToSet(Tail(stack[t]))
    BY PutIs
  <2> QED
    BY <2>1, <2>2, <2>3, <2>4
<1>2. Claimed(stack)'
  BY DEF Claimed
<1>3. FramesOK(stack)'
  <2>1. ASSUME NEW f, NEW m \in Nodes, m # x, ClaimOK(f, m)
        PROVE  ClaimOK(f, m)'
    BY <2>1 DEF ClaimOK, Untouched, Ready, Entered
  <2>2. ASSUME NEW u \in Threads, NEW f \in ToSet(IF u = t THEN Tail(stack[t]) ELSE stack[u])
        PROVE  Lists(f) /\ \A n \in Nodes : ClaimOK(f, n)'
    <3>1. f \in ToSet(stack[u])
      BY <1>1, <2>2
    <3>2. Lists(f) /\ \A n \in Nodes : ClaimOK(f, n)
      BY <3>1 DEF GraphInv, GraphOf, FramesOK
    <3>3. ASSUME NEW n \in Nodes
          PROVE  ClaimOK(f, n)'
      <4>1. CASE n = x
        BY <2>2, <4>1
      <4>2. CASE n # x
        BY <2>1, <3>2, <4>2
      <4> QED
        BY <4>1, <4>2
    <3> QED
      BY <3>2, <3>3
  <2>3. ASSUME NEW u \in Threads, NEW f \in ToSet(stack'[u])
        PROVE  Lists(f) /\ \A n \in Nodes : ClaimOK(f, n)'
    <3>1. \/ f \in ToSet(IF u = t THEN Tail(stack[t]) ELSE stack[u])
          \/ u = t /\ f \in ToSet(fs)
      BY <1>1, <2>3
    <3> QED
      BY <2>2, <3>1
  <2> QED
    BY <2>3 DEF FramesOK
<1>4. QueuesOK'
  BY DEF GraphInv, GraphOf, QueuesOK, Ready
<1>5. NodesOK'
  BY DEF GraphInv, GraphOf, NodesOK
<1>6. Before(stack)'
  <2>1. Submitted' <=> Submitted
    BY DEF Submitted
  <2>2. ASSUME ~Submitted, NEW n \in Nodes
        PROVE  /\ Untouched(n)' /\ (\A u \in Threads : ~Has(stack'[u], Claiming(n)))
               /\ \A q \in 0..N : queue'[q][n] = 0
    <3>1. /\ Untouched(n) /\ \A u \in Threads : ~Has(stack[u], Claiming(n))
          /\ \A q \in 0..N : queue[q][n] = 0
      BY <2>2 DEF GraphInv, GraphOf, Before
    <3>2. Untouched(n)'
      BY <2>2, <3>1 DEF Untouched
    <3>3. ASSUME NEW u \in Threads
          PROVE  ~Has(stack'[u], Claiming(n))
      <4>1. CASE u = t
        BY <2>2, <3>1, <4>1, PutHas
      <4>2. CASE u # t
        BY <1>1, <3>1, <4>2
      <4> QED
        BY <4>1, <4>2
    <3> QED
      BY <3>1, <3>2, <3>3
  <2> QED
    BY <2>1, <2>2 DEF Before
<1>7. OneProcess(stack)'
  <2>1. ASSUME NEW w \in Workers
        PROVE  OnceIn(stack'[w], Processing)
    <3>1. OnceIn(stack[w], Processing)
      BY DEF GraphInv, GraphOf, OneProcess
    <3>2. CASE w = t
      BY <3>1, <3>2, PutHas
    <3>3. CASE w # t
      BY <1>1, <3>1, <3>3 DEF Threads
    <3> QED
      BY <3>2, <3>3
  <2> QED
    BY <2>1 DEF OneProcess
<1> QED
  BY <1>2, <1>3, <1>4, <1>5, <1>6, <1>7 DEF GraphInv, GraphOf

\* The frame on top of a worker's stack is the only one of process_() there.
LEMMA ProcessTop ==
    ASSUME SchedInv, GraphInv, NEW w \in Workers, NEW op \in ProcessOps, At(w, op)
    PROVE  /\ w \in Threads /\ Stacks(stack) /\ stack[w] \in Seq(Sound) /\ stack[w] # <<>>
           /\ Top(w) \in Sound /\ Top(w).op = op /\ Top(w) = Head(stack[w])
           /\ ~Has(Tail(stack[w]), Processing)
           /\ \A n : ~Has(Tail(stack[w]), Debtors(n))
           /\ ToSet(stack[w]) = {Top(w)} \cup ToSet(Tail(stack[w]))
<1>1. w \in Threads /\ Stacks(stack)
  BY DEF Threads, SchedInv
<1>2. /\ stack[w] \in Seq(Sound) /\ stack[w] # <<>>
      /\ Top(w) \in Sound /\ Top(w).op = op /\ Top(w) = Head(stack[w])
  BY <1>1, TopIs DEF Stacks, Top
<1>3. OnceIn(stack[w], Processing)
  BY DEF GraphInv, GraphOf, OneProcess
<1>4. ~Has(Tail(stack[w]), Processing)
  <2>1. <<>> \in Seq(Sound)
    BY EmptySeq
  <2> QED
    BY <1>2, <1>3, <2>1, OnceReplaced DEF Processing
<1>5. \A n : Debtors(n) \subseteq Processing
  BY DEF Debtors, Debt, Processing, ProcessOps
<1>6. \A n : ~Has(Tail(stack[w]), Debtors(n))
  BY <1>4, <1>5 DEF Has
<1>7. ToSet(stack[w]) = {Top(w)} \cup ToSet(Tail(stack[w]))
  BY <1>2, ItemsReplaced, EmptySeq
<1> QED
  BY <1>1, <1>2, <1>4, <1>6, <1>7

LEMMA SubmittedIfClaimed ==
    ASSUME GraphInv, NEW t \in Threads, NEW n \in Nodes, Has(stack[t], Claiming(n))
    PROVE  Submitted
BY DEF GraphInv, GraphOf, Before

\* Where the top frame claims a node, nobody else does.
LEMMA OnlyClaim ==
    ASSUME SchedInv, GraphInv, NEW t, NEW fs, Put(stack, stack', t, fs), NEW n \in Nodes,
           Head(stack[t]) \in Claiming(n)
    PROVE  /\ \A u \in Threads : \A f \in ToSet(IF u = t THEN Tail(stack[t]) ELSE stack[u]) : ~Claims(f, n)
           /\ \A q \in 0..N : ~(queue[q][n] > 0)
           /\ Submitted
<1>1. Exclusive(queue, stack, n)
  BY DEF GraphInv, GraphOf, Claimed
<1>2. /\ ~Has(Tail(stack[t]), Claiming(n)) /\ \A u \in Threads : u # t => ~Has(stack[u], Claiming(n))
      /\ \A q \in 0..N : ~(queue[q][n] > 0)
  BY <1>1, TailClaims
<1>3. t \in Threads /\ stack \in [Threads -> Seq(Sound)] /\ stack[t] # <<>>
  BY DEF Put
<1>4. ASSUME NEW u \in Threads
      PROVE  \A f \in ToSet(IF u = t THEN Tail(stack[t]) ELSE stack[u]) : ~Claims(f, n)
  <2> DEFINE s == IF u = t THEN Tail(stack[t]) ELSE stack[u]
  <2>1. s \in Seq(Sound)
    <3>1. Tail(stack[t]) \in Seq(Sound)
      BY <1>3, HeadTailProperties
    <3> QED
      BY <1>3, <3>1
  <2>2. ~Has(s, Claiming(n))
    BY <1>2
  <2> HIDE DEF s
  <2>3. ToSet(s) \subseteq Sound
    BY <2>1, ElementOfSeq, LenProperties DEF ToSet
  <2>4. \A f \in ToSet(s) : ~Claims(f, n)
    BY <2>2, <2>3, HasIs DEF Claiming
  <2> QED
    BY <2>4 DEF s
<1>5. Has(stack[t], Claiming(n))
  BY PutHas
<1> QED
  BY <1>2, <1>3, <1>4, <1>5, SubmittedIfClaimed

LEMMA RunGraph ==
    ASSUME SchedInv, GraphInv, NEW w \in Workers, Run(w)
    PROVE  GraphInv'
<1>1. At(w, "run") /\ "run" \in ProcessOps /\ UNCHANGED <<queue, numDeps, at, finished>>
  BY DEF Run, ProcessOps, shared
<1>2. /\ w \in Threads /\ Stacks(stack) /\ Top(w) \in Sound /\ Top(w).op = "run"
      /\ Top(w) = Head(stack[w]) /\ ~Has(Tail(stack[w]), Processing)
  BY <1>1, ProcessTop
<1>3. PICK j \in Jobs : j = Top(w).job
  BY <1>2, FieldsAre DEF HoldOps
<1>4. PICK g \in Sound : g = [Top(w) EXCEPT !.op = "body"] /\ g.op = "body" /\ g.job = j
  <2>1. [Top(w) EXCEPT !.op = "body"] \in Sound
    BY <1>2, <1>3, GoneTo DEF CallOps, ProcessOps, NodeOps, VisitOps, Inner
  <2>2. [Top(w) EXCEPT !.op = "body"].op = "body" /\ [Top(w) EXCEPT !.op = "body"].job = j
    BY <1>2, <1>3 DEF Sound, Frames
  <2> QED
    BY <2>1, <2>2
<1>5. PICK fs \in Seq(Sound) : fs = <<g>> /\ ToSet(fs) = {g} /\ \A X : OnceIn(fs, X)
  <2>1. <<g>> \in Seq(Sound)
    OBVIOUS
  <2> QED
    BY <2>1, ShortStacks
<1>6. Put(stack, stack', w, fs)
  <2>1. Become(w, fs)
    BY <1>4, <1>5 DEF Run, Goto
  <2> QED
    BY <1>1, <1>2, <2>1, BecomePut
<1>7. runs' = [runs EXCEPT ![j] = @ + 1] /\ runs \in [Jobs -> Nat]
  BY <1>3, InvTypes DEF Run
<1>8. /\ \A n : g \in Claiming(n) <=> j = n
      /\ \A n : g \notin Debtors(n)
      /\ Lists(g)
  BY <1>4, JobClaims DEF JobOps, HoldOps
<1>9. /\ \A n : Top(w) \in Claiming(n) <=> j = n
      /\ \A n : Top(w) \notin Debtors(n)
  BY <1>2, <1>3, JobClaims DEF JobOps, HoldOps
<1>10. \A n \in Nodes : Exclusive(queue, stack', n)
  <2>1. SUFFICES ASSUME NEW n \in Nodes
                 PROVE  Exclusive(queue, stack', n)
    OBVIOUS
  <2>2. Exclusive(queue, stack, n) /\ queue \in QueueType
    BY InvTypes DEF GraphInv, GraphOf, Claimed
  <2>3. \A q \in 0..N : queue[q][n] <= queue[q][n]
    BY <2>2 DEF QueueType, Jobs
  <2>4. OnceIn(fs, Claiming(n)) /\ (Has(fs, Claiming(n)) => Head(stack[w]) \in Claiming(n))
    BY <1>2, <1>5, <1>8, <1>9, HasIs
  <2> QED
    BY <1>6, <2>2, <2>3, <2>4, KeepsClaim
<1>11. j \in Nodes => Ready(j) /\ Entered(j)'
  <2>1. SUFFICES ASSUME j \in Nodes
                 PROVE  Ready(j) /\ Entered(j)'
    OBVIOUS
  <2>2. ClaimOK(Top(w), j) /\ Claims(Top(w), j)
    BY <1>1, <1>2, <1>9, <2>1, TopFacts DEF Claiming
  <2>3. Ready(j)
    BY <1>2, <2>2 DEF ClaimOK
  <2>4. runs'[j] = runs[j] + 1 /\ runs[j] \in Nat /\ Suspends[j] \in Nat
    BY <1>7, SchedulerAssumption
  <2> QED
    BY <1>1, <2>3, <2>4 DEF Ready, Entered
<1>12. \A f \in ToSet(fs) : Lists(f) /\ \A n \in Nodes : ClaimOK(f, n)'
  <2>1. SUFFICES ASSUME NEW n \in Nodes
                 PROVE  ClaimOK(g, n)'
    BY <1>5, <1>8
  <2>2. Claims(g, n) => n = j
    BY <1>8 DEF Claiming
  <2> QED
    BY <1>4, <1>11, <2>2 DEF ClaimOK
<1>13. j \in Nodes =>
          /\ \A u \in Threads : \A f \in ToSet(IF u = w THEN Tail(stack[w]) ELSE stack[u]) : ~Claims(f, j)
          /\ \A q \in 0..N : ~(queue[q][j] > 0)
          /\ Submitted
  BY <1>2, <1>6, <1>9, OnlyClaim
<1>14. j \in Nodes =>
          /\ \A u \in Threads : \A f \in ToSet(IF u = w THEN Tail(stack[w]) ELSE stack[u]) : ClaimOK(f, j)'
          /\ \A q \in 0..N : ~(queue[q][j] > 0)
          /\ (runs'[j] > 0 \/ j \in finished') => numDeps'[j] = 0
          /\ runs'[j] <= Suspends[j] + 1
  BY <1>11, <1>13 DEF ClaimOK, Entered
<1>15. \A m \in Nodes : m # j => /\ numDeps'[m] = numDeps[m] /\ runs'[m] = runs[m]
                                 /\ m \in finished' <=> m \in finished
  BY <1>1, <1>7 DEF Jobs
<1>16. Counted(stack)'
  <2>1. ASSUME NEW n \in Nodes
        PROVE  Owing(n, stack') = Owing(n, stack)
    <3>1. ~Has(fs, Debtors(n)) /\ Head(stack[w]) \notin Debtors(n)
      BY <1>2, <1>5, <1>8, <1>9, HasIs
    <3>2. Has(stack'[w], Debtors(n)) <=> Has(stack[w], Debtors(n))
      BY <1>6, <3>1, PutHas
    <3>3. \A u \in Threads : u # w => stack'[u] = stack[u]
      BY <1>6, PutIs
    <3> QED
      BY <3>2, <3>3 DEF Owing, Threads
  <2> QED
    BY <1>1, <2>1 DEF GraphInv, GraphOf, Counted
<1>17. Submitted \/ (/\ \A n \in Nodes : ~Has(fs, Claiming(n))
                     /\ j \in Nodes => Untouched(j)')
  <2>1. CASE j \in Nodes
    BY <1>13, <2>1
  <2>2. CASE j \notin Nodes
    BY <1>5, <1>8, <2>2, HasIs
  <2> QED
    BY <2>1, <2>2
<1>18. OnceIn(fs, Processing) /\ ~(Has(fs, Processing) /\ Has(Tail(stack[w]), Processing))
  BY <1>2, <1>5
<1> QED
  BY <1>1, <1>6, <1>10, <1>12, <1>14, <1>15, <1>16, <1>17, <1>18, Touched

\* Finite sets of predecessors and of workers.
LEMMA FinitelyMany ==
    ASSUME NEW n \in Nodes, NEW done, NEW s
    PROVE  /\ IsFiniteSet(Missing(n, done)) /\ Cardinality(Missing(n, done)) \in Nat
           /\ IsFiniteSet(Owing(n, s)) /\ Cardinality(Owing(n, s)) \in Nat
           /\ Missing(n, done) # {} => Cardinality(Missing(n, done)) > 0
           /\ Missing(n, done) \subseteq Nodes
<1>1. PICK p \in Seq(Nodes), k \in Nat : p = Preds[n] /\ k = Len(p)
  BY SchedulerAssumption, LenProperties
<1>2. DOMAIN p = 1..k
  BY <1>1, LenProperties
<1>3. IsFiniteSet(1..k)
  BY <1>1, FS_Interval
<1>4. p \in Surjection(1..k, ToSet(p))
  BY <1>1, <1>2 DEF Surjection, ToSet
<1>5. IsFiniteSet(ToSet(p))
  BY <1>3, <1>4, FS_Surjection
<1>6. IsFiniteSet(Missing(n, done))
  BY <1>1, <1>5, FS_Subset DEF Missing
<1>7. IsFiniteSet(Workers)
  BY SchedulerAssumption, FS_Interval DEF Workers
<1>8. IsFiniteSet(Owing(n, s))
  BY <1>7, FS_Subset DEF Owing
<1>9. Cardinality(Missing(n, done)) \in Nat /\ Cardinality(Owing(n, s)) \in Nat
  BY <1>6, <1>8, FS_CardinalityType
<1>10. Missing(n, done) # {} => Cardinality(Missing(n, done)) > 0
  BY <1>6, <1>9, FS_EmptySet
<1>11. ToSet(p) \subseteq Nodes
  BY <1>1, <1>2, ElementOfSeq DEF ToSet
<1> QED
  BY <1>1, <1>6, <1>8, <1>9, <1>10, <1>11 DEF Missing

\* The body suspends: its job is enqueued again.
LEMMA SuspendGraph ==
    ASSUME SchedInv, GraphInv, NEW w \in Workers, At(w, "body"),
           UNCHANGED <<queue, numDeps, runs, finished, at>>,
           NEW j \in Jobs, j = Top(w).job, runs[j] <= Suspends[j], NEW to \in 0..N,
           NEW op \in {"again", "finish"}, Become(w, <<EnqueueFrame(j, to), Frame(op)>>)
    PROVE  GraphInv'
<1>1. /\ w \in Threads /\ Stacks(stack) /\ Top(w) \in Sound /\ Top(w).op = "body"
      /\ "body" \in ProcessOps
  BY ProcessTop DEF ProcessOps
<1>2. PICK g \in Sound : g = EnqueueFrame(j, to) /\ g.job = j /\ g.op \in {"e_global", "e_hint"}
  BY EnqueueIs
<1>3. PICK h \in Sound : h = Frame(op) /\ h.op = op
  BY NewFrame, FrameIs DEF CallOps, ProcessOps, HoldOps, NodeOps, Inner
<1>4. PICK fs \in Seq(Sound) : /\ fs = <<g, h>> /\ ToSet(fs) = {g, h}
                               /\ \A X : ~(g \in X /\ h \in X) => OnceIn(fs, X)
  <2>1. <<g, h>> \in Seq(Sound)
    OBVIOUS
  <2> QED
    BY <2>1, ShortStacks
<1>5. Become(w, fs)
  BY <1>2, <1>3, <1>4
<1>6. /\ \A n : g \in Claiming(n) <=> j = n
      /\ Lists(g) /\ g.op # "succ" /\ g \notin Processing
  BY <1>2, JobClaims DEF JobOps, HoldOps, Processing, ProcessOps
<1>7. (\A n : h \notin Claiming(n)) /\ Lists(h) /\ h.op # "succ" /\ \A n \in Nodes : ClaimOK(h, n)
  BY <1>3 DEF Claiming, Claims, Lists, ClaimOK, HoldOps, NodeOps
<1>8. /\ \A n : Top(w) \in Claiming(n) <=> j = n
      /\ \A n : Top(w) \notin Debtors(n)
  BY <1>1, JobClaims DEF JobOps, HoldOps
<1>9. \A n \in Nodes : ClaimOK(g, n)
  <2>1. SUFFICES ASSUME NEW n \in Nodes, n = j
                 PROVE  Ready(n)
    BY <1>2, <1>6 DEF ClaimOK, Claiming
  <2>2. ClaimOK(Top(w), n) /\ Claims(Top(w), n)
    BY <1>1, <1>8, <2>1, TopFacts DEF Claiming
  <2> QED
    BY <1>1, <2>1, <2>2 DEF ClaimOK, Entered, Ready
<1>10. \A n \in Nodes : OnceIn(fs, Claiming(n))
  BY <1>4, <1>7
<1>11. \A n \in Nodes : Has(fs, Claiming(n)) => Top(w) \in Claiming(n)
  BY <1>4, <1>6, <1>7, <1>8, HasIs
<1>12. OnceIn(fs, Processing)
  BY <1>4, <1>6
<1>13. \A f \in ToSet(fs) : f.op # "succ" /\ Lists(f) /\ \A n \in Nodes : ClaimOK(f, n)
  BY <1>4, <1>6, <1>7, <1>9
<1> QED
  BY <1>1, <1>5, <1>8, <1>10, <1>11, <1>12, <1>13, Shifted

\* The body returns: what its successors miss becomes what w owes them.
LEMMA ReturnCounted ==
    ASSUME SchedInv, GraphInv, GraphRules, NEW w \in Workers, NEW j \in Nodes, j \notin finished,
           NEW fs, Put(stack, stack', w, fs), UNCHANGED numDeps, finished' = finished \cup {j},
           \A n : ~Has(stack[w], Debtors(n)),
           \A n \in Nodes : Has(fs, Debtors(n)) <=> n \in ToSet(Succs[j])
    PROVE  Counted(stack)'
<1>1. \A u \in Threads : u # w => stack'[u] = stack[u]
  BY PutIs
<1>2. SUFFICES ASSUME NEW n \in Nodes
               PROVE  numDeps[n] = Cardinality(Missing(n, finished')) + Cardinality(Owing(n, stack'))
  BY DEF Counted
<1>3. PICK a, b : a = Missing(n, finished) /\ b = Owing(n, stack)
  OBVIOUS
<1>4. numDeps[n] = Cardinality(a) + Cardinality(b)
  BY <1>3 DEF GraphInv, GraphOf, Counted
<1>5. IsFiniteSet(a) /\ IsFiniteSet(b) /\ Cardinality(a) \in Nat /\ Cardinality(b) \in Nat
  BY <1>3, FinitelyMany
<1>6. n \in ToSet(Succs[j]) <=> j \in ToSet(Preds[n])
  BY DEF GraphRules, Linked
<1>7. w \notin b
  BY <1>3 DEF Owing
<1>8. Has(stack'[w], Debtors(n)) <=> n \in ToSet(Succs[j])
  <2>1. Has(stack[w], Debtors(n)) <=> Head(stack[w]) \in Debtors(n) \/ Has(Tail(stack[w]), Debtors(n))
    BY PutHas
  <2>2. Has(stack'[w], Debtors(n)) <=> Has(fs, Debtors(n)) \/ Has(Tail(stack[w]), Debtors(n))
    BY PutHas
  <2> QED
    BY <2>1, <2>2
<1>9. CASE n \in ToSet(Succs[j])
  <2>1. Missing(n, finished') = a \ {j} /\ j \in a
    BY <1>3, <1>6, <1>9 DEF Missing
  <2>2. Owing(n, stack') = b \cup {w}
    BY <1>1, <1>3, <1>8, <1>9 DEF Owing, Threads
  <2>3. Cardinality(a \ {j}) = Cardinality(a) - 1
    BY <1>5, <2>1, FS_RemoveElement
  <2>4. Cardinality(b \cup {w}) = Cardinality(b) + 1
    BY <1>5, <1>7, FS_AddElement
  <2>5. numDeps[n] = (Cardinality(a) - 1) + (Cardinality(b) + 1)
    BY <1>4, <1>5
  <2>6. Cardinality(Missing(n, finished')) = Cardinality(a) - 1
    BY <2>1, <2>3
  <2>7. Cardinality(Owing(n, stack')) = Cardinality(b) + 1
    BY <2>2, <2>4
  <2> QED
    BY <2>5, <2>6, <2>7
<1>10. CASE n \notin ToSet(Succs[j])
  <2>1. Missing(n, finished') = a
    BY <1>3, <1>6, <1>10 DEF Missing
  <2>2. Owing(n, stack') = b
    BY <1>1, <1>3, <1>7, <1>8, <1>10 DEF Owing, Threads
  <2> QED
    BY <1>4, <2>1, <2>2
<1> QED
  BY <1>9, <1>10

LEMMA ReturnGraph ==
    ASSUME SchedInv, GraphInv, GraphRules, NEW w \in Workers, At(w, "body"),
           UNCHANGED <<queue, numDeps, runs, at>>, NEW j \in Jobs, j = Top(w).job,
           finished' = finished \cup {j},
           Become(w, <<IF j \in Nodes THEN [Frame("succ") EXCEPT !.todo = Succs[j]]
                       ELSE Frame("finish")>>)
    PROVE  GraphInv'
<1>1. /\ w \in Threads /\ Stacks(stack) /\ Top(w) \in Sound /\ Top(w).op = "body"
      /\ Top(w) = Head(stack[w]) /\ ~Has(Tail(stack[w]), Processing)
      /\ \A n : ~Has(Tail(stack[w]), Debtors(n))
      /\ "body" \in ProcessOps
  BY ProcessTop DEF ProcessOps
<1>2. PICK g \in Sound : /\ Become(w, <<g>>)
                         /\ j \in Nodes => g.op = "succ" /\ g.todo = Succs[j]
                         /\ j \notin Nodes => g.op = "finish"
  <2>1. CASE j \in Nodes
    <3>1. Succs[j] \in Seq(Nodes)
      BY <2>1, SchedulerAssumption
    <3>2. Frame("succ") \in Inner
      BY NewFrame DEF CallOps, ProcessOps, HoldOps, NodeOps
    <3>3. [Frame("succ") EXCEPT !.todo = Succs[j]] \in Sound
      BY <3>1, <3>2, SetTodo DEF Inner
    <3>4. /\ [Frame("succ") EXCEPT !.todo = Succs[j]].op = "succ"
          /\ [Frame("succ") EXCEPT !.todo = Succs[j]].todo = Succs[j]
      BY DEF Frame
    <3>5. Become(w, <<[Frame("succ") EXCEPT !.todo = Succs[j]]>>)
      BY <2>1
    <3> QED
      BY <2>1, <3>3, <3>4, <3>5
  <2>2. CASE j \notin Nodes
    <3>1. Frame("finish") \in Sound /\ Frame("finish").op = "finish"
      BY NewFrame, FrameIs DEF CallOps, ProcessOps, HoldOps, NodeOps, Inner
    <3>2. Become(w, <<Frame("finish")>>)
      BY <2>2
    <3> QED
      BY <2>2, <3>1, <3>2
  <2> QED
    BY <2>1, <2>2
<1>3. PICK fs \in Seq(Sound) : fs = <<g>> /\ ToSet(fs) = {g} /\ \A X : OnceIn(fs, X)
  <2>1. <<g>> \in Seq(Sound)
    OBVIOUS
  <2> QED
    BY <2>1, ShortStacks
<1>4. Put(stack, stack', w, fs)
  BY <1>1, <1>2, <1>3, BecomePut
<1>5. /\ \A n : Top(w) \in Claiming(n) <=> j = n
      /\ \A n : Top(w) \notin Debtors(n)
  BY <1>1, JobClaims DEF JobOps, HoldOps
<1>6. \A n : g \notin Claiming(n) /\ ~Claims(g, n)
  BY <1>2 DEF Claiming, Claims, HoldOps, NodeOps
<1>7. \A n : ~Has(fs, Claiming(n))
  BY <1>3, <1>6, HasIs
<1>8. \A n : Has(fs, Debtors(n)) <=> j \in Nodes /\ n \in ToSet(Succs[j])
  <2>1. \A n : g \in Debtors(n) <=> j \in Nodes /\ n \in ToSet(Succs[j])
    BY <1>2 DEF Debtors, Debt
  <2> QED
    BY <1>3, <2>1, HasIs
<1>9. \A n \in Nodes : Exclusive(queue, stack', n)
  <2>1. SUFFICES ASSUME NEW n \in Nodes
                 PROVE  Exclusive(queue, stack', n)
    OBVIOUS
  <2>2. Exclusive(queue, stack, n) /\ queue \in QueueType
    BY InvTypes DEF GraphInv, GraphOf, Claimed
  <2>3. \A q \in 0..N : queue[q][n] <= queue[q][n]
    BY <2>2 DEF QueueType, Jobs
  <2>4. OnceIn(fs, Claiming(n)) /\ ~Has(fs, Claiming(n))
    BY <1>3, <1>7
  <2> QED
    BY <1>4, <2>2, <2>3, <2>4, KeepsClaim
<1>10. j \in Nodes => Entered(j)
  <2>1. SUFFICES ASSUME j \in Nodes
                 PROVE  Entered(j)
    OBVIOUS
  <2>2. ClaimOK(Top(w), j) /\ Claims(Top(w), j)
    BY <1>1, <1>5, <2>1, TopFacts DEF Claiming
  <2> QED
    BY <1>1, <2>2 DEF ClaimOK
<1>11. Lists(g)
  <2>1. CASE j \in Nodes
    <3>1. NoRepeats(Succs[j]) /\ \A n \in Nodes : n \in ToSet(Succs[j]) => j \in ToSet(Preds[n])
      BY <2>1 DEF GraphRules, Linked
    <3>2. ToSet(Succs[j]) \subseteq Nodes
      <4>1. Succs[j] \in Seq(Nodes)
        BY <2>1, SchedulerAssumption
      <4> QED
        BY <4>1, ElementOfSeq, LenProperties DEF ToSet
    <3> QED
      BY <1>2, <2>1, <3>1, <3>2 DEF Lists
  <2>2. CASE j \notin Nodes
    BY <1>2, <2>2 DEF Lists
  <2> QED
    BY <2>1, <2>2
<1>12. \A f \in ToSet(fs) : Lists(f) /\ \A n \in Nodes : ClaimOK(f, n)'
  BY <1>3, <1>6, <1>11 DEF ClaimOK
<1>13. j \in Nodes =>
          /\ \A u \in Threads : \A f \in ToSet(IF u = w THEN Tail(stack[w]) ELSE stack[u]) : ~Claims(f, j)
          /\ \A q \in 0..N : ~(queue[q][j] > 0)
          /\ Submitted
  BY <1>1, <1>4, <1>5, OnlyClaim
<1>14. j \in Nodes =>
          /\ \A u \in Threads : \A f \in ToSet(IF u = w THEN Tail(stack[w]) ELSE stack[u]) : ClaimOK(f, j)'
          /\ \A q \in 0..N : ~(queue[q][j] > 0)
          /\ (runs'[j] > 0 \/ j \in finished') => numDeps'[j] = 0
          /\ runs'[j] <= Suspends[j] + 1
  BY <1>10, <1>13 DEF ClaimOK, Entered
<1>15. \A m \in Nodes : m # j => /\ numDeps'[m] = numDeps[m] /\ runs'[m] = runs[m]
                                 /\ m \in finished' <=> m \in finished
  OBVIOUS
<1>16. \A n : ~Has(stack[w], Debtors(n))
  BY <1>1, <1>4, <1>5, PutHas
<1>17. Counted(stack)'
  <2>1. CASE j \in Nodes
    <3>1. j \notin finished
      BY <1>10, <2>1 DEF Entered
    <3> QED
      BY <1>4, <1>8, <1>16, <2>1, <3>1, ReturnCounted
  <2>2. CASE j \notin Nodes
    <3>1. ASSUME NEW n \in Nodes
          PROVE  Owing(n, stack') = Owing(n, stack) /\ Missing(n, finished') = Missing(n, finished)
      <4>1. ~Has(stack'[w], Debtors(n))
        BY <1>1, <1>4, <1>8, <2>2, PutHas
      <4>2. \A u \in Threads : u # w => stack'[u] = stack[u]
        BY <1>4, PutIs
      <4>3. Owing(n, stack') = Owing(n, stack)
        BY <1>16, <4>1, <4>2 DEF Owing, Threads
      <4>4. Missing(n, finished') \subseteq Nodes /\ Missing(n, finished) \subseteq Nodes
        BY FinitelyMany
      <4> QED
        BY <2>2, <4>3, <4>4 DEF Missing
    <3> QED
      BY <3>1 DEF GraphInv, GraphOf, Counted
  <2> QED
    BY <2>1, <2>2
<1>18. Submitted \/ (/\ \A n \in Nodes : ~Has(fs, Claiming(n))
                     /\ j \in Nodes => Untouched(j)')
  BY <1>7, <1>13
<1>19. OnceIn(fs, Processing) /\ ~(Has(fs, Processing) /\ Has(Tail(stack[w]), Processing))
  BY <1>1, <1>3
<1> QED
  BY <1>4, <1>9, <1>12, <1>14, <1>15, <1>17, <1>18, <1>19, Touched

LEMMA BodyGraph ==
    ASSUME SchedInv, GraphInv, GraphRules, NEW w \in Workers, Body(w)
    PROVE  GraphInv'
<1>1. At(w, "body") /\ "body" \in ProcessOps /\ UNCHANGED <<queue, numDeps, runs, at>>
  BY DEF Body, ProcessOps, shared
<1>2. PICK j \in Jobs : j = Top(w).job
  BY <1>1, ProcessTop, FieldsAre DEF HoldOps
<1>3. CASE /\ runs[j] <= Suspends[j]
           /\ Become(w, IF j \in Nodes THEN <<EnqueueFrame(j, w), Frame("again")>>
                        ELSE <<EnqueueFrame(j, 0), Frame("finish")>>)
           /\ UNCHANGED finished
  <2>1. w \in 0..N /\ 0 \in 0..N
    BY SchedulerAssumption DEF Workers
  <2>2. \E to \in 0..N : \E op \in {"again", "finish"} : Become(w, <<EnqueueFrame(j, to), Frame(op)>>)
    BY <1>3, <2>1
  <2> QED
    BY <1>1, <1>2, <1>3, <2>2, SuspendGraph
<1>4. CASE /\ finished' = finished \cup {j}
           /\ Become(w, <<IF j \in Nodes THEN [Frame("succ") EXCEPT !.todo = Succs[j]]
                          ELSE Frame("finish")>>)
  BY <1>1, <1>2, <1>4, ReturnGraph
<1> QED
  BY <1>2, <1>3, <1>4 DEF Body

\* The node w is about to tell has a dependency left, and another one as long as
\* one of its predecessors' bodies has not returned.
LEMMA DebtIs ==
    ASSUME SchedInv, GraphInv, NEW n \in Nodes, NEW w \in Workers, Has(stack[w], Debtors(n))
    PROVE  /\ numDeps[n] > 0 /\ Untouched(n)
           /\ \A p \in ToSet(Preds[n]) : p \notin finished => numDeps[n] > 1
<1>1. PICK a, b : a = Missing(n, finished) /\ b = Owing(n, stack)
  OBVIOUS
<1>2. numDeps[n] = Cardinality(a) + Cardinality(b)
  BY <1>1 DEF GraphInv, GraphOf, Counted
<1>3. IsFiniteSet(b) /\ Cardinality(a) \in Nat /\ Cardinality(b) \in Nat /\ (a # {} => Cardinality(a) > 0)
  BY <1>1, FinitelyMany
<1>4. b # {}
  BY <1>1 DEF Owing
<1>5. Cardinality(b) > 0
  BY <1>3, <1>4, FS_EmptySet
<1>6. numDeps[n] > 0
  BY <1>2, <1>3, <1>5
<1>7. Untouched(n)
  <2>1. n \notin finished /\ ~(runs[n] > 0)
    BY <1>6 DEF GraphInv, GraphOf, NodesOK
  <2>2. runs[n] \in Nat
    BY InvTypes
  <2> QED
    BY <2>1, <2>2 DEF Untouched
<1>8. ASSUME NEW p \in ToSet(Preds[n]), p \notin finished
      PROVE  numDeps[n] > 1
  <2>1. a # {}
    BY <1>1, <1>8 DEF Missing
  <2> QED
    BY <1>2, <1>3, <1>5, <2>1
<1> QED
  BY <1>6, <1>7, <1>8

\* Nothing is on its way to a node with dependencies, but a submit() that has yet to
\* look at it.
LEMMA Unclaimed ==
    ASSUME SchedInv, GraphInv, NEW n \in Nodes, numDeps[n] # 0
    PROVE  /\ \A u \in Threads : \A f \in ToSet(stack[u]) : Claims(f, n) => f.op = "s_next"
           /\ \A q \in 0..N : ~(queue[q][n] > 0)
BY DEF GraphInv, GraphOf, FramesOK, QueuesOK, ClaimOK, Ready, Entered

LEMMA LastUnclaimed ==
    ASSUME SchedInv, GraphInv, NEW n \in Nodes, numDeps[n] = 1, NEW w \in Workers,
           Has(stack[w], Debtors(n)), NEW p \in ToSet(Preds[n])
    PROVE  /\ p \in finished /\ Submitted
           /\ \A u \in Threads : ~Has(stack[u], Claiming(n))
<1>1. p \in Nodes
  <2>1. Preds[n] \in Seq(Nodes)
    BY SchedulerAssumption
  <2> QED
    BY <2>1, ElementOfSeq, LenProperties DEF ToSet
<1>2. p \in finished
  BY DebtIs
<1>3. Submitted
  BY <1>1, <1>2 DEF GraphInv, GraphOf, Before, Untouched
<1>4. ASSUME NEW u \in Threads, Has(stack[u], Claiming(n))
      PROVE  FALSE
  <2>1. PICK f \in ToSet(stack[u]) : Claims(f, n)
    BY <1>4, HasIs DEF Claiming
  <2>2. f.op = "s_next"
    BY <2>1, Unclaimed
  <2>3. n \in ToSet(f.todo) /\ PredsLater(f.todo) /\ ClaimOK(f, p)
    BY <1>1, <2>1, <2>2 DEF Claims, GraphInv, GraphOf, FramesOK, Lists, HoldOps, NodeOps
  <2>4. p \in ToSet(f.todo)
    BY <2>3, ListedPreds
  <2>5. Untouched(p)
    BY <2>2, <2>3, <2>4 DEF ClaimOK, Claims
  <2> QED
    BY <1>2, <2>5 DEF Untouched
<1> QED
  BY <1>2, <1>3, <1>4

\* w has told n.
LEMMA ToldCounted ==
    ASSUME SchedInv, GraphInv, NEW w \in Workers, NEW n \in Nodes, Has(stack[w], Debtors(n)),
           UNCHANGED finished, numDeps' = [numDeps EXCEPT ![n] = @ - 1],
           \A u \in Threads : u # w => stack'[u] = stack[u], ~Has(stack'[w], Debtors(n)),
           \A m \in Nodes : m # n => (Has(stack'[w], Debtors(m)) <=> Has(stack[w], Debtors(m)))
    PROVE  Counted(stack)'
<1>0. numDeps \in [Nodes -> Int]
  BY InvTypes
<1>1. SUFFICES ASSUME NEW m \in Nodes
               PROVE  numDeps'[m] = Cardinality(Missing(m, finished)) + Cardinality(Owing(m, stack'))
  BY DEF Counted
<1>2. PICK a, b : a = Cardinality(Missing(m, finished)) /\ b = Owing(m, stack)
  OBVIOUS
<1>3. numDeps[m] = a + Cardinality(b)
  BY <1>2 DEF GraphInv, GraphOf, Counted
<1>4. IsFiniteSet(b) /\ a \in Nat /\ Cardinality(b) \in Nat
  BY <1>2, FinitelyMany
<1>5. CASE m = n
  <2>1. w \in b
    BY <1>2, <1>5 DEF Owing
  <2>2. Owing(m, stack') = b \ {w}
    BY <1>2, <1>5 DEF Owing, Threads
  <2>3. Cardinality(b \ {w}) = Cardinality(b) - 1
    BY <1>4, <2>1, FS_RemoveElement
  <2>4. numDeps'[m] = (a + Cardinality(b)) - 1
    BY <1>0, <1>3, <1>5
  <2>5. numDeps'[m] = a + (Cardinality(b) - 1)
    BY <1>4, <2>4
  <2>6. Cardinality(Owing(m, stack')) = Cardinality(b) - 1
    BY <2>2, <2>3
  <2> QED
    BY <1>2, <2>5, <2>6
<1>6. CASE m # n
  <2>1. Owing(m, stack') = b
    BY <1>2, <1>6 DEF Owing, Threads
  <2>2. numDeps'[m] = numDeps[m]
    BY <1>0, <1>6
  <2> QED
    BY <1>2, <1>3, <2>1, <2>2
<1> QED
  BY <1>5, <1>6

LEMMA SuccessorGraph ==
    ASSUME SchedInv, GraphInv, NEW w \in Workers, Successor(w), Top(w).todo # <<>>
    PROVE  GraphInv'
<1>1. At(w, "succ") /\ "succ" \in ProcessOps /\ UNCHANGED <<queue, runs, finished, at>>
  BY DEF Successor, ProcessOps, shared, history
<1>2. /\ w \in Threads /\ Stacks(stack) /\ ~Has(Tail(stack[w]), Processing)
      /\ \A n : ~Has(Tail(stack[w]), Debtors(n))
  BY <1>1, ProcessTop
<1>3. PICK f \in Sound : f = Top(w) /\ f.op = "succ" /\ f = Head(stack[w])
  BY <1>1, ProcessTop
<1>4. PICK n \in Nodes : n = Head(f.todo)
  BY <1>3, RestIs
<1>5. PICK rest \in Sound : /\ rest = [f EXCEPT !.todo = Tail(@)]
                            /\ rest.op = "succ" /\ rest.todo = Tail(f.todo)
  BY <1>3, RestIs
<1>6. /\ numDeps' = [numDeps EXCEPT ![n] = @ - 1] /\ numDeps \in [Nodes -> Int]
      /\ Become(w, IF numDeps[n] = 1 THEN <<EnqueueFrame(n, 0), rest>> ELSE <<rest>>)
  <2>1. /\ numDeps' = [numDeps EXCEPT ![n] = @ - 1]
        /\ Become(w, IF numDeps[n] = 1 THEN <<EnqueueFrame(n, 0), rest>> ELSE <<rest>>)
    BY <1>3, <1>4, <1>5 DEF Successor
  <2> QED
    BY <2>1, InvTypes
<1>7. NoRepeats(f.todo) /\ \A m \in ToSet(f.todo) : ToSet(Preds[m]) # {}
  BY <1>1, <1>2, <1>3, TopFacts DEF Lists
<1>8. /\ ToSet(f.todo) = {n} \cup ToSet(rest.todo) /\ n \notin ToSet(rest.todo)
      /\ NoRepeats(rest.todo)
  <2>1. f.todo \in Seq(Nodes)
    BY <1>3, RestIs
  <2> QED
    BY <1>3, <1>4, <1>5, <1>7, <2>1, TodoTail
<1>9. Lists(rest) /\ \A m : rest \notin Claiming(m) /\ ~Claims(rest, m)
  BY <1>5, <1>7, <1>8 DEF Lists, Claiming, Claims, HoldOps, NodeOps
<1>10. \A m : /\ f \in Debtors(m) <=> m \in ToSet(f.todo)
              /\ rest \in Debtors(m) <=> m \in ToSet(rest.todo)
  BY <1>3, <1>5 DEF Debtors, Debt
<1>11. /\ numDeps[n] > 0 /\ Untouched(n)
       /\ numDeps[n] = 1 => /\ Submitted /\ \A u \in Threads : ~Has(stack[u], Claiming(n))
       /\ \A q \in 0..N : ~(queue[q][n] > 0)
       /\ \A u \in Threads : \A g \in ToSet(stack[u]) : Claims(g, n) => g.op = "s_next"
       /\ Has(stack[w], Debtors(n))
  <2>1. Has(stack[w], Debtors(n))
    <3>1. f \in ToSet(stack[w])
      BY <1>1, <1>3, ProcessTop
    <3> QED
      BY <1>8, <1>10, <3>1, HasIs
  <2>2. numDeps[n] > 0 /\ Untouched(n)
    BY <2>1, DebtIs
  <2>3. PICK p \in ToSet(Preds[n]) : TRUE
    BY <1>7, <1>8
  <2>4. numDeps[n] = 1 => Submitted /\ \A u \in Threads : ~Has(stack[u], Claiming(n))
    BY <2>1, <2>3, LastUnclaimed
  <2>5. numDeps[n] # 0
    BY <1>6, <2>2
  <2> QED
    BY <2>1, <2>2, <2>4, <2>5, Unclaimed
<1>12. PICK e \in Sound : e = EnqueueFrame(n, 0) /\ e.job = n /\ e.op \in {"e_global", "e_hint"}
  <2>1. 0 \in 0..N /\ n \in Jobs
    BY SchedulerAssumption DEF Jobs
  <2> QED
    BY <2>1, EnqueueIs
<1>13. /\ \A m : e \in Claiming(m) <=> n = m
       /\ \A m : e \notin Debtors(m)
       /\ Lists(e) /\ e \notin Processing
  BY <1>12, JobClaims DEF JobOps, HoldOps, Processing, ProcessOps
<1>14. PICK fs \in Seq(Sound) :
          /\ Become(w, fs)
          /\ \/ numDeps[n] = 1 /\ ToSet(fs) = {e, rest}
             \/ numDeps[n] # 1 /\ ToSet(fs) = {rest}
          /\ \A X : ~(e \in X /\ rest \in X) => OnceIn(fs, X)
  <2>1. <<e, rest>> \in Seq(Sound) /\ <<rest>> \in Seq(Sound)
    OBVIOUS
  <2>2. CASE numDeps[n] = 1
    <3>1. Become(w, <<e, rest>>)
      BY <1>6, <1>12, <2>2
    <3> QED
      BY <2>1, <2>2, <3>1, ShortStacks
  <2>3. CASE numDeps[n] # 1
    <3>1. Become(w, <<rest>>)
      BY <1>6, <2>3
    <3> QED
      BY <2>1, <2>3, <3>1, ShortStacks
  <2> QED
    BY <2>2, <2>3
<1>15. Put(stack, stack', w, fs)
  BY <1>1, <1>2, <1>14, BecomePut
<1>16. /\ \A m : Has(fs, Claiming(m)) => m = n /\ numDeps[n] = 1
       /\ \A m : Has(fs, Debtors(m)) <=> m \in ToSet(rest.todo)
       /\ \A m \in Nodes : OnceIn(fs, Claiming(m))
  <2>1. \A m : Has(fs, Claiming(m)) => m = n /\ numDeps[n] = 1
    BY <1>9, <1>13, <1>14, HasIs
  <2>2. \A m : Has(fs, Debtors(m)) <=> m \in ToSet(rest.todo)
    BY <1>10, <1>13, <1>14, HasIs
  <2>3. \A m \in Nodes : OnceIn(fs, Claiming(m))
    BY <1>9, <1>14
  <2> QED
    BY <2>1, <2>2, <2>3
<1>17. \A m \in Nodes : Exclusive(queue, stack', m)
  <2>1. SUFFICES ASSUME NEW m \in Nodes
                 PROVE  Exclusive(queue, stack', m)
    OBVIOUS
  <2>2. Exclusive(queue, stack, m) /\ queue \in QueueType
    BY InvTypes DEF GraphInv, GraphOf, Claimed
  <2>3. CASE m = n /\ numDeps[n] = 1
    <3>1. \A q \in 0..N : queue[q][m] = 0
      <4>1. \A q \in 0..N : queue[q][m] \in Nat
        BY <2>2 DEF QueueType, Jobs
      <4> QED
        BY <1>11, <2>3, <4>1
    <3>2. \A u \in Threads : OnceIn(stack[u], Claiming(m)) /\ ~Has(stack[u], Claiming(m))
      BY <1>11, <2>2, <2>3 DEF Exclusive
    <3> QED
      BY <1>15, <1>16, <2>2, <3>1, <3>2, NewClaim
  <2>4. CASE ~(m = n /\ numDeps[n] = 1)
    <3>1. \A q \in 0..N : queue[q][m] <= queue[q][m]
      BY <2>2 DEF QueueType, Jobs
    <3>2. ~Has(fs, Claiming(m)) /\ OnceIn(fs, Claiming(m))
      BY <1>16, <2>4
    <3> QED
      BY <1>15, <2>2, <3>1, <3>2, KeepsClaim
  <2> QED
    BY <2>3, <2>4
<1>18. numDeps'[n] = numDeps[n] - 1 /\ \A m \in Nodes : m # n => numDeps'[m] = numDeps[m]
  BY <1>6
<1>19. \A g \in ToSet(fs) : Lists(g) /\ \A m \in Nodes : ClaimOK(g, m)'
  <2>1. ASSUME numDeps[n] = 1, NEW m \in Nodes
        PROVE  ClaimOK(e, m)'
    <3>1. Claims(e, m) => m = n
      BY <1>13 DEF Claiming
    <3>2. Suspends[n] \in Nat
      BY SchedulerAssumption DEF Jobs
    <3>3. Ready(n)'
      BY <1>1, <1>11, <1>18, <2>1, <3>2 DEF Ready, Untouched
    <3> QED
      BY <1>12, <3>1, <3>3 DEF ClaimOK
  <2>2. \A m \in Nodes : ClaimOK(rest, m)'
    BY <1>9 DEF ClaimOK
  <2> QED
    BY <1>9, <1>13, <1>14, <2>1, <2>2
<1>20. \A u \in Threads : \A g \in ToSet(IF u = w THEN Tail(stack[w]) ELSE stack[u]) : ClaimOK(g, n)'
  <2>1. SUFFICES ASSUME NEW u \in Threads,
                        NEW g \in ToSet(IF u = w THEN Tail(stack[w]) ELSE stack[u])
                 PROVE  ClaimOK(g, n)'
    OBVIOUS
  <2>2. g \in ToSet(stack[u])
    BY <1>1, <2>1, ProcessTop
  <2>3. Claims(g, n) => g.op = "s_next"
    BY <1>11, <2>2
  <2> QED
    BY <1>1, <1>11, <2>3 DEF ClaimOK, Untouched
<1>21. /\ (runs'[n] > 0 \/ n \in finished') => numDeps'[n] = 0
       /\ runs'[n] <= Suspends[n] + 1
       /\ Untouched(n)'
  BY <1>1, <1>11 DEF Untouched, GraphInv, GraphOf, NodesOK
<1>22. Counted(stack)'
  <2>1. \A u \in Threads : u # w => stack'[u] = stack[u]
    BY <1>15, PutIs
  <2>2. \A m \in Nodes : Has(stack'[w], Debtors(m)) <=> m \in ToSet(rest.todo)
    BY <1>2, <1>15, <1>16, PutHas
  <2>3. \A m \in Nodes : Has(stack[w], Debtors(m)) <=> m \in ToSet(f.todo)
    BY <1>2, <1>3, <1>10, <1>15, PutHas
  <2>4. ~Has(stack'[w], Debtors(n))
    BY <1>8, <2>2
  <2>5. \A m \in Nodes : m # n => (Has(stack'[w], Debtors(m)) <=> Has(stack[w], Debtors(m)))
    BY <1>8, <2>2, <2>3
  <2> QED
    BY <1>1, <1>6, <1>11, <2>1, <2>4, <2>5, ToldCounted
<1>23. OnceIn(fs, Processing) /\ ~(Has(fs, Processing) /\ Has(Tail(stack[w]), Processing))
  BY <1>2, <1>13, <1>14
<1>24. Submitted \/ (/\ \A m \in Nodes : ~Has(fs, Claiming(m))
                     /\ n \in Nodes => Untouched(n)')
  BY <1>11, <1>16, <1>21
<1>25. n \in Jobs
  BY DEF Jobs
<1> QED
  BY <1>1, <1>11, <1>15, <1>17, <1>18, <1>19, <1>20, <1>21, <1>22, <1>23, <1>24, <1>25, Touched

\* The end of process_().
LEMMA DoneGraph ==
    ASSUME SchedInv, GraphInv, NEW w \in Workers,
           (Successor(w) /\ Top(w).todo = <<>>) \/ Again(w) \/ Finish(w)
    PROVE  GraphInv'
<1>1. CASE Finish(w)
  <2>1. w \in Threads /\ Stacks(stack) /\ At(w, "finish") /\ Become(w, <<>>)
    BY <1>1 DEF Threads, SchedInv, Finish
  <2>2. <<>> \in Seq(Plain)
    BY EmptySeq
  <2>3. Mute(stack, stack')
    BY <2>1, <2>2, PlainBecome
  <2>4. UNCHANGED <<queue, numDeps, runs, finished, at>>
    BY <1>1 DEF Finish, graphVars, history
  <2> QED
    BY <2>3, <2>4, Muted
<1>2. CASE (Successor(w) /\ Top(w).todo = <<>>) \/ Again(w)
  <2>1. PICK op \in {"succ", "again"} : At(w, op) /\ op \in ProcessOps
    BY <1>2 DEF Successor, Again, ProcessOps
  <2>2. Goto(w, "finish") /\ UNCHANGED <<queue, numDeps, runs, finished, at>>
    BY <1>2 DEF Successor, Again, shared, graphVars, history
  <2>3. PICK f \in Sound : f = Top(w) /\ f.op = op
    BY <2>1, ProcessTop
  <2>4. w \in Threads
    BY <2>1, ProcessTop
  <2>5. \A n \in Nodes : Top(w) \notin Debtors(n)
    <3>1. op = "succ" => f.todo = <<>>
      BY <1>2, <2>1, <2>3 DEF Successor, Again, At, Top
    <3>2. ToSet(<<>>) = {}
      BY ShortStacks
    <3> QED
      BY <2>3, <3>1, <3>2 DEF Debtors, Debt
  <2>6. PICK g \in Sound : g = [f EXCEPT !.op = "finish"] /\ g.op = "finish"
    <3>1. [f EXCEPT !.op = "finish"] \in Sound
      BY GoneTo DEF CallOps, ProcessOps, HoldOps, NodeOps, VisitOps, Inner
    <3>2. [f EXCEPT !.op = "finish"].op = "finish"
      BY DEF Sound, Frames
    <3> QED
      BY <3>1, <3>2
  <2>7. PICK fs \in Seq(Sound) : fs = <<g>> /\ ToSet(fs) = {g} /\ \A X : OnceIn(fs, X)
    <3>1. <<g>> \in Seq(Sound)
      OBVIOUS
    <3> QED
      BY <3>1, ShortStacks
  <2>8. Become(w, fs)
    BY <2>2, <2>3, <2>6, <2>7 DEF Goto
  <2>9. (\A n : g \notin Claiming(n)) /\ Lists(g) /\ \A n \in Nodes : ClaimOK(g, n)
    BY <2>6 DEF Claiming, Claims, Lists, ClaimOK, HoldOps, NodeOps
  <2>10. \A n \in Nodes : ~Has(fs, Claiming(n))
    BY <2>7, <2>9, HasIs
  <2>11. \A h \in ToSet(fs) : h.op # "succ" /\ Lists(h) /\ \A n \in Nodes : ClaimOK(h, n)
    BY <2>6, <2>7, <2>9
  <2>12. OnceIn(fs, Processing) /\ \A n \in Nodes : OnceIn(fs, Claiming(n))
    BY <2>7
  <2> QED
    BY <2>1, <2>2, <2>4, <2>5, <2>8, <2>10, <2>11, <2>12, Shifted
<1> QED
  BY <1>1, <1>2

-----------------------------------------------------------------------------
(* The theorems about graphs.                                               *)

LEMMA ClientGraph ==
    ASSUME SchedInv, GraphInv, GraphRules, NEW c \in Clients, ClientStep(c)
    PROVE  GraphInv'
BY BeginGraph, SubmitNextGraph, ScheduleGraph, ScheduleLoadGraph, WaitGraph, ResumeGraph,
   ShutdownGraph, ShutdownWakeGraph DEF ClientStep, shutdown

LEMMA WorkerGraph ==
    ASSUME SchedInv, GraphInv, GraphRules, NEW w \in Workers, WorkerStep(w)
    PROVE  GraphInv'
<1>1. CASE worker_loop_(w)
  BY <1>1, GuardGraph, QueueGraph, StealGraph, ScanGraph DEF worker_loop_
<1>2. CASE process_(w)
  BY <1>2, RunGraph, BodyGraph, SuccessorGraph, DoneGraph DEF process_
<1> QED
  BY <1>1, <1>2 DEF WorkerStep

LEMMA GraphStep ==
    ASSUME SchedInv, GraphInv, GraphRules, [Next]_vars
    PROVE  GraphInv'
<1>1. CASE Next
  BY <1>1, ClientGraph, WorkerGraph, AnyGraph DEF Next
<1>2. CASE UNCHANGED vars
  BY <1>2 DEF vars, GraphInv, GraphOf, Claimed, FramesOK, QueuesOK, NodesOK, Counted, Before, OneProcess,
     ClaimOK, Ready, Entered, Untouched, Submitted
<1> QED
  BY <1>1, <1>2

\* A list without repetitions is as long as its set.
LEMMA LengthIs ==
    ASSUME NEW S, NEW s \in Seq(S), NoRepeats(s)
    PROVE  Cardinality(ToSet(s)) = Len(s)
<1>1. PICK k \in Nat : k = Len(s)
  BY LenProperties
<1>2. DOMAIN s = 1..k
  BY <1>1, LenProperties
<1>3. s \in Bijection(1..k, ToSet(s))
  BY <1>2 DEF Bijection, Injection, Surjection, IsInjective, ToSet, NoRepeats
<1>4. ExistsBijection(1..k, ToSet(s))
  BY <1>3 DEF ExistsBijection
<1> QED
  BY <1>1, <1>4, FS_CountingElements

LEMMA GraphInit ==
    ASSUME Init, GraphRules
    PROVE  GraphInv
<1>1. PICK g \in Plain : g = Frame("top")
  BY NewPlain DEF PlainOps, LoopOps
<1>2. \A t \in Threads : stack[t] = <<>> \/ stack[t] = <<g>>
  BY <1>1 DEF Init
<1>3. /\ ToSet(<<>>) = {} /\ ToSet(<<g>>) = {g}
      /\ \A X : OnceIn(<<>>, X) /\ OnceIn(<<g>>, X)
  BY ShortStacks
<1>4. \A n : g \notin Claiming(n) /\ g \notin Debtors(n) /\ ClaimOK(g, n)
  BY PlainIs
<1>5. \A t \in Threads : \A n : ~Has(stack[t], Claiming(n)) /\ ~Has(stack[t], Debtors(n))
  BY <1>2, <1>3, <1>4, HasIs
<1>6. \A q \in 0..N : \A n \in Nodes : queue[q][n] = 0
  BY DEF Init, Jobs
<1>7. \A n \in Nodes : runs[n] = 0 /\ n \notin finished /\ Untouched(n)
  BY DEF Init, Jobs, Untouched
<1>8. Claimed(stack)
  <2>1. \A t \in Threads : \A n : OnceIn(stack[t], Claiming(n))
    BY <1>2, <1>3
  <2> QED
    BY <1>5, <1>6, <2>1 DEF Claimed, Exclusive
<1>9. FramesOK(stack)
  <2>1. Lists(g)
    BY PlainIs
  <2> QED
    BY <1>2, <1>3, <1>4, <2>1 DEF FramesOK
<1>10. QueuesOK
  BY <1>6 DEF QueuesOK
<1>11. NodesOK
  <2>1. \A n \in Nodes : Suspends[n] \in Nat
    BY SchedulerAssumption DEF Jobs
  <2> QED
    BY <1>7, <2>1 DEF NodesOK
<1>12. Counted(stack)
  <2>1. SUFFICES ASSUME NEW n \in Nodes
                 PROVE  numDeps[n] = Cardinality(Missing(n, finished)) + Cardinality(Owing(n, stack))
    BY DEF Counted
  <2>2. Preds[n] \in Seq(Nodes) /\ NoRepeats(Preds[n])
    BY SchedulerAssumption DEF GraphRules, Linked
  <2>3. Cardinality(ToSet(Preds[n])) = Len(Preds[n]) /\ Len(Preds[n]) \in Nat
    BY <2>2, LengthIs, LenProperties
  <2>4. Missing(n, finished) = ToSet(Preds[n])
    BY DEF Init, Missing
  <2>5. Owing(n, stack) = {}
    BY <1>5 DEF Owing, Threads
  <2>6. Cardinality(Owing(n, stack)) = 0
    BY <2>5, FS_EmptySet
  <2>7. numDeps[n] = Len(Preds[n])
    BY DEF Init
  <2> QED
    BY <2>3, <2>4, <2>6, <2>7
<1>13. Before(stack)
  BY <1>5, <1>6, <1>7 DEF Before
<1>14. OneProcess(stack)
  BY <1>2, <1>3 DEF OneProcess, Threads
<1> QED
  BY <1>8, <1>9, <1>10, <1>11, <1>12, <1>13, <1>14 DEF GraphInv, GraphOf

\* In a graph that is submitted once, each node is in one queue or one thread's
\* hands, and _numDeps is the number of notify decrements still to come.
THEOREM GraphInvariant ==
    ASSUME GraphRules
    PROVE  Spec => [](SchedInv /\ GraphInv)
<1>1. Init => SchedInv /\ GraphInv
  BY SchedInit, GraphInit
<1>2. SchedInv /\ GraphInv /\ [Next]_vars => (SchedInv /\ GraphInv)'
  BY SchedStep, GraphStep
<1> QED
  BY <1>1, <1>2, PTL DEF Spec

\* However workers, steals, displaced jobs and suspensions interleave, process_()
\* enters a node's body no more often than the body suspends, plus once.
THEOREM NodesRunOnce ==
    ASSUME GraphRules
    PROVE  Spec => []NodeOnce
<1>1. GraphInv => NodeOnce
  BY DEF GraphInv, GraphOf, NodesOK, NodeOnce
<1> QED
  BY <1>1, GraphInvariant, PTL

\* _numDeps counts exactly the predecessors that have not returned and the workers
\* that are about to say so: a node's body is entered only when both are none.
THEOREM PredecessorsFirst ==
    ASSUME GraphRules
    PROVE  Spec => []DepsFirst
<1>1. ASSUME SchedInv, GraphInv
      PROVE  DepsFirst
  <2>1. SUFFICES ASSUME NEW n \in Nodes, runs[n] > 0, NEW p \in ToSet(Preds[n]), p \notin finished
                 PROVE  FALSE
    BY DEF DepsFirst
  <2>2. numDeps[n] = 0
    BY <1>1, <2>1 DEF GraphInv, GraphOf, NodesOK
  <2>3. numDeps[n] = Cardinality(Missing(n, finished)) + Cardinality(Owing(n, stack))
    BY <1>1 DEF GraphInv, GraphOf, Counted
  <2>4. /\ Cardinality(Missing(n, finished)) \in Nat /\ Cardinality(Owing(n, stack)) \in Nat
        /\ Cardinality(Missing(n, finished)) > 0
    BY <2>1, FinitelyMany DEF Missing
  <2> QED
    BY <2>2, <2>3, <2>4
<1> QED
  BY <1>1, GraphInvariant, PTL

-----------------------------------------------------------------------------
(* Sums over a finite set.                                                  *)

\* Every number has a property that 0 has and that passes to the next; the set
\* is that of the numbers with the property.
LEMMA Induction ==
    ASSUME NEW S, 0 \in S, \A n \in Nat : n \in S => n + 1 \in S
    PROVE  Nat \subseteq S
<1> DEFINE T == Nat \ S
<1>1. SUFFICES ASSUME T # {} PROVE FALSE
  OBVIOUS
<1>2. T \subseteq Nat
  OBVIOUS
<1> HIDE DEF T
<1>3. PICK n \in T : \A m \in T : ~(<<m, n>> \in OpToRel(<, Nat))
  BY <1>1, <1>2, NatLessThanWellFounded, WFMin, Zenon
<1>4. \A m \in T : ~(m < n)
  BY <1>2, <1>3 DEF OpToRel
<1>5. n \in Nat /\ n # 0 /\ n - 1 \in Nat /\ n - 1 < n
  BY <1>2 DEF T
<1>6. n - 1 \in S
  BY <1>4, <1>5 DEF T
<1>7. (n - 1) + 1 \in S
  BY <1>5, <1>6
<1> QED
  BY <1>5, <1>7 DEF T

\* Every part of a finite set has a property that passes from the parts with one
\* element less.
LEMMA PartsInduction ==
    ASSUME NEW S, IsFiniteSet(S), NEW P, {} \in P,
           \A A \in SUBSET S : A # {} /\ (\A x \in A : A \ {x} \in P) => A \in P
    PROVE  SUBSET S \subseteq P
<1> DEFINE M == {n \in Nat : \A A \in SUBSET S : Cardinality(A) = n => A \in P}
<1>1. \A A \in SUBSET S : IsFiniteSet(A) /\ Cardinality(A) \in Nat
  BY FS_Subset, FS_CardinalityType
<1>2. 0 \in M
  BY <1>1, FS_EmptySet
<1>3. ASSUME NEW n \in Nat, n \in M
      PROVE  n + 1 \in M
  <2>1. ASSUME NEW A \in SUBSET S, Cardinality(A) = n + 1
        PROVE  A \in P
    <3>1. A # {}
      <4>1. Cardinality({}) = 0 /\ n + 1 # 0
        BY FS_EmptySet
      <4> QED
        BY <2>1, <4>1
    <3>2. ASSUME NEW x \in A
          PROVE  A \ {x} \in P
      <4>1. Cardinality(A \ {x}) = n
        BY <1>1, <2>1, FS_RemoveElement
      <4> QED
        BY <1>3, <4>1
    <3> QED
      BY <3>1, <3>2
  <2> QED
    BY <2>1
<1>4. Nat \subseteq M
  <2> HIDE DEF M
  <2> QED
    BY <1>2, <1>3, Induction
<1> QED
  BY <1>1, <1>4

\* G is a sum over each part of S, whatever is added first.
Additive(S, f, G) ==
    G[{}] = 0 /\ \A A \in SUBSET S : \A x \in S \ A : G[A \cup {x}] = G[A] + f[x]

LEMMA SumExists ==
    ASSUME NEW S, IsFiniteSet(S), NEW f \in [S -> Nat]
    PROVE  \E G \in [SUBSET S -> Nat] : Additive(S, f, G)
<1> DEFINE P == {A \in SUBSET S : \E G \in [SUBSET A -> Nat] : Additive(A, f, G)}
<1>1. {} \in P
  <2>1. [B \in SUBSET {} |-> 0] \in [SUBSET {} -> Nat] /\ Additive({}, f, [B \in SUBSET {} |-> 0])
    BY DEF Additive
  <2> QED
    BY <2>1
<1>2. ASSUME NEW A \in SUBSET S, A # {}, \A x \in A : A \ {x} \in P
      PROVE  A \in P
  <2>1. PICK y \in A : TRUE
    BY <1>2
  <2>2. PICK G \in [SUBSET (A \ {y}) -> Nat] : Additive(A \ {y}, f, G)
    BY <1>2
  <2> DEFINE H == [B \in SUBSET A |-> IF y \in B THEN G[B \ {y}] + f[y] ELSE G[B]]
  <2>3. H \in [SUBSET A -> Nat]
    <3>1. ASSUME NEW B \in SUBSET A
          PROVE  (IF y \in B THEN G[B \ {y}] + f[y] ELSE G[B]) \in Nat
      <4>1. B \ {y} \in SUBSET (A \ {y}) /\ (y \notin B => B \in SUBSET (A \ {y}))
        OBVIOUS
      <4>2. f[y] \in Nat /\ G[B \ {y}] \in Nat
        BY <4>1
      <4> QED
        BY <4>1, <4>2
    <3> QED
      BY <3>1
  <2>4. H[{}] = 0
    BY <2>2 DEF Additive
  <2>5. ASSUME NEW B \in SUBSET A, NEW x \in A \ B
        PROVE  H[B \cup {x}] = H[B] + f[x]
    <3>0. f[x] \in Nat /\ f[y] \in Nat
      OBVIOUS
    <3>1. CASE x = y
      <4>1. (B \cup {x}) \ {y} = B /\ B \cup {x} \in SUBSET A
        BY <3>1
      <4> QED
        BY <3>1, <4>1
    <3>2. CASE x # y /\ y \in B
      <4>1. B \cup {x} \in SUBSET A /\ (B \cup {x}) \ {y} = (B \ {y}) \cup {x}
            /\ B \ {y} \in SUBSET (A \ {y}) /\ x \in (A \ {y}) \ (B \ {y})
        BY <3>2
      <4>2. G[(B \ {y}) \cup {x}] = G[B \ {y}] + f[x] /\ G[B \ {y}] \in Nat
        BY <2>2, <4>1 DEF Additive
      <4>3. H[B \cup {x}] = G[(B \ {y}) \cup {x}] + f[y] /\ H[B] = G[B \ {y}] + f[y]
        BY <3>2, <4>1
      <4> HIDE DEF H
      <4> QED
        BY <3>0, <4>2, <4>3
    <3>3. CASE x # y /\ y \notin B
      <4>1. B \cup {x} \in SUBSET A /\ y \notin B \cup {x}
            /\ B \in SUBSET (A \ {y}) /\ x \in (A \ {y}) \ B
        BY <3>3
      <4>2. G[B \cup {x}] = G[B] + f[x]
        BY <2>2, <4>1 DEF Additive
      <4> QED
        BY <3>3, <4>1, <4>2
    <3> QED
      BY <3>1, <3>2, <3>3
  <2> HIDE DEF H
  <2>6. Additive(A, f, H)
    BY <2>4, <2>5 DEF Additive
  <2> QED
    BY <2>3, <2>6
<1>3. SUBSET S \subseteq P
  <2> HIDE DEF P
  <2> QED
    BY <1>1, <1>2, PartsInduction
<1> QED
  BY <1>3

LEMMA SumIs ==
    ASSUME NEW S, IsFiniteSet(S), NEW f \in [S -> Int],
           NEW G \in [SUBSET S -> Int], Additive(S, f, G)
    PROVE  SumFunction(f) = G[S]
<1> DEFINE c(A) == CHOOSE x \in A : TRUE
<1>1. PICK H : H = CHOOSE y : y = [A \in SUBSET S |-> IF A = {} THEN 0 ELSE f[c(A)] + y[A \ {c(A)}]]
  OBVIOUS
<1>2. SumFunction(f) = H[S]
  <2>1. DOMAIN f = S
    OBVIOUS
  <2> QED
    BY <1>1, <2>1 DEF SumFunction, SumFunctionOnSet, FoldFunctionOnSet, MapThenFoldSet
<1>3. \A A \in SUBSET S : A # {} => c(A) \in A /\ A \ {c(A)} \in SUBSET S
  OBVIOUS
<1> HIDE DEF c
<1>4. G = [A \in SUBSET S |-> IF A = {} THEN 0 ELSE f[c(A)] + G[A \ {c(A)}]]
  <2>1. ASSUME NEW A \in SUBSET S, A # {}
        PROVE  G[A] = f[c(A)] + G[A \ {c(A)}]
    <3>1. PICK x \in A : x = c(A)
      BY <1>3, <2>1
    <3>2. A \ {x} \in SUBSET S /\ x \in S \ (A \ {x}) /\ A = (A \ {x}) \cup {x}
      OBVIOUS
    <3>3. G[A] = G[A \ {x}] + f[x]
      BY <3>2 DEF Additive
    <3>4. G[A \ {x}] \in Int /\ f[x] \in Int
      BY <3>2
    <3> QED
      BY <3>1, <3>3, <3>4
  <2>2. G[{}] = 0
    BY DEF Additive
  <2> QED
    BY <2>1, <2>2
<1>5. H = [A \in SUBSET S |-> IF A = {} THEN 0 ELSE f[c(A)] + H[A \ {c(A)}]]
  BY <1>1, <1>4
<1> DEFINE P == {A \in SUBSET S : H[A] = G[A]}
<1>6. {} \in P
  BY <1>4, <1>5
<1>7. ASSUME NEW A \in SUBSET S, A # {}, \A x \in A : A \ {x} \in P
      PROVE  A \in P
  <2>1. H[A \ {c(A)}] = G[A \ {c(A)}]
    BY <1>3, <1>7
  <2>2. H[A] = f[c(A)] + H[A \ {c(A)}]
    BY <1>5, <1>7
  <2>3. G[A] = f[c(A)] + G[A \ {c(A)}]
    BY <1>4, <1>7
  <2> QED
    BY <2>1, <2>2, <2>3
<1>8. SUBSET S \subseteq P
  <2> HIDE DEF P
  <2> QED
    BY <1>6, <1>7, PartsInduction
<1> QED
  BY <1>2, <1>8

\* A summand is part of the sum.
LEMMA SumPart ==
    ASSUME NEW S, IsFiniteSet(S), NEW f \in [S -> Nat]
    PROVE  SumFunction(f) \in Nat /\ \A x \in S : f[x] <= SumFunction(f)
<1>1. PICK G \in [SUBSET S -> Nat] : Additive(S, f, G)
  BY SumExists
<1>2. f \in [S -> Int] /\ G \in [SUBSET S -> Int]
  OBVIOUS
<1>3. SumFunction(f) = G[S] /\ G[S] \in Nat
  BY <1>1, <1>2, SumIs
<1>4. ASSUME NEW x \in S
      PROVE  f[x] <= G[S]
  <2>1. S \ {x} \in SUBSET S /\ x \in S \ (S \ {x}) /\ S = (S \ {x}) \cup {x}
    OBVIOUS
  <2>2. G[S] = G[S \ {x}] + f[x]
    BY <1>1, <2>1 DEF Additive
  <2>3. G[S \ {x}] \in Nat /\ f[x] \in Nat
    BY <2>1
  <2> QED
    BY <1>3, <2>2, <2>3
<1> QED
  BY <1>3, <1>4

\* One summand changes.
LEMMA SumChange ==
    ASSUME NEW S, IsFiniteSet(S), NEW f \in [S -> Nat], NEW g \in [S -> Nat], NEW y \in S,
           \A x \in S : x # y => g[x] = f[x]
    PROVE  SumFunction(g) = SumFunction(f) + g[y] - f[y]
<1>1. PICK F \in [SUBSET S -> Nat] : Additive(S, f, F)
  BY SumExists
<1> DEFINE G == [A \in SUBSET S |-> IF y \in A THEN F[A] + g[y] - f[y] ELSE F[A]]
<1>2. f \in [S -> Int] /\ g \in [S -> Int] /\ F \in [SUBSET S -> Int] /\ G \in [SUBSET S -> Int]
  OBVIOUS
<1>3. G[{}] = 0
  BY <1>1 DEF Additive
<1>4. ASSUME NEW A \in SUBSET S, NEW x \in S \ A
      PROVE  G[A \cup {x}] = G[A] + g[x]
  <2>1. /\ A \cup {x} \in SUBSET S /\ F[A \cup {x}] = F[A] + f[x]
        /\ F[A] \in Int /\ f[x] \in Int /\ g[x] \in Int /\ f[y] \in Int /\ g[y] \in Int
    BY <1>1 DEF Additive
  <2>2. CASE x = y
    BY <2>1, <2>2
  <2>3. CASE x # y
    BY <2>1, <2>3
  <2> QED
    BY <2>2, <2>3
<1>5. Additive(S, g, G)
  <2> HIDE DEF G
  <2> QED
    BY <1>3, <1>4 DEF Additive
<1>6. SumFunction(f) = F[S]
  BY <1>1, <1>2, SumIs
<1>7. SumFunction(g) = G[S]
  <2> HIDE DEF G
  <2> QED
    BY <1>2, <1>5, SumIs
<1> QED
  BY <1>6, <1>7

\* One summand is all.
LEMMA SumPoint ==
    ASSUME NEW S, IsFiniteSet(S), NEW f \in [S -> Nat], NEW y \in S,
           \A x \in S : x # y => f[x] = 0
    PROVE  SumFunction(f) = f[y]
<1> DEFINE G == [A \in SUBSET S |-> IF y \in A THEN f[y] ELSE 0]
<1>1. f \in [S -> Int] /\ G \in [SUBSET S -> Int] /\ f[y] \in Int
  OBVIOUS
<1>2. G[{}] = 0
  OBVIOUS
<1>3. ASSUME NEW A \in SUBSET S, NEW x \in S \ A
      PROVE  G[A \cup {x}] = G[A] + f[x]
  <2>1. A \cup {x} \in SUBSET S
    OBVIOUS
  <2> QED
    BY <1>1, <2>1
<1>4. Additive(S, f, G)
  <2> HIDE DEF G
  <2> QED
    BY <1>2, <1>3 DEF Additive
<1>5. SumFunction(f) = G[S]
  <2> HIDE DEF G
  <2> QED
    BY <1>1, <1>4, SumIs
<1> QED
  BY <1>5

LEMMA SumZero ==
    ASSUME NEW S, IsFiniteSet(S), NEW f \in [S -> Nat], \A x \in S : f[x] = 0
    PROVE  SumFunction(f) = 0
<1> DEFINE G == [A \in SUBSET S |-> 0]
<1>1. f \in [S -> Int] /\ G \in [SUBSET S -> Int] /\ G[{}] = 0
  OBVIOUS
<1>2. ASSUME NEW A \in SUBSET S, NEW x \in S \ A
      PROVE  G[A \cup {x}] = G[A] + f[x]
  BY <1>1
<1>3. Additive(S, f, G)
  <2> HIDE DEF G
  <2> QED
    BY <1>1, <1>2 DEF Additive
<1>4. SumFunction(f) = G[S]
  <2> HIDE DEF G
  <2> QED
    BY <1>1, <1>3, SumIs
<1> QED
  BY <1>4

-----------------------------------------------------------------------------
(* How many frames there are of a kind.                                     *)

Marks(s, X) == {i \in DOMAIN s : s[i] \in X}
Num(s, X)   == Cardinality(Marks(s, X))
Total(s, X) == SumFunction([t \in Threads |-> Num(s[t], X)])
Bit(b)      == IF b THEN 1 ELSE 0

LEMMA NumIs ==
    ASSUME NEW S, NEW s \in Seq(S), NEW X
    PROVE  IsFiniteSet(Marks(s, X)) /\ Num(s, X) \in Nat /\ (Num(s, X) = 0 <=> ~Has(s, X))
<1>1. DOMAIN s = 1..Len(s) /\ Len(s) \in Int
  BY LenProperties
<1>2. IsFiniteSet(DOMAIN s)
  BY <1>1, FS_Interval
<1>3. IsFiniteSet(Marks(s, X))
  BY <1>2, FS_Subset DEF Marks
<1>4. Num(s, X) \in Nat
  BY <1>3, FS_CardinalityType DEF Num
<1>5. Num(s, X) = 0 <=> Marks(s, X) = {}
  BY <1>3, FS_EmptySet DEF Num
<1>6. Marks(s, X) = {} <=> ~Has(s, X)
  BY DEF Marks, Has
<1> QED
  BY <1>3, <1>4, <1>5, <1>6

LEMMA NumShort ==
    ASSUME NEW a, NEW X
    PROVE  Num(<<>>, X) = 0 /\ Num(<<a>>, X) = Bit(a \in X)
<1>1. Marks(<<>>, X) = {}
  BY DEF Marks
<1>2. Marks(<<a>>, X) = IF a \in X THEN {1} ELSE {}
  BY DEF Marks
<1>3. Cardinality({}) = 0 /\ Cardinality({1}) = 1
  BY FS_EmptySet, FS_Singleton
<1> QED
  BY <1>1, <1>2, <1>3 DEF Num, Bit

LEMMA NumConcat ==
    ASSUME NEW S, NEW a \in Seq(S), NEW b \in Seq(S), NEW X
    PROVE  Num(a \o b, X) = Num(a, X) + Num(b, X)
<1>1. PICK m \in Nat, n \in Nat : m = Len(a) /\ n = Len(b)
  BY LenProperties
<1>2. DOMAIN a = 1..m /\ DOMAIN b = 1..n /\ DOMAIN (a \o b) = 1..(m + n)
  BY <1>1, LenProperties, ConcatProperties
<1>3. \A i \in 1..(m + n) : (a \o b)[i] = IF i <= m THEN a[i] ELSE b[i - m]
  BY <1>1, ConcatProperties
<1> DEFINE A == Marks(a, X)
           B == Marks(b, X)
           C == {i \in (m + 1)..(m + n) : b[i - m] \in X}
           f == [i \in B |-> i + m]
<1>4. Marks(a \o b, X) = A \cup C
  BY <1>2, <1>3 DEF Marks
<1>5. A \cap C = {}
  BY <1>2 DEF Marks
<1>6. f \in Bijection(B, C)
  <2>1. B \subseteq 1..n
    BY <1>2 DEF Marks
  <2>2. f \in [B -> C]
    <3>1. ASSUME NEW i \in B
          PROVE  i + m \in C
      <4>1. b[i] \in X /\ i \in 1..n /\ i + m \in (m + 1)..(m + n) /\ (i + m) - m = i
        BY <2>1 DEF Marks
      <4> QED
        BY <4>1
    <3> QED
      BY <3>1
  <2>3. \A i, k \in B : f[i] = f[k] => i = k
    BY <2>1
  <2>4. \A c \in C : \E i \in B : f[i] = c
    <3>1. ASSUME NEW c \in C
          PROVE  c - m \in B /\ f[c - m] = c
      <4>1. c - m \in 1..n /\ b[c - m] \in X /\ (c - m) + m = c
        OBVIOUS
      <4>2. c - m \in B
        BY <1>2, <4>1 DEF Marks
      <4> QED
        BY <4>1, <4>2
    <3> QED
      BY <3>1
  <2> HIDE DEF f, B, C
  <2> QED
    BY <2>2, <2>3, <2>4 DEF Bijection, Injection, Surjection, IsInjective
<1>7. IsFiniteSet(A) /\ IsFiniteSet(B)
  BY NumIs
<1>8. IsFiniteSet(C) /\ Cardinality(C) = Cardinality(B)
  <2> HIDE DEF f, B, C
  <2>1. ExistsBijection(B, C)
    BY <1>6 DEF ExistsBijection
  <2> QED
    BY <1>7, <2>1, FS_Bijection
<1>9. Cardinality(A \cup C) = Cardinality(A) + Cardinality(C) - Cardinality(A \cap C)
  <2> HIDE DEF A, C
  <2> QED
    BY <1>7, <1>8, FS_Union
<1>10. Cardinality(A) \in Nat /\ Cardinality(B) \in Nat /\ Cardinality(A \cap C) = 0
  BY <1>5, <1>7, FS_CardinalityType, FS_EmptySet
<1> HIDE DEF A, B, C, f
<1>11. Num(a \o b, X) = Cardinality(A) + Cardinality(B)
  BY <1>4, <1>8, <1>9, <1>10 DEF Num
<1> QED
  BY <1>11 DEF Num, A, B

LEMMA NumPair ==
    ASSUME NEW S, NEW a \in S, NEW b \in S, NEW X
    PROVE  Num(<<a, b>>, X) = Bit(a \in X) + Bit(b \in X)
<1>1. PICK p \in Seq(S), q \in Seq(S) : p = <<a>> /\ q = <<b>> /\ p \o q = <<a, b>>
  <2>1. <<a>> \in Seq(S) /\ <<b>> \in Seq(S)
    OBVIOUS
  <2>2. PICK r \in Seq(S) : r = <<a>> \o <<b>> /\ Len(r) = 2 /\ r[1] = a /\ r[2] = b
    <3>1. Len(<<a>>) = 1 /\ Len(<<b>>) = 1
      OBVIOUS
    <3>2. /\ <<a>> \o <<b>> \in Seq(S) /\ Len(<<a>> \o <<b>>) = 2
          /\ \A i \in 1..2 : (<<a>> \o <<b>>)[i] = IF i <= 1 THEN <<a>>[i] ELSE <<b>>[i - 1]
      BY <2>1, <3>1, ConcatProperties
    <3>3. 1 \in 1..2 /\ 2 \in 1..2 /\ 2 - 1 = 1 /\ <<a>>[1] = a /\ <<b>>[1] = b
      OBVIOUS
    <3>4. (<<a>> \o <<b>>)[1] = a
      BY <3>2, <3>3
    <3>5. (<<a>> \o <<b>>)[2] = <<b>>[2 - 1]
      BY <3>2, <3>3
    <3> QED
      BY <3>2, <3>3, <3>4, <3>5
  <2>3. r = <<a, b>>
    <3>1. PICK p \in Seq(S) : p = <<a, b>> /\ Len(p) = 2 /\ p[1] = a /\ p[2] = b
      <4>1. <<a, b>> \in Seq(S)
        OBVIOUS
      <4>2. Len(<<a, b>>) = 2 /\ <<a, b>>[1] = a /\ <<a, b>>[2] = b
        OBVIOUS
      <4> QED
        BY <4>1, <4>2
    <3>2. \A i \in 1..2 : i = 1 \/ i = 2
      OBVIOUS
    <3>3. \A i \in 1..Len(r) : r[i] = p[i]
      BY <2>2, <3>1, <3>2
    <3> QED
      BY <2>2, <3>1, <3>3, SeqEqual
  <2> QED
    BY <2>1, <2>2, <2>3
<1>2. Num(p \o q, X) = Num(p, X) + Num(q, X)
  BY NumConcat
<1>3. Num(p, X) = Bit(a \in X) /\ Num(q, X) = Bit(b \in X)
  BY <1>1, NumShort
<1> QED
  BY <1>1, <1>2, <1>3

LEMMA NumReplaced ==
    ASSUME NEW S, NEW s \in Seq(S), s # <<>>, NEW fs \in Seq(S), NEW X
    PROVE  Num(fs \o Tail(s), X) = Num(s, X) + Num(fs, X) - Bit(Head(s) \in X)
<1>1. PICK a \in S, r \in Seq(S) : a = Head(s) /\ r = Tail(s) /\ s = <<a>> \o r
  <2>1. Head(s) \in S /\ Tail(s) \in Seq(S) /\ Len(Tail(s)) = Len(s) - 1 /\ Len(s) \in Nat
    BY HeadTailProperties, LenProperties
  <2>2. Head(s) = s[1] /\ \A i \in 1..Len(Tail(s)) : Tail(s)[i] = s[i + 1]
    BY HeadTailProperties
  <2>3. <<Head(s)>> \in Seq(S) /\ Len(<<Head(s)>>) = 1
    BY <2>1
  <2>4. /\ <<Head(s)>> \o Tail(s) \in Seq(S) /\ Len(<<Head(s)>> \o Tail(s)) = Len(s)
        /\ \A i \in 1..Len(s) : (<<Head(s)>> \o Tail(s))[i] = IF i <= 1 THEN <<Head(s)>>[i] ELSE Tail(s)[i - 1]
    BY <2>1, <2>3, ConcatProperties
  <2>5. \A i \in 1..Len(s) : (<<Head(s)>> \o Tail(s))[i] = s[i]
    BY <2>1, <2>2, <2>4
  <2>6. s = <<Head(s)>> \o Tail(s)
    BY <2>4, <2>5, SeqEqual
  <2> QED
    BY <2>1, <2>6
<1>2. <<a>> \in Seq(S)
  OBVIOUS
<1>3. Num(s, X) = Num(<<a>>, X) + Num(r, X) /\ Num(fs \o r, X) = Num(fs, X) + Num(r, X)
  <2>1. Num(<<a>> \o r, X) = Num(<<a>>, X) + Num(r, X)
    BY <1>2, NumConcat
  <2>2. Num(fs \o r, X) = Num(fs, X) + Num(r, X)
    BY NumConcat
  <2> QED
    BY <1>1, <2>1, <2>2
<1>4. Num(r, X) \in Nat /\ Num(fs, X) \in Nat
  BY NumIs
<1>5. Num(<<a>>, X) = Bit(a \in X) /\ Bit(a \in X) \in Nat
  BY NumShort DEF Bit
<1> QED
  BY <1>1, <1>3, <1>4, <1>5

LEMMA ThreadsFinite == IsFiniteSet(Threads) /\ IsFiniteSet(Jobs) /\ IsFiniteSet(0..N)
<1>1. N \in Int /\ 0 \in Int /\ 1 \in Int
  BY SchedulerAssumption
<1>2. IsFiniteSet(Workers) /\ IsFiniteSet(0..N)
  BY <1>1, FS_Interval DEF Workers
<1>3. IsFiniteSet(Threads)
  BY <1>2, SchedulerAssumption, FS_Union DEF Threads
<1>4. PICK k \in Nat : DOMAIN Order = 1..k
  BY SchedulerAssumption, LenProperties
<1>5. IsFiniteSet(1..k)
  BY <1>4, FS_Interval
<1>6. Order \in Surjection(1..k, Nodes)
  BY <1>4, SchedulerAssumption DEF Surjection, Nodes, ToSet
<1>7. IsFiniteSet(Nodes)
  BY <1>5, <1>6, FS_Surjection
<1>8. IsFiniteSet(Jobs)
  BY <1>7, SchedulerAssumption, FS_Union DEF Jobs
<1> QED
  BY <1>2, <1>3, <1>8

LEMMA TotalIs ==
    ASSUME NEW s \in [Threads -> Seq(Sound)], NEW X
    PROVE  /\ [t \in Threads |-> Num(s[t], X)] \in [Threads -> Nat]
           /\ Total(s, X) \in Nat
           /\ \A t \in Threads : Num(s[t], X) <= Total(s, X)
<1> DEFINE f == [t \in Threads |-> Num(s[t], X)]
<1>1. \A t \in Threads : Num(s[t], X) \in Nat
  <2>1. \A t \in Threads : s[t] \in Seq(Sound)
    OBVIOUS
  <2> QED
    BY <2>1, NumIs
<1>2. f \in [Threads -> Nat]
  BY <1>1
<1>3. SumFunction(f) \in Nat /\ \A t \in Threads : f[t] <= SumFunction(f)
  <2> HIDE DEF f
  <2> QED
    BY <1>2, ThreadsFinite, SumPart
<1>4. Total(s, X) = SumFunction(f)
  BY DEF Total
<1>5. \A t \in Threads : f[t] = Num(s[t], X)
  OBVIOUS
<1> QED
  BY <1>2, <1>3, <1>4, <1>5

LEMMA ThreadSum ==
    ASSUME NEW t \in Threads, IsFiniteSet(Threads), NEW F \in [Threads -> Nat],
           NEW G \in [Threads -> Nat], \A u \in Threads : u # t => G[u] = F[u]
    PROVE  SumFunction(G) = SumFunction(F) + G[t] - F[t]
BY SumChange

\* One thread's stack changes.
LEMMA TotalChange ==
    ASSUME NEW s \in [Threads -> Seq(Sound)], NEW s2 \in [Threads -> Seq(Sound)], NEW t \in Threads,
           \A u \in Threads : u # t => s2[u] = s[u], NEW X
    PROVE  Total(s2, X) = Total(s, X) + Num(s2[t], X) - Num(s[t], X)
<1> DEFINE f == [u \in Threads |-> Num(s[u], X)]
           g == [u \in Threads |-> Num(s2[u], X)]
<1>1. f \in [Threads -> Nat] /\ g \in [Threads -> Nat]
  BY TotalIs
<1>2. \A u \in Threads : u # t => g[u] = f[u]
  OBVIOUS
<1>3. f[t] = Num(s[t], X) /\ g[t] = Num(s2[t], X)
  OBVIOUS
<1>4. Total(s, X) = SumFunction(f) /\ Total(s2, X) = SumFunction(g)
  BY DEF Total
<1> HIDE DEF f, g
<1>5. SumFunction(g) = SumFunction(f) + g[t] - f[t]
  <2>1. PICK F \in [Threads -> Nat], G \in [Threads -> Nat] : F = f /\ G = g
    BY <1>1
  <2>2. IsFiniteSet(Threads) /\ \A u \in Threads : u # t => G[u] = F[u]
    BY <1>2, <2>1, ThreadsFinite
  <2>3. SumFunction(G) = SumFunction(F) + G[t] - F[t]
    BY <2>2, ThreadSum
  <2> QED
    BY <2>1, <2>3
<1> QED
  BY <1>3, <1>4, <1>5

\* t's top frame becomes fs.
LEMMA TotalPut ==
    ASSUME NEW s, NEW s2, NEW t, NEW fs, Put(s, s2, t, fs), NEW X
    PROVE  Total(s2, X) = Total(s, X) + Num(fs, X) - Bit(Head(s[t]) \in X)
<1>1. s \in [Threads -> Seq(Sound)] /\ t \in Threads /\ s[t] # <<>> /\ fs \in Seq(Sound)
  BY DEF Put
<1>2. /\ s2 \in [Threads -> Seq(Sound)] /\ s2[t] = fs \o Tail(s[t])
      /\ \A u \in Threads : u # t => s2[u] = s[u]
  BY StacksReplaced DEF Put
<1>3. Num(s2[t], X) = Num(s[t], X) + Num(fs, X) - Bit(Head(s[t]) \in X)
  BY <1>1, <1>2, NumReplaced
<1>4. Total(s2, X) = Total(s, X) + Num(s2[t], X) - Num(s[t], X)
  BY <1>1, <1>2, TotalChange
<1>5. Num(s[t], X) \in Nat /\ Num(fs, X) \in Nat /\ Total(s, X) \in Nat /\ Bit(Head(s[t]) \in X) \in Nat
  BY <1>1, NumIs, TotalIs DEF Bit
<1> QED
  BY <1>3, <1>4, <1>5

LEMMA ThreadZero ==
    ASSUME NEW F \in [Threads -> Nat], \A u \in Threads : F[u] = 0
    PROVE  SumFunction(F) = 0
<1>1. IsFiniteSet(Threads)
  BY ThreadsFinite
<1> QED
  BY <1>1, SumZero

WithOps(ops) == {f \in Sound : f.op \in ops}
Holding(j)   == {f \in Sound : f.op \in HoldOps /\ f.job = j}
Uncounted    == WithOps({"e_count"})
Working      == WithOps(ProcessOps \cup {"e_spill"})

\* The frames at some program points are counted thread by thread.
LEMMA FramesCounted ==
    ASSUME Stacks(stack), NEW ops
    PROVE  Cardinality(FramesAt(ops)) = Total(stack, WithOps(ops)) /\ IsFiniteSet(FramesAt(ops))
<1> DEFINE M(t)  == Marks(stack[t], WithOps(ops))
           P(t)  == {<<t, i>> : i \in M(t)}
           U(A)  == UNION {P(t) : t \in A}
           f     == [t \in Threads |-> Num(stack[t], WithOps(ops))]
           G     == [A \in SUBSET Threads |-> Cardinality(U(A))]
           Fin   == {A \in SUBSET Threads : IsFiniteSet(U(A))}
<1>1. \A t \in Threads : stack[t] \in Seq(Sound)
  BY DEF Stacks
<1>2. \A t \in Threads : M(t) = {i \in DOMAIN stack[t] : stack[t][i].op \in ops}
  <2>1. ASSUME NEW t \in Threads, NEW i \in DOMAIN stack[t]
        PROVE  stack[t][i] \in WithOps(ops) <=> stack[t][i].op \in ops
    <3>1. stack[t][i] \in Sound
      BY <1>1, ElementOfSeq, LenProperties
    <3> QED
      BY <3>1 DEF WithOps
  <2> QED
    BY <2>1 DEF Marks
<1>3. FramesAt(ops) = U(Threads)
  BY <1>2 DEF FramesAt
<1>4. \A t \in Threads : IsFiniteSet(M(t)) /\ Cardinality(M(t)) = f[t] /\ f[t] \in Nat
  <2>1. ASSUME NEW t \in Threads
        PROVE  IsFiniteSet(M(t)) /\ Num(stack[t], WithOps(ops)) \in Nat
    <3>1. stack[t] \in Seq(Sound)
      BY <1>1
    <3> QED
      BY <3>1, NumIs
  <2> QED
    BY <2>1 DEF Num
<1> HIDE DEF M
<1>5. ASSUME NEW t \in Threads
      PROVE  IsFiniteSet(P(t)) /\ Cardinality(P(t)) = f[t]
  <2> DEFINE b == [i \in M(t) |-> <<t, i>>]
  <2>1. b \in Bijection(M(t), P(t))
    <3>1. b \in [M(t) -> P(t)] /\ \A i, k \in M(t) : b[i] = b[k] => i = k
      OBVIOUS
    <3>2. \A c \in P(t) : \E i \in M(t) : b[i] = c
      OBVIOUS
    <3> HIDE DEF b, P
    <3> QED
      BY <3>1, <3>2 DEF Bijection, Injection, Surjection, IsInjective
  <2> HIDE DEF b, P
  <2>2. ExistsBijection(M(t), P(t))
    BY <2>1 DEF ExistsBijection
  <2>3. IsFiniteSet(M(t)) /\ Cardinality(M(t)) = f[t]
    BY <1>4
  <2> HIDE DEF f
  <2> QED
    BY <2>2, <2>3, FS_Bijection
<1>6. \A A \in SUBSET Threads : \A t \in Threads \ A : U(A \cup {t}) = U(A) \cup P(t) /\ U(A) \cap P(t) = {}
  <2>1. ASSUME NEW A \in SUBSET Threads, NEW t \in Threads \ A
        PROVE  U(A) \cap P(t) = {}
    <3>1. ASSUME NEW x \in U(A), x \in P(t)
          PROVE  FALSE
      <4>1. PICK u \in A : x \in P(u)
        OBVIOUS
      <4>2. PICK i \in M(u), k \in M(t) : x = <<u, i>> /\ x = <<t, k>>
        BY <3>1, <4>1
      <4>3. u = t
        BY <4>2
      <4> QED
        BY <4>3
    <3> QED
      BY <3>1
  <2> HIDE DEF P
  <2> QED
    BY <2>1
<1> HIDE DEF P
<1>7. U({}) = {}
  OBVIOUS
<1> HIDE DEF U
<1>8. IsFiniteSet(Threads)
  BY ThreadsFinite
<1>9. \A A \in SUBSET Threads : IsFiniteSet(U(A))
  <2>1. {} \in Fin
    BY <1>7, FS_EmptySet
  <2>2. ASSUME NEW A \in SUBSET Threads, A # {}, \A x \in A : A \ {x} \in Fin
        PROVE  A \in Fin
    <3>1. PICK t \in A : TRUE
      BY <2>2
    <3>2. IsFiniteSet(U(A \ {t})) /\ IsFiniteSet(P(t)) /\ t \in Threads \ (A \ {t})
      BY <1>5, <2>2
    <3>3. (A \ {t}) \cup {t} = A
      OBVIOUS
    <3>4. U(A) = U(A \ {t}) \cup P(t)
      BY <1>6, <3>2, <3>3
    <3> QED
      BY <3>2, <3>4, FS_Union
  <2>3. SUBSET Threads \subseteq Fin
    <3> HIDE DEF Fin
    <3> QED
      BY <1>8, <2>1, <2>2, PartsInduction
  <2> QED
    BY <2>3
<1>10. G \in [SUBSET Threads -> Int]
  BY <1>9, FS_CardinalityType
<1>11. G[{}] = 0
  BY <1>7, FS_EmptySet
<1>12. ASSUME NEW A \in SUBSET Threads, NEW t \in Threads \ A
       PROVE  G[A \cup {t}] = G[A] + f[t]
  <2>1. IsFiniteSet(U(A)) /\ IsFiniteSet(P(t)) /\ Cardinality(P(t)) = f[t]
    BY <1>5, <1>9
  <2>2. Cardinality(U(A) \cup P(t)) = Cardinality(U(A)) + Cardinality(P(t)) - Cardinality(U(A) \cap P(t))
    BY <2>1, FS_Union
  <2>3. Cardinality(U(A) \cap P(t)) = 0
    BY <1>6, FS_EmptySet
  <2>4. Cardinality(U(A)) \in Nat /\ Cardinality(P(t)) \in Nat
    BY <2>1, FS_CardinalityType
  <2>5. G[A \cup {t}] = Cardinality(U(A) \cup P(t)) /\ G[A] = Cardinality(U(A))
    BY <1>6
  <2> HIDE DEF f, G
  <2> QED
    BY <2>1, <2>2, <2>3, <2>4, <2>5
<1>13. f \in [Threads -> Int]
  BY <1>4
<1>14. SumFunction(f) = G[Threads]
  <2> HIDE DEF f, G
  <2>1. Additive(Threads, f, G)
    BY <1>11, <1>12 DEF Additive
  <2> QED
    BY <1>8, <1>10, <1>13, <2>1, SumIs
<1>15. G[Threads] = Cardinality(FramesAt(ops))
  BY <1>3
<1>16. SumFunction(f) = Total(stack, WithOps(ops))
  BY DEF Total
<1> QED
  BY <1>3, <1>9, <1>14, <1>15, <1>16

-----------------------------------------------------------------------------
(* How many jobs are queued.                                                *)

Queued(qu)      == SumFunction([q \in 0..N |-> SumFunction(qu[q])])
InQueues(qu, j) == SumFunction([q \in 0..N |-> qu[q][j]])

LEMMA QueueSum ==
    ASSUME NEW q \in 0..N, NEW F \in [0..N -> Nat], NEW G \in [0..N -> Nat],
           \A r \in 0..N : r # q => G[r] = F[r]
    PROVE  SumFunction(G) = SumFunction(F) + G[q] - F[q]
<1>1. IsFiniteSet(0..N)
  BY ThreadsFinite
<1> QED
  BY <1>1, SumChange

LEMMA JobSum ==
    ASSUME NEW j \in Jobs, NEW F \in [Jobs -> Nat], NEW G \in [Jobs -> Nat],
           \A i \in Jobs : i # j => G[i] = F[i]
    PROVE  SumFunction(G) = SumFunction(F) + G[j] - F[j]
<1>1. IsFiniteSet(Jobs)
  BY ThreadsFinite
<1> QED
  BY <1>1, SumChange

LEMMA QueueNat ==
    ASSUME NEW F \in [0..N -> Nat]
    PROVE  SumFunction(F) \in Nat /\ \A q \in 0..N : F[q] <= SumFunction(F)
<1>1. IsFiniteSet(0..N)
  BY ThreadsFinite
<1> QED
  BY <1>1, SumPart

LEMMA JobNat ==
    ASSUME NEW F \in [Jobs -> Nat]
    PROVE  SumFunction(F) \in Nat /\ \A j \in Jobs : F[j] <= SumFunction(F)
<1>1. IsFiniteSet(Jobs)
  BY ThreadsFinite
<1> QED
  BY <1>1, SumPart

LEMMA QueuedIs ==
    ASSUME NEW qu \in QueueType
    PROVE  /\ [q \in 0..N |-> SumFunction(qu[q])] \in [0..N -> Nat]
           /\ \A j \in Jobs : [q \in 0..N |-> qu[q][j]] \in [0..N -> Nat]
           /\ Queued(qu) \in Nat /\ \A j \in Jobs : InQueues(qu, j) \in Nat
           /\ \A q \in 0..N : \A j \in Jobs : qu[q][j] <= Queued(qu)
<1>1. \A q \in 0..N : qu[q] \in [Jobs -> Nat]
  BY DEF QueueType
<1>2. \A q \in 0..N : SumFunction(qu[q]) \in Nat /\ \A j \in Jobs : qu[q][j] <= SumFunction(qu[q])
  BY <1>1, JobNat
<1> DEFINE F == [q \in 0..N |-> SumFunction(qu[q])]
<1>3. F \in [0..N -> Nat]
  BY <1>2
<1>4. SumFunction(F) \in Nat /\ \A q \in 0..N : F[q] <= SumFunction(F)
  <2> HIDE DEF F
  <2> QED
    BY <1>3, QueueNat
<1>5. ASSUME NEW j \in Jobs
      PROVE  [q \in 0..N |-> qu[q][j]] \in [0..N -> Nat] /\ InQueues(qu, j) \in Nat
  <2>1. PICK H \in [0..N -> Nat] : H = [q \in 0..N |-> qu[q][j]]
    BY <1>1
  <2>2. SumFunction(H) \in Nat
    BY QueueNat
  <2> QED
    BY <2>1, <2>2 DEF InQueues
<1>6. Queued(qu) = SumFunction(F)
  BY DEF Queued
<1>7. ASSUME NEW q \in 0..N, NEW j \in Jobs
      PROVE  qu[q][j] <= Queued(qu)
  <2>1. F[q] = SumFunction(qu[q])
    OBVIOUS
  <2>2. qu[q][j] \in Nat
    BY <1>1
  <2> HIDE DEF F
  <2> QED
    BY <1>2, <1>4, <1>6, <2>1, <2>2
<1> QED
  BY <1>3, <1>4, <1>5, <1>6, <1>7

\* d copies of j come to queue p.
Altered(qu, qu2, p, j, d) == qu2 = [qu EXCEPT ![p][j] = @ + d]

LEMMA QueueChange ==
    ASSUME NEW qu \in QueueType, NEW qu2 \in QueueType, NEW p \in 0..N, NEW j \in Jobs, NEW d \in Int,
           Altered(qu, qu2, p, j, d)
    PROVE  /\ Queued(qu2) = Queued(qu) + d
           /\ \A i \in Jobs : InQueues(qu2, i) = InQueues(qu, i) + (IF i = j THEN d ELSE 0)
<1>1. \A q \in 0..N : qu[q] \in [Jobs -> Nat] /\ qu2[q] \in [Jobs -> Nat]
  BY DEF QueueType
<1>2. /\ \A q \in 0..N : q # p => qu2[q] = qu[q]
      /\ \A i \in Jobs : i # j => qu2[p][i] = qu[p][i]
      /\ qu2[p][j] = qu[p][j] + d
  BY <1>1 DEF QueueType, Altered
<1>3. SumFunction(qu2[p]) = SumFunction(qu[p]) + d
  <2>1. SumFunction(qu2[p]) = SumFunction(qu[p]) + qu2[p][j] - qu[p][j]
    BY <1>1, <1>2, JobSum
  <2>2. SumFunction(qu[p]) \in Nat /\ qu[p][j] \in Nat
    BY <1>1, JobNat
  <2> QED
    BY <1>2, <2>1, <2>2
<1>4. Queued(qu2) = Queued(qu) + d
  <2>1. PICK F \in [0..N -> Nat] : F = [q \in 0..N |-> SumFunction(qu[q])]
    BY QueuedIs
  <2>2. PICK G \in [0..N -> Nat] : G = [q \in 0..N |-> SumFunction(qu2[q])]
    BY QueuedIs
  <2>3. \A q \in 0..N : q # p => G[q] = F[q]
    BY <1>2, <2>1, <2>2
  <2>4. G[p] = F[p] + d
    BY <1>3, <2>1, <2>2
  <2>5. SumFunction(G) = SumFunction(F) + G[p] - F[p]
    BY <2>3, QueueSum
  <2>6. SumFunction(F) \in Nat /\ F[p] \in Nat
    BY QueueNat
  <2> QED
    BY <2>1, <2>2, <2>4, <2>5, <2>6 DEF Queued
<1>5. ASSUME NEW i \in Jobs
      PROVE  InQueues(qu2, i) = InQueues(qu, i) + (IF i = j THEN d ELSE 0)
  <2>1. PICK F \in [0..N -> Nat] : F = [q \in 0..N |-> qu[q][i]]
    BY QueuedIs
  <2>2. PICK G \in [0..N -> Nat] : G = [q \in 0..N |-> qu2[q][i]]
    BY QueuedIs
  <2>3. \A q \in 0..N : q # p => G[q] = F[q]
    BY <1>2, <2>1, <2>2
  <2>4. G[p] = F[p] + (IF i = j THEN d ELSE 0)
    <3>1. G[p] = qu2[p][i] /\ F[p] = qu[p][i] /\ qu[p][i] \in Nat
      BY <1>1, <2>1, <2>2
    <3> QED
      BY <1>2, <3>1
  <2>5. SumFunction(G) = SumFunction(F) + G[p] - F[p]
    BY <2>3, QueueSum
  <2>6. SumFunction(F) \in Nat /\ F[p] \in Nat
    BY QueueNat
  <2>7. SumFunction(G) = SumFunction(F) + (IF i = j THEN d ELSE 0)
    BY <2>4, <2>5, <2>6
  <2> QED
    BY <2>1, <2>2, <2>7 DEF InQueues
<1> QED
  BY <1>4, <1>5

\* What a job put into a queue, or taken out, changes.
LEMMA PushSums ==
    ASSUME Values, NEW p \in 0..N, NEW j \in Jobs, Push(p, j)
    PROVE  /\ Queued(queue') = Queued(queue) + 1
           /\ \A i \in Jobs : InQueues(queue', i) = InQueues(queue, i) + (IF i = j THEN 1 ELSE 0)
<1>1. queue \in QueueType /\ queue' \in QueueType
  BY PushIs DEF Values, QueueType
<1>2. Altered(queue, queue', p, j, 1)
  BY DEF Push, Altered
<1> QED
  BY <1>1, <1>2, QueueChange

LEMMA PopSums ==
    ASSUME Values, NEW p \in 0..N, NEW j \in Jobs, Pop(p, j)
    PROVE  /\ Queued(queue') = Queued(queue) - 1
           /\ \A i \in Jobs : InQueues(queue', i) = InQueues(queue, i) - (IF i = j THEN 1 ELSE 0)
<1>1. queue \in QueueType /\ queue' \in QueueType
  BY PushIs DEF Values, QueueType
<1>2. Altered(queue, queue', p, j, -1)
  <2>1. queue[p][j] \in Int
    BY <1>1 DEF QueueType
  <2>2. queue[p][j] - 1 = queue[p][j] + (-1)
    BY <2>1
  <2> QED
    BY <2>2 DEF Pop, Altered
<1>3. /\ Queued(queue') = Queued(queue) + (-1)
      /\ \A i \in Jobs : InQueues(queue', i) = InQueues(queue, i) + (IF i = j THEN -1 ELSE 0)
  BY <1>1, <1>2, QueueChange
<1>4. Queued(queue) \in Nat /\ \A i \in Jobs : InQueues(queue, i) \in Nat
  BY <1>1, QueuedIs
<1>5. ASSUME NEW i \in Jobs
      PROVE  InQueues(queue', i) = InQueues(queue, i) - (IF i = j THEN 1 ELSE 0)
  BY <1>3, <1>4
<1> QED
  BY <1>3, <1>4, <1>5

-----------------------------------------------------------------------------
(* What a step does to the balance of jobs and to a function's places.      *)

\* What a frame adds to _remainingJobs against what is queued, and whether it
\* holds job j.
Worth(op)   == Bit(op = "e_count") - Bit(op \in ProcessOps \cup {"e_spill"})
Share(f, j) == Bit(f.op \in HoldOps /\ f.job = j)

Load(s)       == Total(s, Uncounted) - Total(s, Working)
Carried(s, j) == Total(s, Holding(j))

\* What is counted and neither queued nor processed.
Gap      == remaining + Load(stack) - Queued(queue)
Where(j) == InQueues(queue, j) + Carried(stack, j)

Busy == HoldOps \cup ProcessOps \cup {"e_count"}

\* Frames at which a body is about to run or to be counted again are not made.
NoNew == \A u \in Threads : \A f \in ToSet(stack'[u]) :
            f.op \in {"body", "again"} => f \in ToSet(stack[u])

Steady ==
    /\ Gap' = Gap /\ \A j \in Fns : Where(j)' = Where(j)
    /\ NoNew
    /\ UNCHANGED <<runs, finished, at>>

LEMMA SumTypes ==
    ASSUME SchedInv
    PROVE  /\ Load(stack) \in Int /\ Queued(queue) \in Nat /\ remaining \in Int
           /\ \A j \in Jobs : InQueues(queue, j) \in Nat /\ Carried(stack, j) \in Nat
           /\ \A j \in Fns : j \in Jobs
<1>1. stack \in [Threads -> Seq(Sound)] /\ queue \in QueueType /\ remaining \in Int
  BY DEF SchedInv, Values, Stacks, QueueType
<1>2. Total(stack, Uncounted) \in Nat /\ Total(stack, Working) \in Nat
      /\ \A j : Total(stack, Holding(j)) \in Nat
  BY <1>1, TotalIs
<1>3. Queued(queue) \in Nat /\ \A j \in Jobs : InQueues(queue, j) \in Nat
  BY <1>1, QueuedIs
<1> QED
  BY <1>1, <1>2, <1>3 DEF Load, Carried, Jobs

LEMMA SumTypesNext ==
    ASSUME SchedInv'
    PROVE  /\ Load(stack') \in Int /\ Queued(queue') \in Nat /\ remaining' \in Int
           /\ \A j \in Jobs : InQueues(queue', j) \in Nat /\ Carried(stack', j) \in Nat
<1>1. stack' \in [Threads -> Seq(Sound)] /\ queue' \in QueueType /\ remaining' \in Int
  BY DEF SchedInv, Values, Stacks, QueueType
<1>2. Total(stack', Uncounted) \in Nat /\ Total(stack', Working) \in Nat
      /\ \A j : Total(stack', Holding(j)) \in Nat
  BY <1>1, TotalIs
<1>3. Queued(queue') \in Nat /\ \A j \in Jobs : InQueues(queue', j) \in Nat
  BY <1>1, QueuedIs
<1> QED
  BY <1>1, <1>2, <1>3 DEF Load, Carried

LEMMA BitsAre ==
    /\ \A b : Bit(b) \in {0, 1}
    /\ \A op : Worth(op) \in Int
    /\ \A f, j : Share(f, j) \in {0, 1}
<1>1. \A b : Bit(b) \in {0, 1}
  BY DEF Bit
<1>2. ASSUME NEW op
      PROVE  Worth(op) \in Int
  BY DEF Worth, Bit
<1> QED
  BY <1>1, <1>2 DEF Share

LEMMA FrameWorth ==
    ASSUME NEW f \in Sound
    PROVE  /\ Bit(f \in Uncounted) - Bit(f \in Working) = Worth(f.op)
           /\ \A j : Bit(f \in Holding(j)) = Share(f, j)
<1>1. /\ f \in Uncounted <=> f.op = "e_count"
      /\ f \in Working <=> f.op \in ProcessOps \cup {"e_spill"}
  BY DEF Uncounted, Working, WithOps
<1>2. \A j : f \in Holding(j) <=> f.op \in HoldOps /\ f.job = j
  BY DEF Holding
<1>3. Bit(f \in Uncounted) - Bit(f \in Working) = Worth(f.op)
  BY <1>1 DEF Worth, Bit
<1>4. \A j : Bit(f \in Holding(j)) = Share(f, j)
  BY <1>2 DEF Share, Bit
<1> QED
  BY <1>3, <1>4

\* Frames of a calm kind are worth nothing.
LEMMA CalmWorth ==
    ASSUME NEW f, f.op \notin Busy
    PROVE  Worth(f.op) = 0 /\ \A j : Share(f, j) = 0
<1>1. f.op # "e_count" /\ f.op \notin ProcessOps \cup {"e_spill"} /\ f.op \notin HoldOps
  BY DEF Busy, HoldOps
<1> QED
  BY <1>1 DEF Worth, Share, Bit

LEMMA SwapNone ==
    ASSUME NEW s, NEW s2, NEW t, Put(s, s2, t, <<>>)
    PROVE  /\ Load(s2) = Load(s) - Worth(Head(s[t]).op)
           /\ \A j : Carried(s2, j) = Carried(s, j) - Share(Head(s[t]), j)
<1>1. \A X : Total(s2, X) = Total(s, X) - Bit(Head(s[t]) \in X) /\ Total(s, X) \in Nat
  <2>1. ASSUME NEW X
        PROVE  Total(s2, X) = Total(s, X) - Bit(Head(s[t]) \in X) /\ Total(s, X) \in Nat
    <3>1. Total(s2, X) = Total(s, X) + Num(<<>>, X) - Bit(Head(s[t]) \in X)
      BY TotalPut
    <3>2. Total(s, X) \in Nat
      BY TotalIs DEF Put
    <3>3. Num(<<>>, X) = 0 /\ Bit(Head(s[t]) \in X) \in {0, 1}
      BY NumShort, BitsAre
    <3> QED
      BY <3>1, <3>2, <3>3
  <2> QED
    BY <2>1
<1>2. PICK h \in Sound : h = Head(s[t])
  BY PutIs
<1>3. /\ Bit(h \in Uncounted) - Bit(h \in Working) = Worth(h.op)
      /\ \A j : Bit(h \in Holding(j)) = Share(h, j)
  BY FrameWorth
<1>4. Load(s2) = Load(s) - Worth(h.op)
  <2>1. Total(s2, Uncounted) = Total(s, Uncounted) - Bit(h \in Uncounted) /\ Total(s, Uncounted) \in Nat
    BY <1>1, <1>2
  <2>2. Total(s2, Working) = Total(s, Working) - Bit(h \in Working) /\ Total(s, Working) \in Nat
    BY <1>1, <1>2
  <2>3. Bit(h \in Working) \in {0, 1} /\ Bit(h \in Uncounted) \in {0, 1}
    BY BitsAre
  <2> QED
    BY <1>3, <2>1, <2>2, <2>3 DEF Load
<1>5. \A j : Carried(s2, j) = Carried(s, j) - Share(h, j)
  BY <1>1, <1>2, <1>3 DEF Carried
<1> QED
  BY <1>2, <1>4, <1>5

LEMMA SwapOne ==
    ASSUME NEW s, NEW s2, NEW t, NEW a \in Sound, Put(s, s2, t, <<a>>)
    PROVE  /\ Load(s2) = Load(s) + Worth(a.op) - Worth(Head(s[t]).op)
           /\ \A j : Carried(s2, j) = Carried(s, j) + Share(a, j) - Share(Head(s[t]), j)
<1>1. ASSUME NEW X
      PROVE  Total(s2, X) = Total(s, X) + Bit(a \in X) - Bit(Head(s[t]) \in X) /\ Total(s, X) \in Nat
  <2>1. Total(s2, X) = Total(s, X) + Num(<<a>>, X) - Bit(Head(s[t]) \in X)
    BY TotalPut
  <2>2. Total(s, X) \in Nat
    BY TotalIs DEF Put
  <2>3. Num(<<a>>, X) = Bit(a \in X)
    BY NumShort
  <2> QED
    BY <2>1, <2>2, <2>3
<1>2. PICK h \in Sound : h = Head(s[t])
  BY PutIs
<1>3. /\ Bit(h \in Uncounted) - Bit(h \in Working) = Worth(h.op)
      /\ \A j : Bit(h \in Holding(j)) = Share(h, j)
  BY FrameWorth
<1>4. /\ Bit(a \in Uncounted) - Bit(a \in Working) = Worth(a.op)
      /\ \A j : Bit(a \in Holding(j)) = Share(a, j)
  BY FrameWorth
<1>5. Load(s2) = Load(s) + Worth(a.op) - Worth(h.op)
  <2>1. /\ Total(s2, Uncounted) = Total(s, Uncounted) + Bit(a \in Uncounted) - Bit(h \in Uncounted)
        /\ Total(s, Uncounted) \in Nat
    BY <1>1, <1>2
  <2>2. /\ Total(s2, Working) = Total(s, Working) + Bit(a \in Working) - Bit(h \in Working)
        /\ Total(s, Working) \in Nat
    BY <1>1, <1>2
  <2>3. /\ Bit(h \in Working) \in {0, 1} /\ Bit(h \in Uncounted) \in {0, 1}
        /\ Bit(a \in Working) \in {0, 1} /\ Bit(a \in Uncounted) \in {0, 1}
    BY BitsAre
  <2> QED
    BY <1>3, <1>4, <2>1, <2>2, <2>3 DEF Load
<1>6. \A j : Carried(s2, j) = Carried(s, j) + Share(a, j) - Share(h, j)
  BY <1>1, <1>2, <1>3, <1>4 DEF Carried
<1> QED
  BY <1>2, <1>5, <1>6

LEMMA SwapTwo ==
    ASSUME NEW s, NEW s2, NEW t, NEW a \in Sound, NEW b \in Sound, Put(s, s2, t, <<a, b>>)
    PROVE  /\ Load(s2) = Load(s) + Worth(a.op) + Worth(b.op) - Worth(Head(s[t]).op)
           /\ \A j : Carried(s2, j) = Carried(s, j) + Share(a, j) + Share(b, j) - Share(Head(s[t]), j)
<1>1. ASSUME NEW X
      PROVE  /\ Total(s2, X) = Total(s, X) + Bit(a \in X) + Bit(b \in X) - Bit(Head(s[t]) \in X)
             /\ Total(s, X) \in Nat
  <2>0. PICK fs : fs = <<a, b>>
    OBVIOUS
  <2>1. Total(s2, X) = Total(s, X) + Num(fs, X) - Bit(Head(s[t]) \in X)
    BY <2>0, TotalPut
  <2>2. Total(s, X) \in Nat
    BY TotalIs DEF Put
  <2>3. Num(fs, X) = Bit(a \in X) + Bit(b \in X)
    BY <2>0, NumPair
  <2>4. Bit(a \in X) \in {0, 1} /\ Bit(b \in X) \in {0, 1} /\ Bit(Head(s[t]) \in X) \in {0, 1}
    BY BitsAre
  <2> QED
    BY <2>1, <2>2, <2>3, <2>4
<1>2. PICK h \in Sound : h = Head(s[t])
  BY PutIs
<1>3. /\ Bit(h \in Uncounted) - Bit(h \in Working) = Worth(h.op)
      /\ \A j : Bit(h \in Holding(j)) = Share(h, j)
  BY FrameWorth
<1>4. /\ Bit(a \in Uncounted) - Bit(a \in Working) = Worth(a.op)
      /\ \A j : Bit(a \in Holding(j)) = Share(a, j)
  BY FrameWorth
<1>5. /\ Bit(b \in Uncounted) - Bit(b \in Working) = Worth(b.op)
      /\ \A j : Bit(b \in Holding(j)) = Share(b, j)
  BY FrameWorth
<1>6. Load(s2) = Load(s) + Worth(a.op) + Worth(b.op) - Worth(h.op)
  <2>1. /\ Total(s2, Uncounted) = Total(s, Uncounted) + Bit(a \in Uncounted) + Bit(b \in Uncounted)
                                    - Bit(h \in Uncounted)
        /\ Total(s, Uncounted) \in Nat
    BY <1>1, <1>2
  <2>2. /\ Total(s2, Working) = Total(s, Working) + Bit(a \in Working) + Bit(b \in Working)
                                  - Bit(h \in Working)
        /\ Total(s, Working) \in Nat
    BY <1>1, <1>2
  <2>3. /\ Bit(h \in Working) \in {0, 1} /\ Bit(h \in Uncounted) \in {0, 1}
        /\ Bit(a \in Working) \in {0, 1} /\ Bit(a \in Uncounted) \in {0, 1}
        /\ Bit(b \in Working) \in {0, 1} /\ Bit(b \in Uncounted) \in {0, 1}
    BY BitsAre
  <2> QED
    BY <1>3, <1>4, <1>5, <2>1, <2>2, <2>3 DEF Load
<1>7. \A j : Carried(s2, j) = Carried(s, j) + Share(a, j) + Share(b, j) - Share(h, j)
  BY <1>1, <1>2, <1>3, <1>4, <1>5 DEF Carried
<1> QED
  BY <1>2, <1>6, <1>7

\* What is on top of a stack after a step is a frame that occurs.
LEMMA BecomeSound ==
    ASSUME SchedInv, SchedInv', NEW t \in Threads, NEW op, At(t, op), NEW fs, Become(t, fs)
    PROVE  /\ \A a : fs = <<a>> => a \in Sound
           /\ \A a, b : fs = <<a, b>> => a \in Sound /\ b \in Sound
<1>1. stack[t] # <<>> /\ stack \in [Threads -> Seq(Sound)] /\ stack' \in [Threads -> Seq(Sound)]
  BY DEF At, SchedInv, Stacks
<1>2. stack'[t] = fs \o Tail(stack[t]) /\ stack'[t] \in Seq(Sound)
  BY <1>1 DEF Become, Replaced
<1>3. PICK r \in Seq(Sound) : r = Tail(stack[t])
  BY <1>1, HeadTailProperties
<1>4. ASSUME NEW a, NEW b, fs \in {<<a>>, <<a, b>>}
      PROVE  a \in Sound /\ (fs = <<a, b>> => b \in Sound)
  <2> DEFINE S == Sound \cup {a, b}
  <2>1. fs \in Seq(S) /\ r \in Seq(S) /\ Len(fs) \in {1, 2} /\ fs[1] = a
    <3>1. CASE fs = <<a>>
      BY <3>1
    <3>2. CASE fs = <<a, b>>
      BY <3>2
    <3> QED
      BY <1>4, <3>1, <3>2
  <2>2. /\ Len(fs \o r) = Len(fs) + Len(r) /\ Len(r) \in Nat
        /\ \A i \in 1..(Len(fs) + Len(r)) : (fs \o r)[i] = IF i <= Len(fs) THEN fs[i] ELSE r[i - Len(fs)]
    BY <2>1, ConcatProperties, LenProperties
  <2>3. PICK s \in Seq(Sound) : s = fs \o r
    BY <1>2, <1>3
  <2>4. \A i \in 1..Len(s) : s[i] \in Sound
    BY ElementOfSeq
  <2>5. s[1] = a /\ 1 \in 1..Len(s)
    BY <2>1, <2>2, <2>3
  <2>6. fs = <<a, b>> => s[2] = b /\ 2 \in 1..Len(s)
    <3>1. fs = <<a, b>> => Len(fs) = 2 /\ fs[2] = b
      OBVIOUS
    <3> QED
      BY <2>2, <2>3, <3>1
  <2> QED
    BY <2>4, <2>5, <2>6
<1> QED
  BY <1>4

LEMMA FreshIs ==
    ASSUME NEW t, NEW fs, Put(stack, stack', t, fs),
           \A f \in ToSet(fs) : f.op \notin {"body", "again"}
    PROVE  NoNew
<1>1. /\ \A u \in Threads : u # t => stack'[u] = stack[u]
      /\ ToSet(stack[t]) = {Head(stack[t])} \cup ToSet(Tail(stack[t]))
      /\ ToSet(stack'[t]) = ToSet(fs) \cup ToSet(Tail(stack[t]))
  BY PutIs
<1> QED
  BY <1>1 DEF NoNew

\* t's top frame becomes one frame.
LEMMA OneIs ==
    ASSUME SchedInv, SchedInv', NEW t \in Threads, NEW op, At(t, op), NEW a, Become(t, <<a>>)
    PROVE  /\ a \in Sound /\ Top(t) \in Sound /\ Top(t).op = op
           /\ Load(stack') = Load(stack) + Worth(a.op) - Worth(op)
           /\ \A j : Carried(stack', j) = Carried(stack, j) + Share(a, j) - Share(Top(t), j)
           /\ a.op \notin {"body", "again"} => NoNew
<1>1. a \in Sound /\ Stacks(stack)
  BY BecomeSound DEF SchedInv
<1>2. <<a>> \in Seq(Sound)
  BY <1>1
<1>3. /\ Put(stack, stack', t, <<a>>)
      /\ Head(stack[t]) = Top(t) /\ Top(t).op = op /\ Top(t) \in Sound
  BY <1>1, <1>2, BecomePut
<1>4. /\ Load(stack') = Load(stack) + Worth(a.op) - Worth(Head(stack[t]).op)
      /\ \A j : Carried(stack', j) = Carried(stack, j) + Share(a, j) - Share(Head(stack[t]), j)
  BY <1>1, <1>3, SwapOne
<1>5. a.op \notin {"body", "again"} => NoNew
  <2>1. ToSet(<<a>>) = {a}
    BY ShortStacks
  <2> QED
    BY <1>3, <2>1, FreshIs
<1> QED
  BY <1>1, <1>3, <1>4, <1>5

\* It becomes two.
LEMMA TwoAre ==
    ASSUME SchedInv, SchedInv', NEW t \in Threads, NEW op, At(t, op), NEW a, NEW b,
           Become(t, <<a, b>>)
    PROVE  /\ a \in Sound /\ b \in Sound /\ Top(t) \in Sound /\ Top(t).op = op
           /\ Load(stack') = Load(stack) + Worth(a.op) + Worth(b.op) - Worth(op)
           /\ \A j : Carried(stack', j) = Carried(stack, j) + Share(a, j) + Share(b, j) - Share(Top(t), j)
           /\ a.op \notin {"body", "again"} /\ b.op \notin {"body", "again"} => NoNew
<1>1. a \in Sound /\ b \in Sound /\ Stacks(stack)
  BY BecomeSound DEF SchedInv
<1>2. <<a, b>> \in Seq(Sound)
  BY <1>1
<1>3. /\ Put(stack, stack', t, <<a, b>>)
      /\ Head(stack[t]) = Top(t) /\ Top(t).op = op /\ Top(t) \in Sound
  BY <1>1, <1>2, BecomePut
<1>4. /\ Load(stack') = Load(stack) + Worth(a.op) + Worth(b.op) - Worth(Head(stack[t]).op)
      /\ \A j : Carried(stack', j)
                  = Carried(stack, j) + Share(a, j) + Share(b, j) - Share(Head(stack[t]), j)
  BY <1>1, <1>3, SwapTwo
<1>5. a.op \notin {"body", "again"} /\ b.op \notin {"body", "again"} => NoNew
  <2>1. ToSet(<<a, b>>) = {a, b}
    BY ShortStacks
  <2> QED
    BY <1>3, <2>1, FreshIs
<1> QED
  BY <1>1, <1>3, <1>4, <1>5

\* It is popped.
LEMMA NoneLeft ==
    ASSUME SchedInv, SchedInv', NEW t \in Threads, NEW op, At(t, op), Become(t, <<>>)
    PROVE  /\ Top(t) \in Sound /\ Top(t).op = op
           /\ Load(stack') = Load(stack) - Worth(op)
           /\ \A j : Carried(stack', j) = Carried(stack, j) - Share(Top(t), j)
           /\ NoNew
<1>1. <<>> \in Seq(Sound) /\ Stacks(stack)
  BY EmptySeq DEF SchedInv
<1>2. /\ Put(stack, stack', t, <<>>)
      /\ Head(stack[t]) = Top(t) /\ Top(t).op = op /\ Top(t) \in Sound
  BY <1>1, BecomePut
<1>3. /\ Load(stack') = Load(stack) - Worth(Head(stack[t]).op)
      /\ \A j : Carried(stack', j) = Carried(stack, j) - Share(Head(stack[t]), j)
  BY <1>2, SwapNone
<1>4. NoNew
  <2>1. ToSet(<<>>) = {}
    BY ShortStacks
  <2> QED
    BY <1>2, <2>1, FreshIs
<1> QED
  BY <1>2, <1>3, <1>4

LEMMA SteadyIs ==
    ASSUME SchedInv, SchedInv', NoNew, UNCHANGED <<runs, finished, at>>,
           remaining' + Load(stack') - Queued(queue') = remaining + Load(stack) - Queued(queue),
           \A j \in Fns : InQueues(queue', j) + Carried(stack', j)
                            = InQueues(queue, j) + Carried(stack, j)
    PROVE  Steady
BY DEF Steady, Gap, Where

Idle == UNCHANGED <<queue, remaining, runs, finished, at>>

\* Steps of which no frame is worth anything.
LEMMA CalmOne ==
    ASSUME SchedInv, SchedInv', NEW t \in Threads, NEW op, At(t, op), op \notin Busy,
           NEW a, Become(t, <<a>>), a.op \notin Busy, Idle
    PROVE  Steady
<1>1. /\ Top(t).op = op
      /\ Load(stack') = Load(stack) + Worth(a.op) - Worth(op)
      /\ \A j : Carried(stack', j) = Carried(stack, j) + Share(a, j) - Share(Top(t), j)
      /\ a.op \notin {"body", "again"} => NoNew
  BY OneIs
<1>2. /\ Worth(a.op) = 0 /\ Worth(op) = 0 /\ \A j : Share(a, j) = 0 /\ Share(Top(t), j) = 0
      /\ a.op \notin {"body", "again"}
  BY <1>1, CalmWorth DEF Busy, HoldOps, ProcessOps
<1>3. Load(stack') = Load(stack) /\ \A j \in Fns : Carried(stack', j) = Carried(stack, j)
  BY <1>1, <1>2, SumTypes
<1> QED
  BY <1>1, <1>2, <1>3, SteadyIs DEF Idle

LEMMA CalmTwo ==
    ASSUME SchedInv, SchedInv', NEW t \in Threads, NEW op, At(t, op), op \notin Busy,
           NEW a, NEW b, Become(t, <<a, b>>), a.op \notin Busy, b.op \notin Busy, Idle
    PROVE  Steady
<1>1. /\ Top(t).op = op
      /\ Load(stack') = Load(stack) + Worth(a.op) + Worth(b.op) - Worth(op)
      /\ \A j : Carried(stack', j) = Carried(stack, j) + Share(a, j) + Share(b, j) - Share(Top(t), j)
      /\ a.op \notin {"body", "again"} /\ b.op \notin {"body", "again"} => NoNew
  BY TwoAre
<1>2. /\ Worth(a.op) = 0 /\ Worth(b.op) = 0 /\ Worth(op) = 0
      /\ \A j : Share(a, j) = 0 /\ Share(b, j) = 0 /\ Share(Top(t), j) = 0
      /\ a.op \notin {"body", "again"} /\ b.op \notin {"body", "again"}
  BY <1>1, CalmWorth DEF Busy, HoldOps, ProcessOps
<1>3. Load(stack') = Load(stack) /\ \A j \in Fns : Carried(stack', j) = Carried(stack, j)
  BY <1>1, <1>2, SumTypes
<1> QED
  BY <1>1, <1>2, <1>3, SteadyIs DEF Idle

LEMMA CalmNone ==
    ASSUME SchedInv, SchedInv', NEW t \in Threads, NEW op, At(t, op), op \notin Busy,
           Become(t, <<>>), Idle
    PROVE  Steady
<1>1. /\ Top(t).op = op
      /\ Load(stack') = Load(stack) - Worth(op)
      /\ \A j : Carried(stack', j) = Carried(stack, j) - Share(Top(t), j)
      /\ NoNew
  BY NoneLeft
<1>2. Worth(op) = 0 /\ \A j : Share(Top(t), j) = 0
  BY <1>1, CalmWorth
<1>3. Load(stack') = Load(stack) /\ \A j \in Fns : Carried(stack', j) = Carried(stack, j)
  BY <1>1, <1>2, SumTypes
<1> QED
  BY <1>1, <1>3, SteadyIs DEF Idle

LEMMA NewOp ==
    ASSUME NEW f \in Sound, NEW op
    PROVE  [f EXCEPT !.op = op].op = op /\ [f EXCEPT !.op = op].job = f.job
           /\ [f EXCEPT !.op = op].to = f.to
BY DEF Sound, Frames

LEMMA CalmGoes ==
    ASSUME SchedInv, SchedInv', NEW t \in Threads, NEW op, At(t, op), op \notin Busy,
           NEW op2, op2 \notin Busy, Goto(t, op2), Idle
    PROVE  Steady
<1>1. Top(t) \in Sound
  BY TopIs DEF SchedInv
<1>2. PICK a : a = [Top(t) EXCEPT !.op = op2]
  OBVIOUS
<1>3. a.op = op2 /\ Become(t, <<a>>)
  BY <1>1, <1>2, NewOp DEF Goto
<1> QED
  BY <1>3, CalmOne

\* Frames of worker_loop_() may change.
Quiet(s, s2) ==
    /\ \A X \in SUBSET Sound : (\A f \in X : f.op \notin LoopOps) => Total(s2, X) = Total(s, X)
    /\ \A u \in Threads : \A f \in ToSet(s2[u]) : f \in ToSet(s[u]) \/ f.op \in LoopOps

\* A notification leaves the frames that count where they are.
LEMMA NotifiedSame ==
    ASSUME NEW s, Stacks(s), NEW S, S \cap Threads \subseteq Workers, NEW asleep, NEW test,
           <<asleep, test>> \in {<<"asleep", "test">>, <<"p_asleep", "p_test">>}
    PROVE  Quiet(s, Notified(s, S, asleep, test))
<1> DEFINE s2 == Notified(s, S, asleep, test)
<1>1. test \in LoopOps /\ asleep \in LoopOps
  BY DEF LoopOps
<1>2. PICK g : g = Frame(test) /\ g.op \in LoopOps
  BY <1>1, FrameIs
<1>3. \A u \in Threads : \/ s2[u] = s[u]
                         \/ /\ s2[u] = <<g>> /\ u \in Workers
                            /\ s[u] # <<>> /\ Head(s[u]).op = asleep
  BY <1>2 DEF Notified
<1> HIDE DEF s2
<1>4. ToSet(<<g>>) = {g}
  BY ShortStacks
<1>5. ASSUME NEW X \in SUBSET Sound, \A f \in X : f.op \notin LoopOps, NEW u \in Threads
      PROVE  Num(s2[u], X) = Num(s[u], X)
  <2>1. CASE s2[u] = s[u]
    BY <2>1
  <2>2. CASE s2[u] = <<g>> /\ u \in Workers /\ s[u] # <<>> /\ Head(s[u]).op = asleep
    <3>1. s[u] \in Seq(Sound) /\ Shape(s[u])
      BY <2>2 DEF Stacks
    <3>2. Tail(s[u]) = <<>>
      BY <1>1, <2>2, <3>1, LoopAlone
    <3>3. ToSet(s[u]) = {Head(s[u])} \cup ToSet(Tail(s[u]))
      BY <2>2, <3>1, ItemsReplaced, EmptySeq
    <3>4. ToSet(s[u]) = {Head(s[u])}
      BY <3>2, <3>3, ShortStacks
    <3>5. ~Has(s[u], X)
      BY <1>1, <1>5, <2>2, <3>4, HasIs
    <3>6. Num(s[u], X) = 0
      BY <3>1, <3>5, NumIs
    <3>7. Num(<<g>>, X) = 0
      BY <1>2, <1>5, NumShort DEF Bit
    <3> QED
      BY <2>2, <3>6, <3>7
  <2> QED
    BY <1>3, <2>1, <2>2
<1>6. ASSUME NEW X \in SUBSET Sound, \A f \in X : f.op \notin LoopOps
      PROVE  Total(s2, X) = Total(s, X)
  <2>1. [u \in Threads |-> Num(s2[u], X)] = [u \in Threads |-> Num(s[u], X)]
    BY <1>5, <1>6
  <2> QED
    BY <2>1 DEF Total
<1>7. \A u \in Threads : \A f \in ToSet(s2[u]) : f \in ToSet(s[u]) \/ f.op \in LoopOps
  BY <1>2, <1>3, <1>4
<1> QED
  BY <1>6, <1>7 DEF Quiet, s2

LEMMA NoLoop ==
    /\ Uncounted \in SUBSET Sound /\ Working \in SUBSET Sound /\ \A j : Holding(j) \in SUBSET Sound
    /\ \A f \in Uncounted : f.op \notin LoopOps
    /\ \A f \in Working : f.op \notin LoopOps
    /\ \A j : \A f \in Holding(j) : f.op \notin LoopOps
BY DEF Uncounted, Working, Holding, WithOps, LoopOps, HoldOps, ProcessOps

LEMMA CalmNotifies ==
    ASSUME SchedInv, SchedInv', NEW t \in Threads, NEW op \in CallOps, At(t, op), op \notin Busy,
           NEW fs \in Seq(Inner), \A f \in ToSet(fs) : f.op \notin Busy, Idle,
           NEW S, S \cap Threads \subseteq Workers, NEW asleep, NEW test,
           <<asleep, test>> \in {<<"asleep", "test">>, <<"p_asleep", "p_test">>},
           stack' = Notified(Replaced(t, fs), S, asleep, test)
    PROVE  Steady
<1>1. stack[t] # <<>> /\ Head(stack[t]) = Top(t) /\ Top(t).op = op /\ Stacks(stack)
  BY TopIs DEF Top, SchedInv
<1>2. op \notin LoopOps
  BY DEF CallOps, LoopOps, ProcessOps, EnqueueOps, WakeOps, ClientOps
<1>3. PICK s : s = Replaced(t, fs)
  OBVIOUS
<1>4. Stacks(s)
  <2>1. Kept(stack, s)
    BY <1>1, <1>2, <1>3, CallStep DEF Replaced
  <2> QED
    BY <2>1 DEF Kept
<1>5. fs \in Seq(Sound) /\ Put(stack, s, t, fs)
  <2>1. fs \in Seq(Sound)
    BY DEF Inner
  <2> QED
    BY <1>1, <1>3, <2>1 DEF Put, Replaced, Stacks
<1>6. \A X \in SUBSET Sound : (\A f \in X : f.op \in Busy) => Total(s, X) = Total(stack, X)
  <2>1. ASSUME NEW X \in SUBSET Sound, \A f \in X : f.op \in Busy
        PROVE  Total(s, X) = Total(stack, X)
    <3>1. Total(s, X) = Total(stack, X) + Num(fs, X) - Bit(Head(stack[t]) \in X)
      BY <1>5, TotalPut
    <3>2. ~Has(fs, X)
      BY <2>1, HasIs
    <3>3. Num(fs, X) = 0
      BY <1>5, <3>2, NumIs
    <3>4. Bit(Head(stack[t]) \in X) = 0
      BY <1>1, <2>1 DEF Bit
    <3>5. Total(stack, X) \in Nat
      BY <1>1, TotalIs DEF Stacks
    <3> QED
      BY <3>1, <3>3, <3>4, <3>5
  <2> QED
    BY <2>1
<1>7. Quiet(s, stack')
  <2>1. Quiet(s, Notified(s, S, asleep, test))
    BY <1>4, NotifiedSame
  <2> QED
    BY <1>3, <2>1
<1>8. /\ \A f \in Uncounted : f.op \in Busy
      /\ \A f \in Working : f.op \in Busy
      /\ \A j : \A f \in Holding(j) : f.op \in Busy
  BY DEF Uncounted, Working, Holding, WithOps, Busy, HoldOps
<1>9. /\ Total(stack', Uncounted) = Total(stack, Uncounted)
      /\ Total(stack', Working) = Total(stack, Working)
      /\ \A j : Total(stack', Holding(j)) = Total(stack, Holding(j))
  BY <1>6, <1>7, <1>8, NoLoop DEF Quiet
<1>10. Load(stack') = Load(stack) /\ \A j : Carried(stack', j) = Carried(stack, j)
  BY <1>9 DEF Load, Carried
<1>11. NoNew
  <2>1. /\ \A u \in Threads : u # t => s[u] = stack[u]
        /\ ToSet(stack[t]) = {Head(stack[t])} \cup ToSet(Tail(stack[t]))
        /\ ToSet(s[t]) = ToSet(fs) \cup ToSet(Tail(stack[t]))
    <3>1. \A u \in Threads : u # t => s[u] = stack[u]
      BY <1>5, PutIs
    <3>2. ToSet(stack[t]) = {Head(stack[t])} \cup ToSet(Tail(stack[t]))
      BY <1>5, PutIs
    <3>3. ToSet(s[t]) = ToSet(fs) \cup ToSet(Tail(stack[t]))
      BY <1>5, PutIs
    <3> QED
      BY <3>1, <3>2, <3>3
  <2>2. "body" \in Busy /\ "again" \in Busy /\ "body" \notin LoopOps /\ "again" \notin LoopOps
    BY DEF Busy, HoldOps, ProcessOps, LoopOps
  <2>3. \A f \in ToSet(fs) : f.op \notin {"body", "again"}
    BY <2>2
  <2> QED
    BY <1>7, <2>1, <2>2, <2>3 DEF NoNew, Quiet
<1> QED
  BY <1>10, <1>11, SteadyIs DEF Idle

LEMMA Worths ==
    /\ \A op \in ProcessOps \cup {"e_spill"} : Worth(op) = -1
    /\ Worth("e_count") = 1
    /\ \A op \in HoldOps \ {"run", "body", "e_spill"} : Worth(op) = 0
    /\ \A op : op \notin Busy => Worth(op) = 0
<1>1. \A op \in ProcessOps \cup {"e_spill"} : Worth(op) = -1
  BY DEF Worth, Bit, ProcessOps
<1>2. Worth("e_count") = 1
  BY DEF Worth, Bit, ProcessOps
<1>3. \A op \in HoldOps \ {"run", "body", "e_spill"} : Worth(op) = 0
  BY DEF Worth, Bit, ProcessOps, HoldOps
<1>4. \A op : op \notin Busy => Worth(op) = 0
  BY DEF Worth, Bit, Busy, HoldOps
<1> QED
  BY <1>1, <1>2, <1>3, <1>4

LEMMA Shares ==
    ASSUME NEW f
    PROVE  /\ f.op \in HoldOps => \A j : Share(f, j) = IF f.job = j THEN 1 ELSE 0
           /\ f.op \notin HoldOps => \A j : Share(f, j) = 0
BY DEF Share, Bit

-----------------------------------------------------------------------------
(* worker_loop_() and the balance.                                          *)

LEMMA GuardSteady ==
    ASSUME SchedInv, SchedInv', NEW w \in Workers,
           LoopTop(w) \/ LoopMark(w) \/ LoopPaused(w) \/ LoopStopped(w) \/ LoopCas(w) \/ LoopWait(w)
    PROVE  Steady
<1>1. Idle
  BY DEF LoopTop, LoopMark, LoopPaused, LoopStopped, LoopCas, LoopWait, shared, graphVars, history, Idle
<1>2. PICK from \in LoopOps, to \in LoopOps : At(w, from) /\ Goto(w, to)
  <2>1. CASE LoopTop(w) \/ LoopMark(w) \/ LoopStopped(w)
    BY <2>1 DEF LoopTop, LoopMark, LoopStopped, LoopOps
  <2>2. CASE LoopPaused(w)
    BY <2>2 DEF LoopPaused, LoopOps
  <2>3. CASE LoopCas(w) \/ LoopWait(w)
    BY <2>3 DEF LoopCas, LoopWait, LoopOps
  <2> QED
    BY <2>1, <2>2, <2>3
<1>3. from \notin Busy /\ to \notin Busy /\ w \in Threads
  BY DEF LoopOps, Busy, HoldOps, ProcessOps, Threads
<1> QED
  BY <1>1, <1>2, <1>3, CalmGoes

\* A job that is taken is no longer queued, and processed.
LEMMA TakeSteady ==
    ASSUME SchedInv, SchedInv', NEW w \in Workers, NEW from \in Looking, At(w, from), NEW q \in 0..N,
           Take(w, q), UNCHANGED <<remaining, at>>
    PROVE  Steady
<1>1. PICK j \in Jobs : \E a, b : /\ Pop(q, j) /\ Become(w, <<a, b>>)
                                  /\ a = JobFrame("run", j) /\ b = Frame("top")
  BY DEF Take
<1>2. PICK a, b : /\ Pop(q, j) /\ Become(w, <<a, b>>)
                  /\ a = JobFrame("run", j) /\ b = Frame("top")
  BY <1>1
<1>3. a.op = "run" /\ a.job = j /\ b.op = "top"
  BY <1>2, FrameIs DEF ProcessOps, LoopOps
<1>4. w \in Threads /\ Values
  BY DEF Threads, SchedInv
<1>5. /\ Top(w).op = from
      /\ Load(stack') = Load(stack) + Worth(a.op) + Worth(b.op) - Worth(from)
      /\ \A i : Carried(stack', i) = Carried(stack, i) + Share(a, i) + Share(b, i) - Share(Top(w), i)
      /\ a.op \notin {"body", "again"} /\ b.op \notin {"body", "again"} => NoNew
  BY <1>2, <1>4, TwoAre
<1>6. /\ Queued(queue') = Queued(queue) - 1
      /\ \A i \in Jobs : InQueues(queue', i) = InQueues(queue, i) - (IF i = j THEN 1 ELSE 0)
  BY <1>2, <1>4, PopSums
<1>7. Worth(a.op) = -1 /\ Worth(b.op) = 0 /\ Worth(from) = 0
  BY <1>3, Worths DEF ProcessOps, Busy, HoldOps, Looking
<1>8. \A i : Share(a, i) = (IF j = i THEN 1 ELSE 0) /\ Share(b, i) = 0 /\ Share(Top(w), i) = 0
  BY <1>3, <1>5, Shares DEF HoldOps, Looking
<1>9. remaining' + Load(stack') - Queued(queue') = remaining + Load(stack) - Queued(queue)
  BY <1>5, <1>6, <1>7, SumTypes
<1>10. \A i \in Fns : InQueues(queue', i) + Carried(stack', i) = InQueues(queue, i) + Carried(stack, i)
  BY <1>5, <1>6, <1>8, SumTypes
<1>11. NoNew /\ UNCHANGED <<runs, finished, at>>
  BY <1>3, <1>5 DEF Take
<1> QED
  BY <1>9, <1>10, <1>11, SteadyIs

LEMMA QueueSteady ==
    ASSUME SchedInv, SchedInv', NEW w \in Workers, LoopLocal(w) \/ LoopGlobal(w)
    PROVE  Steady
<1>0. w \in 0..N /\ 0 \in 0..N /\ w \in Threads
  BY SchedulerAssumption DEF Workers, Threads
<1>1. UNCHANGED <<remaining, at>>
  BY DEF LoopLocal, LoopGlobal
<1>2. PICK from \in Looking : /\ At(w, from)
                              /\ \/ \E q \in 0..N : Take(w, q)
                                 \/ /\ \E to \in {"global", "steal", "cas"} : Goto(w, to)
                                    /\ UNCHANGED <<queue, history>>
  BY <1>0 DEF LoopLocal, LoopGlobal, Looking
<1>3. CASE \E q \in 0..N : Take(w, q)
  BY <1>1, <1>2, <1>3, TakeSteady
<1>4. CASE /\ \E to \in {"global", "steal", "cas"} : Goto(w, to)
           /\ UNCHANGED <<queue, history>>
  <2>1. PICK to \in {"global", "steal", "cas"} : Goto(w, to)
    BY <1>4
  <2>2. to \notin Busy /\ from \notin Busy
    BY DEF Looking, Busy, HoldOps, ProcessOps
  <2>3. Idle
    BY <1>1, <1>4 DEF Idle, history
  <2> QED
    BY <1>0, <1>2, <2>1, <2>2, <2>3, CalmGoes
<1> QED
  BY <1>2, <1>3, <1>4

LEMMA StealSteady ==
    ASSUME SchedInv, SchedInv', NEW w \in Workers, LoopSteal(w)
    PROVE  Steady
<1>1. w \in Threads /\ At(w, "steal") /\ "steal" \notin Busy /\ Idle
  BY DEF Threads, LoopSteal, Busy, HoldOps, ProcessOps, Idle, graphVars, history
<1>2. PICK a : a = [Frame("scan") EXCEPT !.to = steal] /\ Become(w, <<a>>)
  BY DEF LoopSteal
<1>3. a.op = "scan" /\ "scan" \notin Busy
  BY <1>2 DEF Frame, Busy, HoldOps, ProcessOps
<1> QED
  BY <1>1, <1>2, <1>3, CalmOne

LEMMA ScanSteady ==
    ASSUME SchedInv, SchedInv', NEW w \in Workers, LoopScan(w)
    PROVE  Steady
<1>1. At(w, "scan") /\ w \in Threads /\ "scan" \notin Busy /\ UNCHANGED <<remaining, at>>
  BY DEF LoopScan, Threads, Busy, HoldOps, ProcessOps
<1>2. PICK f \in Sound : f = Top(w) /\ f.op = "scan"
  BY <1>1, TopIs DEF SchedInv
<1>3. f.to \in 0..N /\ f.pos \in 1..(N + 1)
  BY <1>2, FieldsAre
<1> DEFINE victim == ((f.to + f.pos - 1) % N) + 1
<1>4. victim \in 0..N
  <2>1. f.to + f.pos - 1 \in Int /\ N \in Nat /\ N > 0
    BY <1>3, SchedulerAssumption
  <2>2. (f.to + f.pos - 1) % N \in 0..(N - 1)
    BY <2>1
  <2> QED
    BY <2>1, <2>2
<1>5. \/ Take(w, victim)
      \/ Become(w, <<[f EXCEPT !.pos = @ + 1]>>) /\ UNCHANGED <<queue, history>>
      \/ Become(w, <<Frame("cas")>>) /\ UNCHANGED <<queue, history>>
  BY <1>2 DEF LoopScan
<1> HIDE DEF victim
<1>6. CASE Take(w, victim)
  BY <1>1, <1>4, <1>6, TakeSteady DEF Looking
<1>7. CASE Become(w, <<[f EXCEPT !.pos = @ + 1]>>) /\ UNCHANGED <<queue, history>>
  <2>1. PICK a : a = [f EXCEPT !.pos = @ + 1]
    OBVIOUS
  <2>2. a.op = "scan"
    BY <1>2, <2>1 DEF Sound, Frames
  <2>3. Become(w, <<a>>) /\ Idle
    BY <1>1, <1>7, <2>1 DEF Idle, history
  <2> QED
    BY <1>1, <2>2, <2>3, CalmOne
<1>8. CASE Become(w, <<Frame("cas")>>) /\ UNCHANGED <<queue, history>>
  <2>1. PICK a : a = Frame("cas")
    OBVIOUS
  <2>2. a.op = "cas" /\ "cas" \notin Busy
    BY <2>1, FrameIs DEF LoopOps, Busy, HoldOps, ProcessOps
  <2>3. Become(w, <<a>>) /\ Idle
    BY <1>1, <1>8, <2>1 DEF Idle, history
  <2> QED
    BY <1>1, <2>2, <2>3, CalmOne
<1> QED
  BY <1>5, <1>6, <1>7, <1>8

-----------------------------------------------------------------------------
(* process_() and the balance.                                              *)

Same == /\ Gap' = Gap /\ \A j \in Fns : Where(j)' = Where(j)
        /\ UNCHANGED <<finished, at>>

LEMMA SameIs ==
    ASSUME UNCHANGED <<finished, at>>,
           remaining' + Load(stack') - Queued(queue') = remaining + Load(stack) - Queued(queue),
           \A j \in Fns : InQueues(queue', j) + Carried(stack', j)
                            = InQueues(queue, j) + Carried(stack, j)
    PROVE  Same
BY DEF Same, Gap, Where

\* A body frame stands for a body that was entered.
LEMMA RunSame ==
    ASSUME SchedInv, SchedInv', NEW w \in Workers, Run(w)
    PROVE  /\ Same /\ \A j \in Jobs : runs'[j] >= runs[j]
           /\ \A u \in Threads : \A f \in ToSet(stack'[u]) :
                 f.op \in {"body", "again"} => \/ f \in ToSet(stack[u])
                                               \/ f.op = "body" /\ f.job \in Jobs /\ runs'[f.job] > 0
<1>1. At(w, "run") /\ w \in Threads /\ Stacks(stack) /\ runs \in [Jobs -> Nat]
  BY DEF Run, Threads, SchedInv, Values
<1>2. PICK j : j = Top(w).job /\ Top(w) \in Sound
  BY <1>1, TopIs
<1>3. PICK a : a = [Top(w) EXCEPT !.op = "body"]
  OBVIOUS
<1>4. a.op = "body" /\ a.job = j /\ Become(w, <<a>>)
  BY <1>2, <1>3, NewOp DEF Run, Goto
<1>5. /\ a \in Sound /\ Top(w).op = "run"
      /\ Load(stack') = Load(stack) + Worth(a.op) - Worth("run")
      /\ \A i : Carried(stack', i) = Carried(stack, i) + Share(a, i) - Share(Top(w), i)
  BY <1>1, <1>4, OneIs
<1>6. j \in Jobs
  BY <1>2, <1>5, FieldsAre DEF HoldOps
<1>7. Worth(a.op) = -1 /\ Worth("run") = -1
  BY <1>4, Worths DEF ProcessOps
<1>8. \A i : Share(a, i) = Share(Top(w), i) /\ Share(a, i) \in {0, 1}
  BY <1>2, <1>4, <1>5, Shares DEF HoldOps
<1>9. Load(stack') = Load(stack) /\ \A i \in Fns : Carried(stack', i) = Carried(stack, i)
  BY <1>5, <1>7, <1>8, SumTypes
<1>10. Same
  <2>1. UNCHANGED <<queue, remaining, finished, at>>
    BY DEF Run, shared
  <2> QED
    BY <1>9, <2>1, SameIs
<1>11. runs' = [runs EXCEPT ![j] = @ + 1]
  BY <1>2 DEF Run
<1>12. runs'[j] > 0 /\ \A i \in Jobs : runs'[i] >= runs[i]
  BY <1>1, <1>6, <1>11
<1>13. \A u \in Threads : \A f \in ToSet(stack'[u]) : f \in ToSet(stack[u]) \/ f = a
  <2>0. <<a>> \in Seq(Sound)
    BY <1>5
  <2>1. ToSet(<<a>>) = {a}
    BY ShortStacks
  <2>2. Put(stack, stack', w, <<a>>)
    BY <1>1, <1>4, <2>0, BecomePut
  <2>3. \A u \in Threads : u # w => stack'[u] = stack[u]
    BY <2>2, PutIs
  <2>4. ToSet(stack[w]) = {Head(stack[w])} \cup ToSet(Tail(stack[w]))
    BY <2>2, PutIs
  <2>5. ToSet(stack'[w]) = ToSet(<<a>>) \cup ToSet(Tail(stack[w]))
    BY <2>2, PutIs
  <2> QED
    BY <2>1, <2>3, <2>4, <2>5
<1> QED
  BY <1>4, <1>6, <1>10, <1>12, <1>13

\* A body that suspends is enqueued again, in its own place.
LEMMA SuspendSame ==
    ASSUME SchedInv, SchedInv', NEW w \in Workers, At(w, "body"), UNCHANGED <<shared, at, runs, finished>>,
           NEW j, j = Top(w).job, runs[j] <= Suspends[j],
           Become(w, IF j \in Nodes THEN <<EnqueueFrame(j, w), Frame("again")>>
                     ELSE <<EnqueueFrame(j, 0), Frame("finish")>>)
    PROVE  Same /\ (j \notin Nodes => NoNew)
<1>1. w \in Threads /\ Stacks(stack) /\ w \in 0..N /\ 0 \in 0..N
  BY SchedulerAssumption DEF Threads, SchedInv, Workers
<1>2. j \in Jobs /\ Top(w).op = "body"
  <2>1. Top(w) \in Sound /\ Top(w).op = "body"
    BY <1>1, TopIs
  <2> QED
    BY <2>1, FieldsAre DEF HoldOps
<1>3. PICK a \in Sound : /\ a.job = j /\ a.op \in {"e_global", "e_hint"}
                         /\ a = IF j \in Nodes THEN EnqueueFrame(j, w) ELSE EnqueueFrame(j, 0)
  BY <1>1, <1>2, EnqueueIs
<1>4. PICK b : /\ b.op = (IF j \in Nodes THEN "again" ELSE "finish")
               /\ b = IF j \in Nodes THEN Frame("again") ELSE Frame("finish")
  BY FrameIs DEF ProcessOps
<1>5. Become(w, <<a, b>>)
  BY <1>3, <1>4
<1>6. /\ Load(stack') = Load(stack) + Worth(a.op) + Worth(b.op) - Worth("body")
      /\ \A i : Carried(stack', i) = Carried(stack, i) + Share(a, i) + Share(b, i) - Share(Top(w), i)
      /\ a.op \notin {"body", "again"} /\ b.op \notin {"body", "again"} => NoNew
  BY <1>1, <1>5, TwoAre
<1>7. Worth(a.op) = 0 /\ Worth(b.op) = -1 /\ Worth("body") = -1
  BY <1>3, <1>4, Worths DEF ProcessOps, HoldOps
<1>8. \A i : Share(a, i) = Share(Top(w), i) /\ Share(a, i) \in {0, 1} /\ Share(b, i) = 0
  BY <1>2, <1>3, <1>4, Shares DEF HoldOps
<1>9. Load(stack') = Load(stack) /\ \A i \in Fns : Carried(stack', i) = Carried(stack, i)
  BY <1>6, <1>7, <1>8, SumTypes
<1>10. Same
  BY <1>9, SameIs DEF shared
<1> QED
  BY <1>3, <1>4, <1>6, <1>10

\* A body that returns gives its place up.
LEMMA ReturnSame ==
    ASSUME SchedInv, SchedInv', NEW w \in Workers, At(w, "body"), UNCHANGED <<shared, at, runs>>,
           NEW j, j = Top(w).job,
           Become(w, <<IF j \in Nodes THEN [Frame("succ") EXCEPT !.todo = Succs[j]]
                       ELSE Frame("finish")>>)
    PROVE  /\ Gap' = Gap /\ NoNew
           /\ \A i \in Fns : Where(i)' = Where(i) - (IF i = j THEN 1 ELSE 0) /\ Where(i)' \in Nat
<1>1. w \in Threads
  BY DEF Threads
<1>2. PICK a : a = IF j \in Nodes THEN [Frame("succ") EXCEPT !.todo = Succs[j]] ELSE Frame("finish")
  OBVIOUS
<1>3. a.op \in {"succ", "finish"}
  BY <1>2 DEF Frame
<1>4. Become(w, <<a>>)
  BY <1>2
<1>5. /\ Top(w).op = "body"
      /\ Load(stack') = Load(stack) + Worth(a.op) - Worth("body")
      /\ \A i : Carried(stack', i) = Carried(stack, i) + Share(a, i) - Share(Top(w), i)
      /\ a.op \notin {"body", "again"} => NoNew
  BY <1>1, <1>4, OneIs
<1>6. Worth(a.op) = -1 /\ Worth("body") = -1
  BY <1>3, Worths DEF ProcessOps
<1>7. \A i : Share(a, i) = 0 /\ Share(Top(w), i) = IF i = j THEN 1 ELSE 0
  BY <1>3, <1>5, Shares DEF HoldOps
<1>8. Gap' = Gap
  <2>1. Load(stack') = Load(stack)
    BY <1>5, <1>6, SumTypes
  <2> QED
    BY <2>1 DEF Gap, shared
<1>9. ASSUME NEW i \in Fns
      PROVE  Where(i)' = Where(i) - (IF i = j THEN 1 ELSE 0) /\ Where(i)' \in Nat
  <2>1. /\ InQueues(queue, i) \in Nat /\ Carried(stack, i) \in Nat
        /\ InQueues(queue', i) \in Nat /\ Carried(stack', i) \in Nat
    BY SumTypes, SumTypesNext
  <2>2. Carried(stack', i) = Carried(stack, i) - (IF i = j THEN 1 ELSE 0)
    BY <1>5, <1>7, <2>1
  <2>3. InQueues(queue', i) = InQueues(queue, i)
    BY DEF shared
  <2> QED
    BY <2>1, <2>2, <2>3 DEF Where
<1> QED
  BY <1>3, <1>5, <1>8, <1>9

LEMMA SuccessorSteady ==
    ASSUME SchedInv, SchedInv', NEW w \in Workers, Successor(w)
    PROVE  Steady
<1>1. w \in Threads /\ Stacks(stack) /\ At(w, "succ") /\ Idle
  BY DEF Threads, SchedInv, Successor, Idle, shared, history
<1>2. PICK f \in Sound : f = Top(w) /\ f.op = "succ"
  BY <1>1, TopIs
<1>3. PICK rest : rest = [f EXCEPT !.todo = Tail(@)] /\ rest.op = "succ"
  <2>1. PICK todo : todo = Tail(f.todo)
    OBVIOUS
  <2>2. PICK rest : rest = [f EXCEPT !.todo = todo]
    OBVIOUS
  <2>3. rest.op = f.op
    BY <1>2, <2>2 DEF Sound, Frames
  <2>4. rest = [f EXCEPT !.todo = Tail(@)]
    BY <2>1, <2>2
  <2> QED
    BY <1>2, <2>3, <2>4
<1>4. Worth("succ") = -1 /\ Worth("finish") = -1 /\ Worth("e_global") = 0 /\ Worth("e_hint") = 0
  BY Worths DEF ProcessOps, HoldOps
<1>5. \A i : Share(f, i) = 0
  BY <1>2, Shares DEF HoldOps
<1>6. CASE Goto(w, "finish")
  <2>1. PICK a : a = [f EXCEPT !.op = "finish"] /\ a.op = "finish"
    BY <1>2, NewOp
  <2>2. Become(w, <<a>>)
    BY <1>2, <1>6, <2>1 DEF Goto
  <2>3. /\ Load(stack') = Load(stack) + Worth(a.op) - Worth("succ")
        /\ \A i : Carried(stack', i) = Carried(stack, i) + Share(a, i) - Share(f, i)
        /\ a.op \notin {"body", "again"} => NoNew
    BY <1>1, <1>2, <2>2, OneIs
  <2>4. Load(stack') = Load(stack)
    BY <1>4, <2>1, <2>3, SumTypes
  <2>5. \A i : Share(a, i) = 0
    BY <2>1, Shares DEF HoldOps
  <2>6. \A i \in Fns : Carried(stack', i) = Carried(stack, i)
    BY <1>5, <2>3, <2>5, SumTypes
  <2> QED
    BY <1>1, <2>1, <2>3, <2>4, <2>6, SteadyIs DEF Idle
<1>7. CASE Become(w, <<rest>>)
  <2>1. /\ Load(stack') = Load(stack) + Worth(rest.op) - Worth("succ")
        /\ \A i : Carried(stack', i) = Carried(stack, i) + Share(rest, i) - Share(f, i)
        /\ rest.op \notin {"body", "again"} => NoNew
    BY <1>1, <1>2, <1>7, OneIs
  <2>2. Load(stack') = Load(stack)
    BY <1>3, <1>4, <2>1, SumTypes
  <2>3. \A i : Share(rest, i) = 0
    BY <1>3, Shares DEF HoldOps
  <2>4. \A i \in Fns : Carried(stack', i) = Carried(stack, i)
    BY <1>5, <2>1, <2>3, SumTypes
  <2> QED
    BY <1>1, <1>3, <2>1, <2>2, <2>4, SteadyIs DEF Idle
<1>8. CASE f.todo # <<>> /\ Become(w, <<EnqueueFrame(Head(f.todo), 0), rest>>)
  <2>1. PICK n \in Nodes : n = Head(f.todo)
    BY <1>2, <1>8, FieldsAre, TailIsSeq
  <2>2. n \in Jobs /\ n \notin Fns /\ 0 \in 0..N
    BY SchedulerAssumption DEF Jobs
  <2>3. PICK a \in Sound : a = EnqueueFrame(n, 0) /\ a.job = n /\ a.op \in {"e_global", "e_hint"}
    BY <2>2, EnqueueIs
  <2>4. Become(w, <<a, rest>>)
    BY <1>8, <2>1, <2>3
  <2>5. /\ Load(stack') = Load(stack) + Worth(a.op) + Worth(rest.op) - Worth("succ")
        /\ \A i : Carried(stack', i) = Carried(stack, i) + Share(a, i) + Share(rest, i) - Share(f, i)
        /\ a.op \notin {"body", "again"} /\ rest.op \notin {"body", "again"} => NoNew
    BY <1>1, <1>2, <2>4, TwoAre
  <2>6. \A i \in Fns : Share(a, i) = 0
    BY <2>2, <2>3, Shares DEF HoldOps
  <2>7. Worth(a.op) = 0 /\ Worth(rest.op) = -1
    BY <1>3, <1>4, <2>3
  <2>8. Load(stack') = Load(stack)
    BY <1>4, <2>5, <2>7, SumTypes
  <2>9. \A i : Share(rest, i) = 0
    BY <1>3, Shares DEF HoldOps
  <2>10. \A i \in Fns : Carried(stack', i) = Carried(stack, i)
    BY <1>5, <2>5, <2>6, <2>9, SumTypes
  <2> QED
    BY <1>1, <1>3, <2>3, <2>5, <2>8, <2>10, SteadyIs DEF Idle
<1> QED
  BY <1>2, <1>3, <1>6, <1>7, <1>8 DEF Successor

\* A node that suspended is counted a second time.
LEMMA AgainMore ==
    ASSUME SchedInv, SchedInv', NEW w \in Workers, Again(w)
    PROVE  /\ Gap' = Gap + 1 /\ \A j \in Fns : Where(j)' = Where(j)
           /\ NoNew /\ UNCHANGED <<runs, finished, at>>
<1>1. w \in Threads /\ At(w, "again") /\ UNCHANGED <<queue, runs, finished, at>> /\ Goto(w, "finish")
  BY DEF Threads, Again, history
<1>2. PICK a : a = [Top(w) EXCEPT !.op = "finish"]
  OBVIOUS
<1>3. a.op = "finish" /\ Become(w, <<a>>)
  BY <1>1, <1>2, TopIs, NewOp DEF Goto, SchedInv
<1>4. /\ Top(w).op = "again"
      /\ Load(stack') = Load(stack) + Worth(a.op) - Worth("again")
      /\ \A i : Carried(stack', i) = Carried(stack, i) + Share(a, i) - Share(Top(w), i)
      /\ a.op \notin {"body", "again"} => NoNew
  BY <1>1, <1>3, OneIs
<1>5. Worth(a.op) = -1 /\ Worth("again") = -1
  BY <1>3, Worths DEF ProcessOps
<1>6. \A i : Share(a, i) = 0 /\ Share(Top(w), i) = 0
  BY <1>3, <1>4, Shares DEF HoldOps
<1>7. Load(stack') = Load(stack) /\ \A i \in Fns : Carried(stack', i) = Carried(stack, i)
  BY <1>4, <1>5, <1>6, SumTypes
<1>8. Gap' = Gap + 1
  <2>1. remaining' = remaining + 1
    BY DEF Again
  <2> QED
    BY <1>1, <1>7, <2>1, SumTypes DEF Gap
<1>9. \A j \in Fns : Where(j)' = Where(j)
  BY <1>1, <1>7 DEF Where
<1> QED
  BY <1>1, <1>3, <1>4, <1>8, <1>9

LEMMA FinishSteady ==
    ASSUME SchedInv, SchedInv', NEW w \in Workers, Finish(w)
    PROVE  Steady
<1>1. /\ w \in Threads /\ At(w, "finish") /\ UNCHANGED <<queue, runs, finished, at>>
      /\ Become(w, <<>>) /\ remaining' = remaining - 1
  BY DEF Threads, Finish, history
<1>2. /\ Top(w).op = "finish"
      /\ Load(stack') = Load(stack) - Worth("finish")
      /\ \A i : Carried(stack', i) = Carried(stack, i) - Share(Top(w), i)
      /\ NoNew
  BY <1>1, NoneLeft
<1>3. Worth("finish") = -1 /\ \A i : Share(Top(w), i) = 0
  BY <1>2, Worths, Shares DEF ProcessOps, HoldOps
<1>4. remaining' + Load(stack') - Queued(queue') = remaining + Load(stack) - Queued(queue)
  BY <1>1, <1>2, <1>3, SumTypes
<1>5. \A i \in Fns : Carried(stack', i) = Carried(stack, i)
  BY <1>2, <1>3, SumTypes
<1> QED
  BY <1>1, <1>2, <1>4, <1>5, SteadyIs

-----------------------------------------------------------------------------
(* enqueue_(), wake_any_worker_() and the balance.                          *)

LEMMA GotoIs ==
    ASSUME SchedInv, NEW t \in Threads, NEW op, At(t, op), NEW op2, Goto(t, op2)
    PROVE  \E a : a.op = op2 /\ a.job = Top(t).job /\ Become(t, <<a>>)
<1>1. Top(t) \in Sound
  BY TopIs DEF SchedInv
<1>2. PICK a : a = [Top(t) EXCEPT !.op = op2]
  OBVIOUS
<1>3. a.op = op2 /\ a.job = Top(t).job /\ Become(t, <<a>>)
  BY <1>1, <1>2, NewOp DEF Goto
<1> QED
  BY <1>3

\* Where a caller of enqueue_() carries the job.
Entering == HoldOps \ {"run", "body", "e_spill"}

\* A job that is held stays held.
LEMMA HeldSteady ==
    ASSUME SchedInv, SchedInv', NEW t \in Threads, NEW op \in Entering, At(t, op),
           NEW a, a.op \in Entering, a.job = Top(t).job, Become(t, <<a>>), Idle
    PROVE  Steady
<1>1. /\ Top(t).op = op
      /\ Load(stack') = Load(stack) + Worth(a.op) - Worth(op)
      /\ \A i : Carried(stack', i) = Carried(stack, i) + Share(a, i) - Share(Top(t), i)
      /\ a.op \notin {"body", "again"} => NoNew
  BY OneIs
<1>2. Worth(a.op) = 0 /\ Worth(op) = 0 /\ a.op \notin {"body", "again"}
  BY Worths DEF Entering, HoldOps, Entering
<1>3. \A i : Share(a, i) = Share(Top(t), i) /\ Share(a, i) \in {0, 1}
  BY <1>1, Shares DEF Entering
<1>4. Load(stack') = Load(stack)
  BY <1>1, <1>2, SumTypes
<1>5. \A i \in Fns : Carried(stack', i) = Carried(stack, i)
  BY <1>1, <1>3, SumTypes
<1> QED
  BY <1>1, <1>2, <1>4, <1>5, SteadyIs DEF Idle

LEMMA HintSteady ==
    ASSUME SchedInv, SchedInv', NEW t \in Threads, EnqueueHint(t)
    PROVE  Steady
<1>1. At(t, "e_hint") /\ Idle /\ "e_hint" \in Entering
  BY DEF EnqueueHint, shared, history, Idle, HoldOps, Entering
<1>2. CASE Goto(t, "e_local")
  <2>1. PICK a : a.op = "e_local" /\ a.job = Top(t).job /\ Become(t, <<a>>)
    BY <1>1, <1>2, GotoIs
  <2>2. a.op \in Entering
    BY <2>1 DEF HoldOps, Entering
  <2> QED
    BY <1>1, <2>1, <2>2, HeldSteady
<1>3. CASE Become(t, <<EnqueueFrame(Top(t).job, 0)>>)
  <2>1. Top(t).job \in Jobs /\ 0 \in 0..N
    <3>1. Top(t) \in Sound /\ Top(t).op = "e_hint"
      BY <1>1, TopIs DEF SchedInv
    <3> QED
      BY <3>1, FieldsAre, SchedulerAssumption DEF HoldOps, Entering
  <2>2. PICK a : a = EnqueueFrame(Top(t).job, 0)
    OBVIOUS
  <2>3. a.op \in Entering /\ a.job = Top(t).job
    BY <2>1, <2>2, EnqueueIs DEF HoldOps, Entering
  <2> QED
    BY <1>1, <1>3, <2>2, <2>3, HeldSteady
<1> QED
  BY <1>2, <1>3 DEF EnqueueHint

\* A job that is pushed and not yet counted.
LEMMA PushedSteady ==
    ASSUME SchedInv, SchedInv', NEW t \in Threads, NEW op \in {"e_local", "e_global"}, At(t, op),
           NEW q \in 0..N, Push(q, Top(t).job), Goto(t, "e_count"),
           UNCHANGED <<remaining, runs, finished, at>>
    PROVE  Steady
<1>1. PICK a : a.op = "e_count" /\ Become(t, <<a>>)
  BY GotoIs
<1>2. /\ Top(t) \in Sound /\ Top(t).op = op
      /\ Load(stack') = Load(stack) + Worth(a.op) - Worth(op)
      /\ \A i : Carried(stack', i) = Carried(stack, i) + Share(a, i) - Share(Top(t), i)
      /\ a.op \notin {"body", "again"} => NoNew
  BY <1>1, OneIs
<1>3. PICK j \in Jobs : j = Top(t).job
  BY <1>2, FieldsAre DEF HoldOps, Entering
<1>4. /\ Queued(queue') = Queued(queue) + 1
      /\ \A i \in Jobs : InQueues(queue', i) = InQueues(queue, i) + (IF i = j THEN 1 ELSE 0)
  BY <1>3, PushSums DEF SchedInv
<1>5. Worth(a.op) = 1 /\ Worth(op) = 0
  BY <1>1, Worths DEF HoldOps, Entering
<1>6. \A i : Share(a, i) = 0 /\ Share(Top(t), i) = IF i = j THEN 1 ELSE 0
  BY <1>1, <1>2, <1>3, Shares DEF HoldOps, Entering
<1>7. remaining' + Load(stack') - Queued(queue') = remaining + Load(stack) - Queued(queue)
  BY <1>2, <1>4, <1>5, SumTypes
<1>8. \A i \in Fns : InQueues(queue', i) + Carried(stack', i) = InQueues(queue, i) + Carried(stack, i)
  BY <1>2, <1>4, <1>6, SumTypes
<1> QED
  BY <1>1, <1>2, <1>7, <1>8, SteadyIs

LEMMA PushLocalSteady ==
    ASSUME SchedInv, SchedInv', NEW t \in Threads, PushLocal(t)
    PROVE  Steady
<1>1. At(t, "e_local") /\ UNCHANGED <<remaining, runs, finished, at>> /\ "e_local" \in Entering
  BY DEF PushLocal, history, HoldOps, Entering
<1>2. Top(t).to \in 0..N
  <2>1. Top(t) \in Sound
    BY <1>1, TopIs DEF SchedInv
  <2> QED
    BY <2>1, FieldsAre
<1>3. CASE Push(Top(t).to, Top(t).job) /\ Goto(t, "e_count")
  BY <1>1, <1>2, <1>3, PushedSteady
<1>4. CASE Goto(t, "e_full") /\ UNCHANGED queue
  <2>1. PICK a : a.op = "e_full" /\ a.job = Top(t).job /\ Become(t, <<a>>)
    BY <1>1, <1>4, GotoIs
  <2>2. a.op \in Entering /\ Idle
    BY <1>1, <1>4, <2>1 DEF HoldOps, Entering, Idle
  <2> QED
    BY <1>1, <2>1, <2>2, HeldSteady
<1> QED
  BY <1>3, <1>4 DEF PushLocal

LEMMA PushGlobalSteady ==
    ASSUME SchedInv, SchedInv', NEW t \in Threads, PushGlobal(t)
    PROVE  Steady
<1>1. At(t, "e_global") /\ UNCHANGED <<remaining, runs, finished, at>> /\ 0 \in 0..N
  BY SchedulerAssumption DEF PushGlobal, history
<1>2. Push(0, Top(t).job) /\ Goto(t, "e_count")
  BY DEF PushGlobal
<1> QED
  BY <1>1, <1>2, PushedSteady

LEMMA DisplaceSteady ==
    ASSUME SchedInv, SchedInv', NEW t \in Threads, Displace(t)
    PROVE  Steady
<1>1. At(t, "e_full") /\ UNCHANGED <<remaining, runs, finished, at>> /\ "e_full" \in Entering
  BY DEF Displace, history, HoldOps, Entering
<1>2. Top(t) \in Sound /\ Top(t).op = "e_full" /\ Top(t).to \in 0..N
  <2>1. Top(t) \in Sound /\ Top(t).op = "e_full"
    BY <1>1, TopIs DEF SchedInv
  <2> QED
    BY <2>1, FieldsAre
<1>3. PICK retry : retry = [Top(t) EXCEPT !.op = "e_local"]
  OBVIOUS
<1>4. retry.op = "e_local" /\ retry.job = Top(t).job
  BY <1>2, <1>3, NewOp
<1>5. CASE \E j \in Jobs : Pop(Top(t).to, j) /\ Become(t, <<JobFrame("e_spill", j), retry>>)
  <2>1. PICK j \in Jobs : Pop(Top(t).to, j) /\ Become(t, <<JobFrame("e_spill", j), retry>>)
    BY <1>5
  <2>2. PICK a : a = JobFrame("e_spill", j)
    OBVIOUS
  <2>3. a.op = "e_spill" /\ a.job = j
    BY <2>2, FrameIs DEF EnqueueOps
  <2>4. /\ Load(stack') = Load(stack) + Worth(a.op) + Worth(retry.op) - Worth("e_full")
        /\ \A i : Carried(stack', i) = Carried(stack, i) + Share(a, i) + Share(retry, i) - Share(Top(t), i)
        /\ a.op \notin {"body", "again"} /\ retry.op \notin {"body", "again"} => NoNew
    BY <1>1, <2>1, <2>2, TwoAre
  <2>5. /\ Queued(queue') = Queued(queue) - 1
        /\ \A i \in Jobs : InQueues(queue', i) = InQueues(queue, i) - (IF i = j THEN 1 ELSE 0)
    BY <1>2, <2>1, PopSums DEF SchedInv
  <2>6. Worth(a.op) = -1 /\ Worth(retry.op) = 0 /\ Worth("e_full") = 0
    BY <1>4, <2>3, Worths DEF HoldOps, Entering
  <2>7. \A i : /\ Share(a, i) = (IF i = j THEN 1 ELSE 0)
               /\ Share(retry, i) = Share(Top(t), i) /\ Share(retry, i) \in {0, 1}
    BY <1>2, <1>4, <2>3, Shares DEF HoldOps, Entering
  <2>8. remaining' + Load(stack') - Queued(queue') = remaining + Load(stack) - Queued(queue)
    BY <1>1, <2>4, <2>5, <2>6, SumTypes
  <2>9. \A i \in Fns : InQueues(queue', i) + Carried(stack', i) = InQueues(queue, i) + Carried(stack, i)
    BY <2>4, <2>5, <2>7, SumTypes
  <2> QED
    BY <1>1, <1>4, <2>3, <2>4, <2>8, <2>9, SteadyIs
<1>6. CASE Become(t, <<retry>>) /\ UNCHANGED queue
  <2>1. Idle /\ retry.op \in Entering
    BY <1>1, <1>4, <1>6 DEF Idle, HoldOps, Entering
  <2> QED
    BY <1>1, <1>4, <1>6, <2>1, HeldSteady
<1> QED
  BY <1>3, <1>5, <1>6 DEF Displace

\* A displaced job is queued again.
LEMMA SpillSteady ==
    ASSUME SchedInv, SchedInv', NEW t \in Threads, Spill(t)
    PROVE  Steady
<1>1. /\ At(t, "e_spill") /\ UNCHANGED <<remaining, runs, finished, at>> /\ 0 \in 0..N
      /\ Push(0, Top(t).job)
  BY SchedulerAssumption DEF Spill, history
<1>2. PICK a : a = Frame("wake") /\ Become(t, <<a>>)
  BY DEF Spill
<1>3. a.op = "wake" /\ a.op \notin Busy /\ a.op \notin HoldOps
  BY <1>2, FrameIs DEF WakeOps, Busy, HoldOps, ProcessOps
<1>4. /\ Top(t) \in Sound /\ Top(t).op = "e_spill"
      /\ Load(stack') = Load(stack) + Worth(a.op) - Worth("e_spill")
      /\ \A i : Carried(stack', i) = Carried(stack, i) + Share(a, i) - Share(Top(t), i)
      /\ a.op \notin {"body", "again"} => NoNew
  BY <1>1, <1>2, OneIs
<1>5. PICK j \in Jobs : j = Top(t).job
  BY <1>4, FieldsAre DEF HoldOps, Entering
<1>6. /\ Queued(queue') = Queued(queue) + 1
      /\ \A i \in Jobs : InQueues(queue', i) = InQueues(queue, i) + (IF i = j THEN 1 ELSE 0)
  BY <1>1, <1>5, PushSums DEF SchedInv
<1>7. Worth(a.op) = 0 /\ Worth("e_spill") = -1
  BY <1>3, Worths
<1>8. \A i : Share(a, i) = 0 /\ Share(Top(t), i) = IF i = j THEN 1 ELSE 0
  BY <1>3, <1>4, <1>5, Shares DEF HoldOps, Entering
<1>9. remaining' + Load(stack') - Queued(queue') = remaining + Load(stack) - Queued(queue)
  BY <1>1, <1>4, <1>6, <1>7, SumTypes
<1>10. \A i \in Fns : InQueues(queue', i) + Carried(stack', i) = InQueues(queue, i) + Carried(stack, i)
  BY <1>4, <1>6, <1>8, SumTypes
<1> QED
  BY <1>1, <1>3, <1>4, <1>9, <1>10, SteadyIs

LEMMA CountSteady ==
    ASSUME SchedInv, SchedInv', NEW t \in Threads, Count(t)
    PROVE  Steady
<1>1. /\ At(t, "e_count") /\ UNCHANGED <<queue, runs, finished, at>> /\ remaining' = remaining + 1
  BY DEF Count, history
<1>2. PICK a : a.op \in {"wake", "e_store"} /\ Become(t, <<a>>)
  <2>1. CASE Become(t, <<Frame("wake")>>)
    <3>1. Frame("wake").op = "wake"
      BY FrameIs DEF WakeOps
    <3> QED
      BY <2>1, <3>1
  <2>2. CASE Goto(t, "e_store")
    BY <1>1, <2>2, GotoIs
  <2> QED
    BY <2>1, <2>2 DEF Count
<1>3. /\ Top(t).op = "e_count"
      /\ Load(stack') = Load(stack) + Worth(a.op) - Worth("e_count")
      /\ \A i : Carried(stack', i) = Carried(stack, i) + Share(a, i) - Share(Top(t), i)
      /\ a.op \notin {"body", "again"} => NoNew
  BY <1>1, <1>2, OneIs
<1>4. Worth(a.op) = 0 /\ Worth("e_count") = 1
  BY <1>2, Worths DEF Busy, HoldOps, ProcessOps
<1>5. \A i : Share(a, i) = 0 /\ Share(Top(t), i) = 0
  BY <1>2, <1>3, Shares DEF HoldOps, Entering
<1>6. remaining' + Load(stack') - Queued(queue') = remaining + Load(stack) - Queued(queue)
  BY <1>1, <1>3, <1>4, SumTypes
<1>7. \A i \in Fns : Carried(stack', i) = Carried(stack, i)
  BY <1>3, <1>5, SumTypes
<1> QED
  BY <1>1, <1>2, <1>3, <1>6, <1>7, SteadyIs

LEMMA WakeWorkerSteady ==
    ASSUME SchedInv, SchedInv', NEW t \in Threads, WakeStore(t) \/ WakeNotify(t)
    PROVE  Steady
<1>1. Idle
  BY DEF WakeStore, WakeNotify, shared, history, Idle
<1>2. CASE WakeStore(t)
  <2>1. At(t, "e_store") /\ Goto(t, "e_notify") /\ "e_store" \notin Busy /\ "e_notify" \notin Busy
    BY <1>2 DEF WakeStore, Busy, HoldOps, ProcessOps
  <2> QED
    BY <1>1, <2>1, CalmGoes
<1>3. CASE WakeNotify(t)
  <2>1. At(t, "e_notify") /\ "e_notify" \in CallOps /\ "e_notify" \notin Busy
    BY <1>3 DEF WakeNotify, CallOps, EnqueueOps, Busy, HoldOps, ProcessOps
  <2>2. PICK fs \in Seq(Inner) : /\ NotifyWorker(t, Top(t).to, fs)
                                 /\ \A f \in ToSet(fs) : f.op \notin Busy
    <3>1. <<Frame("wake")>> \in Seq(Inner) /\ <<>> \in Seq(Inner)
      BY NewFrame, EmptySeq DEF CallOps, WakeOps, HoldOps, NodeOps
    <3>2. ToSet(<<Frame("wake")>>) = {Frame("wake")} /\ ToSet(<<>>) = {}
      BY ShortStacks
    <3>3. Frame("wake").op = "wake" /\ "wake" \notin Busy
      BY FrameIs DEF WakeOps, Busy, HoldOps, ProcessOps
    <3> QED
      BY <1>3, <3>1, <3>2, <3>3 DEF WakeNotify
  <2>3. Top(t).to \in 0..N
    <3>1. Top(t) \in Sound
      BY <2>1, TopIs DEF SchedInv
    <3> QED
      BY <3>1, FieldsAre
  <2>4. {Top(t).to} \cap Threads \subseteq Workers
    BY <2>3, SchedulerAssumption DEF Threads, Workers
  <2>5. stack' = Notified(Replaced(t, fs), {Top(t).to}, "asleep", "test")
    BY <2>2 DEF NotifyWorker
  <2> QED
    BY <1>1, <2>1, <2>2, <2>4, <2>5, CalmNotifies
<1> QED
  BY <1>2, <1>3

LEMMA WakeScanSteady ==
    ASSUME SchedInv, SchedInv', NEW t \in Threads, WakeScan(t)
    PROVE  Steady
<1>1. At(t, "wake") /\ Idle /\ "wake" \notin Busy /\ "w_notify" \notin Busy
  BY DEF WakeScan, history, Idle, Busy, HoldOps, ProcessOps
<1>2. Top(t) \in Sound /\ Top(t).op = "wake"
  BY <1>1, TopIs DEF SchedInv
<1>3. \/ \E to : Become(t, <<[Frame("w_notify") EXCEPT !.to = to]>>)
      \/ \E pos : Become(t, <<[Top(t) EXCEPT !.pos = pos]>>)
  BY DEF WakeScan
<1>4. CASE \E to : Become(t, <<[Frame("w_notify") EXCEPT !.to = to]>>)
  <2>1. PICK to : Become(t, <<[Frame("w_notify") EXCEPT !.to = to]>>)
    BY <1>4
  <2>2. PICK a : a = [Frame("w_notify") EXCEPT !.to = to]
    OBVIOUS
  <2>3. a.op = "w_notify"
    BY <2>2 DEF Frame
  <2> QED
    BY <1>1, <2>1, <2>2, <2>3, CalmOne
<1>5. CASE \E pos : Become(t, <<[Top(t) EXCEPT !.pos = pos]>>)
  <2>1. PICK pos : Become(t, <<[Top(t) EXCEPT !.pos = pos]>>)
    BY <1>5
  <2>2. PICK a : a = [Top(t) EXCEPT !.pos = pos]
    OBVIOUS
  <2>3. a.op = "wake"
    BY <1>2, <2>2 DEF Sound, Frames
  <2> QED
    BY <1>1, <2>1, <2>2, <2>3, CalmOne
<1> QED
  BY <1>3, <1>4, <1>5

LEMMA WakeOneSteady ==
    ASSUME SchedInv, SchedInv', NEW t \in Threads, WakeOne(t)
    PROVE  Steady
<1>1. At(t, "w_notify") /\ "w_notify" \in CallOps /\ "w_notify" \notin Busy /\ Idle
  BY DEF WakeOne, CallOps, WakeOps, Busy, HoldOps, ProcessOps, shared, history, Idle
<1>2. PICK fs \in Seq(Inner) : NotifyWorker(t, Top(t).to, fs) /\ \A f \in ToSet(fs) : f.op \notin Busy
  <2>1. <<>> \in Seq(Inner) /\ ToSet(<<>>) = {}
    BY EmptySeq, ShortStacks
  <2> QED
    BY <2>1 DEF WakeOne
<1>3. Top(t).to \in 0..N
  <2>1. Top(t) \in Sound
    BY <1>1, TopIs DEF SchedInv
  <2> QED
    BY <2>1, FieldsAre
<1>4. {Top(t).to} \cap Threads \subseteq Workers
  BY <1>3, SchedulerAssumption DEF Threads, Workers
<1>5. stack' = Notified(Replaced(t, fs), {Top(t).to}, "asleep", "test")
  BY <1>2 DEF NotifyWorker
<1> QED
  BY <1>1, <1>2, <1>4, <1>5, CalmNotifies

LEMMA AnySteady ==
    ASSUME SchedInv, SchedInv', NEW t \in Threads, AnyStep(t)
    PROVE  Steady
BY HintSteady, PushLocalSteady, DisplaceSteady, SpillSteady, PushGlobalSteady, CountSteady,
   WakeWorkerSteady, WakeScanSteady, WakeOneSteady DEF AnyStep, enqueue_, wake_any_worker_

-----------------------------------------------------------------------------
(* The clients' calls and the balance.                                      *)

LEMMA CalmBecome ==
    ASSUME SchedInv, NEW t \in Threads, NEW op, At(t, op), op \notin Busy,
           NEW fs \in Seq(Sound), \A f \in ToSet(fs) : f.op \notin Busy, Become(t, fs), Idle
    PROVE  SchedInv' => Steady
<1>1. Stacks(stack)
  BY DEF SchedInv
<1>2. /\ Put(stack, stack', t, fs)
      /\ Head(stack[t]) = Top(t) /\ Top(t).op = op
  BY <1>1, BecomePut
<1>3. ASSUME NEW X \in SUBSET Sound, \A f \in X : f.op \in Busy
      PROVE  Total(stack', X) = Total(stack, X)
  <2>1. Total(stack', X) = Total(stack, X) + Num(fs, X) - Bit(Head(stack[t]) \in X)
    BY <1>2, TotalPut
  <2>2. ~Has(fs, X)
    BY <1>3, HasIs
  <2>3. Num(fs, X) = 0
    BY <2>2, NumIs
  <2>4. Bit(Head(stack[t]) \in X) = 0
    BY <1>2, <1>3 DEF Bit
  <2>5. Total(stack, X) \in Nat
    BY <1>1, TotalIs DEF Stacks
  <2> QED
    BY <2>1, <2>3, <2>4, <2>5
<1>4. /\ \A f \in Uncounted : f.op \in Busy
      /\ \A f \in Working : f.op \in Busy
      /\ \A j : \A f \in Holding(j) : f.op \in Busy
  BY DEF Uncounted, Working, Holding, WithOps, Busy, HoldOps
<1>5. /\ Total(stack', Uncounted) = Total(stack, Uncounted)
      /\ Total(stack', Working) = Total(stack, Working)
      /\ \A j : Total(stack', Holding(j)) = Total(stack, Holding(j))
  BY <1>3, <1>4, NoLoop
<1>6. Load(stack') = Load(stack) /\ \A j : Carried(stack', j) = Carried(stack, j)
  BY <1>5 DEF Load, Carried
<1>7. NoNew
  <2>1. "body" \in Busy /\ "again" \in Busy
    BY DEF Busy, HoldOps, ProcessOps
  <2> QED
    BY <1>2, <2>1, FreshIs
<1> QED
  BY <1>6, <1>7, SteadyIs DEF Idle

LEMMA SubmitSteady ==
    ASSUME SchedInv, SchedInv', NEW c \in Clients, SubmitNext(c)
    PROVE  Steady
<1>1. c \in Threads /\ At(c, "s_next") /\ "s_next" \notin Busy /\ Idle
  BY DEF Threads, SubmitNext, Busy, HoldOps, ProcessOps, shared, history, Idle
<1>2. PICK f \in Sound : f = Top(c) /\ f.op = "s_next"
  BY <1>1, TopIs DEF SchedInv
<1>3. PICK rest : rest = [f EXCEPT !.todo = Tail(@)] /\ rest.op = "s_next"
  <2>1. PICK todo : todo = Tail(f.todo)
    OBVIOUS
  <2>2. PICK rest : rest = [f EXCEPT !.todo = todo]
    OBVIOUS
  <2>3. rest.op = f.op
    BY <1>2, <2>2 DEF Sound, Frames
  <2>4. rest = [f EXCEPT !.todo = Tail(@)]
    BY <2>1, <2>2
  <2> QED
    BY <1>2, <2>3, <2>4
<1>4. \/ Become(c, <<>>) \/ Become(c, <<rest>>)
      \/ f.todo # <<>> /\ Become(c, <<JobFrame("schedule", Head(f.todo)), rest>>)
  BY <1>2, <1>3 DEF SubmitNext
<1>5. CASE f.todo # <<>> /\ Become(c, <<JobFrame("schedule", Head(f.todo)), rest>>)
  <2>1. PICK a : a = JobFrame("schedule", Head(f.todo))
    OBVIOUS
  <2>2. a.op = "schedule" /\ "schedule" \notin Busy
    BY <2>1 DEF JobFrame, Frame, Busy, HoldOps, ProcessOps
  <2> QED
    BY <1>1, <1>3, <1>5, <2>1, <2>2, CalmTwo
<1>6. CASE Become(c, <<rest>>)
  BY <1>1, <1>3, <1>6, CalmOne
<1>7. CASE Become(c, <<>>)
  BY <1>1, <1>7, CalmNone
<1> QED
  BY <1>4, <1>5, <1>6, <1>7

LEMMA ScheduleSteady ==
    ASSUME SchedInv, SchedInv', NEW c \in Clients, Schedule(c)
    PROVE  Steady
<1>1. c \in Threads /\ At(c, "schedule") /\ Idle
  BY DEF Threads, Schedule, shared, history, Idle
<1>2. "schedule" \notin Busy /\ "s_load" \notin Busy
  BY DEF Busy, HoldOps, ProcessOps
<1>3. Goto(c, "s_load") \/ Become(c, <<>>)
  BY DEF Schedule
<1>4. Goto(c, "s_load") => Steady
  BY <1>1, <1>2, CalmGoes
<1>5. Become(c, <<>>) => Steady
  BY <1>1, <1>2, CalmNone
<1> QED
  BY <1>3, <1>4, <1>5

\* The job of a node is no function.
LEMMA ScheduleLoadSteady ==
    ASSUME SchedInv, SchedInv', NEW c \in Clients, ScheduleLoad(c)
    PROVE  Steady
<1>1. c \in Threads /\ At(c, "s_load") /\ "s_load" \notin Busy /\ Idle
  BY DEF Threads, ScheduleLoad, Busy, HoldOps, ProcessOps, shared, history, Idle
<1>2. Top(c) \in Sound /\ Top(c).op = "s_load"
  BY <1>1, TopIs DEF SchedInv
<1>3. PICK n \in Nodes : n = Top(c).job
  BY <1>2, FieldsAre DEF NodeOps
<1>4. \/ Become(c, <<EnqueueFrame(n, 0)>>)
      \/ Become(c, [i \in DOMAIN Preds[n] |-> JobFrame("schedule", Preds[n][i])])
  BY <1>3 DEF ScheduleLoad
<1>5. CASE Become(c, <<EnqueueFrame(n, 0)>>)
  <2>1. n \in Jobs /\ n \notin Fns /\ 0 \in 0..N
    BY SchedulerAssumption DEF Jobs
  <2>2. PICK a : a = EnqueueFrame(n, 0) /\ a.job = n /\ a.op \in {"e_global", "e_hint"}
    BY <2>1, EnqueueIs
  <2>3. Become(c, <<a>>)
    BY <1>5, <2>2
  <2>4. /\ Load(stack') = Load(stack) + Worth(a.op) - Worth("s_load")
        /\ \A i : Carried(stack', i) = Carried(stack, i) + Share(a, i) - Share(Top(c), i)
        /\ a.op \notin {"body", "again"} => NoNew
    BY <1>1, <2>3, OneIs
  <2>5. Worth(a.op) = 0 /\ Worth("s_load") = 0
    BY <1>1, <2>2, Worths DEF HoldOps
  <2>6. \A i \in Fns : Share(a, i) = 0 /\ Share(Top(c), i) = 0
    BY <1>2, <2>1, <2>2, Shares DEF HoldOps
  <2>7. Load(stack') = Load(stack)
    BY <2>4, <2>5, SumTypes
  <2>8. \A i \in Fns : Carried(stack', i) = Carried(stack, i)
    BY <2>4, <2>6, SumTypes
  <2> QED
    BY <1>1, <2>2, <2>4, <2>7, <2>8, SteadyIs DEF Idle
<1>6. CASE Become(c, [i \in DOMAIN Preds[n] |-> JobFrame("schedule", Preds[n][i])])
  <2>1. Preds[n] \in Seq(Nodes)
    BY SchedulerAssumption
  <2>2. PICK p \in Seq(Nodes) : p = Preds[n]
    BY <2>1
  <2>3. ASSUME NEW i \in 1..Len(p)
        PROVE  JobFrame("schedule", p[i]) \in Sound /\ JobFrame("schedule", p[i]).op = "schedule"
    <3>1. p[i] \in Nodes /\ p[i] \in Jobs
      BY ElementOfSeq DEF Jobs
    <3>2. JobFrame("schedule", p[i]) \in Sound
      BY <3>1, NewJobFrame DEF CallOps, ClientOps, VisitOps, Inner
    <3>3. JobFrame("schedule", p[i]).op = "schedule"
      BY <3>1, FrameIs DEF ClientOps
    <3> QED
      BY <3>2, <3>3
  <2> DEFINE gs == [i \in 1..Len(p) |-> JobFrame("schedule", p[i])]
  <2>4. gs \in Seq(Sound)
    BY <2>3, IsASeq, LenProperties
  <2>5. \A f \in ToSet(gs) : f.op = "schedule"
    BY <2>3 DEF ToSet
  <2>6. DOMAIN p = 1..Len(p)
    BY LenProperties
  <2>7. Become(c, gs)
    BY <1>6, <2>2, <2>6
  <2> HIDE DEF gs
  <2>8. \A f \in ToSet(gs) : f.op \notin Busy
    BY <2>5 DEF Busy, HoldOps, ProcessOps
  <2> QED
    BY <1>1, <2>4, <2>7, <2>8, CalmBecome
<1> QED
  BY <1>4, <1>5, <1>6

LEMMA WaitSteady ==
    ASSUME SchedInv, SchedInv', NEW c \in Clients, Wait(c)
    PROVE  Steady
<1>1. c \in Threads /\ At(c, "wait") /\ "wait" \notin Busy /\ Idle
  BY DEF Threads, Wait, Busy, HoldOps, ProcessOps, shared, history, Idle
<1>2. PICK a, b : a = Frame("wake") /\ b = Top(c)
  OBVIOUS
<1>3. a.op \notin Busy /\ b.op \notin Busy
  <2>1. a.op = "wake" /\ b.op = "wait"
    BY <1>1, <1>2, FrameIs, TopIs DEF WakeOps, SchedInv
  <2> QED
    BY <2>1 DEF Busy, HoldOps, ProcessOps
<1>4. Become(c, <<>>) \/ Become(c, <<a, b>>)
  BY <1>2 DEF Wait
<1>5. Become(c, <<>>) => Steady
  BY <1>1, CalmNone
<1>6. Become(c, <<a, b>>) => Steady
  BY <1>1, <1>3, CalmTwo
<1> QED
  BY <1>4, <1>5, <1>6

LEMMA PausedSteady ==
    ASSUME SchedInv, SchedInv', NEW t \in Threads, NEW op \in ClientOps, At(t, op),
           NEW op2 \in WakeOps \cup ClientOps, NotifyPaused(t, <<Frame(op2)>>),
           op2 \notin HoldOps, op2 \notin NodeOps, Idle
    PROVE  Steady
<1>1. op \in CallOps /\ op \notin Busy /\ op2 \in CallOps /\ op2 \notin Busy
  BY DEF CallOps, ClientOps, WakeOps, Busy, HoldOps, ProcessOps
<1>2. PICK fs \in Seq(Inner) : NotifyPaused(t, fs) /\ \A f \in ToSet(fs) : f.op \notin Busy
  <2>1. <<Frame(op2)>> \in Seq(Inner)
    BY <1>1, NewFrame
  <2>2. ToSet(<<Frame(op2)>>) = {Frame(op2)} /\ Frame(op2).op = op2
    BY ShortStacks, FrameIs
  <2> QED
    BY <1>1, <2>1, <2>2
<1>3. Workers \cap Threads \subseteq Workers
  OBVIOUS
<1>4. stack' = Notified(Replaced(t, fs), Workers, "p_asleep", "p_test")
  BY <1>2 DEF NotifyPaused
<1> QED
  BY <1>1, <1>2, <1>3, <1>4, CalmNotifies

LEMMA PauseSteady ==
    ASSUME SchedInv, SchedInv', NEW c \in Clients, Pause(c) \/ Resume(c) \/ ShutdownResume(c)
    PROVE  Steady
<1>1. c \in Threads /\ Idle
  BY DEF Threads, Pause, Resume, ShutdownResume, history, Idle
<1>2. \A op \in ClientOps : op \notin Busy
  BY DEF ClientOps, Busy, HoldOps, ProcessOps
<1>3. /\ {"pause", "resume", "r_notify", "unpause", "u_notify", "request_stop"} \subseteq ClientOps
      /\ "wake" \in WakeOps
      /\ "wake" \notin HoldOps /\ "wake" \notin NodeOps
      /\ "request_stop" \notin HoldOps /\ "request_stop" \notin NodeOps
  BY DEF ClientOps, WakeOps, HoldOps, NodeOps
<1>4. CASE Pause(c)
  <2>1. At(c, "pause") /\ Become(c, <<>>)
    BY <1>4 DEF Pause
  <2> QED
    BY <1>1, <1>2, <1>3, <2>1, CalmNone
<1>5. CASE Resume(c)
  <2>1. CASE At(c, "resume") /\ Goto(c, "r_notify")
    BY <1>1, <1>2, <1>3, <2>1, CalmGoes
  <2>2. CASE At(c, "resume") /\ Become(c, <<>>)
    BY <1>1, <1>2, <1>3, <2>2, CalmNone
  <2>3. CASE At(c, "r_notify") /\ NotifyPaused(c, <<Frame("wake")>>)
    BY <1>1, <1>3, <2>3, PausedSteady
  <2> QED
    BY <1>5, <2>1, <2>2, <2>3 DEF Resume
<1>6. CASE ShutdownResume(c)
  <2>1. CASE At(c, "unpause") /\ Goto(c, "u_notify")
    BY <1>1, <1>2, <1>3, <2>1, CalmGoes
  <2>2. CASE At(c, "u_notify") /\ NotifyPaused(c, <<Frame("request_stop")>>)
    BY <1>1, <1>3, <2>2, PausedSteady
  <2> QED
    BY <1>6, <2>1, <2>2 DEF ShutdownResume
<1> QED
  BY <1>4, <1>5, <1>6

\* The frame for the next worker.
LEMMA NextOp ==
    ASSUME NEW f \in Sound, NEW op
    PROVE  [f EXCEPT !.op = op, !.pos = @ + 1].op = op
BY DEF Sound, Frames

LEMMA AdvanceSteady ==
    ASSUME SchedInv, SchedInv', NEW c \in Threads, NEW op \in ClientOps, At(c, op), Idle
    PROVE  /\ Advance(c, op, <<>>) => Steady
           /\ \A op2 \in ClientOps : Advance(c, op, <<Frame(op2)>>) => Steady
<1>1. \A o \in ClientOps : o \notin Busy
  BY DEF ClientOps, Busy, HoldOps, ProcessOps
<1>2. Top(c) \in Sound
  BY TopIs DEF SchedInv
<1>3. PICK a : a = [Top(c) EXCEPT !.op = op, !.pos = @ + 1]
  OBVIOUS
<1>4. a.op = op
  BY <1>2, <1>3, NextOp
<1>5. Become(c, <<a>>) => Steady
  BY <1>1, <1>4, CalmOne
<1>6. Become(c, <<>>) => Steady
  BY <1>1, CalmNone
<1>7. ASSUME NEW op2 \in ClientOps, Become(c, <<Frame(op2)>>)
      PROVE  Steady
  <2>1. PICK b : b = Frame(op2) /\ b.op = op2
    BY FrameIs
  <2> QED
    BY <1>1, <1>7, <2>1, CalmOne
<1> QED
  BY <1>3, <1>5, <1>6, <1>7 DEF Advance

LEMMA ShutdownSteady ==
    ASSUME SchedInv, SchedInv', NEW c \in Clients,
           ShutdownStop(c) \/ ShutdownWake(c) \/ ShutdownJoin(c)
    PROVE  Steady
<1>1. c \in Threads /\ Idle
  BY DEF Threads, ShutdownStop, ShutdownWake, ShutdownJoin, shared, history, Idle
<1>2. {"request_stop", "stop_store", "stop_notify", "join"} \subseteq ClientOps
  BY DEF ClientOps
<1>3. \A o \in ClientOps : o \notin Busy /\ o \in CallOps
  BY DEF ClientOps, Busy, HoldOps, ProcessOps, CallOps
<1>4. CASE ShutdownStop(c)
  BY <1>1, <1>2, <1>4, AdvanceSteady DEF ShutdownStop
<1>5. CASE ShutdownJoin(c)
  BY <1>1, <1>2, <1>5, AdvanceSteady DEF ShutdownJoin
<1>6. CASE ShutdownWake(c)
  <2>1. CASE At(c, "stop_store") /\ Goto(c, "stop_notify")
    BY <1>1, <1>2, <1>3, <2>1, CalmGoes
  <2>2. CASE /\ At(c, "stop_notify")
             /\ NotifyWorker(c, Top(c).pos,
                  IF Top(c).pos < N THEN <<[Top(c) EXCEPT !.op = "stop_store", !.pos = @ + 1]>>
                  ELSE <<Frame("join")>>)
    <3>1. PICK f \in Inner : f = Top(c)
      BY <1>1, <2>2, TopIs DEF Inner, LoopOps, SchedInv
    <3>2. PICK a : a = [f EXCEPT !.op = "stop_store", !.pos = @ + 1]
      OBVIOUS
    <3>3. f.pos < N => <<a>> \in Seq(Inner)
      BY <3>2, NextWorker DEF VisitOps
    <3>4. <<Frame("join")>> \in Seq(Inner)
      BY NewFrame DEF CallOps, ClientOps, HoldOps, NodeOps
    <3>5. ToSet(<<a>>) = {a} /\ ToSet(<<Frame("join")>>) = {Frame("join")}
      BY ShortStacks
    <3>6. a.op = "stop_store" /\ Frame("join").op = "join"
      BY <3>1, <3>2, NextOp, FrameIs DEF Inner, ClientOps
    <3>7. PICK fs \in Seq(Inner) : NotifyWorker(c, f.pos, fs) /\ \A g \in ToSet(fs) : g.op \notin Busy
      <4>1. CASE f.pos < N
        BY <1>2, <1>3, <2>2, <3>1, <3>2, <3>3, <3>5, <3>6, <4>1
      <4>2. CASE ~(f.pos < N)
        BY <1>2, <1>3, <2>2, <3>1, <3>4, <3>5, <3>6, <4>2
      <4> QED
        BY <4>1, <4>2
    <3>8. f.pos \in 1..N
      BY <2>2, <3>1, TopIs, FieldsAre, SchedulerAssumption, <1>1 DEF Inner, VisitOps, SchedInv
    <3>9. {f.pos} \cap Threads \subseteq Workers
      BY <3>8 DEF Workers
    <3>10. stack' = Notified(Replaced(c, fs), {f.pos}, "asleep", "test")
      BY <3>7 DEF NotifyWorker
    <3> QED
      BY <1>1, <1>2, <1>3, <2>2, <3>7, <3>9, <3>10, CalmNotifies
  <2> QED
    BY <1>6, <2>1, <2>2 DEF ShutdownWake
<1> QED
  BY <1>4, <1>5, <1>6

\* A call begins: enqueue() carries its job, the others none.
LEMMA BeginAdds ==
    ASSUME SchedInv, SchedInv', NEW c \in Clients, Begin(c)
    PROVE  /\ Gap' = Gap /\ NoNew /\ UNCHANGED <<runs, finished>>
           /\ at[c] \in 1..Len(Script[c]) /\ at' = [at EXCEPT ![c] = @ + 1]
           /\ \A j \in Fns : Where(j)' = Where(j)
                + (IF Script[c][at[c]].op = "enqueue" /\ Script[c][at[c]].job = j THEN 1 ELSE 0)
<1>1. at[c] \in 1..Len(Script[c]) /\ Script[c] \in Seq(Call)
  <2>1. at[c] \in Nat \ {0} /\ at[c] <= Len(Script[c]) /\ Script[c] \in Seq(Call)
    BY SchedulerAssumption DEF SchedInv, Values, Begin
  <2> QED
    BY <2>1
<1>2. PICK call \in Call : call = Script[c][at[c]]
  BY <1>1, ElementOfSeq
<1>3. PICK f \in Sound : f = CallFrame(call)
  BY CallFrameIs DEF Inner
<1>4. stack' = [stack EXCEPT ![c] = <<f>>] /\ stack[c] = <<>>
  BY <1>2, <1>3 DEF Begin
<1>5. /\ c \in Threads /\ stack \in [Threads -> Seq(Sound)] /\ stack' \in [Threads -> Seq(Sound)]
      /\ stack'[c] = <<f>> /\ \A u \in Threads : u # c => stack'[u] = stack[u]
  BY <1>4 DEF Threads, SchedInv, Stacks
<1>6. ASSUME NEW X
      PROVE  Total(stack', X) = Total(stack, X) + Bit(f \in X) /\ Total(stack, X) \in Nat
  <2>1. Total(stack', X) = Total(stack, X) + Num(stack'[c], X) - Num(stack[c], X)
    BY <1>5, TotalChange
  <2>2. Num(stack'[c], X) = Bit(f \in X) /\ Num(stack[c], X) = 0
    BY <1>4, <1>5, NumShort
  <2>3. Total(stack, X) \in Nat /\ Bit(f \in X) \in {0, 1}
    BY <1>5, TotalIs, BitsAre
  <2> QED
    BY <2>1, <2>2, <2>3
<1>7. /\ f.op \in {"e_global", "e_hint", "schedule", "s_next", "unpause", "wait", "pause", "resume"}
      /\ f.op \in HoldOps <=> call.op = "enqueue"
      /\ call.op = "enqueue" => f.job = call.job
  <2>1. /\ call.op = "enqueue" => call.job \in Jobs /\ call.to \in 0..N
        /\ call.op = "schedule" => call.job \in Nodes
        /\ call.op \in {"enqueue", "schedule", "submit", "wait", "pause", "resume", "shutdown"}
    BY DEF Call, Jobs
  <2>2. CASE call.op = "enqueue"
    <3>1. f = EnqueueFrame(call.job, call.to)
      BY <1>3, <2>2 DEF CallFrame
    <3>2. f.job = call.job /\ f.op \in {"e_global", "e_hint"}
      BY <2>1, <2>2, <3>1, EnqueueIs
    <3> QED
      BY <2>2, <3>2 DEF HoldOps
  <2>3. CASE call.op = "schedule"
    <3>1. f.op = "schedule"
      BY <1>3, <2>3 DEF CallFrame, JobFrame, Frame
    <3> QED
      BY <2>3, <3>1 DEF HoldOps
  <2>4. CASE call.op = "submit"
    <3>1. f.op = "s_next"
      BY <1>3, <2>4 DEF CallFrame, Frame
    <3> QED
      BY <2>4, <3>1 DEF HoldOps
  <2>5. CASE call.op = "shutdown"
    <3>1. f.op = "unpause"
      BY <1>3, <2>5 DEF CallFrame, Frame
    <3> QED
      BY <2>5, <3>1 DEF HoldOps
  <2>6. CASE call.op \in {"wait", "pause", "resume"}
    <3>1. f.op = call.op
      BY <1>3, <2>6 DEF CallFrame, Frame
    <3> QED
      BY <2>6, <3>1 DEF HoldOps
  <2> QED
    BY <2>1, <2>2, <2>3, <2>4, <2>5, <2>6
<1>8. /\ f \notin Uncounted /\ f \notin Working /\ f.op \notin {"body", "again"}
      /\ \A j : f \in Holding(j) <=> call.op = "enqueue" /\ call.job = j
  BY <1>7 DEF Uncounted, Working, WithOps, Holding, ProcessOps
<1>9. UNCHANGED <<queue, remaining, runs, finished>> /\ at' = [at EXCEPT ![c] = @ + 1]
  BY DEF Begin, shared, history
<1>10. Gap' = Gap
  <2>1. Total(stack', Uncounted) = Total(stack, Uncounted)
    BY <1>6, <1>8 DEF Bit
  <2>2. Total(stack', Working) = Total(stack, Working)
    BY <1>6, <1>8 DEF Bit
  <2> QED
    BY <1>9, <2>1, <2>2 DEF Gap, Load
<1>11. NoNew
  <2>1. ToSet(<<f>>) = {f}
    BY ShortStacks
  <2>2. \A u \in Threads : \A g \in ToSet(stack'[u]) : g \in ToSet(stack[u]) \/ g = f
    BY <1>5, <2>1
  <2> QED
    BY <1>8, <2>2 DEF NoNew
<1>12. ASSUME NEW j \in Fns
       PROVE  Where(j)' = Where(j) + (IF call.op = "enqueue" /\ call.job = j THEN 1 ELSE 0)
  <2>1. Carried(stack', j) = Carried(stack, j) + Bit(f \in Holding(j)) /\ Carried(stack, j) \in Nat
    BY <1>6 DEF Carried
  <2>2. Bit(f \in Holding(j)) = IF call.op = "enqueue" /\ call.job = j THEN 1 ELSE 0
    BY <1>8 DEF Bit
  <2>3. InQueues(queue', j) = InQueues(queue, j) /\ InQueues(queue, j) \in Nat
    BY <1>9, SumTypes
  <2> QED
    BY <2>1, <2>2, <2>3 DEF Where
<1> QED
  BY <1>1, <1>2, <1>9, <1>10, <1>11, <1>12

LEMMA LoopSteady ==
    ASSUME SchedInv, SchedInv', NEW w \in Workers, worker_loop_(w)
    PROVE  Steady
BY GuardSteady, QueueSteady, StealSteady, ScanSteady DEF worker_loop_

\* Every step but these keeps the balance and every function's place.
LEMMA MostSteady ==
    ASSUME SchedInv, SchedInv', [Next]_vars
    PROVE  \/ Steady
           \/ \E w \in Workers : Run(w) \/ Body(w) \/ Again(w)
           \/ \E c \in Clients : Begin(c)
<1>1. CASE UNCHANGED vars
  <2>1. UNCHANGED <<queue, remaining, runs, finished, at, stack>>
    BY <1>1 DEF vars
  <2>2. NoNew
    BY <2>1 DEF NoNew
  <2> QED
    BY <2>1, <2>2, SteadyIs
<1>2. ASSUME NEW c \in Clients, ClientStep(c)
      PROVE  Steady \/ Begin(c)
  BY <1>2, SubmitSteady, ScheduleSteady, ScheduleLoadSteady, WaitSteady, PauseSteady, ShutdownSteady
     DEF ClientStep, shutdown
<1>3. ASSUME NEW w \in Workers, WorkerStep(w)
      PROVE  Steady \/ Run(w) \/ Body(w) \/ Again(w)
  BY <1>3, LoopSteady, SuccessorSteady, FinishSteady DEF WorkerStep, process_
<1>4. ASSUME NEW t \in Threads, AnyStep(t)
      PROVE  Steady
  BY <1>4, AnySteady
<1> QED
  BY <1>1, <1>2, <1>3, <1>4 DEF Next

\* What begins empty is balanced.
LEMMA InitBalance ==
    ASSUME Init
    PROVE  Gap = 0 /\ \A j \in Fns : Where(j) = 0
<1>1. SchedInv /\ Stacks(stack)
  BY SchedInit DEF SchedInv
<1>2. PICK f : f = Frame("top") /\ f.op = "top"
  BY FrameIs DEF LoopOps
<1>3. \A t \in Threads : stack[t] = <<f>> \/ stack[t] = <<>>
  BY <1>2 DEF Init
<1>4. ASSUME NEW X \in SUBSET Sound, \A g \in X : g.op \in Busy
      PROVE  Total(stack, X) = 0
  <2>1. f \notin X
    BY <1>2, <1>4 DEF Busy, HoldOps, ProcessOps
  <2>2. \A t \in Threads : Num(stack[t], X) = 0
    <3>1. Num(<<f>>, X) = 0 /\ Num(<<>>, X) = 0
      BY <2>1, NumShort DEF Bit
    <3> QED
      BY <1>3, <3>1
  <2>3. PICK F : F = [t \in Threads |-> Num(stack[t], X)]
    OBVIOUS
  <2>4. F \in [Threads -> Nat] /\ \A t \in Threads : F[t] = 0
    BY <2>2, <2>3
  <2>5. SumFunction(F) = 0
    BY <2>4, ThreadZero
  <2> QED
    BY <2>3, <2>5 DEF Total
<1>5. /\ \A g \in Uncounted : g.op \in Busy
      /\ \A g \in Working : g.op \in Busy
      /\ \A j : \A g \in Holding(j) : g.op \in Busy
  BY DEF Uncounted, Working, Holding, WithOps, Busy, HoldOps
<1>6. Load(stack) = 0 /\ \A j : Carried(stack, j) = 0
  BY <1>4, <1>5, NoLoop DEF Load, Carried
<1>7. ASSUME NEW F \in [0..N -> Nat], \A q \in 0..N : F[q] = 0
      PROVE  SumFunction(F) = 0
  BY <1>7, SumZero, ThreadsFinite
<1>8. ASSUME NEW j \in Jobs
      PROVE  InQueues(queue, j) = 0
  <2>1. PICK F : F = [q \in 0..N |-> queue[q][j]]
    OBVIOUS
  <2>2. F \in [0..N -> Nat] /\ \A q \in 0..N : F[q] = 0
    BY <2>1 DEF Init
  <2> QED
    BY <1>7, <2>1, <2>2 DEF InQueues
<1>9. Queued(queue) = 0
  <2>1. ASSUME NEW q \in 0..N
        PROVE  SumFunction(queue[q]) = 0
    <3>1. queue[q] \in [Jobs -> Nat] /\ \A j \in Jobs : queue[q][j] = 0
      BY DEF Init
    <3> QED
      BY <3>1, SumZero, ThreadsFinite
  <2>2. PICK F : F = [q \in 0..N |-> SumFunction(queue[q])]
    OBVIOUS
  <2>3. F \in [0..N -> Nat] /\ \A q \in 0..N : F[q] = 0
    BY <2>1, <2>2
  <2> QED
    BY <1>7, <2>2, <2>3 DEF Queued
<1>10. remaining = 0
  BY DEF Init
<1>11. \A j \in Fns : j \in Jobs
  BY DEF Jobs
<1> QED
  BY <1>6, <1>8, <1>9, <1>10, <1>11 DEF Gap, Where

\* What the body of a job does.
LEMMA BodyIs ==
    ASSUME SchedInv, SchedInv', NEW w \in Workers, Body(w), NEW j, j = Top(w).job
    PROVE  /\ j \in Jobs /\ Gap' = Gap /\ UNCHANGED <<at, runs>>
           /\ \/ /\ runs[j] <= Suspends[j] /\ finished' = finished
                 /\ j \notin Nodes => NoNew
                 /\ \A i \in Fns : Where(i)' = Where(i)
              \/ /\ finished' = finished \cup {j} /\ NoNew
                 /\ \A i \in Fns : Where(i)' = Where(i) - (IF i = j THEN 1 ELSE 0) /\ Where(i)' \in Nat
<1>1. At(w, "body") /\ UNCHANGED <<shared, at, runs>> /\ w \in Threads
  BY DEF Body, Threads
<1>2. j \in Jobs
  <2>1. Top(w) \in Sound /\ Top(w).op = "body"
    BY <1>1, TopIs DEF SchedInv
  <2> QED
    BY <2>1, FieldsAre DEF HoldOps
<1>3. \/ /\ runs[j] <= Suspends[j] /\ finished' = finished
         /\ Become(w, IF j \in Nodes THEN <<EnqueueFrame(j, w), Frame("again")>>
                      ELSE <<EnqueueFrame(j, 0), Frame("finish")>>)
      \/ /\ finished' = finished \cup {j}
         /\ Become(w, <<IF j \in Nodes THEN [Frame("succ") EXCEPT !.todo = Succs[j]]
                        ELSE Frame("finish")>>)
  BY DEF Body
<1>4. CASE /\ runs[j] <= Suspends[j] /\ finished' = finished
           /\ Become(w, IF j \in Nodes THEN <<EnqueueFrame(j, w), Frame("again")>>
                        ELSE <<EnqueueFrame(j, 0), Frame("finish")>>)
  <2>1. UNCHANGED <<shared, at, runs, finished>>
    BY <1>1, <1>4
  <2>2. Same /\ (j \notin Nodes => NoNew)
    BY <1>1, <1>4, <2>1, SuspendSame
  <2> QED
    BY <1>1, <1>2, <1>4, <2>2 DEF Same
<1>5. CASE /\ finished' = finished \cup {j}
           /\ Become(w, <<IF j \in Nodes THEN [Frame("succ") EXCEPT !.todo = Succs[j]]
                          ELSE Frame("finish")>>)
  <2>1. /\ Gap' = Gap /\ NoNew
        /\ \A i \in Fns : Where(i)' = Where(i) - (IF i = j THEN 1 ELSE 0) /\ Where(i)' \in Nat
    BY <1>1, <1>5, ReturnSame
  <2> QED
    BY <1>1, <1>2, <1>5, <2>1
<1> QED
  BY <1>3, <1>4, <1>5

-----------------------------------------------------------------------------
(* What _remainingJobs is worth.                                            *)

\* Only a node that suspended is counted more than once.
LEMMA GapStep ==
    ASSUME SchedInv, SchedInv', [Next]_vars
    PROVE  Gap' = Gap \/ (Gap' = Gap + 1 /\ \E w \in Workers : Again(w))
<1>1. ASSUME NEW w \in Workers, Run(w)
      PROVE  Gap' = Gap
  BY <1>1, RunSame DEF Same
<1>2. ASSUME NEW w \in Workers, Body(w)
      PROVE  Gap' = Gap
  BY <1>2, BodyIs
<1>3. ASSUME NEW w \in Workers, Again(w)
      PROVE  Gap' = Gap + 1
  BY <1>3, AgainMore
<1>4. ASSUME NEW c \in Clients, Begin(c)
      PROVE  Gap' = Gap
  BY <1>4, BeginAdds
<1>5. Steady => Gap' = Gap
  BY DEF Steady
<1>6. \/ Steady
      \/ \E w \in Workers : Run(w) \/ Body(w) \/ Again(w)
      \/ \E c \in Clients : Begin(c)
  BY MostSteady
<1>7. Gap' = Gap \/ \E w \in Workers : Again(w)
  BY <1>1, <1>2, <1>4, <1>5, <1>6
<1> QED
  BY <1>3, <1>7

LEMMA GapType ==
    ASSUME SchedInv
    PROVE  Gap \in Int
BY SumTypes DEF Gap

\* The balance in the words of the invariants.
LEMMA BalanceIs ==
    ASSUME SchedInv
    PROVE  /\ CountsJobs <=> Gap = 0
           /\ Gap >= 0 => ZeroIsIdle
<1> DEFINE C == FramesAt({"e_count"})
           W == FramesAt(ProcessOps \cup {"e_spill"})
<1>1. /\ Cardinality(C) = Total(stack, Uncounted) /\ IsFiniteSet(C)
      /\ Cardinality(W) = Total(stack, Working) /\ IsFiniteSet(W)
  BY FramesCounted DEF SchedInv, Uncounted, Working
<1>2. Queued(queue) = SumFunction([q \in 0..N |-> Size(q)])
  BY DEF Queued, Size
<1>3. /\ Cardinality(C) \in Nat /\ Cardinality(W) \in Nat
      /\ Queued(queue) \in Nat /\ remaining \in Int
  BY <1>1, FS_CardinalityType, SumTypes
<1>4. Gap = remaining + (Cardinality(C) - Cardinality(W)) - Queued(queue)
  BY <1>1 DEF Gap, Load
<1>5. CountsJobs <=> remaining + Cardinality(C) = Queued(queue) + Cardinality(W)
  BY <1>2 DEF CountsJobs
<1>6. ASSUME Gap >= 0, remaining = 0, C = {}
      PROVE  (\A q \in 0..N : Empty(q)) /\ W = {}
  <2>1. Cardinality(C) = 0
    BY <1>6, FS_EmptySet
  <2>2. Cardinality(W) = 0 /\ Queued(queue) = 0
    <3> HIDE DEF C, W
    <3>1. Gap = 0 + (0 - Cardinality(W)) - Queued(queue)
      BY <1>4, <1>6, <2>1
    <3> QED
      BY <1>3, <1>6, <3>1
  <2>3. W = {}
    BY <1>1, <2>2, FS_EmptySet
  <2>4. queue \in QueueType
    BY DEF SchedInv, Values, QueueType
  <2>5. \A q \in 0..N : \A j \in Jobs : queue[q][j] <= 0 /\ queue[q][j] \in Nat
    BY <2>2, <2>4, QueuedIs DEF QueueType
  <2>6. \A q \in 0..N : Empty(q)
    BY <2>5 DEF Empty
  <2> QED
    BY <2>3, <2>6
<1>7. CountsJobs <=> Gap = 0
  <2> HIDE DEF C, W
  <2> QED
    BY <1>3, <1>4, <1>5
<1> QED
  BY <1>6, <1>7 DEF ZeroIsIdle

\* _remainingJobs never says zero too early by more than the jobs that are pushed
\* and not yet counted, whatever is submitted and however often its bodies suspend.
THEOREM NothingLeftAtZero == Spec => []ZeroIsIdle
<1>1. ASSUME Init
      PROVE  SchedInv /\ Gap >= 0
  BY <1>1, SchedInit, InitBalance
<1>2. ASSUME SchedInv /\ Gap >= 0, [Next]_vars
      PROVE  (SchedInv /\ Gap >= 0)'
  <2>1. SchedInv'
    BY <1>2, SchedStep
  <2>2. Gap' >= 0
    BY <1>2, <2>1, GapStep, GapType
  <2> QED
    BY <2>1, <2>2
<1>3. SchedInv /\ Gap >= 0 => ZeroIsIdle
  BY BalanceIs
<1> QED
  BY <1>1, <1>2, <1>3, PTL DEF Spec

\* A body that was entered, and no node that suspended.
Settled == \A t \in Threads : \A f \in ToSet(stack[t]) :
              f.op # "again" /\ (f.op = "body" => f.job \in Jobs /\ runs[f.job] > 0)

LEMMA SettledKept ==
    ASSUME Settled, NoNew, runs' = runs
    PROVE  Settled'
BY DEF Settled, NoNew

LEMMA SettledStep ==
    ASSUME SchedInv, SchedInv', Settled, [Next]_vars, \A n \in Nodes : Suspends[n] = 0
    PROVE  Settled' /\ ~\E w \in Workers : Again(w)
<1>1. ~\E w \in Workers : Again(w)
  <2>1. SUFFICES ASSUME NEW w \in Workers, At(w, "again")
                 PROVE  FALSE
    BY DEF Again
  <2>2. w \in Threads /\ stack[w] # <<>> /\ stack[w] \in Seq(Sound) /\ Head(stack[w]).op = "again"
    BY <2>1 DEF Threads, At, SchedInv, Stacks
  <2>3. ToSet(stack[w]) = {Head(stack[w])} \cup ToSet(Tail(stack[w]))
    BY <2>2, ItemsReplaced, EmptySeq
  <2> QED
    BY <2>2, <2>3 DEF Settled
<1>2. CASE Steady
  <2>1. NoNew /\ runs' = runs
    BY <1>2 DEF Steady
  <2> QED
    BY <1>1, <2>1, SettledKept
<1>3. ASSUME NEW w \in Workers, Run(w)
      PROVE  Settled'
  <2>1. /\ \A j \in Jobs : runs'[j] >= runs[j]
        /\ \A u \in Threads : \A f \in ToSet(stack'[u]) :
              f.op \in {"body", "again"} => \/ f \in ToSet(stack[u])
                                            \/ f.op = "body" /\ f.job \in Jobs /\ runs'[f.job] > 0
    BY <1>3, RunSame
  <2>2. \A j \in Jobs : runs[j] \in Nat /\ runs'[j] \in Nat
    BY DEF SchedInv, Values
  <2> QED
    BY <2>1, <2>2 DEF Settled
<1>4. ASSUME NEW w \in Workers, Body(w)
      PROVE  Settled'
  <2>1. PICK j : j = Top(w).job
    OBVIOUS
  <2>2. runs[j] > 0 /\ j \in Jobs
    <3>1. w \in Threads /\ stack[w] # <<>> /\ stack[w] \in Seq(Sound) /\ Head(stack[w]).op = "body"
      BY <1>4 DEF Body, Threads, At, SchedInv, Stacks
    <3>2. ToSet(stack[w]) = {Head(stack[w])} \cup ToSet(Tail(stack[w]))
      BY <3>1, ItemsReplaced, EmptySeq
    <3> QED
      BY <2>1, <3>1, <3>2 DEF Settled, Top
  <2>3. runs[j] \in Nat
    BY <2>2 DEF SchedInv, Values
  <2>4. /\ UNCHANGED <<at, runs>>
        /\ \/ runs[j] <= Suspends[j] /\ (j \notin Nodes => NoNew)
           \/ NoNew
    BY <1>4, <2>1, BodyIs
  <2>5. j \in Nodes => ~(runs[j] <= Suspends[j])
    BY <2>2, <2>3
  <2> QED
    BY <2>4, <2>5, SettledKept
<1>5. ASSUME NEW c \in Clients, Begin(c)
      PROVE  Settled'
  BY <1>5, BeginAdds, SettledKept
<1> QED
  BY <1>1, <1>2, <1>3, <1>4, <1>5, MostSteady

\* While no node suspends, _remainingJobs counts every job once.
THEOREM JobsCounted ==
    ASSUME \A n \in Nodes : Suspends[n] = 0
    PROVE  Spec => []CountsJobs
<1> DEFINE Inv == SchedInv /\ Settled /\ Gap = 0
<1>1. ASSUME Init
      PROVE  Inv
  <2>1. SchedInv /\ Gap = 0
    BY <1>1, SchedInit, InitBalance
  <2>2. \A t \in Threads : \A f \in ToSet(stack[t]) : f.op = "top"
    <3>1. PICK g : g = Frame("top") /\ g.op = "top"
      BY FrameIs DEF LoopOps
    <3>2. \A t \in Threads : stack[t] = <<g>> \/ stack[t] = <<>>
      BY <1>1, <3>1 DEF Init
    <3>3. ToSet(<<g>>) = {g} /\ ToSet(<<>>) = {}
      BY ShortStacks
    <3> QED
      BY <3>1, <3>2, <3>3
  <2>3. Settled
    BY <2>2 DEF Settled
  <2> QED
    BY <2>1, <2>3
<1>2. ASSUME Inv, [Next]_vars
      PROVE  Inv'
  <2>1. SchedInv'
    BY <1>2, SchedStep
  <2>2. Settled' /\ ~\E w \in Workers : Again(w)
    BY <1>2, <2>1, SettledStep
  <2>3. Gap' = 0
    BY <1>2, <2>1, <2>2, GapStep
  <2> QED
    BY <2>1, <2>2, <2>3
<1>3. Inv => CountsJobs
  BY BalanceIs
<1> QED
  BY <1>1, <1>2, <1>3, PTL DEF Spec

-----------------------------------------------------------------------------
(* Where the jobs are.                                                      *)

\* Each call of enqueue() brings a job of its own.
EnqueuedOnce ==
    \A c, d \in Clients : \A k \in DOMAIN Script[c] : \A l \in DOMAIN Script[d] :
        Script[c][k].op = "enqueue" /\ Script[d][l].op = "enqueue" /\ Script[c][k].job = Script[d][l].job
          => c = d /\ k = l

\* A function that was enqueued is in one place until its body has returned.
Located == \A j \in Fns : /\ Where(j) = IF Asked(j) /\ j \notin finished THEN 1 ELSE 0
                          /\ j \in finished => Asked(j)
Within  == \A c \in Clients : at[c] <= Len(Script[c]) + 1
Placed  == Within /\ Located

LEMMA PlacedKept ==
    ASSUME Placed, UNCHANGED <<finished, at>>, \A j \in Fns : Where(j)' = Where(j)
    PROVE  Placed'
<1>1. \A j \in Fns : Asked(j)' <=> Asked(j)
  BY DEF Asked
<1> QED
  BY <1>1 DEF Placed, Located, Within

\* A call that begins asks for its own job.
LEMMA AskedBegin ==
    ASSUME SchedInv, NEW c \in Clients, at[c] \in 1..Len(Script[c]), at' = [at EXCEPT ![c] = @ + 1],
           NEW j
    PROVE  Asked(j)' <=> Asked(j) \/ (Script[c][at[c]].op = "enqueue" /\ Script[c][at[c]].job = j)
<1>1. /\ at \in [Clients -> Nat \ {0}] /\ at'[c] = at[c] + 1
      /\ \A d \in Clients : d # c => at'[d] = at[d]
  BY DEF SchedInv, Values
<1>2. 1..(at'[c] - 1) = 1..(at[c] - 1) \cup {at[c]}
  BY <1>1
<1>3. \A d \in Clients : d # c => 1..(at'[d] - 1) = 1..(at[d] - 1)
  BY <1>1
<1> DEFINE Wants(d, k) == Script[d][k].op = "enqueue" /\ Script[d][k].job = j
<1>4. Asked(j) <=> \E d \in Clients : \E k \in 1..(at[d] - 1) : Wants(d, k)
  BY DEF Asked
<1>5. Asked(j)' <=> \E d \in Clients : \E k \in 1..(at'[d] - 1) : Wants(d, k)
  BY DEF Asked
<1> HIDE DEF Wants
<1>6. Asked(j)' <=> Asked(j) \/ Wants(c, at[c])
  BY <1>2, <1>3, <1>4, <1>5
<1> QED
  BY <1>6 DEF Wants

LEMMA PlacedBegin ==
    ASSUME SchedInv, SchedInv', Placed, EnqueuedOnce, NEW c \in Clients, Begin(c)
    PROVE  Placed'
<1>1. /\ UNCHANGED finished /\ at[c] \in 1..Len(Script[c]) /\ at' = [at EXCEPT ![c] = @ + 1]
      /\ \A j \in Fns : Where(j)' = Where(j)
            + (IF Script[c][at[c]].op = "enqueue" /\ Script[c][at[c]].job = j THEN 1 ELSE 0)
  BY BeginAdds
<1>2. ASSUME NEW j \in Fns
      PROVE  /\ Where(j)' = IF Asked(j)' /\ j \notin finished' THEN 1 ELSE 0
             /\ j \in finished' => Asked(j)'
  <2>1. Asked(j)' <=> Asked(j) \/ (Script[c][at[c]].op = "enqueue" /\ Script[c][at[c]].job = j)
    BY <1>1, AskedBegin
  <2>2. /\ Where(j) = IF Asked(j) /\ j \notin finished THEN 1 ELSE 0
        /\ j \in finished => Asked(j)
    BY DEF Placed, Located
  <2>3. CASE Script[c][at[c]].op = "enqueue" /\ Script[c][at[c]].job = j
    <3>1. ~Asked(j)
      <4>1. SUFFICES ASSUME NEW d \in Clients, NEW k \in 1..(at[d] - 1),
                            Script[d][k].op = "enqueue", Script[d][k].job = j
                     PROVE  FALSE
        BY DEF Asked
      <4>2. /\ at[d] \in Nat /\ at[d] <= Len(Script[d]) + 1 /\ Script[d] \in Seq(Call)
            /\ Script[c] \in Seq(Call)
        BY SchedulerAssumption DEF SchedInv, Values, Placed, Within
      <4>3. k \in DOMAIN Script[d] /\ at[c] \in DOMAIN Script[c]
        BY <1>1, <4>2
      <4>4. c = d /\ k = at[c]
        BY <2>3, <4>1, <4>3 DEF EnqueuedOnce
      <4> QED
        BY <4>2, <4>4
    <3>2. Where(j) = 0 /\ j \notin finished /\ Where(j)' = Where(j) + 1
      BY <1>1, <2>2, <2>3, <3>1
    <3> QED
      BY <1>1, <2>1, <2>3, <3>2
  <2>4. CASE ~(Script[c][at[c]].op = "enqueue" /\ Script[c][at[c]].job = j)
    <3>1. Where(j)' = Where(j) + 0 /\ Where(j) \in {0, 1}
      BY <1>1, <2>2, <2>4
    <3>2. Where(j)' = Where(j)
      BY <3>1
    <3> QED
      BY <1>1, <2>1, <2>2, <2>4, <3>2
  <2> QED
    BY <2>3, <2>4
<1>3. \A d \in Clients : at'[d] <= Len(Script[d]) + 1
  <2>1. at \in [Clients -> Nat \ {0}] /\ Script[c] \in Seq(Call) /\ at'[c] = at[c] + 1
    BY <1>1, SchedulerAssumption DEF SchedInv, Values
  <2>2. \A d \in Clients : d # c => at'[d] = at[d]
    BY <1>1, <2>1
  <2>3. at'[c] <= Len(Script[c]) + 1
    BY <1>1, <2>1
  <2> QED
    BY <2>2, <2>3 DEF Placed, Within
<1> QED
  BY <1>2, <1>3 DEF Placed, Located, Within

LEMMA PlacedStep ==
    ASSUME SchedInv, SchedInv', Placed, EnqueuedOnce, [Next]_vars
    PROVE  Placed'
<1>1. CASE Steady
  BY <1>1, PlacedKept DEF Steady
<1>2. ASSUME NEW w \in Workers, Run(w)
      PROVE  Placed'
  BY <1>2, RunSame, PlacedKept DEF Same
<1>3. ASSUME NEW w \in Workers, Again(w)
      PROVE  Placed'
  BY <1>3, AgainMore, PlacedKept
<1>4. ASSUME NEW w \in Workers, Body(w)
      PROVE  Placed'
  <2>1. PICK j : j = Top(w).job
    OBVIOUS
  <2>2. /\ UNCHANGED at
        /\ \/ finished' = finished /\ \A i \in Fns : Where(i)' = Where(i)
           \/ /\ finished' = finished \cup {j}
              /\ \A i \in Fns : Where(i)' = Where(i) - (IF i = j THEN 1 ELSE 0) /\ Where(i)' \in Nat
    BY <1>4, <2>1, BodyIs
  <2>3. CASE finished' = finished /\ \A i \in Fns : Where(i)' = Where(i)
    BY <2>2, <2>3, PlacedKept
  <2>4. CASE /\ finished' = finished \cup {j}
             /\ \A i \in Fns : Where(i)' = Where(i) - (IF i = j THEN 1 ELSE 0) /\ Where(i)' \in Nat
    <3>1. \A i \in Fns : Asked(i)' <=> Asked(i)
      BY <2>2 DEF Asked
    <3>2. ASSUME NEW i \in Fns
          PROVE  /\ Where(i)' = IF Asked(i)' /\ i \notin finished' THEN 1 ELSE 0
                 /\ i \in finished' => Asked(i)'
      <4>1. /\ Where(i) = IF Asked(i) /\ i \notin finished THEN 1 ELSE 0
            /\ i \in finished => Asked(i)
        BY DEF Placed, Located
      <4>2. CASE i = j
        <5>1. Where(i)' = Where(i) - 1 /\ Where(i)' \in Nat /\ i \in finished'
          BY <2>4, <4>2
        <5>2. Where(i) = 1 /\ Asked(i)
          BY <4>1, <5>1
        <5> QED
          BY <3>1, <5>1, <5>2
      <4>3. CASE i # j
        <5>1. Where(i)' = Where(i) - 0 /\ (i \in finished' <=> i \in finished) /\ Where(i) \in {0, 1}
          BY <2>4, <4>1, <4>3
        <5>2. Where(i)' = Where(i)
          BY <5>1
        <5> QED
          BY <3>1, <4>1, <5>1, <5>2
      <4> QED
        BY <4>2, <4>3
    <3> QED
      BY <2>2, <3>2 DEF Placed, Located, Within
  <2> QED
    BY <2>2, <2>3, <2>4
<1>5. ASSUME NEW c \in Clients, Begin(c)
      PROVE  Placed'
  BY <1>5, PlacedBegin
<1> QED
  BY <1>1, <1>2, <1>3, <1>4, <1>5, MostSteady

LEMMA PlacesIs ==
    ASSUME SchedInv, NEW j \in Jobs
    PROVE  /\ Places(j) = Where(j)
           /\ \A t \in Threads : Held(t, j) = Num(stack[t], Holding(j))
<1>1. ASSUME NEW t \in Threads
      PROVE  Held(t, j) = Num(stack[t], Holding(j))
  <2>1. stack[t] \in Seq(Sound)
    BY DEF SchedInv, Stacks
  <2>2. \A i \in DOMAIN stack[t] : stack[t][i] \in Sound
    BY <2>1, ElementOfSeq, LenProperties
  <2>3. {i \in DOMAIN stack[t] : stack[t][i].op \in HoldOps /\ stack[t][i].job = j}
          = Marks(stack[t], Holding(j))
    BY <2>2 DEF Marks, Holding
  <2> QED
    BY <2>3 DEF Held, Num
<1>2. [t \in Threads |-> Held(t, j)] = [t \in Threads |-> Num(stack[t], Holding(j))]
  BY <1>1
<1> QED
  BY <1>1, <1>2 DEF Places, Where, InQueues, Carried, Total

\* A sum of which at most one part is 1 and the others are 0.
LEMMA OneOrNone ==
    ASSUME NEW S, IsFiniteSet(S), NEW F \in [S -> Nat], \A x \in S : F[x] <= 1,
           \A x, y \in S : F[x] > 0 /\ F[y] > 0 => x = y
    PROVE  /\ SumFunction(F) \in {0, 1}
           /\ SumFunction(F) = 1 => \E x \in S : F[x] > 0
<1>1. CASE \E x \in S : F[x] > 0
  <2>1. PICK y \in S : F[y] > 0
    BY <1>1
  <2>2. \A x \in S : x # y => F[x] = 0
    BY <2>1
  <2>3. SumFunction(F) = F[y]
    BY <2>2, SumPoint
  <2>4. F[y] = 1
    BY <2>1
  <2> QED
    BY <1>1, <2>3, <2>4
<1>2. CASE ~\E x \in S : F[x] > 0
  <2>1. \A x \in S : F[x] = 0
    BY <1>2
  <2>2. SumFunction(F) = 0
    BY <2>1, SumZero
  <2> QED
    BY <2>2
<1> QED
  BY <1>1, <1>2

LEMMA OnceNum ==
    ASSUME NEW s \in Seq(Sound), NEW X, NEW Y, Y \subseteq X, OnceIn(s, X)
    PROVE  Num(s, Y) \in {0, 1} /\ (Num(s, Y) > 0 => Has(s, X))
<1>1. CASE Has(s, Y)
  <2>1. PICK i \in DOMAIN s : s[i] \in Y
    BY <1>1 DEF Has
  <2>2. Marks(s, Y) = {i}
    BY <2>1 DEF Marks, OnceIn
  <2>3. Num(s, Y) = 1
    BY <2>2, FS_Singleton DEF Num
  <2> QED
    BY <2>1, <2>3 DEF Has
<1>2. CASE ~Has(s, Y)
  BY <1>2, NumIs
<1> QED
  BY <1>1, <1>2

\* A node of a graph submitted once is in at most one place.
LEMMA NodePlaces ==
    ASSUME SchedInv, GraphInv, NEW n \in Nodes
    PROVE  Places(n) <= 1
<1>1. n \in Jobs /\ Exclusive(queue, stack, n) /\ IsFiniteSet(0..N) /\ IsFiniteSet(Threads)
  BY ThreadsFinite DEF Jobs, GraphInv, GraphOf, Claimed
<1>2. Holding(n) \subseteq Claiming(n)
  BY DEF Holding, Claiming, Claims
<1>3. ASSUME NEW t \in Threads
      PROVE  Num(stack[t], Holding(n)) \in {0, 1} /\ (Num(stack[t], Holding(n)) > 0 => Has(stack[t], Claiming(n)))
  <2>1. stack[t] \in Seq(Sound) /\ OnceIn(stack[t], Claiming(n))
    BY <1>1 DEF SchedInv, Stacks, Exclusive
  <2> QED
    BY <1>2, <2>1, OnceNum
<1>4. PICK F : F = [q \in 0..N |-> queue[q][n]]
  OBVIOUS
<1>5. PICK H : H = [t \in Threads |-> Num(stack[t], Holding(n))]
  OBVIOUS
<1>6. /\ F \in [0..N -> Nat] /\ \A q \in 0..N : F[q] = queue[q][n] /\ F[q] <= 1
      /\ \A q, r \in 0..N : F[q] > 0 /\ F[r] > 0 => q = r
  BY <1>1, <1>4 DEF SchedInv, Values, Exclusive
<1>7. /\ H \in [Threads -> Nat] /\ \A t \in Threads : H[t] <= 1
      /\ \A t \in Threads : H[t] > 0 => Has(stack[t], Claiming(n))
  BY <1>3, <1>5
<1>8. \A t, u \in Threads : H[t] > 0 /\ H[u] > 0 => t = u
  BY <1>1, <1>7 DEF Exclusive
<1>9. SumFunction(F) \in {0, 1} /\ (SumFunction(F) = 1 => \E q \in 0..N : F[q] > 0)
  BY <1>1, <1>6, OneOrNone
<1>10. SumFunction(H) \in {0, 1} /\ (SumFunction(H) = 1 => \E t \in Threads : H[t] > 0)
  BY <1>1, <1>7, <1>8, OneOrNone
<1>11. ~(SumFunction(F) = 1 /\ SumFunction(H) = 1)
  BY <1>1, <1>6, <1>7, <1>9, <1>10 DEF Exclusive
<1>12. Places(n) = SumFunction(F) + SumFunction(H)
  BY <1>1, <1>4, <1>5, PlacesIs DEF Where, InQueues, Carried, Total
<1> QED
  BY <1>9, <1>10, <1>11, <1>12

\* From the call of enqueue() until its body has returned, a function or coroutine
\* is in one queue, once, or carried by one thread: whatever graphs there are,
\* displacing, stealing and suspending neither lose nor copy it.
THEOREM FunctionsPlaced ==
    ASSUME EnqueuedOnce
    PROVE  Spec => [](SchedInv /\ Placed)
<1>1. ASSUME Init
      PROVE  SchedInv /\ Placed
  <2>1. SchedInv /\ \A j \in Fns : Where(j) = 0
    BY <1>1, SchedInit, InitBalance
  <2>2. finished = {} /\ \A j : ~Asked(j)
    BY <1>1 DEF Init, Asked
  <2>3. \A c \in Clients : at[c] <= Len(Script[c]) + 1
    <3>1. \A c \in Clients : at[c] = 1 /\ Len(Script[c]) \in Nat
      BY <1>1, SchedulerAssumption DEF Init
    <3> QED
      BY <3>1
  <2> QED
    BY <2>1, <2>2, <2>3 DEF Placed, Located, Within
<1>2. ASSUME SchedInv /\ Placed, [Next]_vars
      PROVE  (SchedInv /\ Placed)'
  <2>1. SchedInv'
    BY <1>2, SchedStep
  <2> QED
    BY <1>2, <2>1, PlacedStep
<1> QED
  BY <1>1, <1>2, PTL DEF Spec

\* And a node of a graph that is submitted once is never in two places.
THEOREM JobsConserved ==
    ASSUME GraphRules, EnqueuedOnce
    PROVE  Spec => []Conserved
<1>1. ASSUME SchedInv, Placed, GraphInv
      PROVE  Conserved
  <2>1. \A j \in Fns : Places(j) = Where(j)
    BY <1>1, PlacesIs DEF Jobs
  <2>2. \A n \in Nodes : Places(n) <= 1
    BY <1>1, NodePlaces
  <2> QED
    BY <1>1, <2>1, <2>2 DEF Conserved, Placed, Located
<1>2. Spec => [](SchedInv /\ GraphInv)
  BY GraphInvariant
<1>3. Spec => [](SchedInv /\ Placed)
  BY FunctionsPlaced
<1> QED
  BY <1>1, <1>2, <1>3, PTL

===============================================================================
