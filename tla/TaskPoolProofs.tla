--------------------------- MODULE TaskPoolProofs ---------------------------
(* What holds of the scheduling discipline of SimpleThreadManager for every  *)
(* number of workers and every tree of tasks: its type, the discipline of    *)
(* its queues, the meaning of its idle counter, and that its workers are     *)
(* never all waiting for queued tasks.                                       *)
EXTENDS TaskPool, FiniteSetTheorems, TLAPS

-----------------------------------------------------------------------------
(* The idle counter and the types.  They are proved together: idle_ is       *)
(* unsigned, and only its meaning says that idle_-- finds it positive.       *)

\* The idle workers are some of the workers, so they can be counted.
LEMMA IdleFinite == IsFiniteSet(IdleWorkers) /\ Cardinality(IdleWorkers) \in Nat
  BY PoolAssumption, FS_Subset, FS_CardinalityType DEF IdleWorkers

\* A step that moves threads only between the modes that count as busy, or only
\* between those that count as idle, leaves the idle workers alone.
LEMMA IdleUnchanged ==
  ASSUME \A w \in Worker : mode[w] \in {"free", "taken"} <=> mode'[w] \in {"free", "taken"},
         idle' = idle, IdleCountsIdleWorkers
  PROVE  IdleCountsIdleWorkers'
  <1>1. IdleWorkers' = IdleWorkers
    BY DEF IdleWorkers
  <1> QED
    BY <1>1 DEF IdleCountsIdleWorkers

\* Submitting a task, in any of the three ways, keeps types and the idle count.
LEMMA SubmitKeepsTypes ==
  ASSUME TypeOK, IdleCountsIdleWorkers, NEW t \in Thread, Submit(t)
  PROVE  TypeOK' /\ IdleCountsIdleWorkers'
  <1> PICK c \in Task \ {Main} :
        Background(t, c) \/ ExecuteFoundIdle(t, c) \/ PushForeground(t, c) \/ ExecuteInline(t, c)
    BY DEF Submit
  <1>1. TypeOK'
    <2>1. CASE Background(t, c)
      BY <2>1 DEF Background, TypeOK, Status
    <2>2. CASE ExecuteFoundIdle(t, c)
      BY <2>2 DEF ExecuteFoundIdle, TypeOK, Status, Mode
    <2>3. CASE PushForeground(t, c)
      BY <2>3 DEF PushForeground, TypeOK, Status, Mode
    <2>4. CASE ExecuteInline(t, c)
      BY <2>4 DEF ExecuteInline, TypeOK, Status
    <2> QED
      BY <2>1, <2>2, <2>3, <2>4
  <1>2. /\ idle' = idle
        /\ \A w \in Worker : mode[w] \in {"free", "taken"} <=> mode'[w] \in {"free", "taken"}
    BY DEF Background, ExecuteFoundIdle, PushForeground, ExecuteInline, CanSubmit, TypeOK, Thread
  <1> QED
    BY <1>1, <1>2, IdleUnchanged

\* A return, to a body below on the stack or to the worker loop, keeps both.
LEMMA ReturnKeepsTypes ==
  ASSUME TypeOK, IdleCountsIdleWorkers, NEW t \in Thread, Return(t)
  PROVE  TypeOK' /\ IdleCountsIdleWorkers'
  <1>1. TypeOK'
    BY DEF Return, TypeOK, Status, Mode
  <1>2. /\ idle' = idle
        /\ \A w \in Worker : mode[w] \in {"free", "taken"} <=> mode'[w] \in {"free", "taken"}
    BY DEF Return, TypeOK, Thread
  <1> QED
    BY <1>1, <1>2, IdleUnchanged

\* A pop keeps both: the worker counts as idle until its idle_--.
LEMMA PopKeepsTypes ==
  ASSUME TypeOK, IdleCountsIdleWorkers, NEW w \in Worker, Pop(w)
  PROVE  TypeOK' /\ IdleCountsIdleWorkers'
  <1>1. TypeOK'
    <2>1. CASE PopForeground(w)
      BY <2>1 DEF PopForeground, TypeOK, Status, Mode, Thread
    <2>2. CASE PopBackground(w)
      BY <2>2 DEF PopBackground, TypeOK, Status, Mode, Thread
    <2> QED
      BY <2>1, <2>2 DEF Pop
  <1>2. /\ idle' = idle
        /\ \A u \in Worker : mode[u] \in {"free", "taken"} <=> mode'[u] \in {"free", "taken"}
    BY DEF Pop, PopForeground, PopBackground, TypeOK, Thread
  <1> QED
    BY <1>1, <1>2, IdleUnchanged

\* idle_-- removes the worker from the idle ones, and finds the counter positive.
LEMMA BeginKeepsTypes ==
  ASSUME TypeOK, IdleCountsIdleWorkers, NEW w \in Worker, Begin(w)
  PROVE  TypeOK' /\ IdleCountsIdleWorkers'
  <1>1. w \in IdleWorkers /\ IdleWorkers' = IdleWorkers \ {w}
    BY DEF Begin, IdleWorkers, TypeOK, Thread
  <1>2. Cardinality(IdleWorkers') = Cardinality(IdleWorkers) - 1
    BY <1>1, IdleFinite, FS_RemoveElement
  <1>3. idle' \in Nat /\ IdleCountsIdleWorkers'
    <2>1. Cardinality(IdleWorkers') \in Nat
      BY <1>1, IdleFinite, FS_RemoveElement, FS_CardinalityType
    <2> QED
      BY <1>2, <2>1 DEF Begin, IdleCountsIdleWorkers
  <1> QED
    BY <1>3 DEF Begin, TypeOK, Status, Mode, Thread

\* idle_++ puts the worker back among the idle ones.
LEMMA EndKeepsTypes ==
  ASSUME TypeOK, IdleCountsIdleWorkers, NEW w \in Worker, End(w)
  PROVE  TypeOK' /\ IdleCountsIdleWorkers'
  <1>1. w \notin IdleWorkers /\ IdleWorkers' = IdleWorkers \cup {w}
    BY DEF End, IdleWorkers, TypeOK, Thread
  <1>2. Cardinality(IdleWorkers') = Cardinality(IdleWorkers) + 1
    BY <1>1, IdleFinite, FS_AddElement
  <1>3. idle' \in Nat /\ IdleCountsIdleWorkers'
    BY <1>2, IdleFinite DEF End, IdleCountsIdleWorkers, TypeOK
  <1> QED
    BY <1>3 DEF End, TypeOK, Status, Mode, Thread

\* The type invariant and the meaning of idle_, together, are inductive.
LEMMA TypesInductive ==
  ASSUME TypeOK, IdleCountsIdleWorkers, [Next]_poolVars
  PROVE  TypeOK' /\ IdleCountsIdleWorkers'
  <1>1. CASE UNCHANGED poolVars
    <2>1. TypeOK'
      BY <1>1 DEF poolVars, TypeOK
    <2> QED
      BY <1>1, <2>1 DEF poolVars, IdleCountsIdleWorkers, IdleWorkers
  <1>2. CASE \E t \in Thread : Submit(t) \/ Return(t)
    BY <1>2, SubmitKeepsTypes, ReturnKeepsTypes
  <1>3. CASE \E w \in Worker : Pop(w) \/ Begin(w) \/ End(w)
    BY <1>3, PopKeepsTypes, BeginKeepsTypes, EndKeepsTypes
  <1> QED
    BY <1>1, <1>2, <1>3 DEF Next, Terminated

\* Before the first step no worker holds a function, so all of them count.
LEMMA TypesInitially ==
  ASSUME Init
  PROVE  TypeOK /\ IdleCountsIdleWorkers
  <1>1. IdleWorkers = Worker
    BY PoolAssumption DEF Init, IdleWorkers, Thread
  <1>2. Cardinality(Worker) \in Nat
    BY PoolAssumption, FS_CardinalityType
  <1> QED
    BY <1>1, <1>2, PoolAssumption DEF Init, TypeOK, IdleCountsIdleWorkers, Thread, Mode, Status

\* The state of SimpleThreadManager always has its type.
THEOREM TypeCorrect == SafeSpec => []TypeOK
  BY TypesInitially, TypesInductive, PTL DEF SafeSpec

\* idle_ counts exactly the workers outside idle_-- ... idle_++, for every
\* number of workers: it never wraps around and never exceeds thread_limit_.
THEOREM IdleCounts == SafeSpec => []IdleCountsIdleWorkers
  BY TypesInitially, TypesInductive, PTL DEF SafeSpec

-----------------------------------------------------------------------------
(* The queues and the stacks. *)

\* What a push does to a queue.
LEMMA AppendFacts ==
  ASSUME NEW q \in Seq(Task), NEW x \in Task
  PROVE  /\ \A c : Occurs(c, Append(q, x)) <=> Occurs(c, q) \/ c = x
         /\ Distinct(q) /\ ~Occurs(x, q) => Distinct(Append(q, x))
  <1>1. /\ DOMAIN Append(q, x) = DOMAIN q \cup {Len(q) + 1}
        /\ Append(q, x)[Len(q) + 1] = x
        /\ \A i \in DOMAIN q : Append(q, x)[i] = q[i]
    OBVIOUS
  <1>2. Len(q) + 1 \notin DOMAIN q
    OBVIOUS
  <1> QED
    BY <1>1, <1>2 DEF Occurs, Distinct

\* What a pop does to a queue.
LEMMA TailFacts ==
  ASSUME NEW q \in Seq(Task), q # <<>>, Distinct(q)
  PROVE  /\ Head(q) \in Task /\ Occurs(Head(q), q)
         /\ Tail(q) \in Seq(Task) /\ Distinct(Tail(q))
         /\ \A c : Occurs(c, Tail(q)) <=> Occurs(c, q) /\ c # Head(q)
  <1>1. /\ Head(q) = q[1] /\ 1 \in DOMAIN q /\ Tail(q) \in Seq(Task)
        /\ \A i \in DOMAIN Tail(q) : i + 1 \in DOMAIN q /\ i + 1 # 1 /\ Tail(q)[i] = q[i + 1]
        /\ \A i \in DOMAIN q : i # 1 => i - 1 \in DOMAIN Tail(q) /\ (i - 1) + 1 = i
    OBVIOUS
  <1>2. \A i, j \in DOMAIN Tail(q) : i + 1 = j + 1 => i = j
    OBVIOUS
  <1>3. Distinct(Tail(q))
    BY <1>1, <1>2 DEF Distinct
  <1>4. ASSUME NEW c PROVE Occurs(c, Tail(q)) <=> Occurs(c, q) /\ c # Head(q)
    BY <1>1 DEF Occurs, Distinct
  <1> QED
    BY <1>1, <1>3, <1>4 DEF Occurs

Discipline ==
  /\ QueuesHoldWhatIsQueued /\ StackMatchesMode /\ StacksDisjoint
  /\ MainOnClient /\ KidsAfterParent

\* background() puts a task that was nowhere into the background queue.
LEMMA BackgroundKeepsDiscipline ==
  ASSUME TypeOK, Discipline, NEW t \in Thread, NEW c \in Task \ {Main}, Background(t, c)
  PROVE  Discipline'
  <1> USE DEF Background, CanSubmit, TypeOK, Discipline
  <1>1. QueuesHoldWhatIsQueued'
    BY AppendFacts DEF QueuesHoldWhatIsQueued
  <1>2. StackMatchesMode'
    BY DEF StackMatchesMode
  <1>3. StacksDisjoint'
    BY DEF StacksDisjoint
  <1>4. KidsAfterParent'
    BY PoolAssumption DEF KidsAfterParent, StackMatchesMode, Kids
  <1>5. MainOnClient'
    BY PoolAssumption DEF MainOnClient, Thread
  <1> QED
    BY <1>1, <1>2, <1>3, <1>4, <1>5

\* Finding an idle worker only records the decision: nothing is queued yet.
LEMMA FoundIdleKeepsDiscipline ==
  ASSUME TypeOK, Discipline, NEW t \in Thread, NEW c \in Task \ {Main}, ExecuteFoundIdle(t, c)
  PROVE  Discipline'
  <1> USE DEF ExecuteFoundIdle, CanSubmit, TypeOK, Discipline
  <1>1. QueuesHoldWhatIsQueued'
    BY DEF QueuesHoldWhatIsQueued
  <1>2. StackMatchesMode'
    BY DEF StackMatchesMode
  <1>3. StacksDisjoint'
    BY DEF StacksDisjoint
  <1>4. KidsAfterParent'
    BY PoolAssumption DEF KidsAfterParent, StackMatchesMode, Kids
  <1>5. MainOnClient'
    BY PoolAssumption DEF MainOnClient, Thread
  <1> QED
    BY <1>1, <1>2, <1>3, <1>4, <1>5

\* The push of a decided task puts it into the foreground queue, once.
LEMMA PushKeepsDiscipline ==
  ASSUME TypeOK, Discipline, NEW t \in Thread, NEW c \in Task \ {Main}, PushForeground(t, c)
  PROVE  Discipline'
  <1> USE DEF PushForeground, TypeOK, Discipline
  <1>1. QueuesHoldWhatIsQueued'
    BY AppendFacts DEF QueuesHoldWhatIsQueued
  <1>2. StackMatchesMode'
    BY DEF StackMatchesMode
  <1>3. StacksDisjoint'
    BY DEF StacksDisjoint
  <1>4. KidsAfterParent'
    BY PoolAssumption DEF KidsAfterParent, StackMatchesMode, Kids
  <1>5. MainOnClient'
    BY PoolAssumption DEF MainOnClient, Thread
  <1> QED
    BY <1>1, <1>2, <1>3, <1>4, <1>5

\* What an inline call does to the caller's stack.
LEMMA PushStackFacts ==
  ASSUME NEW s \in Seq(Task), NEW c \in Task
  PROVE  /\ <<c>> \o s # <<>> /\ Head(<<c>> \o s) = c /\ Tail(<<c>> \o s) = s
         /\ DOMAIN (<<c>> \o s) = 1 .. Len(s) + 1
         /\ (<<c>> \o s)[1] = c
         /\ \A i \in 2 .. Len(s) + 1 : i - 1 \in DOMAIN s /\ (<<c>> \o s)[i] = s[i - 1]
  OBVIOUS

\* A task run inline was on no stack, and goes onto its caller's.
LEMMA InlineKeepsDiscipline ==
  ASSUME TypeOK, Discipline, NEW t \in Thread, NEW c \in Task \ {Main}, ExecuteInline(t, c)
  PROVE  Discipline'
  <1> USE DEF ExecuteInline, CanSubmit, TypeOK, Discipline
  <1>1. QueuesHoldWhatIsQueued'
    BY DEF QueuesHoldWhatIsQueued
  <1>2. \A u \in Thread : \A i \in DOMAIN stack[u] : stack[u][i] # c
    BY DEF StackMatchesMode
  <1>3. StackMatchesMode'
    BY <1>2, PushStackFacts DEF StackMatchesMode
  <1>4. StacksDisjoint'
    BY <1>2, PushStackFacts DEF StacksDisjoint
  <1>5. KidsAfterParent'
    BY PoolAssumption DEF KidsAfterParent, StackMatchesMode, Kids
  <1>6. MainOnClient'
    BY <1>2, PushStackFacts, PoolAssumption DEF MainOnClient, Thread
  <1> QED
    BY <1>1, <1>3, <1>4, <1>5, <1>6

\* What a return does to the stack.
LEMMA PopStackFacts ==
  ASSUME NEW s \in Seq(Task), s # <<>>
  PROVE  /\ Head(s) \in Task /\ Head(s) = s[1] /\ 1 \in DOMAIN s /\ Tail(s) \in Seq(Task)
         /\ \A i \in DOMAIN Tail(s) : i + 1 \in DOMAIN s /\ i + 1 # 1 /\ Tail(s)[i] = s[i + 1]
  OBVIOUS

\* The task that returns was the innermost of its stack and on no other.
LEMMA ReturnKeepsDiscipline ==
  ASSUME TypeOK, Discipline, NEW t \in Thread, Return(t)
  PROVE  Discipline'
  <1> USE DEF Return, TypeOK, Discipline
  <1> DEFINE c == Head(stack[t])
  <1>0. /\ c \in Task /\ c = stack[t][1] /\ 1 \in DOMAIN stack[t] /\ Tail(stack[t]) \in Seq(Task)
        /\ \A i \in DOMAIN Tail(stack[t]) :
             i + 1 \in DOMAIN stack[t] /\ i + 1 # 1 /\ Tail(stack[t])[i] = stack[t][i + 1]
    BY PopStackFacts
  <1>1. QueuesHoldWhatIsQueued'
    <2>1. status[c] = "running"
      BY <1>0 DEF StackMatchesMode
    <2>2. status'[c] = "done" /\ \A k \in Task : k # c => status'[k] = status[k]
      BY <1>0
    <2>3. \A k \in Task : status'[k] = "queued" <=> status[k] = "queued"
      BY <2>1, <2>2
    <2> QED
      BY <2>3 DEF QueuesHoldWhatIsQueued, Occurs
  <1>2. \A u \in Thread : \A i \in DOMAIN stack'[u] : stack'[u][i] # c
    <2> SUFFICES ASSUME NEW u \in Thread, NEW i \in DOMAIN stack'[u] PROVE stack'[u][i] # c
      OBVIOUS
    <2>1. CASE u = t
      BY <1>0, <2>1 DEF StacksDisjoint
    <2>2. CASE u # t
      BY <1>0, <2>2 DEF StacksDisjoint
    <2> QED
      BY <2>1, <2>2
  <1>3. StackMatchesMode'
    BY <1>0, <1>2 DEF StackMatchesMode
  <1>4. StacksDisjoint'
    BY <1>0 DEF StacksDisjoint
  <1>5. KidsAfterParent'
    <2>1. status[c] # "new"
      BY <1>0 DEF StackMatchesMode
    <2> QED
      BY <1>0, <2>1, PoolAssumption DEF KidsAfterParent
  <1>6. MainOnClient'
    BY <1>0, <1>2, PoolAssumption DEF MainOnClient, Thread
  <1> QED
    BY <1>1, <1>3, <1>4, <1>5, <1>6

\* The task a worker takes from the foreground queue was on no stack.
LEMMA PopForegroundKeepsDiscipline ==
  ASSUME TypeOK, Discipline, NEW w \in Worker, PopForeground(w)
  PROVE  Discipline'
  <1> USE DEF PopForeground, TypeOK, Discipline, Thread
  <1> DEFINE c == Head(fg_funcs)
  <1>0. status[c] = "queued" /\ c \in Task
    BY TailFacts DEF QueuesHoldWhatIsQueued
  <1>1. QueuesHoldWhatIsQueued'
    BY TailFacts DEF QueuesHoldWhatIsQueued
  <1>2. \A u \in Thread : \A i \in DOMAIN stack[u] : stack[u][i] # c
    BY <1>0 DEF StackMatchesMode
  <1>3. StackMatchesMode'
    BY <1>0, <1>2 DEF StackMatchesMode
  <1>4. StacksDisjoint'
    BY <1>2 DEF StacksDisjoint
  <1>5. KidsAfterParent'
    BY <1>0, PoolAssumption DEF KidsAfterParent
  <1>6. MainOnClient'
    BY <1>0, PoolAssumption DEF MainOnClient, Thread
  <1> QED
    BY <1>1, <1>3, <1>4, <1>5, <1>6

\* The same of the background queue.
LEMMA PopBackgroundKeepsDiscipline ==
  ASSUME TypeOK, Discipline, NEW w \in Worker, PopBackground(w)
  PROVE  Discipline'
  <1> USE DEF PopBackground, TypeOK, Discipline, Thread
  <1> DEFINE c == Head(bg_funcs)
  <1>0. status[c] = "queued" /\ c \in Task
    BY TailFacts DEF QueuesHoldWhatIsQueued
  <1>1. QueuesHoldWhatIsQueued'
    BY TailFacts DEF QueuesHoldWhatIsQueued
  <1>2. \A u \in Thread : \A i \in DOMAIN stack[u] : stack[u][i] # c
    BY <1>0 DEF StackMatchesMode
  <1>3. StackMatchesMode'
    BY <1>0, <1>2 DEF StackMatchesMode
  <1>4. StacksDisjoint'
    BY <1>2 DEF StacksDisjoint
  <1>5. KidsAfterParent'
    BY <1>0, PoolAssumption DEF KidsAfterParent
  <1>6. MainOnClient'
    BY <1>0, PoolAssumption DEF MainOnClient, Thread
  <1> QED
    BY <1>1, <1>3, <1>4, <1>5, <1>6

\* A worker that begins holds exactly the task it took.
LEMMA BeginKeepsDiscipline ==
  ASSUME TypeOK, Discipline, NEW w \in Worker, Begin(w)
  PROVE  Discipline'
  <1> USE DEF Begin, TypeOK, Discipline, Thread
  <1> DEFINE c == Head(stack[w])
  <1>0. /\ stack[w] # <<>> /\ c \in Task /\ c = stack[w][1] /\ 1 \in DOMAIN stack[w]
        /\ status[c] = "taken"
        /\ \A i \in DOMAIN stack[w] : i = 1
    <2>1. stack[w] # <<>>
      BY DEF StackMatchesMode
    <2>2. c \in Task /\ c = stack[w][1] /\ 1 \in DOMAIN stack[w]
      BY <2>1, PopStackFacts
    <2> QED
      BY <2>1, <2>2 DEF StackMatchesMode
  <1>1. QueuesHoldWhatIsQueued'
    BY <1>0 DEF QueuesHoldWhatIsQueued
  <1>2. \A u \in Thread : \A i \in DOMAIN stack[u] : stack[u][i] = c => u = w
    BY <1>0 DEF StacksDisjoint
  <1>3. StackMatchesMode'
    BY <1>0, <1>2 DEF StackMatchesMode
  <1>4. StacksDisjoint'
    BY DEF StacksDisjoint
  <1>5. KidsAfterParent'
    BY <1>0, PoolAssumption DEF KidsAfterParent
  <1>6. MainOnClient'
    BY <1>0, PoolAssumption DEF MainOnClient, Thread
  <1> QED
    BY <1>1, <1>3, <1>4, <1>5, <1>6

\* idle_++ touches neither queues nor stacks.
LEMMA EndKeepsDiscipline ==
  ASSUME TypeOK, Discipline, NEW w \in Worker, End(w)
  PROVE  Discipline'
  <1> USE DEF End, TypeOK, Discipline, Thread
  <1>1. QueuesHoldWhatIsQueued'
    BY DEF QueuesHoldWhatIsQueued
  <1>2. StackMatchesMode'
    BY DEF StackMatchesMode
  <1>3. StacksDisjoint'
    BY DEF StacksDisjoint
  <1>4. KidsAfterParent'
    BY DEF KidsAfterParent
  <1>5. MainOnClient'
    BY PoolAssumption DEF MainOnClient, Thread
  <1> QED
    BY <1>1, <1>2, <1>3, <1>4, <1>5

\* One step of the pool keeps the discipline of queues and stacks.
LEMMA DisciplineInductive ==
  ASSUME TypeOK, Discipline, [Next]_poolVars
  PROVE  Discipline'
  <1>1. CASE UNCHANGED poolVars
    BY <1>1 DEF poolVars, Discipline, QueuesHoldWhatIsQueued, Distinct, Occurs,
                StackMatchesMode, StacksDisjoint, MainOnClient, KidsAfterParent
  <1>2. CASE \E t \in Thread : Submit(t) \/ Return(t)
    BY <1>2, BackgroundKeepsDiscipline, FoundIdleKeepsDiscipline, PushKeepsDiscipline,
       InlineKeepsDiscipline, ReturnKeepsDiscipline DEF Submit
  <1>3. CASE \E w \in Worker : Pop(w) \/ Begin(w) \/ End(w)
    BY <1>3, PopForegroundKeepsDiscipline, PopBackgroundKeepsDiscipline,
       BeginKeepsDiscipline, EndKeepsDiscipline DEF Pop
  <1> QED
    BY <1>1, <1>2, <1>3 DEF Next, Terminated

\* At the start only Main is on a stack and nothing is queued.
LEMMA DisciplineInitially ==
  ASSUME Init
  PROVE  Discipline
  <1> USE PoolAssumption DEF Init, Thread
  <1>1. QueuesHoldWhatIsQueued
    BY DEF QueuesHoldWhatIsQueued, Occurs, Distinct
  <1>2. StackMatchesMode
    BY DEF StackMatchesMode
  <1>3. StacksDisjoint
    BY DEF StacksDisjoint
  <1>4. MainOnClient
    BY DEF MainOnClient
  <1>5. KidsAfterParent
    BY DEF KidsAfterParent
  <1> QED
    BY <1>1, <1>2, <1>3, <1>4, <1>5 DEF Discipline

\* However pops, pushes, inline calls and returns interleave, a task that is
\* queued is at one place of one queue, and a task that is not is at none.
THEOREM QueuesDisciplined == SafeSpec => []QueuesHoldWhatIsQueued
  <1>1. Discipline => QueuesHoldWhatIsQueued
    BY DEF Discipline
  <1> QED
    BY <1>1, TypesInitially, TypesInductive, DisciplineInitially, DisciplineInductive, PTL
    DEF SafeSpec

-----------------------------------------------------------------------------
(* The workers are never all stuck. *)

\* Freshness in the next state, frame by frame.
LEMMA FreshFrames ==
  ASSUME NEW w \in Worker, mode'[w] # "push",
         \A j \in DOMAIN stack'[w] : \A p, k :
           p = stack'[w][j] /\ k \in Pending(p)' => j > 1 /\ stack'[w][j - 1] = k
  PROVE  Fresh(w)'
  BY DEF Fresh, Pending

\* A worker whose stack does not change stays fresh if the tasks on it have
\* submitted nothing meanwhile.
LEMMA FreshStays ==
  ASSUME NEW w \in Worker, Fresh(w), stack'[w] = stack[w], mode'[w] = mode[w],
         \A i \in DOMAIN stack[w] : \A p : p = stack[w][i] => Pending(p)' \subseteq Pending(p)
  PROVE  Fresh(w)'
  BY FreshFrames DEF Fresh

\* A submission while every worker is busy keeps a fresh worker: background()
\* is not called on a worker, nobody finds an idle worker, a fresh worker has
\* nothing left to push, and what it runs inline it runs itself.
LEMMA SubmitKeepsFresh ==
  ASSUME TypeOK, IdleCountsIdleWorkers, Discipline, SomeBusyWorkerFresh,
         NEW t \in Thread, Submit(t), IdleWorkers' = {}
  PROVE  \E w \in Worker : Fresh(w)'
  <1> USE DEF TypeOK, Discipline
  <1> PICK c \in Task \ {Main} :
        Background(t, c) \/ ExecuteFoundIdle(t, c) \/ PushForeground(t, c) \/ ExecuteInline(t, c)
    BY DEF Submit
  <1>1. IdleWorkers = {} /\ idle = 0
    <2>1. IdleWorkers = {}
      BY DEF Background, ExecuteFoundIdle, PushForeground, ExecuteInline, CanSubmit,
             IdleWorkers, Thread
    <2> QED
      BY <2>1, FS_EmptySet DEF IdleCountsIdleWorkers
  <1> PICK w \in Worker : Fresh(w)
    BY <1>1 DEF SomeBusyWorkerFresh
  <1>2. CASE Background(t, c)
    <2>1. t # w
      BY <1>2, PopStackFacts, PoolAssumption
      DEF Background, CanSubmit, Kids, MainOnClient, Thread
    <2>2. stack'[w] = stack[w] /\ mode'[w] = mode[w]
      BY <1>2 DEF Background
    <2>3. \A i \in DOMAIN stack[w] : c \notin Kids(stack[w][i])
      BY <1>2, PoolAssumption DEF Background, Kids, MainOnClient
    <2>4. \A p : c \notin Kids(p) => Pending(p)' = Pending(p)
      BY <1>2 DEF Background, Pending, Kids
    <2> QED
      BY <2>2, <2>3, <2>4, FreshStays
  <1>3. CASE ExecuteFoundIdle(t, c)
    BY <1>1, <1>3 DEF ExecuteFoundIdle
  <1>4. CASE PushForeground(t, c)
    <2>1. t # w
      BY <1>4 DEF PushForeground, Fresh
    <2>2. stack'[w] = stack[w] /\ mode'[w] = mode[w]
      BY <1>4, <2>1 DEF PushForeground
    <2>3. \A p : Pending(p)' = Pending(p)
      BY <1>4 DEF PushForeground, Pending, Kids
    <2> QED
      BY <2>2, <2>3, FreshStays
  <1>5. CASE ExecuteInline(t, c)
    <2>1. CASE t # w
      <3>1. stack'[w] = stack[w] /\ mode'[w] = mode[w]
        BY <1>5, <2>1 DEF ExecuteInline
      <3>2. \A i \in DOMAIN stack[w] : c \notin Kids(stack[w][i])
        BY <1>5, <2>1, PopStackFacts DEF ExecuteInline, CanSubmit, Kids, StacksDisjoint, Thread
      <3>3. \A p : c \notin Kids(p) => Pending(p)' = Pending(p)
        BY <1>5 DEF ExecuteInline, Pending, Kids
      <3> QED
        BY <3>1, <3>2, <3>3, FreshStays
    <2>2. CASE t = w
      <3>1. /\ mode'[w] = "body"
            /\ stack'[w] = <<c>> \o stack[w]
            /\ stack[w] \in Seq(Task)
            /\ status' = [status EXCEPT ![c] = "running"]
        BY <1>5, <2>2 DEF ExecuteInline, CanSubmit, Thread
      <3>2. Pending(c)' = {}
        <4>1. \A k \in Kids(c) : status[k] = "new" /\ k # c
          <5>1. status[c] = "new" /\ Parent[c] = stack[w][1] /\ 1 \in DOMAIN stack[w]
            BY <1>5, <2>2, <3>1, PopStackFacts DEF ExecuteInline, CanSubmit, Kids
          <5>2. status[stack[w][1]] # "new"
            BY <5>1 DEF StackMatchesMode, Thread
          <5>3. \A k \in Kids(c) : k \in Task \ {Main} /\ Parent[k] = c
            BY DEF Kids
          <5>4. \A k \in Kids(c) : status[k] = "new"
            BY <5>1, <5>3 DEF KidsAfterParent
          <5> QED
            BY <5>1, <5>2, <5>3, <5>4
        <4> QED
          BY <3>1, <4>1 DEF Pending, Kids
      <3>3. \A p : Pending(p)' \subseteq Pending(p) \cup {c}
        BY <3>1 DEF Pending, Kids
      <3>4. \A i \in DOMAIN stack[w] : i # 1 => c \notin Kids(stack[w][i])
        BY <1>5, <2>2, PopStackFacts DEF ExecuteInline, CanSubmit, Kids, StacksDisjoint, Thread
      <3>5. ASSUME NEW j \in DOMAIN stack'[w], NEW p, NEW k,
                   p = stack'[w][j], k \in Pending(p)'
            PROVE  j > 1 /\ stack'[w][j - 1] = k
        <4>1. j # 1
          BY <3>1, <3>2, <3>5, PushStackFacts
        <4>2. j \in 2 .. Len(stack[w]) + 1
          BY <3>1, <4>1, PushStackFacts
        <4>3. j - 1 \in DOMAIN stack[w] /\ stack'[w][j] = stack[w][j - 1]
          BY <3>1, <4>2, PushStackFacts
        <4>4. CASE k = c
          <5>1. k \in Kids(stack[w][j - 1])
            BY <3>5, <4>3 DEF Pending, Kids
          <5>2. j - 1 = 1
            BY <3>4, <4>3, <4>4, <5>1
          <5> QED
            BY <3>1, <4>2, <4>4, <5>2, PushStackFacts
        <4>5. CASE k # c
          <5>1. k \in Pending(stack[w][j - 1])
            <6>1. k \in Pending(p)
              BY <3>3, <3>5, <4>5
            <6> QED
              BY <3>5, <4>3, <6>1
          <5>2. j - 1 > 1 /\ stack[w][j - 2] = k
            <6>1. \A i \in DOMAIN stack[w] : \A q \in Pending(stack[w][i]) :
                    i > 1 /\ stack[w][i - 1] = q
              BY DEF Fresh
            <6>2. (j - 1) - 1 = j - 2
              BY <4>2
            <6> QED
              BY <4>3, <5>1, <6>1, <6>2
          <5>3. j - 1 \in 2 .. Len(stack[w]) + 1 /\ (j - 1) - 1 = j - 2
            BY <4>2, <5>2
          <5>4. stack'[w][j - 1] = stack[w][j - 2]
            BY <3>1, <5>3, PushStackFacts
          <5> QED
            BY <4>2, <5>2, <5>4
        <4> QED
          BY <4>4, <4>5
      <3> QED
        BY <3>1, <3>5, FreshFrames
    <2> QED
      BY <2>1, <2>2
  <1> QED
    BY <1>2, <1>3, <1>4, <1>5

\* A return only takes tasks off stacks and makes them done.
LEMMA ReturnKeepsFresh ==
  ASSUME TypeOK, Discipline, SomeBusyWorkerFresh, NEW t \in Thread, Return(t), IdleWorkers' = {}
  PROVE  \E w \in Worker : Fresh(w)'
  <1> USE DEF TypeOK, Discipline
  <1>1. IdleWorkers = {}
    BY DEF Return, IdleWorkers, Thread
  <1> PICK w \in Worker : Fresh(w)
    BY <1>1 DEF SomeBusyWorkerFresh
  <1> DEFINE c == Head(stack[t])
  <1>2. /\ status' = [status EXCEPT ![c] = "done"]
        /\ \A p : Pending(p)' \subseteq Pending(p) \ {c}
    BY DEF Return, Pending, Kids
  <1>3. CASE t # w
    <2>1. stack'[w] = stack[w] /\ mode'[w] = mode[w]
      BY <1>3 DEF Return
    <2> QED
      BY <1>2, <2>1, FreshStays
  <1>4. CASE t = w
    <2>1. /\ mode'[w] # "push"
          /\ stack'[w] = Tail(stack[w])
          /\ stack[w] \in Seq(Task) /\ stack[w] # <<>> /\ c = stack[w][1]
      BY <1>4, PopStackFacts DEF Return
    <2>2. ASSUME NEW j \in DOMAIN stack'[w], NEW p, NEW k,
                 p = stack'[w][j], k \in Pending(p)'
          PROVE  j > 1 /\ stack'[w][j - 1] = k
      <3>1. j + 1 \in DOMAIN stack[w] /\ stack'[w][j] = stack[w][j + 1] /\ j \in Nat
        BY <2>1, PopStackFacts
      <3>2. k \in Pending(stack[w][j + 1]) /\ k # c
        BY <1>2, <2>2, <3>1
      <3>3. stack[w][(j + 1) - 1] = k /\ (j + 1) - 1 = j
        <4>1. \A i \in DOMAIN stack[w] : \A q \in Pending(stack[w][i]) :
                i > 1 /\ stack[w][i - 1] = q
          BY DEF Fresh
        <4>2. (j + 1) - 1 = j
          BY <3>1
        <4> QED
          BY <3>1, <3>2, <4>1, <4>2
      <3>4. j # 1
        BY <2>1, <3>2, <3>3
      <3>5. j - 1 \in DOMAIN Tail(stack[w]) /\ (j - 1) + 1 = j
        BY <2>1, <3>1, <3>4
      <3>6. stack'[w][j - 1] = stack[w][j]
        BY <2>1, <3>5, PopStackFacts
      <3> QED
        <4>1. j > 1
          BY <2>1, <3>1, <3>4
        <4> QED
          BY <3>1, <3>3, <3>6, <4>1
    <2> QED
      BY <2>1, <2>2, FreshFrames
  <1> QED
    BY <1>3, <1>4

\* The last worker to become busy has submitted nothing yet.
LEMMA BeginIsFresh ==
  ASSUME TypeOK, Discipline, NEW w \in Worker, Begin(w)
  PROVE  Fresh(w)'
  <1> USE DEF TypeOK, Discipline, Begin
  <1> DEFINE c == Head(stack[w])
  <1>1. /\ w \in Thread /\ stack[w] \in Seq(Task) /\ stack[w] # <<>>
        /\ stack'[w] = stack[w] /\ mode'[w] = "body"
    BY DEF StackMatchesMode, Thread
  <1>2. /\ c \in Task /\ c = stack[w][1] /\ 1 \in DOMAIN stack[w]
        /\ Len(stack[w]) = 1
    BY <1>1, PopStackFacts DEF StackMatchesMode
  <1>3. status[c] = "taken"
    <2>1. \A i \in DOMAIN stack[w] : status[stack[w][i]] = "taken"
      BY <1>1 DEF StackMatchesMode
    <2> QED
      BY <1>2, <2>1
  <1>4. \A k \in Kids(c) : status[k] = "new" /\ k # c
    BY <1>3, PoolAssumption DEF KidsAfterParent, Kids
  <1>5. Pending(c)' = {}
    BY <1>4 DEF Pending, Kids
  <1>6. \A i \in DOMAIN stack[w] : stack[w][i] = c
    BY <1>1, <1>2
  <1> QED
    BY <1>1, <1>5, <1>6, FreshFrames

\* Whenever every worker is busy, one of them is fresh.
LEMMA FreshInductive ==
  ASSUME TypeOK, IdleCountsIdleWorkers, Discipline, SomeBusyWorkerFresh, [Next]_poolVars
  PROVE  SomeBusyWorkerFresh'
  <1> SUFFICES ASSUME IdleWorkers' = {} PROVE \E w \in Worker : Fresh(w)'
    BY DEF SomeBusyWorkerFresh
  <1>1. CASE UNCHANGED poolVars
    BY <1>1 DEF poolVars, SomeBusyWorkerFresh, IdleWorkers, Fresh, Pending, Kids
  <1>2. CASE \E t \in Thread : Submit(t) \/ Return(t)
    BY <1>2, SubmitKeepsFresh, ReturnKeepsFresh
  <1>3. ASSUME NEW w \in Worker, Pop(w) \/ End(w) PROVE FALSE
    BY <1>3 DEF Pop, PopForeground, PopBackground, End, IdleWorkers, TypeOK, Thread
  <1>4. CASE \E w \in Worker : Begin(w)
    BY <1>4, BeginIsFresh
  <1> QED
    BY <1>1, <1>2, <1>3, <1>4 DEF Next, Terminated

\* A fresh worker is not stuck, and neither is an idle one.
LEMMA FreshNotStuck ==
  ASSUME TypeOK, SomeBusyWorkerFresh
  PROVE  NeverAllStuck
  <1>1. CASE IdleWorkers # {}
    BY <1>1 DEF IdleWorkers, NeverAllStuck, Stuck
  <1>2. CASE IdleWorkers = {}
    <2> PICK w \in Worker : Fresh(w)
      BY <1>2 DEF SomeBusyWorkerFresh
    <2>1. CASE stack[w] = <<>>
      BY <2>1 DEF NeverAllStuck, Stuck
    <2>2. CASE stack[w] # <<>>
      <3>1. Head(stack[w]) = stack[w][1] /\ 1 \in DOMAIN stack[w]
        BY <2>2, PopStackFacts DEF TypeOK, Thread
      <3>2. Pending(Head(stack[w])) = {}
        BY <3>1 DEF Fresh
      <3> QED
        BY <3>2 DEF NeverAllStuck, Stuck
    <2> QED
      BY <2>1, <2>2
  <1> QED
    BY <1>1, <1>2

\* For every number of workers and every tree of joined tasks, some worker is
\* not waiting for a task that another must run: execute()'s unlocked test of
\* idle_ never lets nested joins use up the pool.
THEOREM PoolNeverWedges == SafeSpec => []NeverAllStuck
  <1>1. Init => SomeBusyWorkerFresh
    <2> SUFFICES ASSUME Init PROVE IdleWorkers # {}
      BY DEF SomeBusyWorkerFresh
    <2> QED
      BY PoolAssumption DEF Init, IdleWorkers, Thread
  <1> QED
    BY <1>1, TypesInitially, TypesInductive, DisciplineInitially, DisciplineInductive,
       FreshInductive, FreshNotStuck, PTL DEF SafeSpec

-----------------------------------------------------------------------------
(* The pool does what an executor promises.                                  *)

\* A step that only moves submitted tasks about, or none at all, is invisible.
LEMMA Invisible ==
  ASSUME TypeOK,
         \A c \in Task : \/ status'[c] = status[c]
                         \/ {status[c], status'[c]} \subseteq {"pushing", "queued", "taken"}
  PROVE  TaskState' = TaskState
  BY DEF TaskState

\* The innermost task of a thread that is in a body is running.
LEMMA InnermostRuns ==
  ASSUME TypeOK, Discipline, NEW t \in Thread, mode[t] = "body", stack[t] # <<>>
  PROVE  Head(stack[t]) \in Task /\ status[Head(stack[t])] = "running"
  <1>1. Head(stack[t]) \in Task /\ Head(stack[t]) = stack[t][1] /\ 1 \in DOMAIN stack[t]
    BY PopStackFacts DEF TypeOK
  <1> QED
    BY <1>1 DEF Discipline, StackMatchesMode

\* Submitting, queueing and running inline are the executor's Submit, a
\* stutter, and its RunInline.
LEMMA SubmitImplements ==
  ASSUME TypeOK, Discipline, NEW t \in Thread, Submit(t)
  PROVE  [Promise!Next]_TaskState
  <1> PICK c \in Task \ {Main} :
        Background(t, c) \/ ExecuteFoundIdle(t, c) \/ PushForeground(t, c) \/ ExecuteInline(t, c)
    BY DEF Submit
  <1>1. CanSubmit(t, c) => status[Parent[c]] = "running" /\ Parent[c] \in Task
    BY InnermostRuns DEF CanSubmit, Kids
  <1>2. CASE Background(t, c) \/ ExecuteFoundIdle(t, c)
    <2>1. Promise!Submit(c)
      BY <1>1, <1>2
      DEF Background, ExecuteFoundIdle, CanSubmit, Promise!Submit, TaskState, TypeOK
    <2> QED
      BY <2>1 DEF Promise!Next
  <1>3. CASE PushForeground(t, c)
    BY <1>3, Invisible DEF PushForeground, TypeOK
  <1>4. CASE ExecuteInline(t, c)
    <2>1. Promise!RunInline(c)
      BY <1>1, <1>4 DEF ExecuteInline, CanSubmit, Promise!RunInline, TaskState, TypeOK
    <2> QED
      BY <2>1 DEF Promise!Next
  <1> QED
    BY <1>2, <1>3, <1>4

\* A return completes the innermost task, after its kids if it joins them.
LEMMA ReturnImplements ==
  ASSUME TypeOK, Discipline, NEW t \in Thread, Return(t)
  PROVE  [Promise!Next]_TaskState
  <1> DEFINE c == Head(stack[t])
  <1>1. c \in Task /\ status[c] = "running"
    BY InnermostRuns DEF Return
  <1>2. c \in Joins => \A k \in Promise!Kids(c) : TaskState[k] \in {"new", "done"}
    BY DEF Return, Pending, Kids, Promise!Kids, TaskState
  <1>3. TaskState' = [TaskState EXCEPT ![c] = "done"]
    BY <1>1 DEF Return, TaskState, TypeOK
  <1>4. Promise!Complete(c)
    BY <1>1, <1>2, <1>3 DEF Promise!Complete, TaskState
  <1> QED
    BY <1>1, <1>4 DEF Promise!Next

\* Of the worker loop, only the call itself is visible.
LEMMA LoopImplements ==
  ASSUME TypeOK, Discipline, NEW w \in Worker, Pop(w) \/ Begin(w) \/ End(w)
  PROVE  [Promise!Next]_TaskState
  <1>1. CASE PopForeground(w)
    <2>1. Head(fg_funcs) \in Task /\ status[Head(fg_funcs)] = "queued"
      BY <1>1, TailFacts DEF PopForeground, Discipline, QueuesHoldWhatIsQueued, TypeOK
    <2> QED
      BY <1>1, <2>1, Invisible DEF PopForeground, TypeOK
  <1>2. CASE PopBackground(w)
    <2>1. Head(bg_funcs) \in Task /\ status[Head(bg_funcs)] = "queued"
      BY <1>2, TailFacts DEF PopBackground, Discipline, QueuesHoldWhatIsQueued, TypeOK
    <2> QED
      BY <1>2, <2>1, Invisible DEF PopBackground, TypeOK
  <1>3. CASE Begin(w)
    <2> DEFINE c == Head(stack[w])
    <2>1. stack[w] # <<>> /\ stack[w] \in Seq(Task)
      BY <1>3 DEF Begin, Discipline, StackMatchesMode, Thread, TypeOK
    <2>2. c \in Task /\ c = stack[w][1] /\ 1 \in DOMAIN stack[w]
      BY <2>1, PopStackFacts
    <2>3. status[c] = "taken"
      BY <1>3, <2>2 DEF Begin, Discipline, StackMatchesMode, Thread
    <2>4. Promise!Start(c)
      BY <1>3, <2>2, <2>3 DEF Begin, Promise!Start, TaskState, TypeOK
    <2> QED
      BY <2>2, <2>4 DEF Promise!Next
  <1>4. CASE End(w)
    BY <1>4, Invisible DEF End
  <1> QED
    BY <1>1, <1>2, <1>3, <1>4 DEF Pop

\* The worker loop sets nothing going that was not submitted, and nothing again.
LEMMA LoopRunsSubmitted ==
  ASSUME TypeOK, Discipline, NEW w \in Worker, Pop(w) \/ Begin(w) \/ End(w)
  PROVE  \A c \in Task : \/ status'[c] = status[c]
                         \/ {status[c], status'[c]} \subseteq {"queued", "taken", "running"}
  <1>1. CASE PopForeground(w)
    <2>1. Head(fg_funcs) \in Task /\ status[Head(fg_funcs)] = "queued"
      BY <1>1, TailFacts DEF PopForeground, Discipline, QueuesHoldWhatIsQueued, TypeOK
    <2> QED
      BY <1>1, <2>1 DEF PopForeground, TypeOK
  <1>2. CASE PopBackground(w)
    <2>1. Head(bg_funcs) \in Task /\ status[Head(bg_funcs)] = "queued"
      BY <1>2, TailFacts DEF PopBackground, Discipline, QueuesHoldWhatIsQueued, TypeOK
    <2> QED
      BY <1>2, <2>1 DEF PopBackground, TypeOK
  <1>3. CASE Begin(w)
    <2>1. stack[w] # <<>> /\ stack[w] \in Seq(Task)
      BY <1>3 DEF Begin, Discipline, StackMatchesMode, Thread, TypeOK
    <2>2. Head(stack[w]) = stack[w][1] /\ 1 \in DOMAIN stack[w]
      BY <2>1, PopStackFacts
    <2>3. status[Head(stack[w])] = "taken"
      BY <1>3, <2>2 DEF Begin, Discipline, StackMatchesMode, Thread
    <2> QED
      BY <1>3, <2>3 DEF Begin, TypeOK
  <1>4. CASE End(w)
    BY <1>4 DEF End
  <1> QED
    BY <1>1, <1>2, <1>3, <1>4 DEF Pop

\* Every behaviour of the pool is one of the executor: each submitted task is
\* run at most once, none that was not submitted, and a joining task returns
\* after all it submitted (the safety half of ImplementsExecutor).
THEOREM PoolImplementsExecutor == SafeSpec => Promise!SafeSpec
  <1>1. Init => Promise!Init
    BY DEF Init, Promise!Init, TaskState
  <1>2. TypeOK /\ Discipline /\ [Next]_poolVars => [Promise!Next]_TaskState
    <2> SUFFICES ASSUME TypeOK, Discipline, [Next]_poolVars PROVE [Promise!Next]_TaskState
      OBVIOUS
    <2>1. CASE UNCHANGED poolVars
      BY <2>1 DEF poolVars, TaskState
    <2>2. CASE \E t \in Thread : Submit(t) \/ Return(t)
      BY <2>2, SubmitImplements, ReturnImplements
    <2>3. CASE \E w \in Worker : Pop(w) \/ Begin(w) \/ End(w)
      BY <2>3, LoopImplements
    <2> QED
      BY <2>1, <2>2, <2>3 DEF Next, Terminated
  <1> QED
    BY <1>1, <1>2, TypesInitially, TypesInductive, DisciplineInitially, DisciplineInductive, PTL
    DEF SafeSpec, Promise!SafeSpec

-----------------------------------------------------------------------------
(* When Main has returned. *)

\* What a task that joins has submitted is over when it is.
JoinsAreOver == \A c \in Task \ {Main} :
  Parent[c] \in Joins /\ status[Parent[c]] = "done" => status[c] \in {"new", "done"}

\* A task that has begun is on the stack of some thread until it returns.
OnSomeStack == \A c \in Task : status[c] \in {"taken", "running"} =>
  \E t \in Thread : \E j \in DOMAIN stack[t] : stack[t][j] = c

\* Between the two halves of an execute its thread is in the push.
PushersPush == \A c \in Task \ {Main} : status[c] = "pushing" =>
  /\ \E t \in Thread : mode[t] = "push" /\ stack[t] # <<>> /\ Head(stack[t]) = Parent[c]
  /\ \A k \in Task \ {Main} : status[k] = "pushing" /\ Parent[k] = Parent[c] => k = c

Custody == JoinsAreOver /\ OnSomeStack /\ PushersPush

\* A submission is made by a body that runs.
LEMMA SubmitKeepsJoins ==
  ASSUME TypeOK, Discipline, JoinsAreOver, NEW t \in Thread, Submit(t)
  PROVE  JoinsAreOver'
  <1> PICK c \in Task \ {Main} :
        Background(t, c) \/ ExecuteFoundIdle(t, c) \/ PushForeground(t, c) \/ ExecuteInline(t, c)
    BY DEF Submit
  <1>1. CanSubmit(t, c) => status[Parent[c]] = "running"
    BY InnermostRuns DEF CanSubmit, Kids
  <1>2. status'[c] # "done" /\ \A k \in Task : k # c => status'[k] = status[k]
    BY DEF Background, ExecuteFoundIdle, PushForeground, ExecuteInline, TypeOK
  <1>3. ~(Parent[c] \in Joins /\ status[Parent[c]] = "done")
    BY <1>1 DEF Background, ExecuteFoundIdle, PushForeground, ExecuteInline, JoinsAreOver
  <1>4. \A k \in Task \ {Main} : Parent[k] \in Task
    BY PoolAssumption
  <1> QED
    BY <1>2, <1>3, <1>4 DEF JoinsAreOver

\* An inline call adds to the stack, the other submissions leave it.
LEMMA SubmitKeepsStacks ==
  ASSUME TypeOK, Discipline, OnSomeStack, NEW t \in Thread, Submit(t)
  PROVE  OnSomeStack'
  <1> PICK c \in Task \ {Main} :
        Background(t, c) \/ ExecuteFoundIdle(t, c) \/ PushForeground(t, c) \/ ExecuteInline(t, c)
    BY DEF Submit
  <1>1. CASE ~ExecuteInline(t, c)
    <2>1. stack' = stack /\ status'[c] \in {"pushing", "queued"}
      BY <1>1 DEF Background, ExecuteFoundIdle, PushForeground, TypeOK
    <2>2. \A k \in Task : k # c => status'[k] = status[k]
      BY <1>1 DEF Background, ExecuteFoundIdle, PushForeground, TypeOK
    <2> QED
      BY <2>1, <2>2 DEF OnSomeStack
  <1>2. CASE ExecuteInline(t, c)
    <2>1. /\ stack' = [stack EXCEPT ![t] = <<c>> \o stack[t]] /\ stack[t] \in Seq(Task)
          /\ \A k \in Task : k # c => status'[k] = status[k]
      BY <1>2 DEF ExecuteInline, TypeOK
    <2>2. /\ 1 \in DOMAIN stack'[t] /\ stack'[t][1] = c
          /\ \A j \in DOMAIN stack[t] : j + 1 \in DOMAIN stack'[t] /\ stack'[t][j + 1] = stack[t][j]
      BY <2>1, PushStackFacts DEF TypeOK
    <2>3. \A u \in Thread : u # t => stack'[u] = stack[u]
      BY <2>1 DEF TypeOK
    <2> SUFFICES ASSUME NEW k \in Task, k # c, status[k] \in {"taken", "running"}
                 PROVE  \E u \in Thread : \E j \in DOMAIN stack'[u] : stack'[u][j] = k
      BY <2>1, <2>2 DEF OnSomeStack
    <2>4. PICK u \in Thread : \E j \in DOMAIN stack[u] : stack[u][j] = k
      BY DEF OnSomeStack
    <2> QED
      BY <2>2, <2>3, <2>4
  <1> QED
    BY <1>1, <1>2

\* One thread is in the push for one task.
LEMMA SubmitKeepsPushers ==
  ASSUME TypeOK, Discipline, PushersPush, NEW t \in Thread, Submit(t)
  PROVE  PushersPush'
  <1> PICK c \in Task \ {Main} :
        Background(t, c) \/ ExecuteFoundIdle(t, c) \/ PushForeground(t, c) \/ ExecuteInline(t, c)
    BY DEF Submit
  <1>1. \A k \in Task : k # c => status'[k] = status[k]
    BY DEF Background, ExecuteFoundIdle, PushForeground, ExecuteInline, TypeOK
  <1>2. /\ \A u \in Thread \ {t} : mode'[u] = mode[u] /\ stack'[u] = stack[u]
        /\ Parent[c] = Head(stack[t]) /\ stack[t] # <<>>
    BY DEF Background, ExecuteFoundIdle, PushForeground, ExecuteInline, CanSubmit, Kids, TypeOK
  <1>3. ASSUME NEW k \in Task \ {Main}, status[k] = "pushing", Parent[k] = Parent[c]
        PROVE  mode[t] = "push"
    <2>1. PICK u \in Thread : mode[u] = "push" /\ stack[u] # <<>> /\ Head(stack[u]) = Parent[c]
      BY <1>3 DEF PushersPush
    <2>2. /\ 1 \in DOMAIN stack[u] /\ stack[u][1] = Head(stack[u])
          /\ 1 \in DOMAIN stack[t] /\ stack[t][1] = Head(stack[t])
      BY <1>2, <2>1, PopStackFacts DEF TypeOK
    <2>3. u = t
      BY <1>2, <2>1, <2>2 DEF Discipline, StacksDisjoint
    <2> QED
      BY <2>1, <2>3
  <1>4. CASE ExecuteFoundIdle(t, c)
    <2>1. mode[t] # "push" /\ mode'[t] = "push" /\ stack' = stack /\ status'[c] = "pushing"
      BY <1>4 DEF ExecuteFoundIdle, CanSubmit, TypeOK
    <2>2. ASSUME NEW k \in Task \ {Main}, k # c, status[k] = "pushing"
          PROVE  Parent[k] # Parent[c]
      BY <1>3, <2>1, <2>2
    <2>3. ASSUME NEW k \in Task \ {Main}, k # c, status[k] = "pushing"
          PROVE  \E u \in Thread \ {t} : mode[u] = "push" /\ stack[u] # <<>> /\ Head(stack[u]) = Parent[k]
      BY <2>1, <2>3 DEF PushersPush
    <2> QED
      BY <1>1, <1>2, <2>1, <2>2, <2>3 DEF PushersPush
  <1>5. CASE ~ExecuteFoundIdle(t, c)
    <2>1. status'[c] # "pushing"
      BY <1>5 DEF Background, PushForeground, ExecuteInline, TypeOK
    <2>2. ASSUME NEW k \in Task \ {Main}, k # c, status[k] = "pushing"
          PROVE  \E u \in Thread \ {t} : mode[u] = "push" /\ stack[u] # <<>> /\ Head(stack[u]) = Parent[k]
      <3>1. PICK u \in Thread : mode[u] = "push" /\ stack[u] # <<>> /\ Head(stack[u]) = Parent[k]
        BY <2>2 DEF PushersPush
      <3>2. u # t
        <4>1. CASE PushForeground(t, c)
          BY <1>2, <2>2, <3>1, <4>1 DEF PushForeground, PushersPush
        <4>2. CASE ~PushForeground(t, c)
          BY <1>5, <3>1, <4>2 DEF Background, ExecuteInline, CanSubmit
        <4> QED
          BY <4>1, <4>2
      <3> QED
        BY <3>1, <3>2
    <2> QED
      BY <1>1, <1>2, <2>1, <2>2 DEF PushersPush
  <1> QED
    BY <1>4, <1>5

\* A task that joins returns when all it submitted is over, and leaves its stack.
LEMMA ReturnKeepsCustody ==
  ASSUME TypeOK, Discipline, Custody, NEW t \in Thread, Return(t)
  PROVE  Custody'
  <1> DEFINE p == Head(stack[t])
  <1>1. /\ p \in Task /\ p = stack[t][1] /\ stack[t] \in Seq(Task) /\ stack[t] # <<>>
        /\ p \in Joins => Pending(p) = {}
        /\ status'[p] = "done" /\ \A k \in Task : k # p => status'[k] = status[k]
    BY PopStackFacts DEF Return, TypeOK
  <1>2. JoinsAreOver'
    <2> SUFFICES ASSUME NEW c \in Task \ {Main}, Parent[c] \in Joins, status'[Parent[c]] = "done"
                 PROVE  status'[c] \in {"new", "done"}
      BY DEF JoinsAreOver
    <2>1. CASE Parent[c] = p
      BY <1>1, <2>1 DEF Pending, Kids
    <2>2. CASE Parent[c] # p
      BY <1>1, <2>2, PoolAssumption DEF Custody, JoinsAreOver
    <2> QED
      BY <2>1, <2>2
  <1>3. OnSomeStack'
    <2> SUFFICES ASSUME NEW c \in Task, c # p, status[c] \in {"taken", "running"}
                 PROVE  \E u \in Thread : \E j \in DOMAIN stack'[u] : stack'[u][j] = c
      BY <1>1 DEF OnSomeStack
    <2>1. PICK u \in Thread : \E j \in DOMAIN stack[u] : stack[u][j] = c
      BY DEF Custody, OnSomeStack
    <2>2. PICK j \in DOMAIN stack[u] : stack[u][j] = c
      BY <2>1
    <2>3. CASE u = t
      <3>1. stack'[t] = Tail(stack[t])
        BY DEF Return, TypeOK
      <3>2. j - 1 \in DOMAIN Tail(stack[t]) /\ Tail(stack[t])[j - 1] = stack[t][j]
        BY <1>1, <2>2, <2>3
      <3> QED
        BY <2>2, <2>3, <3>1, <3>2
    <2>4. CASE u # t
      BY <2>2, <2>4 DEF Return, TypeOK
    <2> QED
      BY <2>3, <2>4
  <1>4. PushersPush'
    <2>1. \A k \in Task : status'[k] = "pushing" => status[k] = "pushing"
      BY <1>1
    <2>2. mode[t] # "push" /\ \A u \in Thread \ {t} : mode'[u] = mode[u] /\ stack'[u] = stack[u]
      BY DEF Return, TypeOK
    <2> QED
      BY <2>1, <2>2 DEF Custody, PushersPush
  <1> QED
    BY <1>2, <1>3, <1>4 DEF Custody

\* The loop of worker w puts a task on its empty stack, or leaves the stacks alone.
LEMMA LoopKeepsCustody ==
  ASSUME TypeOK, Discipline, Custody, NEW w \in Worker, Pop(w) \/ Begin(w) \/ End(w)
  PROVE  Custody'
  <1>1. \A c \in Task : \/ status'[c] = status[c]
                        \/ {status[c], status'[c]} \subseteq {"queued", "taken", "running"}
    BY LoopRunsSubmitted
  <1>2. JoinsAreOver'
    BY <1>1, PoolAssumption DEF Custody, JoinsAreOver
  <1>3. w \in Thread /\ \A u \in Thread \ {w} : stack'[u] = stack[u] /\ mode'[u] = mode[u]
    BY DEF Pop, PopForeground, PopBackground, Begin, End, TypeOK, Thread
  <1>4. OnSomeStack'
    <2>1. CASE Pop(w)
      <3>1. stack[w] = <<>>
        BY <1>3, <2>1 DEF Pop, PopForeground, PopBackground, Discipline, StackMatchesMode
      <3>2. PICK k : stack'[w] = <<k>> /\ status' = [status EXCEPT ![k] = "taken"]
        BY <1>3, <2>1 DEF Pop, PopForeground, PopBackground, TypeOK
      <3>3. 1 \in DOMAIN stack'[w] /\ stack'[w][1] = k
        BY <3>2
      <3> SUFFICES ASSUME NEW c \in Task, c # k, status[c] \in {"taken", "running"}
                   PROVE  \E u \in Thread : \E j \in DOMAIN stack'[u] : stack'[u][j] = c
        BY <1>3, <3>2, <3>3 DEF OnSomeStack, TypeOK
      <3>4. PICK u \in Thread : \E j \in DOMAIN stack[u] : stack[u][j] = c
        BY DEF Custody, OnSomeStack
      <3>5. u # w
        BY <3>1, <3>4
      <3> QED
        BY <1>3, <3>4, <3>5
    <2>2. CASE Begin(w)
      <3>1. stack' = stack /\ status' = [status EXCEPT ![Head(stack[w])] = "running"]
        BY <2>2 DEF Begin
      <3>2. stack[w] # <<>>
        BY <1>3, <2>2 DEF Begin, Discipline, StackMatchesMode
      <3>3. 1 \in DOMAIN stack[w] /\ stack[w][1] = Head(stack[w])
        BY <1>3, <3>2, PopStackFacts DEF TypeOK
      <3> QED
        BY <1>3, <3>1, <3>3 DEF Custody, OnSomeStack, TypeOK
    <2>3. CASE End(w)
      BY <2>3 DEF End, Custody, OnSomeStack
    <2> QED
      BY <2>1, <2>2, <2>3
  <1>5. PushersPush'
    <2>1. \A k \in Task : status'[k] = "pushing" => status[k] = "pushing"
      BY <1>1
    <2>2. mode[w] # "push"
      BY DEF Pop, PopForeground, PopBackground, Begin, End
    <2> QED
      BY <1>3, <2>1, <2>2 DEF Custody, PushersPush
  <1> QED
    BY <1>2, <1>4, <1>5 DEF Custody

LEMMA CustodyInductive ==
  ASSUME TypeOK, Discipline, Custody, [Next]_poolVars
  PROVE  Custody'
  <1>1. CASE UNCHANGED poolVars
    BY <1>1 DEF poolVars, Custody, JoinsAreOver, OnSomeStack, PushersPush
  <1>2. CASE \E t \in Thread : Submit(t) \/ Return(t)
    BY <1>2, SubmitKeepsJoins, SubmitKeepsStacks, SubmitKeepsPushers, ReturnKeepsCustody
    DEF Custody
  <1>3. CASE \E w \in Worker : Pop(w) \/ Begin(w) \/ End(w)
    BY <1>3, LoopKeepsCustody
  <1> QED
    BY <1>1, <1>2, <1>3 DEF Next, Terminated

LEMMA CustodyInitially ==
  ASSUME Init
  PROVE  Custody
  <1>1. Client \in Thread /\ stack[Client] = <<Main>>
    BY PoolAssumption DEF Init, Thread
  <1>2. JoinsAreOver /\ PushersPush
    BY DEF Init, JoinsAreOver, PushersPush
  <1>3. 1 \in DOMAIN stack[Client] /\ stack[Client][1] = Main
    BY <1>1
  <1>4. OnSomeStack
    BY <1>1, <1>3 DEF Init, OnSomeStack
  <1> QED
    BY <1>2, <1>4 DEF Custody

\* When the owner's thread has come to its end, Main has returned.
LEMMA FinishedIsDone ==
  ASSUME TypeOK, Discipline, Custody, mode[Client] = "fin"
  PROVE  status[Main] = "done"
  <1>1. stack[Client] = <<>>
    BY DEF Discipline, StackMatchesMode, Thread
  <1>2. \A w \in Worker : \A j \in DOMAIN stack[w] : stack[w][j] # Main
    BY DEF Discipline, MainOnClient
  <1> QED
    BY <1>1, <1>2, PoolAssumption DEF Custody, OnSomeStack, Discipline, MainOnClient, Thread

\* Nothing that a joining task has submitted outlives it, however deep the joins are
\* nested and wherever its functions were run.
THEOREM JoinsHold == SafeSpec => []JoinsAreOver
  <1>1. Custody => JoinsAreOver
    BY DEF Custody
  <1> QED
    BY <1>1, TypesInitially, TypesInductive, DisciplineInitially, DisciplineInductive,
       CustodyInitially, CustodyInductive, PTL DEF SafeSpec

-----------------------------------------------------------------------------
(* What Main leaves behind. *)

\* The tasks hang together: no set of tasks without Main has all its parents.
AllUnderMain == \A S \in SUBSET (Task \ {Main}) : (\A c \in S : Parent[c] \in S) => S = {}

\* Who submits anything is waited for, as a repository, a tag and an image are; their
\* downloads submit nothing.
SubmittersAreJoined == \A c \in Task \ {Main} : Kids(c) # {} => Parent[c] \in Joins

\* When Main has returned, nobody is left who may submit anything.
LEMMA SubmittersAreOver ==
  ASSUME AllUnderMain, SubmittersAreJoined, TypeOK, Discipline, JoinsAreOver,
         status[Main] = "done", NEW c \in Task, Kids(c) # {}
  PROVE  status[c] \in {"new", "done"}
  <1> DEFINE S == {k \in Task \ {Main} : Kids(k) # {} /\ status[k] \notin {"new", "done"}}
  <1>1. ASSUME NEW k \in S
        PROVE  Parent[k] \in S
    <2>1. Parent[k] \in Task /\ k \in Kids(Parent[k]) /\ Parent[k] \in Joins
      BY PoolAssumption DEF Kids, SubmittersAreJoined
    <2>2. status[Parent[k]] = "running"
      BY <2>1 DEF Discipline, KidsAfterParent, JoinsAreOver
    <2> QED
      BY <2>1, <2>2
  <1>2. S = {}
    <2> HIDE DEF S
    <2>1. S \in SUBSET (Task \ {Main})
      BY DEF S
    <2> QED
      BY <1>1, <2>1 DEF AllUnderMain
  <1> QED
    BY <1>2
=============================================================================
