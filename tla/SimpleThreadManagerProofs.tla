--------------------- MODULE SimpleThreadManagerProofs ----------------------
(* The condition variable, wait() and the destructor, for every number of    *)
(* workers and every tree of tasks: they keep to the scheduling discipline   *)
(* of TaskPool, and, where every task that submits others is waited for,     *)
(* the destructor leaves nothing behind.                                     *)
EXTENDS SimpleThreadManager, TLAPS

Proved == INSTANCE TaskPoolProofs

-----------------------------------------------------------------------------
(* The manager as a pool. *)

\* The assumption of the pool, of its instance here.
LEMMA ManagerIsAPool ==
  /\ Proved!IsFiniteSet(Worker) /\ Worker # {}
  /\ Client \notin Worker
  /\ Main \in Task
  /\ Parent \in [Task \ {Main} -> Task]
  /\ Joins \subseteq Task
  /\ BackgroundTask \subseteq {c \in Task \ {Main} : Parent[c] = Main}
  BY ManagerAssumption DEF Proved!IsFiniteSet, IsFiniteSet

\* Two instances of one module say the same.
LEMMA SamePool ==
  /\ Pool!Init <=> Proved!Init
  /\ [Pool!Next]_(Pool!poolVars) <=> [Proved!Next]_(Proved!poolVars)
  /\ Pool!TypeOK <=> Proved!TypeOK
  <1> USE DEF Pool!Thread, Proved!Thread, Pool!Kids, Proved!Kids, Pool!Pending, Proved!Pending
  <1>1. Pool!Init <=> Proved!Init
    BY DEF Pool!Init, Proved!Init, Pool!Cardinality, Proved!Cardinality
  <1>2. Pool!Next <=> Proved!Next
    BY DEF Pool!Next, Proved!Next, Pool!Submit, Proved!Submit, Pool!Background, Proved!Background,
       Pool!ExecuteFoundIdle, Proved!ExecuteFoundIdle, Pool!PushForeground, Proved!PushForeground,
       Pool!ExecuteInline, Proved!ExecuteInline, Pool!CanSubmit, Proved!CanSubmit,
       Pool!Return, Proved!Return, Pool!Pop, Proved!Pop, Pool!PopForeground, Proved!PopForeground,
       Pool!PopBackground, Proved!PopBackground, Pool!Begin, Proved!Begin, Pool!End, Proved!End,
       Pool!Terminated, Proved!Terminated, Pool!poolVars, Proved!poolVars
  <1>3. Pool!TypeOK <=> Proved!TypeOK
    BY DEF Pool!TypeOK, Proved!TypeOK, Pool!Mode, Proved!Mode, Pool!Status, Proved!Status
  <1> QED
    BY <1>1, <1>2, <1>3 DEF Pool!poolVars, Proved!poolVars

\* The steps that are the manager's own leave the pool alone.
LEMMA StepOfPool ==
  ASSUME [Next]_vars
  PROVE  [Pool!Next]_(Pool!poolVars)
  <1> SUFFICES Pool!Next \/ UNCHANGED poolVars
    BY DEF Pool!poolVars, poolVars
  <1>1. CASE \E t \in Thread : \E c \in Task \ {Main} :
               Background(t, c) \/ Execute(t, c) \/ PushForeground(t, c)
    BY <1>1 DEF Background, Execute, PushForeground, Pool!Next, Pool!Submit, Thread, Pool!Thread
  <1>2. CASE \E t \in Thread : Return(t) \/ Timeout(t) \/ SpuriousWakeup(t)
    BY <1>2 DEF Return, Timeout, SpuriousWakeup, Pool!Next, Thread, Pool!Thread
  <1>3. CASE \E w \in Worker : \/ Begin(w) \/ End(w) \/ TestRunThr(w) \/ Sleep(w)
                               \/ PopAndNotify(w) \/ NothingAfterTimeout(w)
    BY <1>3 DEF Begin, End, TestRunThr, Sleep, PopAndNotify, NothingAfterTimeout, Pool!Next
  <1>4. CASE ClientSleeps \/ ClientStep
    BY <1>4 DEF ClientSleeps, ClientStep, ClientWakes, StopWorkers, NotifyWorkers, JoinWorkers
  <1>5. CASE Terminated \/ UNCHANGED vars
    BY <1>5 DEF Terminated, vars, poolVars
  <1> QED
    BY <1>1, <1>2, <1>3, <1>4, <1>5 DEF Next

\* Whoever takes a notification, whenever a timeout or a spurious wakeup comes, and
\* however the end of the workers races with them: queues, stacks and idle_ change only
\* as the scheduling discipline allows.
THEOREM ManagerImplementsTaskPool == SafeSpec => Pool!SafeSpec
  <1>1. Init => Pool!Init
    BY DEF Init
  <1> QED
    BY <1>1, StepOfPool, PTL DEF SafeSpec, Pool!SafeSpec

\* What is known of the pool in every step.
PoolOrder ==
  Proved!TypeOK /\ Proved!IdleCountsIdleWorkers /\ Proved!Discipline /\ Proved!Custody

LEMMA PoolOrderInitially == Init => PoolOrder
  BY SamePool, ManagerIsAPool, Proved!TypesInitially, Proved!DisciplineInitially,
     Proved!CustodyInitially DEF Init, PoolOrder

LEMMA PoolOrderInductive ==
  ASSUME PoolOrder, [Next]_vars
  PROVE  PoolOrder'
  <1>1. [Proved!Next]_(Proved!poolVars)
    BY StepOfPool, SamePool
  <1>2. Proved!TypeOK' /\ Proved!IdleCountsIdleWorkers'
    BY <1>1, ManagerIsAPool, Proved!TypesInductive DEF PoolOrder
  <1>3. Proved!Discipline'
    BY <1>1, ManagerIsAPool, Proved!DisciplineInductive DEF PoolOrder
  <1>4. Proved!Custody'
    BY <1>1, ManagerIsAPool, Proved!CustodyInductive DEF PoolOrder
  <1> QED
    BY <1>2, <1>3, <1>4 DEF PoolOrder

-----------------------------------------------------------------------------
(* Where the threads are. *)

\* The part of the types that is the manager's own.
Placed ==
  /\ run_thr \in BOOLEAN
  /\ pc \in [Thread -> Location]
  /\ \A w \in Worker : pc[w] # "loop" => mode[w] = "free"

\* A notification moves nobody but a thread in the wait set.
LEMMA NotifiedWaited ==
  ASSUME NEW f \in [Thread -> Location], NEW g \in NotifyOne(f)
  PROVE  /\ g \in [Thread -> Location]
         /\ \A t \in Thread : g[t] = f[t] \/ (f[t] = "wait" /\ g[t] = "notified")
  BY DEF NotifyOne, Location

\* A submission moves no thread but one it notifies, and frees or finishes none.
LEMMA SubmissionPlaces ==
  ASSUME Placed, Proved!TypeOK, NEW u \in Thread, NEW c \in Task \ {Main},
         Background(u, c) \/ Execute(u, c) \/ PushForeground(u, c)
  PROVE  /\ run_thr' = run_thr /\ pc' \in [Thread -> Location]
         /\ \A t \in Thread : pc'[t] = pc[t] \/ (pc[t] = "wait" /\ pc'[t] = "notified")
         /\ \A t \in Thread : mode[t] \in {"free", "fin"} => mode'[t] = mode[t]
  <1>1. mode \in [Thread -> Proved!Mode]
    BY DEF Proved!TypeOK, Proved!Thread, Thread
  <1>2. run_thr' = run_thr /\ (pc' = pc \/ pc' \in NotifyOne(pc))
    BY DEF Background, Execute, PushForeground, cvVars
  <1>3. \A t \in Thread : mode[t] \in {"free", "fin"} => mode'[t] = mode[t]
    BY <1>1 DEF Background, Execute, PushForeground, Pool!Background, Pool!ExecuteFoundIdle,
       Pool!ExecuteInline, Pool!PushForeground, Pool!CanSubmit
  <1> QED
    BY <1>2, <1>3, NotifiedWaited DEF Placed

\* What every step may do to the places: a worker takes and runs a function inside
\* its loop only and leaves it holding none, its exit is final, and the client goes
\* through wait() and the destructor in their order, from the end of Main.
Moves ==
  /\ run_thr' \in BOOLEAN
  /\ pc' \in [Thread -> Location]
  /\ \A w \in Worker : mode'[w] = mode[w] \/ pc'[w] = "loop"
  /\ \A w \in Worker : pc[w] = "loop" /\ pc'[w] # "loop" => mode'[w] = "free"
  /\ \A w \in Worker : pc[w] = "exit" => pc'[w] = "exit"
  /\ mode[Client] = "fin" => mode'[Client] = "fin"
  /\ \/ pc'[Client] = pc[Client]
     \/ pc[Client] = "check" /\ mode[Client] = "fin" /\ pc'[Client] = "wait"
     \/ pc[Client] \in {"wait", "notified", "timedout"} /\ pc'[Client] \in {"notified", "timedout", "check"}
     \/ pc'[Client] = "finished" /\ QueuesEmpty /\ QueuesEmpty'
        /\ pc[Client] = "notified"
     \/ pc[Client] = "finished" /\ pc'[Client] = "stopped"
     \/ pc[Client] = "stopped" /\ pc'[Client] = "join"
     \/ pc[Client] = "join" /\ pc'[Client] = "gone" /\ \A w \in Worker : pc'[w] = "exit"

LEMMA LoopMoves ==
  ASSUME Placed, Proved!TypeOK, NEW w \in Worker,
         \/ Begin(w) \/ End(w) \/ TestRunThr(w)
         \/ Sleep(w) \/ PopAndNotify(w) \/ NothingAfterTimeout(w)
  PROVE  Moves
  <1>1. w \in Thread /\ Client \in Thread /\ w # Client /\ Worker \subseteq Thread
    BY ManagerAssumption DEF Thread
  <1>2. mode \in [Thread -> Proved!Mode]
    BY DEF Proved!TypeOK, Proved!Thread, Thread
  <1>3. CASE Begin(w) \/ End(w)
    <2>1. run_thr' = run_thr /\ pc' = pc /\ mode[w] # "free"
      BY <1>3 DEF Begin, End, Pool!Begin, Pool!End, cvVars
    <2>2. \A t \in Thread : t # w => mode'[t] = mode[t]
      BY <1>2, <1>3 DEF Begin, End, Pool!Begin, Pool!End
    <2> QED
      BY <1>1, <2>1, <2>2 DEF Moves, Placed
  <1>4. CASE TestRunThr(w) \/ Sleep(w)
    <2>1. run_thr' = run_thr /\ mode' = mode
      BY <1>4 DEF TestRunThr, Sleep, poolVars
    <2>2. /\ pc' \in [Thread -> Location]
          /\ \A t \in Thread : t # w => pc'[t] = pc[t]
          /\ pc[w] # "exit" /\ (pc[w] = "loop" => mode[w] = "free")
      BY <1>1, <1>4 DEF TestRunThr, Sleep, Placed, Location
    <2> QED
      BY <1>1, <2>1, <2>2 DEF Moves, Placed
  <1>5. CASE PopAndNotify(w) \/ NothingAfterTimeout(w)
    <2> DEFINE f == [pc EXCEPT ![w] = "loop"]
    <2>1. run_thr' = run_thr /\ pc' \in NotifyOne(f) /\ pc[w] \in {"lock", "notified", "timedout"}
      BY <1>5 DEF PopAndNotify, NothingAfterTimeout
    <2>2. f \in [Thread -> Location] /\ f[w] = "loop" /\ \A t \in Thread : t # w => f[t] = pc[t]
      BY <1>1 DEF Placed, Location
    <2>3. /\ pc' \in [Thread -> Location]
          /\ \A t \in Thread : pc'[t] = f[t] \/ (f[t] = "wait" /\ pc'[t] = "notified")
      <3> HIDE DEF f
      <3> QED
        BY <2>1, <2>2, NotifiedWaited
    <2>4. pc'[w] = "loop"
      BY <1>1, <2>2, <2>3
    <2>5. \A t \in Thread : t # w => pc'[t] = pc[t] \/ (pc[t] = "wait" /\ pc'[t] = "notified")
      BY <2>2, <2>3
    <2>6. \A t \in Thread : t # w => mode'[t] = mode[t]
      BY <1>2, <1>5 DEF PopAndNotify, NothingAfterTimeout, poolVars,
         Pool!Pop, Pool!PopForeground, Pool!PopBackground
    <2> QED
      BY <1>1, <2>1, <2>3, <2>4, <2>5, <2>6 DEF Moves, Placed
  <1> QED
    BY <1>3, <1>4, <1>5

LEMMA ClientMoves ==
  ASSUME Placed, ClientSleeps \/ ClientStep
  PROVE  Moves
  <1>1. Client \in Thread /\ Worker \subseteq Thread /\ \A w \in Worker : w # Client
    BY ManagerAssumption DEF Thread
  <1>2. mode' = mode /\ (QueuesEmpty' <=> QueuesEmpty)
    BY DEF ClientSleeps, ClientStep, ClientWakes, StopWorkers, NotifyWorkers, JoinWorkers,
       poolVars, QueuesEmpty
  <1>3. run_thr' \in BOOLEAN
    BY DEF ClientSleeps, ClientStep, ClientWakes, StopWorkers, NotifyWorkers, JoinWorkers, Placed
  <1>4. CASE NotifyWorkers
    <2> DEFINE f == [pc EXCEPT ![Client] = "join"]
    <2>1. f \in [Thread -> Location] /\ f[Client] = "join" /\ \A w \in Worker : f[w] = pc[w]
      BY <1>1 DEF Placed, Location
    <2>2. pc' = [t \in Thread |-> IF f[t] = "wait" THEN "notified" ELSE f[t]]
      BY <1>4 DEF NotifyWorkers, NotifyAll
    <2>3. pc' \in [Thread -> Location] /\ pc'[Client] = "join" /\ pc[Client] = "stopped"
      <3> HIDE DEF f
      <3> QED
        BY <1>1, <1>4, <2>1, <2>2 DEF Location, NotifyWorkers
    <2>4. \A w \in Worker : pc'[w] = IF pc[w] = "wait" THEN "notified" ELSE pc[w]
      <3> HIDE DEF f
      <3> QED
        BY <1>1, <2>1, <2>2
    <2> QED
      BY <1>1, <1>2, <1>3, <2>3, <2>4 DEF Moves
  <1>5. CASE ~NotifyWorkers
    <2>1. /\ pc' \in [Thread -> Location]
          /\ \A w \in Worker : pc'[w] = pc[w]
      BY <1>1, <1>5 DEF ClientSleeps, ClientStep, ClientWakes, StopWorkers, JoinWorkers, Placed,
         Location
    <2>2. CASE ClientSleeps
      BY <1>1, <1>2, <1>3, <2>1, <2>2 DEF Moves, ClientSleeps, Placed
    <2>3. CASE ClientWakes
      BY <1>1, <1>2, <1>3, <2>1, <2>3 DEF Moves, ClientWakes, Placed
    <2>4. CASE StopWorkers
      BY <1>1, <1>2, <1>3, <2>1, <2>4 DEF Moves, StopWorkers, Placed
    <2>5. CASE JoinWorkers
      BY <1>1, <1>2, <1>3, <2>1, <2>5 DEF Moves, JoinWorkers, Placed
    <2> QED
      BY <1>5, <2>2, <2>3, <2>4, <2>5 DEF ClientStep
  <1> QED
    BY <1>4, <1>5

LEMMA NextMoves ==
  ASSUME Placed, Proved!TypeOK, [Next]_vars
  PROVE  Moves
  <1>1. Client \in Thread /\ Worker \subseteq Thread
    BY DEF Thread
  <1>2. CASE \E t \in Thread : \E c \in Task \ {Main} :
               Background(t, c) \/ Execute(t, c) \/ PushForeground(t, c)
    <2>1. /\ run_thr' = run_thr /\ pc' \in [Thread -> Location]
          /\ \A t \in Thread : pc'[t] = pc[t] \/ (pc[t] = "wait" /\ pc'[t] = "notified")
          /\ \A t \in Thread : mode[t] \in {"free", "fin"} => mode'[t] = mode[t]
      BY <1>2, SubmissionPlaces
    <2> QED
      BY <1>1, <2>1 DEF Moves, Placed
  <1>3. CASE \E t \in Thread : Return(t)
    <2> PICK u \in Thread : Return(u)
      BY <1>3
    <2>1. run_thr' = run_thr /\ pc' = pc
      BY DEF Return, cvVars
    <2>2. \A t \in Thread : mode[t] \in {"free", "fin"} => mode'[t] = mode[t]
      BY DEF Return, Pool!Return, Proved!TypeOK, Proved!Thread, Thread
    <2> QED
      BY <1>1, <2>1, <2>2 DEF Moves, Placed
  <1>4. CASE \E t \in Thread : Timeout(t) \/ SpuriousWakeup(t)
    <2> PICK u \in Thread : Timeout(u) \/ SpuriousWakeup(u)
      BY <1>4
    <2>1. run_thr' = run_thr /\ mode' = mode /\ pc[u] = "wait"
      BY DEF Timeout, SpuriousWakeup, poolVars
    <2>2. /\ pc' \in [Thread -> Location] /\ pc'[u] \in {"notified", "timedout"}
          /\ \A t \in Thread : t # u => pc'[t] = pc[t]
      BY DEF Timeout, SpuriousWakeup, Placed, Location
    <2> QED
      BY <1>1, <2>1, <2>2 DEF Moves, Placed
  <1>5. CASE \E w \in Worker : \/ Begin(w) \/ End(w) \/ TestRunThr(w) \/ Sleep(w)
                               \/ PopAndNotify(w) \/ NothingAfterTimeout(w)
    BY <1>5, LoopMoves
  <1>6. CASE ClientSleeps \/ ClientStep
    BY <1>6, ClientMoves
  <1>7. CASE Terminated \/ UNCHANGED vars
    BY <1>1, <1>7 DEF Terminated, vars, Moves, Placed
  <1> QED
    BY <1>2, <1>3, <1>4, <1>5, <1>6, <1>7 DEF Next

LEMMA PlacedInitially == Init => Placed
  BY ManagerAssumption DEF Init, Pool!Init, Pool!Thread, Placed, Thread, Location

LEMMA PlacedInductive ==
  ASSUME Placed, Moves
  PROVE  Placed'
  <1>1. \A w \in Worker : pc'[w] # "loop" => mode'[w] = "free"
    BY DEF Placed, Moves
  <1> QED
    BY <1>1 DEF Placed, Moves

\* The types, and a worker outside the body of a function holds none (execute() of
\* another thread counts on it when it finds the worker idle).
THEOREM ManagerTypes == SafeSpec => []TypeOK
  <1> DEFINE I == PoolOrder /\ Placed
  <1>1. Init => I
    BY PoolOrderInitially, PlacedInitially
  <1>2. I /\ [Next]_vars => I'
    BY PoolOrderInductive, NextMoves, PlacedInductive DEF PoolOrder
  <1>3. I => TypeOK
    BY SamePool DEF TypeOK, Placed, PoolOrder
  <1> QED
    BY <1>1, <1>2, <1>3, PTL DEF SafeSpec

-----------------------------------------------------------------------------
(* Nothing left behind: the client sleeps in wait() only once Main is done,  *)
(* and then nobody is left to submit anything, so the queues it found empty  *)
(* stay empty.  They say nothing of the functions the workers have popped:   *)
(* those are over when the workers have been joined.                         *)

Over == {"finished", "stopped", "join", "gone"}

Shutdown ==
  /\ pc[Client] # "check" => mode[Client] = "fin"
  /\ pc[Client] \in Over => QueuesEmpty
  /\ pc[Client] = "gone" => \A w \in Worker : pc[w] = "exit"

\* Once the client has left Main no task is submitted.
LEMMA NobodySubmits ==
  ASSUME Proved!AllUnderMain, Proved!SubmittersAreJoined, PoolOrder, mode[Client] = "fin",
         NEW t \in Thread, NEW c \in Task \ {Main}
  PROVE  ~Background(t, c) /\ ~PushForeground(t, c)
  <1>1. status[Main] = "done"
    BY ManagerIsAPool, Proved!FinishedIsDone DEF PoolOrder
  <1>2. SUFFICES ASSUME stack[t] # <<>>, c \in Proved!Kids(Head(stack[t])), mode[t] \in {"body", "push"}
                 PROVE  FALSE
    BY DEF Background, PushForeground, Pool!Background, Pool!PushForeground, Pool!CanSubmit,
       Pool!Kids, Proved!Kids
  <1> DEFINE p == Head(stack[t])
  <1>3. stack[t] \in Seq(Task) /\ p \in Task /\ p = stack[t][1] /\ 1 \in DOMAIN stack[t]
    BY <1>2 DEF PoolOrder, Proved!TypeOK, Proved!Thread, Thread
  <1>4. status[p] = "running"
    BY <1>2, <1>3 DEF PoolOrder, Proved!Discipline, Proved!StackMatchesMode, Proved!Thread, Thread
  <1>5. status[p] \in {"new", "done"}
    BY <1>1, <1>2, <1>3, ManagerIsAPool, Proved!SubmittersAreOver DEF PoolOrder, Proved!Custody
  <1> QED
    BY <1>4, <1>5

\* Queues that were found empty are not filled again.
LEMMA QueuesStayEmpty ==
  ASSUME Proved!AllUnderMain, Proved!SubmittersAreJoined, PoolOrder, mode[Client] = "fin",
         QueuesEmpty, [Next]_vars
  PROVE  QueuesEmpty'
  <1>1. CASE \E t \in Thread : \E c \in Task \ {Main} :
               Background(t, c) \/ Execute(t, c) \/ PushForeground(t, c)
    <2>1. PICK t \in Thread : \E c \in Task \ {Main} : Execute(t, c)
      BY <1>1, NobodySubmits
    <2> QED
      BY <2>1 DEF Execute, Pool!ExecuteFoundIdle, Pool!ExecuteInline, QueuesEmpty
  <1>2. CASE \E t \in Thread : Return(t) \/ Timeout(t) \/ SpuriousWakeup(t)
    BY <1>2 DEF Return, Pool!Return, Timeout, SpuriousWakeup, poolVars, QueuesEmpty
  <1>3. CASE \E w \in Worker : \/ Begin(w) \/ End(w) \/ TestRunThr(w) \/ Sleep(w)
                               \/ PopAndNotify(w) \/ NothingAfterTimeout(w)
    BY <1>3 DEF Begin, Pool!Begin, End, Pool!End, TestRunThr, Sleep, PopAndNotify,
       NothingAfterTimeout, Pool!Pop, Pool!PopForeground, Pool!PopBackground, poolVars, QueuesEmpty
  <1>4. CASE ClientSleeps \/ ClientStep
    BY <1>4 DEF ClientSleeps, ClientStep, ClientWakes, StopWorkers, NotifyWorkers, JoinWorkers,
       poolVars, QueuesEmpty
  <1>5. CASE Terminated \/ UNCHANGED vars
    BY <1>5 DEF Terminated, vars, QueuesEmpty
  <1> QED
    BY <1>1, <1>2, <1>3, <1>4, <1>5 DEF Next

LEMMA ShutdownInductive ==
  ASSUME Proved!AllUnderMain, Proved!SubmittersAreJoined, PoolOrder, Placed, Shutdown, [Next]_vars
  PROVE  Shutdown'
  <1>1. Moves
    BY NextMoves DEF PoolOrder
  <1>2. pc'[Client] # "check" => mode'[Client] = "fin"
    BY <1>1 DEF Moves, Shutdown
  <1>3. pc'[Client] \in Over => QueuesEmpty'
    <2>1. CASE pc[Client] \in Over
      <3>1. mode[Client] = "fin" /\ QueuesEmpty
        BY <2>1 DEF Shutdown, Over
      <3> QED
        BY <3>1, QueuesStayEmpty
    <2>2. CASE pc[Client] \notin Over
      BY <1>1, <2>2 DEF Moves, Over
    <2> QED
      BY <2>1, <2>2
  <1>4. pc'[Client] = "gone" => \A w \in Worker : pc'[w] = "exit"
    BY <1>1 DEF Moves, Shutdown
  <1> QED
    BY <1>2, <1>3, <1>4 DEF Shutdown

\* What has gone is all there was.
LEMMA GoneIsOver ==
  ASSUME PoolOrder, Placed, Shutdown
  PROVE  NothingLeftBehind
  <1> SUFFICES ASSUME pc[Client] = "gone"
               PROVE  /\ QueuesEmpty
                      /\ \A t \in Thread : stack[t] = <<>>
                      /\ \A c \in Task : status[c] \in {"new", "done"}
    BY DEF NothingLeftBehind
  <1>1. QueuesEmpty
    BY DEF Shutdown, Over
  <1>2. \A t \in Thread : mode[t] \in {"free", "fin"}
    BY DEF Shutdown, Placed, Thread
  <1>3. \A t \in Thread : stack[t] = <<>>
    BY <1>2 DEF PoolOrder, Proved!Discipline, Proved!StackMatchesMode, Proved!Thread, Thread
  <1>4. ASSUME NEW c \in Task PROVE status[c] \in {"new", "done"}
    <2>1. status[c] \in {"new", "pushing", "queued", "taken", "running", "done"}
      BY DEF PoolOrder, Proved!TypeOK, Proved!Status
    <2>2. status[c] # "queued"
      BY <1>1 DEF QueuesEmpty, PoolOrder, Proved!Discipline, Proved!QueuesHoldWhatIsQueued,
         Proved!Occurs
    <2>3. status[c] \notin {"taken", "running"}
      BY <1>3 DEF PoolOrder, Proved!Custody, Proved!OnSomeStack, Proved!Thread, Thread
    <2>4. status[c] # "pushing"
      <3>1. c = Main => status[c] \in {"running", "done"}
        BY DEF PoolOrder, Proved!Discipline, Proved!MainOnClient
      <3>2. c # Main /\ status[c] = "pushing" => \E t \in Thread : stack[t] # <<>>
        BY DEF PoolOrder, Proved!Custody, Proved!PushersPush, Proved!Thread, Thread
      <3> QED
        BY <1>3, <3>1, <3>2
    <2> QED
      BY <2>1, <2>2, <2>3, <2>4
  <1> QED
    BY <1>1, <1>3, <1>4

\* ~SimpleThreadManager, whatever the races of its wait() with the workers: where every
\* task submits only while one that waits for it is on the way to Main, as the tasks of
\* Sync and Copy do, the destructor returns with nothing queued, half submitted or running.
THEOREM NothingIsLeft ==
  ASSUME Proved!AllUnderMain, Proved!SubmittersAreJoined
  PROVE  SafeSpec => []NothingLeftBehind
  <1> DEFINE I == PoolOrder /\ Placed /\ Shutdown
  <1>1. Init => I
    BY PoolOrderInitially, PlacedInitially DEF Init, Shutdown, Over, Thread
  <1>2. I /\ [Next]_vars => I'
    BY PoolOrderInductive, NextMoves, PlacedInductive, ShutdownInductive DEF PoolOrder
  <1>3. I => NothingLeftBehind
    BY GoneIsOver
  <1> QED
    BY <1>1, <1>2, <1>3, PTL DEF SafeSpec

-----------------------------------------------------------------------------
(* What wait() would need: its word that all tasks are over, which it breaks *)
(* for downloads (Copy::execute returns without them), holds of every task   *)
(* whose submitters wait for it, up to Main.                                 *)

EveryTaskIsJoined == \A c \in Task \ {Main} : Parent[c] \in Joins

\* Were every submission waited for as the sync waits for its tags, nothing would run
\* any more when wait() returns, though wait() itself reads nothing but the queues.
THEOREM JoinedMeansDone ==
  ASSUME Proved!AllUnderMain, EveryTaskIsJoined
  PROVE  SafeSpec => []WaitMeansDone
  <1> DEFINE FinOnly == pc[Client] # "check" => mode[Client] = "fin"
             I == PoolOrder /\ Placed /\ FinOnly
  <1>1. Init => I
    BY PoolOrderInitially, PlacedInitially DEF Init, Thread
  <1>2. I /\ [Next]_vars => I'
    <2> SUFFICES ASSUME I, [Next]_vars PROVE I'
      OBVIOUS
    <2>1. Moves
      BY NextMoves DEF PoolOrder
    <2> QED
      BY <2>1, PoolOrderInductive, PlacedInductive DEF Moves
  <1>3. I => WaitMeansDone
    <2> SUFFICES ASSUME I, mode[Client] = "fin" PROVE \A c \in Task : status[c] \in {"new", "done"}
      BY DEF WaitMeansDone
    <2> DEFINE S == {c \in Task \ {Main} : status[c] \notin {"new", "done"}}
    <2>1. status[Main] = "done"
      BY ManagerIsAPool, Proved!FinishedIsDone DEF PoolOrder
    <2>2. ASSUME NEW c \in S PROVE Parent[c] \in S
      <3>1. Parent[c] \in Task /\ Parent[c] \in Joins
        BY ManagerAssumption DEF EveryTaskIsJoined
      <3>2. status[Parent[c]] \in {"running", "done"}
        BY DEF PoolOrder, Proved!Discipline, Proved!KidsAfterParent
      <3>3. status[Parent[c]] # "done"
        BY <3>1 DEF PoolOrder, Proved!Custody, Proved!JoinsAreOver
      <3> QED
        BY <2>1, <3>1, <3>2, <3>3
    <2>3. S = {}
      BY <2>2 DEF Proved!AllUnderMain
    <2> QED
      BY <2>1, <2>3
  <1> QED
    BY <1>1, <1>2, <1>3, PTL DEF SafeSpec
=============================================================================
