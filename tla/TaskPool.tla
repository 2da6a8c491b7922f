------------------------------ MODULE TaskPool ------------------------------
(* The scheduling discipline of gobha::SimpleThreadManager                   *)
(* (src/include/gobha/SimpleThreadManager.hpp): two FIFO queues, an atomic   *)
(* count of idle workers, and execute(), which queues its argument when some *)
(* worker is idle and otherwise runs it on the caller's own stack.           *)
(*                                                                           *)
(* The mutex is modelled by the atomicity of the actions that hold it; what  *)
(* the code does outside it (the read of idle_ in execute(), its decrement   *)
(* after the pop and its increment after the call) is an action of its own.  *)
(* Sleeping on the condition variable, wait() and the destructor are in      *)
(* SimpleThreadManager.tla, which refines this module.                       *)
(*                                                                           *)
(* A task is one function handed to the manager.  Its body may submit any of *)
(* its kids, each once, in any order, and then return.                       *)
EXTENDS Naturals, Sequences, FiniteSets

CONSTANTS
  Worker,           \* the threads the constructor starts (thread_limit_ of them)
  Client,           \* the thread that owns the manager; runs Main
  Task, Main, Parent, Joins,  \* as in Executor
  BackgroundTask    \* the tasks submitted with background(), the others with execute();
                    \* only Main submits any (Sync::repoSync)

Thread == Worker \cup {Client}

ASSUME PoolAssumption ==
  /\ IsFiniteSet(Worker) /\ Worker # {}
  /\ Client \notin Worker
  /\ Main \in Task
  /\ Parent \in [Task \ {Main} -> Task]
  /\ Joins \subseteq Task
  /\ BackgroundTask \subseteq {c \in Task \ {Main} : Parent[c] = Main}

VARIABLES
  fg_funcs,  \* the foreground queue
  bg_funcs,  \* the background queue
  idle,      \* idle_: workers that are not between idle_-- and idle_++
  stack,     \* stack[t]: the tasks on t's call stack, innermost first
  mode,      \* where t is: see Mode
  status     \* ghost: how far each task has come

poolVars == <<fg_funcs, bg_funcs, idle, stack, mode, status>>

\* free:  in the worker loop, holding no function
\* taken: has popped a function, idle_-- not yet done
\* body:  in the body of the innermost task of its stack
\* push:  in execute(), has read idle_ > 0, has not yet locked q_mut_
\* fin:   the function has returned, idle_++ not yet done; the client's Main has returned
Mode == {"free", "taken", "body", "push", "fin"}

Status == {"new", "pushing", "queued", "taken", "running", "done"}

Kids(p) == {c \in Task \ {Main} : Parent[c] = p}

\* The tasks that p submitted and that have not returned.
Pending(p) == {c \in Kids(p) : status[c] \notin {"new", "done"}}

TypeOK ==
  /\ fg_funcs \in Seq(Task)
  /\ bg_funcs \in Seq(Task)
  /\ idle \in Nat
  /\ stack \in [Thread -> Seq(Task)]
  /\ mode \in [Thread -> Mode]
  /\ status \in [Task -> Status]

Init ==
  /\ fg_funcs = <<>>
  /\ bg_funcs = <<>>
  /\ idle = Cardinality(Worker)
  /\ stack = [t \in Thread |-> IF t = Client THEN <<Main>> ELSE <<>>]
  /\ mode = [t \in Thread |-> IF t = Client THEN "body" ELSE "free"]
  /\ status = [c \in Task |-> IF c = Main THEN "running" ELSE "new"]

-----------------------------------------------------------------------------
(* Mutants: each is one of the operations below with a plausible bug in it.  *)

\* execute() queues its argument whether a worker is idle or not.
ExecuteAlwaysQueues(t, c) ==
  /\ mode[t] = "body" /\ stack[t] # <<>>
  /\ c \in Kids(Head(stack[t])) \ BackgroundTask
  /\ status[c] = "new"
  /\ mode' = [mode EXCEPT ![t] = "push"]
  /\ status' = [status EXCEPT ![c] = "pushing"]
  /\ UNCHANGED <<fg_funcs, bg_funcs, idle, stack>>

\* A joining body returns without waiting for its count to reach zero.
ReturnEarly(t) ==
  /\ mode[t] = "body" /\ stack[t] # <<>>
  /\ stack' = [stack EXCEPT ![t] = Tail(stack[t])]
  /\ mode' = [mode EXCEPT ![t] = IF Tail(stack[t]) = <<>> THEN "fin" ELSE "body"]
  /\ status' = [status EXCEPT ![Head(stack[t])] = "done"]
  /\ UNCHANGED <<fg_funcs, bg_funcs, idle>>

\* The pop counts the worker as busy, and so does its begin.
PopForegroundCounts(w) ==
  /\ mode[w] = "free" /\ fg_funcs # <<>>
  /\ fg_funcs' = Tail(fg_funcs)
  /\ idle' = idle - 1
  /\ stack' = [stack EXCEPT ![w] = <<Head(fg_funcs)>>]
  /\ mode' = [mode EXCEPT ![w] = "taken"]
  /\ status' = [status EXCEPT ![Head(fg_funcs)] = "taken"]
  /\ UNCHANGED bg_funcs

\* pop_front() is missing.
PopForegroundKeeps(w) ==
  /\ mode[w] = "free" /\ fg_funcs # <<>>
  /\ stack' = [stack EXCEPT ![w] = <<Head(fg_funcs)>>]
  /\ mode' = [mode EXCEPT ![w] = "taken"]
  /\ status' = [status EXCEPT ![Head(fg_funcs)] = "taken"]
  /\ UNCHANGED <<fg_funcs, bg_funcs, idle>>

\* idle_++ is missing.
EndStaysBusy(w) ==
  /\ mode[w] = "fin"
  /\ mode' = [mode EXCEPT ![w] = "free"]
  /\ UNCHANGED <<fg_funcs, bg_funcs, idle, stack, status>>

-----------------------------------------------------------------------------
(* Submission, from the body of the innermost task of t. *)

CanSubmit(t, c) ==
  /\ mode[t] = "body"
  /\ stack[t] # <<>>
  /\ c \in Kids(Head(stack[t]))
  /\ status[c] = "new"

Background(t, c) ==
  /\ CanSubmit(t, c)
  /\ c \in BackgroundTask
  /\ bg_funcs' = Append(bg_funcs, c)
  /\ status' = [status EXCEPT ![c] = "queued"]
  /\ UNCHANGED <<fg_funcs, idle, stack, mode>>

\* execute() reads idle_ > 0 before it takes the lock; the push comes later.
ExecuteFoundIdle(t, c) ==
  /\ CanSubmit(t, c)
  /\ c \notin BackgroundTask
  /\ idle > 0
  /\ mode' = [mode EXCEPT ![t] = "push"]
  /\ status' = [status EXCEPT ![c] = "pushing"]
  /\ UNCHANGED <<fg_funcs, bg_funcs, idle, stack>>

PushForeground(t, c) ==
  /\ mode[t] = "push"
  /\ stack[t] # <<>>
  /\ c \in Kids(Head(stack[t]))
  /\ status[c] = "pushing"
  /\ fg_funcs' = Append(fg_funcs, c)
  /\ mode' = [mode EXCEPT ![t] = "body"]
  /\ status' = [status EXCEPT ![c] = "queued"]
  /\ UNCHANGED <<bg_funcs, idle, stack>>

ExecuteInline(t, c) ==
  /\ CanSubmit(t, c)
  /\ c \notin BackgroundTask
  /\ idle = 0
  /\ stack' = [stack EXCEPT ![t] = <<c>> \o stack[t]]
  /\ status' = [status EXCEPT ![c] = "running"]
  /\ UNCHANGED <<fg_funcs, bg_funcs, idle, mode>>

\* The innermost task of t returns to its caller: the body below it on the
\* stack, or the worker loop.  A task that counts its submissions down to
\* zero does not get here before they have all returned.
Return(t) ==
  /\ mode[t] = "body"
  /\ stack[t] # <<>>
  /\ Head(stack[t]) \in Joins => Pending(Head(stack[t])) = {}
  /\ stack' = [stack EXCEPT ![t] = Tail(stack[t])]
  /\ mode' = [mode EXCEPT ![t] = IF Tail(stack[t]) = <<>> THEN "fin" ELSE "body"]
  /\ status' = [status EXCEPT ![Head(stack[t])] = "done"]
  /\ UNCHANGED <<fg_funcs, bg_funcs, idle>>

-----------------------------------------------------------------------------
(* The worker loop. *)

PopForeground(w) ==
  /\ mode[w] = "free"
  /\ fg_funcs # <<>>
  /\ fg_funcs' = Tail(fg_funcs)
  /\ stack' = [stack EXCEPT ![w] = <<Head(fg_funcs)>>]
  /\ mode' = [mode EXCEPT ![w] = "taken"]
  /\ status' = [status EXCEPT ![Head(fg_funcs)] = "taken"]
  /\ UNCHANGED <<bg_funcs, idle>>

PopBackground(w) ==
  /\ mode[w] = "free"
  /\ fg_funcs = <<>>
  /\ bg_funcs # <<>>
  /\ bg_funcs' = Tail(bg_funcs)
  /\ stack' = [stack EXCEPT ![w] = <<Head(bg_funcs)>>]
  /\ mode' = [mode EXCEPT ![w] = "taken"]
  /\ status' = [status EXCEPT ![Head(bg_funcs)] = "taken"]
  /\ UNCHANGED <<fg_funcs, idle>>

Pop(w) == PopForeground(w) \/ PopBackground(w)

\* idle_-- and the call
Begin(w) ==
  /\ mode[w] = "taken"
  /\ idle' = idle - 1
  /\ mode' = [mode EXCEPT ![w] = "body"]
  /\ status' = [status EXCEPT ![Head(stack[w])] = "running"]
  /\ UNCHANGED <<fg_funcs, bg_funcs, stack>>

\* idle_++ after the call
End(w) ==
  /\ mode[w] = "fin"
  /\ idle' = idle + 1
  /\ mode' = [mode EXCEPT ![w] = "free"]
  /\ UNCHANGED <<fg_funcs, bg_funcs, stack, status>>

-----------------------------------------------------------------------------
Submit(t) == \E c \in Task \ {Main} :
  Background(t, c) \/ ExecuteFoundIdle(t, c) \/ PushForeground(t, c) \/ ExecuteInline(t, c)

\* Main has returned, nothing is queued and every worker is back in its loop.
Terminated ==
  /\ mode[Client] = "fin"
  /\ fg_funcs = <<>> /\ bg_funcs = <<>>
  /\ \A w \in Worker : mode[w] = "free"
  /\ UNCHANGED poolVars

Next ==
  \/ \E t \in Thread : Submit(t) \/ Return(t)
  \/ \E w \in Worker : Pop(w) \/ Begin(w) \/ End(w)
  \/ Terminated

SafeSpec == Init /\ [][Next]_poolVars

\* Every thread keeps running: a thread that has decided to push pushes, a
\* worker keeps looping, and a body that may return does.  Nothing obliges a
\* body to submit a task.
Fairness ==
  /\ \A t \in Thread : WF_poolVars(Return(t)) /\ WF_poolVars(\E c \in Task : PushForeground(t, c))
  /\ \A w \in Worker : WF_poolVars(Pop(w) \/ Begin(w) \/ End(w))

Spec == SafeSpec /\ Fairness

-----------------------------------------------------------------------------
(* Properties. *)

Distinct(q) == \A i, j \in DOMAIN q : q[i] = q[j] => i = j

Occurs(c, q) == \E i \in DOMAIN q : q[i] = c

\* A task sits in exactly one place of exactly one queue while it is queued and
\* in none otherwise: the racing pops and pushes neither lose nor duplicate it
\* (the worker loop, background() and execute()).
QueuesHoldWhatIsQueued ==
  /\ \A c \in Task : status[c] = "queued" <=> Occurs(c, fg_funcs) \/ Occurs(c, bg_funcs)
  /\ \A c \in Task : ~(Occurs(c, fg_funcs) /\ Occurs(c, bg_funcs))
  /\ Distinct(fg_funcs) /\ Distinct(bg_funcs)

IdleWorkers == {w \in Worker : mode[w] \in {"free", "taken"}}

\* idle_ counts the workers outside idle_-- ... idle_++ whatever the
\* interleaving; in particular the unsigned counter never goes below zero and
\* never exceeds thread_limit_, although nobody locks it.
IdleCountsIdleWorkers == idle = Cardinality(IdleWorkers)

\* A worker whose body waits, or may wait, for a task somebody else must finish.
Stuck(w) == mode[w] = "body" /\ stack[w] # <<>> /\ Pending(Head(stack[w])) # {}

\* Whatever the race between the unlocked read of idle_ in execute() and the
\* workers that become busy meanwhile, the workers are never all waiting for
\* tasks that are still queued: nested joins cannot exhaust the pool.
NeverAllStuck == \E w \in Worker : ~Stuck(w)

\* A task as its submitter sees it: where a submitted one is waiting is hidden.
TaskState == [c \in Task |->
  IF status[c] \in {"pushing", "queued", "taken"} THEN "submitted" ELSE status[c]]

\* What the manager promises its callers.
Promise == INSTANCE Executor WITH state <- TaskState

\* The queues, the idle counter and inline execution implement the executor:
\* each task runs once, a joining task returns after its kids, and every
\* submitted task is eventually run to its end.
ImplementsExecutor == Promise!Spec

-----------------------------------------------------------------------------
(* Why the workers are never all stuck: the last worker to become busy finds *)
(* idle_ = 0 from then on, so it runs all it submits on its own stack.       *)

\* What mode says of the stack of a thread, and the stack of its tasks.
StackMatchesMode == \A t \in Thread :
  /\ mode[t] \in {"free", "fin"} <=> stack[t] = <<>>
  /\ mode[t] = "taken" => Len(stack[t]) = 1
  /\ \A i \in DOMAIN stack[t] :
       status[stack[t][i]] = IF mode[t] = "taken" THEN "taken" ELSE "running"

\* No task is on two stacks, or twice on one.
StacksDisjoint == \A t, u \in Thread :
  \A i \in DOMAIN stack[t], j \in DOMAIN stack[u] :
    stack[t][i] = stack[u][j] => t = u /\ i = j

\* Main stays on its own thread.
MainOnClient ==
  /\ status[Main] \in {"running", "done"}
  /\ \A w \in Worker : \A i \in DOMAIN stack[w] : stack[w][i] # Main

\* Only a task whose body has begun has submitted anything.
KidsAfterParent == \A c \in Task \ {Main} :
  status[c] # "new" => status[Parent[c]] \in {"running", "done"}

\* All that the tasks on w's stack have submitted has returned, or is the next
\* task up on that stack.
Fresh(w) ==
  /\ mode[w] # "push"
  /\ \A i \in DOMAIN stack[w] : \A c \in Pending(stack[w][i]) : i > 1 /\ stack[w][i - 1] = c

SomeBusyWorkerFresh == IdleWorkers = {} => \E w \in Worker : Fresh(w)

IndInv ==
  /\ TypeOK
  /\ IdleCountsIdleWorkers
  /\ QueuesHoldWhatIsQueued
  /\ StackMatchesMode
  /\ StacksDisjoint
  /\ MainOnClient
  /\ KidsAfterParent
  /\ SomeBusyWorkerFresh
=============================================================================
