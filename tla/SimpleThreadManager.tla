------------------------ MODULE SimpleThreadManager -------------------------
(* gobha::SimpleThreadManager with its condition variable, its timeouts,     *)
(* wait() and its destructor (src/include/gobha/SimpleThreadManager.hpp),    *)
(* superposed on the scheduling discipline of TaskPool: every step that      *)
(* changes a queue, a stack or idle_ is a step of that module, and this one  *)
(* says when a thread comes to take it.                                      *)
(*                                                                           *)
(* cv_ has one wait set for the workers and for a client in wait(), so a     *)
(* notify_one may wake either.                                               *)
EXTENDS Naturals, Sequences, FiniteSets

CONSTANTS Worker, Client, Task, Main, Parent, Joins, BackgroundTask

\* What TaskPool assumes of them.
ASSUME ManagerAssumption ==
  /\ IsFiniteSet(Worker) /\ Worker # {}
  /\ Client \notin Worker
  /\ Main \in Task
  /\ Parent \in [Task \ {Main} -> Task]
  /\ Joins \subseteq Task
  /\ BackgroundTask \subseteq {c \in Task \ {Main} : Parent[c] = Main}

VARIABLES
  fg_funcs, bg_funcs, idle, stack, mode, status,  \* as in TaskPool
  run_thr,  \* run_thr_: the workers are to go on looping
  pc        \* where a thread is outside the bodies of tasks: see Location

Pool == INSTANCE TaskPool

Thread == Worker \cup {Client}

poolVars == <<fg_funcs, bg_funcs, idle, stack, mode, status>>
cvVars == <<run_thr, pc>>
vars == <<fg_funcs, bg_funcs, idle, stack, mode, status, run_thr, pc>>

\* loop:     a worker about to test run_thr_, or inside its func
\* lock:     about to lock q_mut_ for the first time in this round
\* wait:     in the wait set of cv_
\* notified, timedout: out of it, about to lock q_mut_ again
\* exit:     a worker that has left its loop
\* check:    the client in Main, or at the top of the loop of wait()
\* finished: wait() has returned to the destructor
\* stopped:  run_thr_ is false, notify_all not yet done
\* join:     joining the workers
\* gone:     the destructor has returned
Location == {"loop", "lock", "wait", "notified", "timedout", "exit",
             "check", "finished", "stopped", "join", "gone"}

TypeOK ==
  /\ Pool!TypeOK
  /\ run_thr \in BOOLEAN
  /\ pc \in [Thread -> Location]
  /\ \A w \in Worker : pc[w] # "loop" => mode[w] = "free"

Init ==
  /\ Pool!Init
  /\ run_thr = TRUE
  /\ pc = [t \in Thread |-> IF t = Client THEN "check" ELSE "loop"]

QueuesEmpty == fg_funcs = <<>> /\ bg_funcs = <<>>

\* cv_.notify_one() once the locations are f: some waiting thread leaves the
\* wait set, if there is one.
NotifyOne(f) ==
  LET waiting == {t \in Thread : f[t] = "wait"} IN
  IF waiting = {} THEN {f} ELSE {[f EXCEPT ![t] = "notified"] : t \in waiting}

NotifyAll(f) == [t \in Thread |-> IF f[t] = "wait" THEN "notified" ELSE f[t]]

-----------------------------------------------------------------------------
(* Mutants: each is one of the operations below with a plausible bug in it.  *)

\* The loop ends as soon as there is nothing to do.
TestRunThrOrEmpty(w) ==
  /\ pc[w] = "loop" /\ mode[w] = "free"
  /\ pc' = [pc EXCEPT ![w] = IF run_thr /\ ~QueuesEmpty THEN "lock" ELSE "exit"]
  /\ UNCHANGED <<poolVars, run_thr>>

\* The worker keeps its place at the lock while it runs its function.
PopAndNotifyStays(w) ==
  /\ pc[w] \in {"lock", "notified", "timedout"}
  /\ Pool!Pop(w)
  /\ pc' \in NotifyOne(pc)
  /\ UNCHANGED run_thr

\* wait instead of wait_for in the workers.
TimeoutOfClientOnly(t) ==
  /\ t = Client /\ pc[t] = "wait"
  /\ pc' = [pc EXCEPT ![t] = "timedout"]
  /\ UNCHANGED <<poolVars, run_thr>>

\* wait() takes any notification for the end.
ClientWakesToStop ==
  /\ pc[Client] \in {"notified", "timedout"}
  /\ pc' = [pc EXCEPT ![Client] = IF pc[Client] = "notified" THEN "finished" ELSE "check"]
  /\ UNCHANGED <<poolVars, run_thr>>

-----------------------------------------------------------------------------
(* Submission and task bodies: those of TaskPool, with the notification. *)

Background(t, c) == Pool!Background(t, c) /\ pc' \in NotifyOne(pc) /\ UNCHANGED run_thr

Execute(t, c) ==
  /\ Pool!ExecuteFoundIdle(t, c) \/ Pool!ExecuteInline(t, c)
  /\ UNCHANGED cvVars

PushForeground(t, c) == Pool!PushForeground(t, c) /\ pc' \in NotifyOne(pc) /\ UNCHANGED run_thr

Return(t) == Pool!Return(t) /\ UNCHANGED cvVars

Begin(w) == Pool!Begin(w) /\ UNCHANGED cvVars

End(w) == Pool!End(w) /\ UNCHANGED cvVars

-----------------------------------------------------------------------------
(* The worker loop. *)

TestRunThr(w) ==
  /\ pc[w] = "loop" /\ mode[w] = "free"
  /\ pc' = [pc EXCEPT ![w] = IF run_thr THEN "lock" ELSE "exit"]
  /\ UNCHANGED <<poolVars, run_thr>>

\* wait_for with a predicate sleeps, again and again, while both queues are empty.
Sleep(w) ==
  /\ pc[w] \in {"lock", "notified"}
  /\ QueuesEmpty
  /\ pc' = [pc EXCEPT ![w] = "wait"]
  /\ UNCHANGED <<poolVars, run_thr>>

\* Every round ends with a notify_one under the lock, with a function or not.
PopAndNotify(w) ==
  /\ pc[w] \in {"lock", "notified", "timedout"}
  /\ Pool!Pop(w)
  /\ pc' \in NotifyOne([pc EXCEPT ![w] = "loop"])
  /\ UNCHANGED run_thr

NothingAfterTimeout(w) ==
  /\ pc[w] = "timedout"
  /\ QueuesEmpty
  /\ pc' \in NotifyOne([pc EXCEPT ![w] = "loop"])
  /\ UNCHANGED <<poolVars, run_thr>>

\* The 250 ms of a wait_for are over; those of a worker run from the first lock
\* of the round, whatever wakes it meanwhile.
Timeout(t) ==
  /\ pc[t] = "wait"
  /\ pc' = [pc EXCEPT ![t] = "timedout"]
  /\ UNCHANGED <<poolVars, run_thr>>

\* A condition variable may wake a thread nobody notified.
SpuriousWakeup(t) ==
  /\ pc[t] = "wait"
  /\ pc' = [pc EXCEPT ![t] = "notified"]
  /\ UNCHANGED <<poolVars, run_thr>>

-----------------------------------------------------------------------------
(* The client, once Main has returned: the destructor, which begins with     *)
(* wait().                                                                   *)

ClientSleeps ==
  /\ mode[Client] = "fin" /\ pc[Client] = "check"
  /\ idle = Cardinality(Worker)
  /\ pc' = [pc EXCEPT ![Client] = "wait"]
  /\ UNCHANGED <<poolVars, run_thr>>

\* wait() is finished if the client was notified and finds both queues empty;
\* idle_ is not read again.
ClientWakes ==
  /\ pc[Client] \in {"notified", "timedout"}
  /\ pc' = [pc EXCEPT ![Client] =
              IF pc[Client] = "notified" /\ QueuesEmpty THEN "finished" ELSE "check"]
  /\ UNCHANGED <<poolVars, run_thr>>

StopWorkers ==
  /\ pc[Client] = "finished"
  /\ run_thr' = FALSE
  /\ pc' = [pc EXCEPT ![Client] = "stopped"]
  /\ UNCHANGED poolVars

NotifyWorkers ==
  /\ pc[Client] = "stopped"
  /\ pc' = NotifyAll([pc EXCEPT ![Client] = "join"])
  /\ UNCHANGED <<poolVars, run_thr>>

JoinWorkers ==
  /\ pc[Client] = "join"
  /\ \A w \in Worker : pc[w] = "exit"
  /\ pc' = [pc EXCEPT ![Client] = "gone"]
  /\ UNCHANGED <<poolVars, run_thr>>

ClientStep == ClientWakes \/ StopWorkers \/ NotifyWorkers \/ JoinWorkers

Terminated == pc[Client] = "gone" /\ UNCHANGED vars

-----------------------------------------------------------------------------
Next ==
  \/ \E t \in Thread, c \in Task \ {Main} :
       Background(t, c) \/ Execute(t, c) \/ PushForeground(t, c)
  \/ \E t \in Thread : Return(t) \/ Timeout(t) \/ SpuriousWakeup(t)
  \/ \E w \in Worker : \/ Begin(w) \/ End(w)
                       \/ TestRunThr(w) \/ Sleep(w) \/ PopAndNotify(w) \/ NothingAfterTimeout(w)
  \/ ClientSleeps \/ ClientStep
  \/ Terminated

SafeSpec == Init /\ [][Next]_vars

\* Threads keep running and the mutex is handed over fairly.  A worker's
\* wait_for has a deadline that spurious wakeups do not postpone, which is
\* strong fairness of its Timeout.  Nothing makes notify_one choose the client,
\* so nothing makes wait() return.
Fairness ==
  /\ \A t \in Thread : WF_vars(Return(t)) /\ WF_vars(\E c \in Task : PushForeground(t, c))
  /\ \A w \in Worker :
       /\ WF_vars(Begin(w) \/ End(w) \/ TestRunThr(w))
       /\ WF_vars(Sleep(w) \/ PopAndNotify(w) \/ NothingAfterTimeout(w))
       /\ SF_vars(Timeout(w))
  /\ WF_vars(ClientStep)

Spec == SafeSpec /\ Fairness

-----------------------------------------------------------------------------
(* Properties. *)

\* "all tasks completed" when the destructor stops the workers (its trace at
\* SimpleThreadManager.hpp:100; the tests' REQUIRE( value == 16 ) after wait()):
\* every task that was submitted has returned once wait() has.
WaitMeansDone ==
  pc[Client] \in {"finished", "stopped", "join", "gone"} =>
    \A c \in Task : status[c] \in {"new", "done"}

\* Once the destructor has returned no task is left in a queue, half submitted
\* or on the stack of a thread that is no longer there.
NothingLeftBehind ==
  pc[Client] = "gone" =>
    /\ QueuesEmpty
    /\ \A t \in Thread : stack[t] = <<>>
    /\ \A c \in Task : status[c] \in {"new", "done"}

\* A worker never sleeps through work for good: whatever notifications go to
\* threads that cannot use them, a queued task is eventually run to its end.
QueuedTasksFinish == \A c \in Task : status[c] = "queued" ~> status[c] = "done"

\* The destructor, once wait() has let it go, is not left joining a worker that
\* sleeps or loops for ever.
DestructorFinishes == pc[Client] = "finished" ~> pc[Client] = "gone"

\* The condition variable, its timeouts and shutdown lose nothing of the
\* scheduling discipline, its progress included.
ImplementsTaskPool == Pool!Spec
=============================================================================
