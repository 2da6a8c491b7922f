------------------------------ MODULE Executor ------------------------------
(* What callers rely on when they hand functions to SimpleThreadManager      *)
(* (src/include/gobha/SimpleThreadManager.hpp): a submitted function is run  *)
(* exactly once, it may run on the spot before the call returns, and a       *)
(* caller that counts its functions down to zero before it returns           *)
(* (Sync::repoSync, Sync::execute, Copy::execute of a ManifestList) returns  *)
(* after all of them.  Threads, queues and the idle counter are not visible. *)
CONSTANTS
  Task,    \* the functions a run may hand to the executor
  Main,    \* the task of the thread that owns the executor, running at the start
  Parent,  \* Parent[c] is the task whose body submits c
  Joins    \* the tasks that return only once the tasks they submitted are done

VARIABLE state

Kids(p) == {c \in Task \ {Main} : Parent[c] = p}

TypeOK == state \in [Task -> {"new", "submitted", "running", "done"}]

Init == state = [c \in Task |-> IF c = Main THEN "running" ELSE "new"]

Submit(c) ==
  /\ c # Main
  /\ state[c] = "new"
  /\ state[Parent[c]] = "running"
  /\ state' = [state EXCEPT ![c] = "submitted"]

Start(c) ==
  /\ state[c] = "submitted"
  /\ state' = [state EXCEPT ![c] = "running"]

RunInline(c) ==
  /\ c # Main
  /\ state[c] = "new"
  /\ state[Parent[c]] = "running"
  /\ state' = [state EXCEPT ![c] = "running"]

Complete(c) ==
  /\ state[c] = "running"
  /\ c \in Joins => \A k \in Kids(c) : state[k] \in {"new", "done"}
  /\ state' = [state EXCEPT ![c] = "done"]

Next == \E c \in Task : Submit(c) \/ Start(c) \/ RunInline(c) \/ Complete(c)

SafeSpec == Init /\ [][Next]_state

\* A submitted function is eventually started, and a running one returns.
Fairness == \A c \in Task : WF_state(Start(c)) /\ WF_state(Complete(c))

Spec == SafeSpec /\ Fairness
=============================================================================
