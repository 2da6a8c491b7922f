----------------------- MODULE MCSimpleThreadManager ------------------------
(* SimpleThreadManager on small trees of tasks.  Sync: Main submits two      *)
(* functions to the background queue and joins them; the first executes two  *)
(* leaves that it does not join, as an image its downloads.  Test: the       *)
(* foreground section of src/src/tests/SimpleThreadManager.cpp with two of   *)
(* its outer functions, each executing one inner function, and no joins.     *)
EXTENDS SimpleThreadManager

CONSTANTS main, outer1, outer2, inner1, inner2

SyncTask == {main, outer1, outer2, inner1, inner2}
SyncParent == [c \in SyncTask \ {main} |-> IF c \in {outer1, outer2} THEN main ELSE outer1]
SyncBackground == {outer1, outer2}

TestTask == {main, outer1, outer2, inner1, inner2}
TestParent == [c \in TestTask \ {main} |->
  CASE c = inner1 -> outer1
    [] c = inner2 -> outer2
    [] OTHER -> main]
=============================================================================
