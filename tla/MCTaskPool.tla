----------------------------- MODULE MCTaskPool -----------------------------
(* TaskPool on a sync of two repositories: r1 with one tag of two images, r2 *)
(* with one tag.  The tree has the depth of the program's: Main submits      *)
(* repositories to the background queue, they submit tags, tags submit       *)
(* images, and an image submits the download of a layer and does not join it.*)
EXTENDS TaskPool

CONSTANTS main, r1, r2, t1, t2, i1, i2, d1

MCTask == {main, r1, r2, t1, t2, i1, i2, d1}
MCParent == [c \in MCTask \ {main} |->
  CASE c \in {r1, r2} -> main
    [] c = t1 -> r1
    [] c = t2 -> r2
    [] c \in {i1, i2} -> t1
    [] c = d1 -> i1]
MCJoins == MCTask \ {i1}
MCBackground == {r1, r2}
=============================================================================
