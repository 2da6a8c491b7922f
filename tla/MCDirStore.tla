----------------------------- MODULE MCDirStore -----------------------------
(* DirStore with two images that share their configuration and have a layer  *)
(* each.  The tag names both, and then only the second.  Forward: it never   *)
(* comes back to a list it has left.  AnyWhere: it may.                      *)
EXTENDS DirStore

CONSTANTS a, b, l, m, c, v1, v2

PairLayers == [i \in {a, b} |-> IF i = a THEN {l} ELSE {m}]
PairConfig == [i \in {a, b} |-> c]
PairLists == [v \in {v1, v2} |-> IF v = v1 THEN {a, b} ELSE {b}]

Forward == [v \in {v1, v2} |-> IF v = v1 THEN {v1, v2} ELSE {v2}]
AnyWhere == [v \in {v1, v2} |-> {v1, v2}]
=============================================================================
