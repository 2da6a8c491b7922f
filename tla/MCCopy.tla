------------------------------- MODULE MCCopy -------------------------------
(* Copy on small catalogues.  Arch: one tag of two images that share a layer.*)
(* Shared: one tag of two images with one layer, the same.                   *)
(* Alias: two tags that name the same manifest.  The workers are symmetric,  *)
(* which the runs of safety properties use.                                  *)
EXTENDS Copy, TLC

CONSTANTS g1, g2, i1, i2, a, b, c1, c2

ArchTagOf == [i \in {i1, i2} |-> g1]
ArchLayers == [i \in {i1, i2} |-> IF i = i1 THEN <<a, b>> ELSE <<b>>]
ArchConfig == [i \in {i1, i2} |-> IF i = i1 THEN c1 ELSE c2]

SharedLayers == [i \in {i1, i2} |-> <<b>>]

WorkerSymmetry == Permutations(Worker)

AliasTagOf == [i \in {i1, i2} |-> IF i = i1 THEN g1 ELSE g2]
AliasLayers == [i \in {i1, i2} |-> <<a>>]
AliasConfig == [i \in {i1, i2} |-> c1]
=============================================================================
