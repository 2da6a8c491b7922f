----------------------------- MODULE MCYamlSync -----------------------------
(* YamlSync with two domains.  plain lists no tags and has no tag-options.   *)
(* listed lists tags for full names.  filtered has tag-options in both       *)
(* domains, and only the last has a repository that lists no tags.  bare has *)
(* no images in the second domain.                                           *)
(* short lists a tag for a short name; filters has unlisted repositories in  *)
(* two domains with tag-options of their own.                                *)
EXTENDS YamlSync

MCDomains == <<"docker.io", "quay.io">>
MCRepo == {"redis", "library/redis", "ubi8/ubi"}
MCLibrary == [r \in {"redis"} |-> "library/redis"]

MCImages ==
  [f \in File |-> [d \in Domain |->
     CASE f = "bare" /\ d = "quay.io" -> <<>>
       [] d = "docker.io" /\ f # "filtered" -> <<"redis", "ubi8/ubi">>
       [] OTHER -> <<"ubi8/ubi">>]]

MCTags ==
  [f \in File |-> [d \in Domain |-> [r \in MCRepo |->
     CASE f = "short" /\ r = "redis" -> {"1.0"}
       [] f = "listed" /\ r = "ubi8/ubi" -> IF d = "docker.io" THEN {"1.0"} ELSE {"1.0", "latest"}
       [] f = "filtered" /\ d = "docker.io" -> {"1.0", "latest"}
       [] OTHER -> {}]]]

MCOptions ==
  [f \in File |-> [d \in Domain |->
     CASE f \in {"filtered", "filters"} -> IF d = "docker.io" THEN "newest" ELSE "versions"
       [] OTHER -> "absent"]]

MCPasses == [p \in {"newest", "versions"} |-> IF p = "newest" THEN {"latest"} ELSE {"1.0"}]

MCKnown ==
  [d \in Domain |-> [r \in MCRepo |->
     IF r = "ubi8/ubi" \/ (r = "library/redis" /\ d = "docker.io") THEN {"1.0", "latest"} ELSE {}]]
=============================================================================
