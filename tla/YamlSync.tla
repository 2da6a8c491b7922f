------------------------------ MODULE YamlSync ------------------------------
(* OCI::Sync (src/src/lib/OCI/Sync.cpp) with a Yaml source                   *)
(* (src/src/lib/OCI/Extensions/Yaml.cpp): the domains of a file one after    *)
(* the other, a background function for each repository of the domain, and a *)
(* function for each tag of the repository.                                  *)
(*                                                                           *)
(* All of them copy one Yaml object, whose current_domain_ and filter are    *)
(* what they find when they do; only the counters of repoSync and execute    *)
(* keep a function of one domain from running under the next.  A Client or   *)
(* Dir as the source is a file of one domain that lists no tags.             *)
(*                                                                           *)
(* The executor may run a submitted function at any time; that it may run it *)
(* on the spot is one of those times.  Copying a tag is Copy's subject: here *)
(* it is the tag being asked for at the source, first and last.              *)
EXTENDS Naturals, Sequences, FiniteSetsExt

CONSTANTS
  File,       \* the yaml files
  Domains,    \* the domains of a file, in its order
  Repo, Tag, Filter,
  Most,       \* bound: the repositories of a domain
  Images,     \* Images[f][d]: the repositories file f has under domain d, a sequence
  Tags,       \* Tags[f][d][r]: the tags it lists for r; none is {}
  Options,    \* Options[f][d]: the filter of its tag-options, "" without one; "absent" without tag-options
  Passes,     \* Passes[p]: the tags filter p finds a match in
  Library,    \* Library[r] for an r without a '/': the repository library/r
  Known,      \* Known[d][r]: the tags registry d has for r
  MaxFaults   \* bound: registries that do not answer, or answer with an error

Domain == {Domains[n] : n \in DOMAIN Domains}
\* The functions of repositories, and those of tags: <<n, k, t>> is for tag t of the k-th
\* repository of the n-th domain.
Place == (1 .. Len(Domains)) \X (1 .. Most)
Function == (1 .. Len(Domains)) \X (1 .. Most) \X Tag
PlaceOf(c) == <<c[1], c[2]>>

ASSUME YamlAssumption ==
  /\ Most \in Nat /\ MaxFaults \in Nat
  /\ IsFiniteSet(Tag)
  /\ Domains \in Seq(Domain) /\ "" \notin Domain
  /\ \A n, m \in DOMAIN Domains : Domains[n] = Domains[m] => n = m
  /\ \A f \in File, d \in Domain :
       /\ Images[f][d] \in Seq(Repo) /\ Len(Images[f][d]) <= Most
       /\ Tags[f][d] \in [Repo -> SUBSET Tag]
  /\ Known \in [Domain -> [Repo -> SUBSET Tag]]
  /\ \A r \in DOMAIN Library : Library[r] \in Repo \ DOMAIN Library

VARIABLES
  file,
  main,            \* where the owner of the Sync stands
  nth,             \* the domain it is at
  current_domain,
  repo_index,      \* how many of its repositories are submitted
  repo_thr_count,
  at,              \* at[p]: where the function of a repository stands
  todo,            \* the tags it has yet to submit
  thread_count,    \* its counter
  copy,            \* copy[c]: where the function of a tag stands
  asked,           \* <<domain, repository, tag>>: what was asked of the source
  faults

owner == <<main, nth, current_domain, repo_index>>
vars == <<file, owner, repo_thr_count, at, todo, thread_count, copy, asked, faults>>

TypeOK ==
  /\ file \in File
  /\ main \in {"catalog", "submit", "join", "over", "terminated"}
  /\ nth \in 1 .. Len(Domains) + 1
  /\ current_domain \in Domain \cup {""}
  /\ repo_index \in 0 .. Most
  /\ repo_thr_count \in 0 .. Most
  /\ at \in [Place -> {"off", "queued", "tags", "over"}]
  /\ todo \in [Place -> SUBSET Tag]
  /\ thread_count \in [Place -> 0 .. Cardinality(Tag)]
  /\ copy \in [Function -> {"off", "queued", "running", "over"}]
  /\ asked \subseteq Domain \X Repo \X Tag
  /\ faults \in 0 .. MaxFaults

Init ==
  /\ file \in File
  /\ main = "catalog" /\ nth = 1 /\ current_domain = "" /\ repo_index = 0
  /\ repo_thr_count = 0
  /\ at = [p \in Place |-> "off"]
  /\ todo = [p \in Place |-> {}]
  /\ thread_count = [p \in Place |-> 0]
  /\ copy = [c \in Function |-> "off"]
  /\ asked = {}
  /\ faults = 0

Fault == faults < MaxFaults /\ faults' = faults + 1

\* The tags that pass a filter.
Through(filter, tags) == IF filter = "" THEN tags ELSE tags \cap Passes[filter]

\* The catalogue of the domain the owner is at.
Repositories == Images[file][Domains[nth]]

-----------------------------------------------------------------------------
(* Mutants.                                                                  *)

\* The function counts itself, once it runs.
BackgroundUncounted ==
  /\ main = "submit" /\ repo_index < Len(Repositories)
  /\ at' = [at EXCEPT ![<<nth, repo_index + 1>>] = "queued"]
  /\ repo_index' = repo_index + 1
  /\ UNCHANGED <<file, main, nth, current_domain, repo_thr_count, todo, thread_count,
                 copy, asked, faults>>

\* The function of a tag is not counted.
ExecuteTagUncounted(p, t) ==
  /\ main # "terminated"
  /\ at[p] = "tags" /\ t \in todo[p]
  /\ copy' = [copy EXCEPT ![<<p[1], p[2], t>>] = "queued"]
  /\ todo' = [todo EXCEPT ![p] = todo[p] \ {t}]
  /\ UNCHANGED <<file, owner, repo_thr_count, at, thread_count, asked, faults>>

\* The first domain with tag-options decides, not the last.
filterOfFirst(f) ==
  LET given == {n \in DOMAIN Domains : Options[f][Domains[n]] # "absent"} IN
    IF given = {} THEN "" ELSE Options[f][Domains[Min(given)]]

\* A repository that has no tags left returns at once.
RepoReturnsEarly(p) ==
  /\ main # "terminated"
  /\ at[p] = "tags" /\ todo[p] = {}
  /\ at' = [at EXCEPT ![p] = "over"]
  /\ repo_thr_count' = repo_thr_count - 1
  /\ UNCHANGED <<file, owner, todo, thread_count, copy, asked, faults>>

\* A list of tags that could not be fetched makes the function return, uncounted.
ListTagsFailsEarly(p) ==
  /\ main # "terminated"
  /\ at[p] = "queued"
  /\ Fault
  /\ at' = [at EXCEPT ![p] = "over"]
  /\ UNCHANGED <<file, owner, repo_thr_count, todo, thread_count, copy, asked>>

-----------------------------------------------------------------------------
(* What the file says.                                                       *)

\* catalog_.tag_options.filter: each domain with tag-options overwrites it.
filterOf(f) ==
  LET given == {n \in DOMAIN Domains : Options[f][Domains[n]] # "absent"} IN
    IF given = {} THEN "" ELSE Options[f][Domains[Max(given)]]

FullName(r) == IF r \in DOMAIN Library THEN Library[r] ELSE r

\* Of the repository a function was made for: catalog() has put library/ before a name
\* without a '/', and the function has the name by value.
Name(p) == FullName(Images[file][Domains[p[1]]][p[2]])

-----------------------------------------------------------------------------
(* The owner of the Sync: execute over the domains, and repoSync.            *)

\* src->catalog(domain): the client is made anew.  A domain without images has no
\* catalogue: catalogs.at(domain) throws, nothing is running, and the program ends.
Catalog ==
  /\ main = "catalog" /\ nth <= Len(Domains)
  /\ current_domain' = Domains[nth]
  /\ repo_index' = 0
  /\ main' = IF Repositories = <<>> THEN "terminated" ELSE "submit"
  /\ UNCHANGED <<file, nth, repo_thr_count, at, todo, thread_count, copy, asked, faults>>

Background ==
  /\ main = "submit" /\ repo_index < Len(Repositories)
  /\ repo_thr_count' = repo_thr_count + 1
  /\ at' = [at EXCEPT ![<<nth, repo_index + 1>>] = "queued"]
  /\ repo_index' = repo_index + 1
  /\ UNCHANGED <<file, main, nth, current_domain, todo, thread_count, copy, asked, faults>>

AllSubmitted ==
  /\ main = "submit" /\ repo_index = Len(Repositories)
  /\ main' = "join"
  /\ UNCHANGED <<file, nth, current_domain, repo_index, repo_thr_count, at, todo,
                 thread_count, copy, asked, faults>>

Joined ==
  /\ main = "join" /\ repo_thr_count = 0
  /\ nth' = nth + 1
  /\ main' = IF nth = Len(Domains) THEN "over" ELSE "catalog"
  /\ UNCHANGED <<file, current_domain, repo_index, repo_thr_count, at, todo,
                 thread_count, copy, asked, faults>>

-----------------------------------------------------------------------------
(* The function of a repository.                                             *)

\* Yaml::tagList on a copy of the source: the tags of the file, if it has some under
\* this name, else those of the registry, through the filter.
TagList(d, name) ==
  IF name \in DOMAIN Tags[file][d] /\ Tags[file][d][name] # {}
  THEN Tags[file][d][name]
  ELSE Through(filterOf(file), Known[d][name])

Listed(p) == TagList(current_domain, Name(p))

ListTags(p) ==
  /\ main # "terminated"
  /\ at[p] = "queued"
  /\ at' = [at EXCEPT ![p] = "tags"]
  /\ todo' = [todo EXCEPT ![p] = Listed(p)]
  /\ UNCHANGED <<file, owner, repo_thr_count, thread_count, copy, asked, faults>>

AsksRegistry(p) ==
  Name(p) \notin DOMAIN Tags[file][current_domain] \/ Tags[file][current_domain][Name(p)] = {}

\* The registry does not answer, or not with a list: it has no tags then.
ListTagsFails(p) ==
  /\ main # "terminated"
  /\ at[p] = "queued" /\ AsksRegistry(p)
  /\ Fault
  /\ at' = [at EXCEPT ![p] = "tags"]
  /\ UNCHANGED <<file, owner, repo_thr_count, todo, thread_count, copy, asked>>

\* auth throws, when the service it is sent to does not answer.  Client::tagList with a
\* filter catches it; without one nobody does, and the worker ends the process.
AuthThrows(p) ==
  /\ main # "terminated"
  /\ at[p] = "queued" /\ AsksRegistry(p)
  /\ filterOf(file) = ""
  /\ Fault
  /\ main' = "terminated"
  /\ UNCHANGED <<file, nth, current_domain, repo_index, repo_thr_count, at, todo,
                 thread_count, copy, asked>>

ExecuteTag(p, t) ==
  /\ main # "terminated"
  /\ at[p] = "tags" /\ t \in todo[p]
  /\ thread_count' = [thread_count EXCEPT ![p] = thread_count[p] + 1]
  /\ copy' = [copy EXCEPT ![<<p[1], p[2], t>>] = "queued"]
  /\ todo' = [todo EXCEPT ![p] = todo[p] \ {t}]
  /\ UNCHANGED <<file, owner, repo_thr_count, at, asked, faults>>

RepoReturns(p) ==
  /\ main # "terminated"
  /\ at[p] = "tags" /\ todo[p] = {} /\ thread_count[p] = 0
  /\ at' = [at EXCEPT ![p] = "over"]
  /\ repo_thr_count' = repo_thr_count - 1
  /\ UNCHANGED <<file, owner, todo, thread_count, copy, asked, faults>>

-----------------------------------------------------------------------------
(* The function of a tag: copier_->execute(rsrc, tag) copies the source for  *)
(* the manifest list, and again for what it names.                           *)

StartCopy(c) ==
  /\ main # "terminated"
  /\ copy[c] = "queued"
  /\ copy' = [copy EXCEPT ![c] = "running"]
  /\ asked' = asked \cup {<<current_domain, Name(PlaceOf(c)), c[3]>>}
  /\ UNCHANGED <<file, owner, repo_thr_count, at, todo, thread_count, faults>>

FinishCopy(c) ==
  /\ main # "terminated"
  /\ copy[c] = "running"
  /\ copy' = [copy EXCEPT ![c] = "over"]
  /\ asked' = asked \cup {<<current_domain, Name(PlaceOf(c)), c[3]>>}
  /\ thread_count' = [thread_count EXCEPT ![PlaceOf(c)] = thread_count[PlaceOf(c)] - 1]
  /\ UNCHANGED <<file, owner, repo_thr_count, at, todo, faults>>

-----------------------------------------------------------------------------
FunctionNext ==
  \/ \E p \in Place : ListTags(p) \/ ListTagsFails(p) \/ AuthThrows(p) \/ RepoReturns(p)
  \/ \E p \in Place, t \in Tag : ExecuteTag(p, t)
  \/ \E c \in Function : StartCopy(c) \/ FinishCopy(c)

OwnerNext == Catalog \/ Background \/ AllSubmitted \/ Joined

Next == OwnerNext \/ FunctionNext

SafeSpec == Init /\ [][Next]_vars

\* Threads run, and the executor starts what it is given (QueuedTasksFinish of
\* SimpleThreadManager).
Fairness ==
  /\ WF_vars(OwnerNext)
  /\ \A p \in Place : WF_vars(ListTags(p)) /\ WF_vars(RepoReturns(p))
  /\ \A p \in Place, t \in Tag : WF_vars(ExecuteTag(p, t))
  /\ \A c \in Function : WF_vars(StartCopy(c)) /\ WF_vars(FinishCopy(c))

Spec == SafeSpec /\ Fairness

-----------------------------------------------------------------------------
(* Properties.                                                               *)

\* What a file asks for: of each repository the tags it lists, and without any the tags
\* of the registry that pass the filter of the domain itself.
FilterOf(d) == IF Options[file][d] = "absent" THEN "" ELSE Options[file][d]

WantedTags(d, r) ==
  IF Tags[file][d][r] # {} THEN Tags[file][d][r] ELSE Through(FilterOf(d), Known[d][FullName(r)])

Wanted == {a \in Domain \X Repo \X Tag : \E k \in DOMAIN Images[file][a[1]] :
  LET r == Images[file][a[1]][k] IN a[2] = FullName(r) /\ a[3] \in WantedTags(a[1], r)}

\* Nothing is asked of the source that the file does not name: no repository of one
\* domain at the registry of another, and no tag it leaves out (Sync.cpp:59 and 130 are
\* what keeps current_domain_ still while functions copy the source).
AsksOnlyWhatTheFileNames == asked \subseteq Wanted

\* When the owner is through with the last domain and every registry has answered,
\* everything the file names has been asked for (Yaml.cpp:179-195, Sync.cpp:107-130).
AsksAllTheFileNames == main = "over" /\ faults = 0 => Wanted \subseteq asked

\* The sync comes to an end, or the process does, also when registries fail
\* (Sync.cpp:9-21: there is no timeout, the counters must reach zero).
SyncEnds == <>(main \in {"over", "terminated"})

\* To the executor the owner is one more task, that of the thread which has it.
OwnerTask == <<>>
Task == {OwnerTask} \cup Place \cup Function
Parent == [c \in Task \ {OwnerTask} |-> IF c \in Place THEN OwnerTask ELSE PlaceOf(c)]

Progress(s) ==
  CASE s = "off" -> "new"
    [] s = "queued" -> "submitted"
    [] s \in {"tags", "running"} -> "running"
    [] s = "over" -> "done"

TaskState == [c \in Task |->
  IF c = OwnerTask THEN IF main = "over" THEN "done" ELSE "running"
  ELSE Progress(IF c \in Place THEN at[c] ELSE copy[c])]

\* Sync uses the executor as Executor describes it: functions are submitted by the one
\* that joins them, each at most once, and whoever submitted them returns after them.
Pool == INSTANCE Executor WITH Main <- OwnerTask, Joins <- {OwnerTask} \cup Place, state <- TaskState

ImplementsExecutor == Pool!SafeSpec
-----------------------------------------------------------------------------
(* Why no function meets another domain than its own: the counters count     *)
(* what has been submitted and has not returned.                             *)

\* The function of the tag t of place p.
FunctionOf(p, t) == <<p[1], p[2], t>>

Busy == {p \in Place : at[p] \in {"queued", "tags"}}
BusyTags(p) == {t \in Tag : copy[FunctionOf(p, t)] \in {"queued", "running"}}

Catalogued(p) == Images[file][Domains[p[1]]]

\* The tags of place p, as the function finds them under the domain it was made for.
ListedAt(p) == TagList(Domains[p[1]], Name(p))

CountersCount ==
  /\ repo_thr_count = Cardinality(Busy) /\ repo_thr_count <= repo_index
  /\ \A p \in Place : thread_count[p] = Cardinality(BusyTags(p))

OwnerInStep ==
  /\ main = "over" => nth = Len(Domains) + 1
  /\ main \in {"submit", "join", "terminated"} =>
       /\ nth <= Len(Domains)
       /\ current_domain = Domains[nth]
       /\ repo_index <= Len(Repositories)
       /\ main = "join" => repo_index = Len(Repositories)

\* The repositories of the domains before are over, those of the domain at hand
\* are submitted up to repo_index, and none else.
Submitted(p) ==
  \/ p[1] < nth /\ p[2] <= Len(Catalogued(p))
  \/ p[1] = nth /\ main # "catalog" /\ p[2] <= repo_index

PlacesInStep == \A p \in Place :
  /\ at[p] # "off" <=> Submitted(p)
  /\ at[p] \in {"queued", "tags"} => p[1] = nth
  /\ at[p] \in {"off", "queued", "over"} => todo[p] = {}

\* A function of a tag is made once, for a tag on the list, under a function
\* that waits for it.
FunctionsInStep == \A p \in Place :
  /\ \A t \in todo[p] : t \in ListedAt(p)
  /\ \A t \in Tag :
       /\ copy[FunctionOf(p, t)] # "off" => at[p] \in {"tags", "over"} /\ t \in ListedAt(p) \ todo[p]
       /\ copy[FunctionOf(p, t)] \in {"queued", "running"} => at[p] = "tags"

AskedListed == \A a \in asked : \E p \in Place : p[2] <= Len(Catalogued(p)) /\
  \E t \in ListedAt(p) : a = <<Domains[p[1]], Name(p), t>>

NothingForgotten == \A p \in Place :
  at[p] \in {"tags", "over"} => \A t \in ListedAt(p) :
    t \in todo[p] \/ copy[FunctionOf(p, t)] # "off"

CopiedIsAsked == \A p \in Place, t \in Tag :
  copy[FunctionOf(p, t)] \in {"running", "over"} => <<Domains[p[1]], Name(p), t>> \in asked

YamlInv ==
  /\ CountersCount /\ OwnerInStep /\ PlacesInStep /\ FunctionsInStep
  /\ AskedListed /\ CopiedIsAsked
  /\ faults = 0 => NothingForgotten

\* The file is read as it is meant: the tags it lists for a repository are under its
\* full name, and where it lists none, the filter that is left of all its tag-options
\* is that of the domain.
ReadAsMeant == \A d \in Domain : \A k \in DOMAIN Images[file][d] :
  LET r == Images[file][d][k] IN
    /\ Tags[file][d][FullName(r)] = Tags[file][d][r]
    /\ Tags[file][d][r] = {} => filterOf(file) = FilterOf(d)
=============================================================================
