--------------------------- MODULE YamlSyncProofs ---------------------------
(* What holds of a sync from a Yaml file for every file, every registry and  *)
(* any number of failures: no function meets another domain than its own,    *)
(* and a file that is read as it is meant is asked for, all of it and no     *)
(* more.                                                                     *)
EXTENDS YamlSync, FiniteSetTheorems, TLAPS

-----------------------------------------------------------------------------
(* Places, functions and what the file says of them. *)

LEMMA Bounds ==
  /\ Len(Domains) \in Nat /\ Most \in Nat /\ MaxFaults \in Nat
  /\ IsFiniteSet(Tag) /\ Cardinality(Tag) \in Nat
  <1>1. Domains \in Seq(Domain) /\ Most \in Nat /\ MaxFaults \in Nat /\ IsFiniteSet(Tag)
    BY YamlAssumption
  <1> QED
    BY <1>1, FS_CardinalityType

LEMMA PlaceFacts ==
  /\ Len(Domains) \in Nat
  /\ \A n \in 1 .. Len(Domains) : Domains[n] \in Domain
  /\ \A p \in Place : /\ p[1] \in 1 .. Len(Domains) /\ p[2] \in 1 .. Most
                      /\ p[1] \in Nat /\ p[1] >= 1
                      /\ Domains[p[1]] \in Domain
  <1>0. Domains \in Seq(Domain)
    BY YamlAssumption
  <1>1. Len(Domains) \in Nat /\ DOMAIN Domains = 1 .. Len(Domains)
    BY <1>0
  <1> QED
    BY <1>1 DEF Place, Domain

\* The functions of the tags of a place.
LEMMA FunctionFacts ==
  /\ \A p \in Place, t \in Tag : FunctionOf(p, t) \in Function
  /\ \A p, q \in Place, t, u \in Tag : FunctionOf(p, t) = FunctionOf(q, u) => p = q /\ t = u
  /\ \A c \in Function : PlaceOf(c) \in Place /\ c[3] \in Tag /\ c = FunctionOf(PlaceOf(c), c[3])
  BY DEF Function, Place, FunctionOf, PlaceOf

\* Nobody writes to the file.
LEMMA SameFile ==
  ASSUME file' = file, NEW p
  PROVE  /\ Name(p)' = Name(p)
         /\ Catalogued(p)' = Catalogued(p)
         /\ ListedAt(p)' = ListedAt(p)
  BY DEF Name, FullName, Catalogued, ListedAt, TagList, Through, filterOf

\* The tags of a repository of the catalogue are tags, wherever they come from.
LEMMA ListedFacts ==
  ASSUME file \in File, NEW p \in Place, p[2] <= Len(Catalogued(p))
  PROVE  /\ Catalogued(p)[p[2]] \in Repo
         /\ Name(p) \in Repo
         /\ ListedAt(p) \subseteq Tag
  <1> DEFINE d == Domains[p[1]]
             r == Images[file][d][p[2]]
  <1>1. d \in Domain /\ p[2] \in 1 .. Most
    BY PlaceFacts
  <1> HIDE DEF d
  <1>2. Images[file][d] \in Seq(Repo) /\ p[2] <= Len(Images[file][d]) /\ Most \in Nat
    BY <1>1, YamlAssumption DEF Catalogued, d
  <1>3. r \in Repo
    BY <1>1, <1>2
  <1> HIDE DEF r
  <1>4. Name(p) = FullName(r) /\ ListedAt(p) = TagList(d, FullName(r)) /\ Catalogued(p)[p[2]] = r
    BY DEF Name, ListedAt, Catalogued, d, r
  <1>5. FullName(r) \in Repo
    BY <1>3, YamlAssumption DEF FullName
  <1>6. Tags[file][d] \in [Repo -> SUBSET Tag] /\ Known[d][FullName(r)] \in SUBSET Tag
    <2>1. /\ \A f \in File, e \in Domain : Tags[f][e] \in [Repo -> SUBSET Tag]
          /\ Known \in [Domain -> [Repo -> SUBSET Tag]]
      BY YamlAssumption
    <2>2. d \in Domain
      BY <1>1 DEF d
    <2> QED
      BY <1>5, <2>1, <2>2
  <1>7. \A filter, tags : Through(filter, tags) \subseteq tags
    BY DEF Through
  <1>8. TagList(d, FullName(r)) \subseteq Tag
    BY <1>5, <1>6, <1>7 DEF TagList
  <1> QED
    BY <1>3, <1>4, <1>5, <1>8

-----------------------------------------------------------------------------
(* The counters. *)

LEMMA BusyFinite == IsFiniteSet(Busy) /\ Cardinality(Busy) \in Nat
  <1>1. IsFiniteSet(1 .. Len(Domains)) /\ IsFiniteSet(1 .. Most)
    BY Bounds, FS_Interval
  <1>2. IsFiniteSet(Place)
    BY <1>1, FS_Product DEF Place
  <1>3. Busy \in SUBSET Place
    BY DEF Busy
  <1> QED
    BY <1>2, <1>3, FS_Subset, FS_CardinalityType

LEMMA BusyTagsFinite ==
  ASSUME NEW p
  PROVE  IsFiniteSet(BusyTags(p)) /\ Cardinality(BusyTags(p)) \in 0 .. Cardinality(Tag)
  <1>1. IsFiniteSet(Tag) /\ BusyTags(p) \in SUBSET Tag
    BY YamlAssumption DEF BusyTags
  <1>2. IsFiniteSet(BusyTags(p)) /\ Cardinality(BusyTags(p)) <= Cardinality(Tag)
    BY <1>1, FS_Subset
  <1>3. Cardinality(Tag) \in Nat /\ Cardinality(BusyTags(p)) \in Nat
    BY <1>1, <1>2, FS_CardinalityType
  <1> QED
    BY <1>2, <1>3

\* One that was not counted is, and one that was is not.
LEMMA OneMore ==
  ASSUME NEW S, IsFiniteSet(S), NEW x, x \notin S
  PROVE  Cardinality(S \cup {x}) = Cardinality(S) + 1
  BY FS_AddElement

LEMMA OneLess ==
  ASSUME NEW S, IsFiniteSet(S), NEW x \in S
  PROVE  Cardinality(S \ {x}) = Cardinality(S) - 1
  BY FS_RemoveElement

-----------------------------------------------------------------------------
(* The invariant, action by action. *)

Inv == TypeOK /\ YamlInv

LEMMA InvInitially == Init => Inv
  <1> SUFFICES ASSUME Init PROVE Inv
    OBVIOUS
  <1>1. TypeOK
    <2>2. /\ 0 \in 0 .. Cardinality(Tag) /\ 0 \in 0 .. Most /\ 0 \in 0 .. MaxFaults
          /\ 1 \in 1 .. Len(Domains) + 1
      BY Bounds
    <2> QED
      BY <2>2 DEF Init, TypeOK
  <1>2. CountersCount
    <2>1. Busy = {} /\ \A p \in Place : BusyTags(p) = {}
      BY FunctionFacts DEF Init, Busy, BusyTags
    <2>2. Cardinality({}) = 0 /\ repo_thr_count = 0 /\ repo_index = 0 /\ \A p \in Place : thread_count[p] = 0
      BY FS_EmptySet DEF Init
    <2> QED
      BY <2>1, <2>2 DEF CountersCount
  <1>3. PlacesInStep
    <2> SUFFICES ASSUME NEW p \in Place PROVE ~Submitted(p) /\ at[p] = "off" /\ todo[p] = {}
      BY DEF PlacesInStep
    <2>1. p[1] \in Nat /\ p[1] >= 1
      BY PlaceFacts
    <2>2. ~Submitted(p)
      <3>1. nth = 1 /\ main = "catalog"
        BY DEF Init
      <3>2. ~(p[1] < nth)
        BY <2>1, <3>1
      <3> QED
        BY <3>1, <3>2 DEF Submitted
    <2> QED
      BY <2>2 DEF Init
  <1>4. FunctionsInStep /\ CopiedIsAsked
    BY FunctionFacts DEF Init, FunctionsInStep, CopiedIsAsked
  <1> QED
    BY <1>1, <1>2, <1>3, <1>4 DEF Init, Inv, YamlInv, OwnerInStep, AskedListed, NothingForgotten

\* The same functions are counted if the same are busy.
LEMMA CountersStay ==
  ASSUME CountersCount, UNCHANGED <<repo_thr_count, thread_count, copy>>, Busy' = Busy,
         repo_thr_count <= repo_index'
  PROVE  CountersCount'
  <1>1. \A p : BusyTags(p)' = BusyTags(p)
    BY DEF BusyTags, FunctionOf
  <1> QED
    BY <1>1 DEF CountersCount

\* What functions have done stays done while none goes on.
LEMMA FunctionsStay ==
  ASSUME YamlInv, UNCHANGED <<file, at, todo, copy, asked>>
  PROVE  /\ FunctionsInStep' /\ AskedListed' /\ CopiedIsAsked'
         /\ NothingForgotten => NothingForgotten'
  <1>1. \A p : Name(p)' = Name(p) /\ Catalogued(p)' = Catalogued(p) /\ ListedAt(p)' = ListedAt(p)
    BY SameFile
  <1>2. FunctionsInStep'
    BY <1>1 DEF YamlInv, FunctionsInStep, FunctionOf
  <1>3. AskedListed' /\ CopiedIsAsked'
    BY <1>1 DEF YamlInv, AskedListed, CopiedIsAsked, FunctionOf
  <1>4. NothingForgotten => NothingForgotten'
    BY <1>1 DEF NothingForgotten, FunctionOf
  <1> QED
    BY <1>2, <1>3, <1>4

\* While the owner is between two domains nothing is busy.
LEMMA NothingBusy ==
  ASSUME Inv, main = "catalog" \/ repo_thr_count = 0
  PROVE  repo_thr_count = 0 /\ Busy = {}
  <1>1. main = "catalog" => Busy = {}
    <2> SUFFICES ASSUME main = "catalog", NEW p \in Place, at[p] \in {"queued", "tags"} PROVE FALSE
      BY DEF Busy
    <2>1. p[1] = nth /\ Submitted(p)
      BY DEF Inv, YamlInv, PlacesInStep
    <2>2. p[1] \in Nat
      BY PlaceFacts
    <2> QED
      BY <2>1, <2>2 DEF Submitted
  <1>2. Cardinality(Busy) = 0 <=> Busy = {}
    BY BusyFinite, FS_EmptySet
  <1> QED
    BY <1>1, <1>2 DEF Inv, YamlInv, CountersCount

LEMMA OwnerKeeps ==
  ASSUME Inv, Catalog \/ AllSubmitted \/ Joined
  PROVE  Inv'
  <1>1. UNCHANGED <<file, repo_thr_count, at, todo, thread_count, copy, asked, faults>>
    BY DEF Catalog, AllSubmitted, Joined
  <1>2. Busy' = Busy
    BY <1>1 DEF Busy
  <1>3. /\ FunctionsInStep' /\ AskedListed' /\ CopiedIsAsked'
        /\ faults' = 0 => NothingForgotten'
    BY <1>1, FunctionsStay DEF Inv, YamlInv
  <1>4. \A p : Catalogued(p)' = Catalogued(p)
    BY <1>1, SameFile
  <1>5. nth \in 1 .. Len(Domains) + 1 /\ repo_index \in 0 .. Most /\ Len(Domains) \in Nat
    BY PlaceFacts DEF Inv, TypeOK
  <1>6. ASSUME nth <= Len(Domains)
        PROVE  /\ Domains[nth] \in Domain
               /\ Len(Repositories) \in 0 .. Most
    <2>1. nth \in 1 .. Len(Domains)
      BY <1>5, <1>6
    <2>2. Domains[nth] \in Domain
      BY <2>1, PlaceFacts
    <2>3. file \in File
      BY DEF Inv, TypeOK
    <2>4. /\ Images[file][Domains[nth]] \in Seq(Repo) /\ Len(Images[file][Domains[nth]]) <= Most
          /\ Most \in Nat
      BY <2>2, <2>3, YamlAssumption
    <2> QED
      BY <2>2, <2>4 DEF Repositories
  <1>7. ASSUME NEW p \in Place
        PROVE  /\ p[1] \in 1 .. Len(Domains) /\ p[2] \in 1 .. Most
               /\ p[1] = nth => Catalogued(p) = Repositories
    BY <1>7, PlaceFacts DEF Catalogued, Repositories
  <1>8. CASE Catalog
    <2>1. /\ main = "catalog" /\ nth <= Len(Domains)
          /\ current_domain' = Domains[nth] /\ repo_index' = 0 /\ nth' = nth
          /\ main' = IF Repositories = <<>> THEN "terminated" ELSE "submit"
      BY <1>8 DEF Catalog
    <2>2. TypeOK'
      <3>1. repo_index' \in 0 .. Most /\ nth' \in 1 .. Len(Domains) + 1
        BY <1>5, <2>1, Bounds
      <3>2. current_domain' \in Domain
        BY <1>6, <2>1
      <3> QED
        BY <1>1, <2>1, <3>1, <3>2 DEF Inv, TypeOK
    <2>3. CountersCount'
      BY <1>1, <1>2, <2>1, NothingBusy, CountersStay DEF Inv, YamlInv
    <2>4. OwnerInStep'
      BY <1>1, <1>6, <2>1 DEF OwnerInStep, Repositories
    <2>5. PlacesInStep'
      BY <1>1, <1>4, <1>7, <2>1 DEF Inv, YamlInv, PlacesInStep, Submitted
    <2> QED
      BY <1>3, <2>2, <2>3, <2>4, <2>5 DEF Inv, YamlInv
  <1>9. CASE AllSubmitted
    <2>1. /\ main = "submit" /\ main' = "join" /\ repo_index = Len(Repositories)
          /\ UNCHANGED <<nth, current_domain, repo_index>>
      BY <1>9 DEF AllSubmitted
    <2>2. TypeOK'
      BY <1>1, <2>1 DEF Inv, TypeOK
    <2>3. CountersCount'
      BY <1>1, <1>2, <2>1, CountersStay DEF Inv, YamlInv, CountersCount
    <2>4. OwnerInStep'
      BY <1>1, <2>1 DEF Inv, YamlInv, OwnerInStep, Repositories
    <2>5. PlacesInStep'
      BY <1>1, <1>4, <2>1 DEF Inv, YamlInv, PlacesInStep, Submitted
    <2> QED
      BY <1>3, <2>2, <2>3, <2>4, <2>5 DEF Inv, YamlInv
  <1>10. CASE Joined
    <2>1. /\ main = "join" /\ repo_thr_count = 0 /\ nth' = nth + 1
          /\ main' = IF nth = Len(Domains) THEN "over" ELSE "catalog"
          /\ UNCHANGED <<current_domain, repo_index>>
      BY <1>10 DEF Joined
    <2>2. nth <= Len(Domains) /\ repo_index = Len(Repositories)
      BY <2>1 DEF Inv, YamlInv, OwnerInStep
    <2>3. TypeOK'
      <3>1. nth' \in 1 .. Len(Domains) + 1
        BY <1>5, <2>1, <2>2
      <3> QED
        BY <1>1, <2>1, <3>1 DEF Inv, TypeOK
    <2>4. CountersCount'
      BY <1>1, <1>2, <2>1, CountersStay DEF Inv, YamlInv, CountersCount
    <2>5. OwnerInStep'
      BY <1>1, <1>5, <2>1, <2>2 DEF OwnerInStep
    <2>6. PlacesInStep'
      <3> SUFFICES ASSUME NEW p \in Place
                   PROVE  /\ at[p] # "off" <=> Submitted(p)'
                          /\ at[p] \notin {"queued", "tags"}
                          /\ at[p] \in {"off", "queued", "over"} => todo[p] = {}
        BY <1>1 DEF PlacesInStep
      <3>1. at[p] \notin {"queued", "tags"}
        BY <2>1, NothingBusy DEF Inv, Busy
      <3>2. Submitted(p)' <=> Submitted(p)
        BY <1>4, <1>5, <1>7, <2>1, <2>2 DEF Submitted
      <3> QED
        BY <3>1, <3>2 DEF Inv, YamlInv, PlacesInStep
    <2> QED
      BY <1>3, <2>3, <2>4, <2>5, <2>6 DEF Inv, YamlInv
  <1> QED
    BY <1>8, <1>9, <1>10

\* A step of the function of one place that leaves the functions of its tags alone.
LEMMA PlaceMoves ==
  ASSUME YamlInv, NEW p \in Place, UNCHANGED <<file, copy, asked>>,
         \A q \in Place : q # p => at'[q] = at[q] /\ todo'[q] = todo[q],
         \A t \in todo'[p] : t \in ListedAt(p),
         \A t \in Tag :
           /\ copy[FunctionOf(p, t)] # "off" => at'[p] \in {"tags", "over"} /\ t \notin todo'[p]
           /\ copy[FunctionOf(p, t)] \in {"queued", "running"} => at'[p] = "tags"
  PROVE  /\ FunctionsInStep' /\ AskedListed' /\ CopiedIsAsked'
         /\ /\ NothingForgotten
            /\ at'[p] \in {"tags", "over"} => \A t \in ListedAt(p) :
                 t \in todo'[p] \/ copy[FunctionOf(p, t)] # "off"
            => NothingForgotten'
  <1>1. \A q : Name(q)' = Name(q) /\ Catalogued(q)' = Catalogued(q) /\ ListedAt(q)' = ListedAt(q)
    BY SameFile
  <1>2. \A q, t : copy'[FunctionOf(q, t)] = copy[FunctionOf(q, t)]
    OBVIOUS
  <1>3. FunctionsInStep'
    <2> SUFFICES ASSUME NEW q \in Place
                 PROVE  /\ \A t \in todo'[q] : t \in ListedAt(q)
                        /\ \A t \in Tag :
                             /\ copy[FunctionOf(q, t)] # "off" =>
                                  at'[q] \in {"tags", "over"} /\ t \in ListedAt(q) \ todo'[q]
                             /\ copy[FunctionOf(q, t)] \in {"queued", "running"} => at'[q] = "tags"
      BY <1>1, <1>2 DEF FunctionsInStep, FunctionOf
    <2>1. CASE q = p
      BY <2>1 DEF YamlInv, FunctionsInStep
    <2>2. CASE q # p
      BY <2>2 DEF YamlInv, FunctionsInStep
    <2> QED
      BY <2>1, <2>2
  <1>4. AskedListed' /\ CopiedIsAsked'
    BY <1>1 DEF YamlInv, AskedListed, CopiedIsAsked, FunctionOf
  <1>5. ASSUME NothingForgotten, NEW q \in Place, at'[q] \in {"tags", "over"}, NEW t \in ListedAt(q),
               at'[p] \in {"tags", "over"} => \A u \in ListedAt(p) :
                 u \in todo'[p] \/ copy[FunctionOf(p, u)] # "off"
        PROVE  t \in todo'[q] \/ copy[FunctionOf(q, t)] # "off"
    <2>1. CASE q = p
      BY <1>5, <2>1
    <2>2. CASE q # p
      BY <1>5, <2>2 DEF NothingForgotten
    <2> QED
      BY <2>1, <2>2
  <1> QED
    BY <1>1, <1>3, <1>4, <1>5 DEF NothingForgotten, FunctionOf

\* The function of a place that has not got its list has submitted nothing.
LEMMA NothingCopied ==
  ASSUME YamlInv, NEW p \in Place, at[p] \in {"off", "queued"}
  PROVE  todo[p] = {} /\ \A t \in Tag : copy[FunctionOf(p, t)] = "off"
  BY DEF YamlInv, PlacesInStep, FunctionsInStep

\* The counters keep their counts when one place becomes busy or returns.
LEMMA CountersMove ==
  ASSUME Inv, UNCHANGED <<thread_count, copy>>, NEW p \in Place,
         at' \in [Place -> {"off", "queued", "tags", "over"}],
         \A q \in Place : q # p => at'[q] = at[q],
         \/ /\ p \notin Busy /\ at'[p] = "queued"
            /\ repo_thr_count' = repo_thr_count + 1 /\ repo_index' = repo_index + 1
         \/ /\ p \in Busy /\ at'[p] = "tags"
            /\ UNCHANGED <<repo_thr_count, repo_index>>
         \/ /\ p \in Busy /\ at'[p] = "over"
            /\ repo_thr_count' = repo_thr_count - 1 /\ repo_index' = repo_index
  PROVE  CountersCount' /\ repo_thr_count' \in Nat
  <1>1. \A q : BusyTags(q)' = BusyTags(q)
    BY DEF BusyTags, FunctionOf
  <1>2. repo_thr_count = Cardinality(Busy) /\ repo_thr_count <= repo_index
    BY DEF Inv, YamlInv, CountersCount
  <1>3. IsFiniteSet(Busy) /\ repo_thr_count \in Nat /\ repo_index \in Nat
    <2>1. repo_index \in 0 .. Most
      BY DEF Inv, TypeOK
    <2>2. IsFiniteSet(Busy) /\ Cardinality(Busy) \in Nat
      BY BusyFinite
    <2> QED
      BY <1>2, <2>1, <2>2, Bounds
  <1>4. CASE p \notin Busy /\ at'[p] = "queued"
    <2>1. Busy' = Busy \cup {p}
      BY <1>4 DEF Busy
    <2>2. Cardinality(Busy') = Cardinality(Busy) + 1
      BY <1>3, <1>4, <2>1, OneMore
    <2>3. repo_thr_count' = repo_thr_count + 1 /\ repo_index' = repo_index + 1
      BY <1>4
    <2> QED
      BY <1>1, <1>2, <1>3, <2>2, <2>3 DEF Inv, YamlInv, CountersCount
  <1>5. CASE p \in Busy /\ at'[p] = "tags"
    <2>1. Busy' = Busy
      BY <1>5 DEF Busy
    <2> QED
      BY <1>1, <1>2, <1>3, <1>5, <2>1 DEF Inv, YamlInv, CountersCount
  <1>6. CASE p \in Busy /\ at'[p] = "over"
    <2>1. Busy' = Busy \ {p}
      BY <1>6 DEF Busy
    <2>2. Cardinality(Busy') = Cardinality(Busy) - 1
      BY <1>3, <1>6, <2>1, OneLess
    <2>3. Cardinality(Busy') \in Nat
      BY <1>3, <2>1, FS_RemoveElement, FS_CardinalityType
    <2>4. repo_thr_count' = repo_thr_count - 1 /\ repo_index' = repo_index
      BY <1>6
    <2> QED
      BY <1>1, <1>2, <1>3, <2>2, <2>3, <2>4 DEF Inv, YamlInv, CountersCount
  <1> QED
    BY <1>4, <1>5, <1>6

\* The repositories of the domain at hand.
LEMMA AtHand ==
  ASSUME Inv, nth <= Len(Domains)
  PROVE  /\ nth \in 1 .. Len(Domains) /\ Domains[nth] \in Domain
         /\ Len(Repositories) \in 0 .. Most
         /\ \A p \in Place : p[1] = nth => Catalogued(p) = Repositories
  <1>1. nth \in 1 .. Len(Domains)
    <2>1. nth \in 1 .. Len(Domains) + 1
      BY DEF Inv, TypeOK
    <2> QED
      BY <2>1, Bounds
  <1>2. Domains[nth] \in Domain
    BY <1>1, PlaceFacts
  <1>3. file \in File
    BY DEF Inv, TypeOK
  <1>4. /\ Images[file][Domains[nth]] \in Seq(Repo) /\ Len(Images[file][Domains[nth]]) <= Most
        /\ Most \in Nat
    BY <1>2, <1>3, YamlAssumption
  <1>5. \A p \in Place : p[1] = nth => Catalogued(p) = Repositories
    BY DEF Catalogued, Repositories
  <1> QED
    BY <1>1, <1>2, <1>4, <1>5 DEF Repositories

\* A busy place is of the domain at hand, which current_domain_ names.
LEMMA BusyAtHand ==
  ASSUME Inv, NEW p \in Place, at[p] \in {"queued", "tags"}
  PROVE  /\ p[1] = nth /\ nth <= Len(Domains) /\ current_domain = Domains[p[1]]
         /\ p[2] <= Len(Catalogued(p))
         /\ main \in {"submit", "join", "terminated"}
  <1>1. p[1] = nth /\ Submitted(p) /\ p[1] \in 1 .. Len(Domains) /\ p[2] \in Nat
    BY PlaceFacts DEF Inv, YamlInv, PlacesInStep
  <1>2. main # "catalog" /\ p[2] <= repo_index
    BY <1>1, Bounds DEF Submitted
  <1>3. main # "over"
    BY <1>1, Bounds DEF Inv, YamlInv, OwnerInStep
  <1>4. main \in {"submit", "join", "terminated"}
    BY <1>2, <1>3 DEF Inv, TypeOK
  <1>5. nth <= Len(Domains) /\ current_domain = Domains[nth] /\ repo_index <= Len(Repositories)
    BY <1>4 DEF Inv, YamlInv, OwnerInStep
  <1>6. Catalogued(p) = Repositories /\ Len(Repositories) \in Nat /\ repo_index \in Nat
    <2>1. Catalogued(p) = Repositories /\ Len(Repositories) \in 0 .. Most
      BY <1>1, <1>5, AtHand
    <2>2. repo_index \in 0 .. Most
      BY DEF Inv, TypeOK
    <2> QED
      BY <2>1, <2>2, Bounds
  <1> QED
    BY <1>1, <1>2, <1>4, <1>5, <1>6

\* A repository that has been submitted is in the catalogue.
LEMMA ListedOfSubmitted ==
  ASSUME Inv, NEW p \in Place, Submitted(p)
  PROVE  p[2] <= Len(Catalogued(p)) /\ ListedAt(p) \subseteq Tag
  <1>1. p[1] \in 1 .. Len(Domains) /\ p[2] \in 1 .. Most
    BY PlaceFacts
  <1>2. CASE p[1] < nth /\ p[2] <= Len(Catalogued(p))
    BY <1>2, ListedFacts DEF Inv, TypeOK
  <1>3. CASE p[1] = nth /\ main # "catalog" /\ p[2] <= repo_index
    <2>1. nth <= Len(Domains)
      BY <1>1, <1>3, Bounds
    <2>2. main # "over"
      BY <1>1, <1>3, Bounds DEF Inv, YamlInv, OwnerInStep
    <2>3. repo_index <= Len(Repositories)
      BY <1>3, <2>2 DEF Inv, YamlInv, OwnerInStep, TypeOK
    <2>4. Catalogued(p) = Repositories /\ Len(Repositories) \in 0 .. Most
      BY <1>3, <2>1, AtHand
    <2>5. repo_index \in 0 .. Most /\ file \in File
      BY DEF Inv, TypeOK
    <2>6. p[2] <= Len(Catalogued(p))
      BY <1>1, <1>3, <2>3, <2>4, <2>5, Bounds
    <2> QED
      BY <2>5, <2>6, ListedFacts
  <1> QED
    BY <1>2, <1>3 DEF Submitted

\* The repository that is submitted next has not been submitted before.
LEMMA NextPlace ==
  ASSUME Inv, main = "submit", repo_index < Len(Repositories)
  PROVE  LET p == <<nth, repo_index + 1>> IN
           /\ repo_index + 1 \in 1 .. Most
           /\ p \in Place /\ p[1] = nth /\ p[2] = repo_index + 1
           /\ at[p] = "off"
  <1> DEFINE p == <<nth, repo_index + 1>>
  <1>1. nth <= Len(Domains) /\ repo_index \in 0 .. Most
    BY DEF Inv, YamlInv, TypeOK, OwnerInStep
  <1>2. nth \in 1 .. Len(Domains) /\ Len(Repositories) \in 0 .. Most
    BY <1>1, AtHand
  <1>3. repo_index + 1 \in 1 .. Most
    BY <1>1, <1>2, Bounds
  <1>4. p \in Place /\ p[1] = nth /\ p[2] = repo_index + 1
    BY <1>2, <1>3 DEF Place
  <1> HIDE DEF p
  <1>5. ~Submitted(p)
    BY <1>1, <1>2, <1>4, Bounds DEF Submitted
  <1>6. at[p] = "off"
    BY <1>4, <1>5 DEF Inv, YamlInv, PlacesInStep
  <1> QED
    BY <1>3, <1>4, <1>6 DEF p

LEMMA BackgroundKeeps ==
  ASSUME Inv, Background
  PROVE  Inv'
  <1> DEFINE p == <<nth, repo_index + 1>>
  <1>1. /\ main = "submit" /\ repo_index < Len(Repositories)
        /\ repo_thr_count' = repo_thr_count + 1 /\ repo_index' = repo_index + 1
        /\ at' = [at EXCEPT ![p] = "queued"]
        /\ UNCHANGED <<file, main, nth, current_domain, todo, thread_count, copy, asked, faults>>
    BY DEF Background
  <1>2. nth <= Len(Domains) /\ repo_index \in 0 .. Most
    BY <1>1 DEF Inv, YamlInv, TypeOK, OwnerInStep
  <1>3. nth \in 1 .. Len(Domains) /\ Len(Repositories) \in 0 .. Most
    BY <1>2, AtHand
  <1>4. repo_index + 1 \in 1 .. Most /\ p \in Place /\ p[1] = nth /\ p[2] = repo_index + 1
    BY <1>1, NextPlace
  <1>5. at[p] = "off"
    BY <1>1, NextPlace
  <1> HIDE DEF p
  <1>6. /\ at' \in [Place -> {"off", "queued", "tags", "over"}] /\ at'[p] = "queued"
        /\ \A q \in Place : q # p => at'[q] = at[q] /\ todo'[q] = todo[q]
    BY <1>1, <1>4 DEF Inv, TypeOK
  <1>7. CountersCount' /\ repo_thr_count' \in Nat
    BY <1>1, <1>4, <1>5, <1>6, CountersMove DEF Busy
  <1>8. TypeOK'
    <2>1. repo_index' \in 0 .. Most /\ repo_thr_count' \in 0 .. Most
      BY <1>1, <1>4, <1>7, Bounds DEF CountersCount
    <2> QED
      BY <1>1, <1>6, <2>1 DEF Inv, TypeOK
  <1>9. OwnerInStep'
    <2>1. repo_index + 1 <= Len(Repositories)
      BY <1>1, <1>2, <1>3, Bounds
    <2> QED
      BY <1>1, <2>1 DEF Inv, YamlInv, OwnerInStep, Repositories
  <1>10. PlacesInStep'
    <2> SUFFICES ASSUME NEW q \in Place
                 PROVE  /\ at'[q] # "off" <=> Submitted(q)'
                        /\ at'[q] \in {"queued", "tags"} => q[1] = nth
                        /\ at'[q] \in {"off", "queued", "over"} => todo[q] = {}
      BY <1>1 DEF PlacesInStep
    <2>1. /\ at[q] # "off" <=> Submitted(q)
          /\ at[q] \in {"queued", "tags"} => q[1] = nth
          /\ at[q] \in {"off", "queued", "over"} => todo[q] = {}
      BY DEF Inv, YamlInv, PlacesInStep
    <2>2. q[1] \in Nat /\ q[2] \in Nat /\ q[1] \in 1 .. Len(Domains) /\ q[2] \in 1 .. Most
      BY PlaceFacts, Bounds
    <2>3. Catalogued(q)' = Catalogued(q)
      BY <1>1, SameFile
    <2>4. CASE q = p
      BY <1>1, <1>4, <1>5, <1>6, <2>1, <2>4, Bounds DEF Submitted
    <2>5. CASE q # p
      <3>1. ~(q[1] = nth /\ q[2] = repo_index + 1)
        BY <1>4, <2>5 DEF Place, p
      <3>2. Submitted(q)' <=> Submitted(q)
        BY <1>1, <1>2, <2>2, <2>3, <3>1, Bounds DEF Submitted
      <3> QED
        BY <1>4, <1>6, <2>1, <2>5, <3>2
    <2> QED
      BY <2>4, <2>5
  <1>11. todo[p] = {} /\ \A t \in Tag : copy[FunctionOf(p, t)] = "off"
    BY <1>4, <1>5, NothingCopied DEF Inv
  <1>12. /\ FunctionsInStep' /\ AskedListed' /\ CopiedIsAsked'
         /\ NothingForgotten => NothingForgotten'
    BY <1>1, <1>4, <1>6, <1>11, PlaceMoves DEF Inv
  <1> QED
    BY <1>1, <1>7, <1>8, <1>9, <1>10, <1>12 DEF Inv, YamlInv

\* The owner stands where it stood while a function goes on.
LEMMA PlaceFrame ==
  ASSUME Inv, NEW p \in Place, at[p] \in {"queued", "tags"}, at'[p] \in {"tags", "over"},
         UNCHANGED <<file, owner>>,
         \A q \in Place : q # p => at'[q] = at[q] /\ todo'[q] = todo[q],
         at'[p] = "over" => todo'[p] = {}
  PROVE  OwnerInStep' /\ PlacesInStep'
  <1>1. UNCHANGED <<main, nth, current_domain, repo_index>>
    BY DEF owner
  <1>2. OwnerInStep'
    BY <1>1 DEF Inv, YamlInv, OwnerInStep, Repositories
  <1>3. \A q : Submitted(q)' <=> Submitted(q)
    BY <1>1, SameFile DEF Submitted
  <1>4. ASSUME NEW q \in Place
        PROVE  /\ at'[q] # "off" <=> Submitted(q)
               /\ at'[q] \in {"queued", "tags"} => q[1] = nth
               /\ at'[q] \in {"off", "queued", "over"} => todo'[q] = {}
    <2>1. /\ at[q] # "off" <=> Submitted(q)
          /\ at[q] \in {"queued", "tags"} => q[1] = nth
          /\ at[q] \in {"off", "queued", "over"} => todo[q] = {}
      BY DEF Inv, YamlInv, PlacesInStep
    <2>2. CASE q = p
      BY <2>1, <2>2
    <2>3. CASE q # p
      BY <2>1, <2>3
    <2> QED
      BY <2>2, <2>3
  <1> QED
    BY <1>1, <1>2, <1>3, <1>4 DEF PlacesInStep

LEMMA ListKeeps ==
  ASSUME Inv, NEW p \in Place, ListTags(p) \/ ListTagsFails(p)
  PROVE  Inv'
  <1>1. /\ at[p] = "queued" /\ at' = [at EXCEPT ![p] = "tags"]
        /\ UNCHANGED <<file, owner, repo_thr_count, thread_count, copy, asked>>
    BY DEF ListTags, ListTagsFails
  <1>2. /\ at' \in [Place -> {"off", "queued", "tags", "over"}] /\ at'[p] = "tags"
        /\ \A q \in Place : q # p => at'[q] = at[q]
    BY <1>1 DEF Inv, TypeOK
  <1>3. p[2] <= Len(Catalogued(p)) /\ current_domain = Domains[p[1]]
    BY <1>1, BusyAtHand
  <1>4. Listed(p) = ListedAt(p) /\ ListedAt(p) \subseteq Tag
    BY <1>3, ListedFacts DEF Listed, ListedAt, Inv, TypeOK
  <1>5. todo[p] = {} /\ \A t \in Tag : copy[FunctionOf(p, t)] = "off"
    BY <1>1, NothingCopied DEF Inv
  <1>6. /\ todo' \in [Place -> SUBSET Tag]
        /\ \A q \in Place : q # p => todo'[q] = todo[q]
        /\ \/ todo'[p] = ListedAt(p) /\ faults' = faults
           \/ todo'[p] = {} /\ faults' # 0
        /\ faults' \in 0 .. MaxFaults
    <2>1. CASE ListTags(p)
      <3>1. todo' = [todo EXCEPT ![p] = ListedAt(p)] /\ faults' = faults
        BY <1>4, <2>1 DEF ListTags
      <3> QED
        BY <1>4, <3>1 DEF Inv, TypeOK
    <2>2. CASE ListTagsFails(p)
      <3>1. faults \in 0 .. MaxFaults /\ faults < MaxFaults /\ faults' = faults + 1
        BY <2>2 DEF ListTagsFails, Fault, Inv, TypeOK
      <3>2. faults' \in 0 .. MaxFaults /\ faults' # 0
        BY <3>1, Bounds
      <3>3. todo' = todo
        BY <2>2 DEF ListTagsFails
      <3> QED
        BY <1>5, <3>2, <3>3 DEF Inv, TypeOK
    <2> QED
      BY <2>1, <2>2
  <1>7. TypeOK'
    BY <1>1, <1>2, <1>6 DEF Inv, TypeOK, owner
  <1>8. CountersCount'
    BY <1>1, <1>2, CountersMove DEF owner, Busy
  <1>9. OwnerInStep' /\ PlacesInStep'
    BY <1>1, <1>2, <1>6, PlaceFrame
  <1>10. \A t \in todo'[p] : t \in ListedAt(p)
    BY <1>6
  <1>11. /\ FunctionsInStep' /\ AskedListed' /\ CopiedIsAsked'
         /\ /\ NothingForgotten
            /\ at'[p] \in {"tags", "over"} => \A t \in ListedAt(p) :
                 t \in todo'[p] \/ copy[FunctionOf(p, t)] # "off"
            => NothingForgotten'
    <2>1. \A t \in Tag :
           /\ copy[FunctionOf(p, t)] # "off" => at'[p] \in {"tags", "over"} /\ t \notin todo'[p]
           /\ copy[FunctionOf(p, t)] \in {"queued", "running"} => at'[p] = "tags"
      BY <1>2, <1>5
    <2> QED
      BY <1>1, <1>2, <1>6, <1>10, <2>1, PlaceMoves DEF Inv
  <1>12. faults' = 0 => NothingForgotten'
    BY <1>6, <1>11 DEF Inv, YamlInv
  <1> QED
    BY <1>7, <1>8, <1>9, <1>11, <1>12 DEF Inv, YamlInv

LEMMA RepoReturnsKeeps ==
  ASSUME Inv, NEW p \in Place, RepoReturns(p)
  PROVE  Inv' /\ \A t \in Tag : copy[FunctionOf(p, t)] \in {"off", "over"}
  <1>1. /\ at[p] = "tags" /\ todo[p] = {} /\ thread_count[p] = 0
        /\ at' = [at EXCEPT ![p] = "over"] /\ repo_thr_count' = repo_thr_count - 1
        /\ UNCHANGED <<file, owner, todo, thread_count, copy, asked, faults>>
    BY DEF RepoReturns
  <1>2. /\ at' \in [Place -> {"off", "queued", "tags", "over"}] /\ at'[p] = "over"
        /\ \A q \in Place : q # p => at'[q] = at[q] /\ todo'[q] = todo[q]
        /\ todo'[p] = {}
    BY <1>1 DEF Inv, TypeOK
  <1>3. \A t \in Tag : copy[FunctionOf(p, t)] \in {"off", "over"}
    <2>1. Cardinality(BusyTags(p)) = 0
      BY <1>1 DEF Inv, YamlInv, CountersCount
    <2>2. BusyTags(p) = {}
      BY <2>1, BusyTagsFinite, FS_EmptySet
    <2>3. \A t \in Tag : copy[FunctionOf(p, t)] \in {"off", "queued", "running", "over"}
      BY FunctionFacts DEF Inv, TypeOK
    <2> QED
      BY <2>2, <2>3 DEF BusyTags
  <1>4. CountersCount' /\ repo_thr_count' \in Nat
    BY <1>1, <1>2, CountersMove DEF owner, Busy
  <1>5. TypeOK'
    <2>1. repo_thr_count' \in 0 .. Most
      <3>1. repo_thr_count' <= repo_index' /\ repo_index' \in 0 .. Most
        BY <1>1, <1>4 DEF CountersCount, Inv, TypeOK, owner
      <3> QED
        BY <1>4, <3>1, Bounds
    <2> QED
      BY <1>1, <1>2, <2>1 DEF Inv, TypeOK, owner
  <1>6. OwnerInStep' /\ PlacesInStep'
    BY <1>1, <1>2, PlaceFrame
  <1>7. /\ FunctionsInStep' /\ AskedListed' /\ CopiedIsAsked'
        /\ /\ NothingForgotten
           /\ at'[p] \in {"tags", "over"} => \A t \in ListedAt(p) :
                t \in todo'[p] \/ copy[FunctionOf(p, t)] # "off"
           => NothingForgotten'
    BY <1>1, <1>2, <1>3, PlaceMoves DEF Inv
  <1>8. NothingForgotten => NothingForgotten'
    BY <1>1, <1>7 DEF NothingForgotten
  <1> QED
    BY <1>1, <1>3, <1>4, <1>5, <1>6, <1>7, <1>8 DEF Inv, YamlInv

LEMMA AuthThrowsKeeps ==
  ASSUME Inv, NEW p \in Place, AuthThrows(p)
  PROVE  Inv'
  <1>1. /\ at[p] = "queued" /\ main' = "terminated" /\ faults < MaxFaults /\ faults' = faults + 1
        /\ UNCHANGED <<file, nth, current_domain, repo_index, repo_thr_count, at, todo,
                       thread_count, copy, asked>>
    BY DEF AuthThrows, Fault
  <1>2. main \in {"submit", "join", "terminated"}
    BY <1>1, BusyAtHand
  <1>3. faults' \in 0 .. MaxFaults /\ faults' # 0
    <2>1. faults \in 0 .. MaxFaults
      BY DEF Inv, TypeOK
    <2> QED
      BY <1>1, <2>1, Bounds
  <1>4. TypeOK'
    BY <1>1, <1>3 DEF Inv, TypeOK
  <1>5. CountersCount'
    BY <1>1, CountersStay DEF Inv, YamlInv, CountersCount, Busy
  <1>6. OwnerInStep'
    BY <1>1, <1>2 DEF Inv, YamlInv, OwnerInStep, Repositories
  <1>7. PlacesInStep'
    BY <1>1, <1>2, SameFile DEF Inv, YamlInv, PlacesInStep, Submitted
  <1> QED
    BY <1>1, <1>3, <1>4, <1>5, <1>6, <1>7, FunctionsStay DEF Inv, YamlInv

\* One function of a tag goes on; the others stand where they stood, and so do
\* the places and the owner.
LEMMA TagMoves ==
  ASSUME Inv, NEW p \in Place, NEW t \in Tag, NEW s \in {"queued", "running", "over"},
         copy' = [copy EXCEPT ![FunctionOf(p, t)] = s],
         UNCHANGED <<file, owner, repo_thr_count, at, faults>>,
         todo' \in [Place -> SUBSET Tag],
         \A q \in Place : q # p => todo'[q] = todo[q],
         at[p] # "tags" => todo'[p] = {}
  PROVE  /\ copy' \in [Function -> {"off", "queued", "running", "over"}]
         /\ copy'[FunctionOf(p, t)] = s
         /\ \A q \in Place, u \in Tag : ~(q = p /\ u = t) =>
              copy'[FunctionOf(q, u)] = copy[FunctionOf(q, u)]
         /\ \A q \in Place : q # p => BusyTags(q)' = BusyTags(q)
         /\ OwnerInStep' /\ PlacesInStep'
         /\ repo_thr_count' = Cardinality(Busy)' /\ (repo_thr_count <= repo_index)'
  <1>1. copy \in [Function -> {"off", "queued", "running", "over"}] /\ FunctionOf(p, t) \in Function
    BY FunctionFacts DEF Inv, TypeOK
  <1>2. copy' \in [Function -> {"off", "queued", "running", "over"}] /\ copy'[FunctionOf(p, t)] = s
    BY <1>1
  <1>3. ASSUME NEW q \in Place, NEW u \in Tag, ~(q = p /\ u = t)
        PROVE  copy'[FunctionOf(q, u)] = copy[FunctionOf(q, u)]
    <2>1. FunctionOf(q, u) # FunctionOf(p, t) /\ FunctionOf(q, u) \in Function
      BY <1>3, FunctionFacts
    <2> QED
      BY <1>1, <2>1
  <1>4. ASSUME NEW q \in Place, q # p
        PROVE  BusyTags(q)' = BusyTags(q)
    <2>1. \A u \in Tag : copy'[FunctionOf(q, u)] = copy[FunctionOf(q, u)]
      BY <1>3, <1>4
    <2> QED
      BY <2>1 DEF BusyTags, FunctionOf
  <1>5. UNCHANGED <<main, nth, current_domain, repo_index>>
    BY DEF owner
  <1>6. OwnerInStep'
    BY <1>5 DEF Inv, YamlInv, OwnerInStep, Repositories
  <1>7. \A q : Submitted(q)' <=> Submitted(q)
    BY <1>5, SameFile DEF Submitted
  <1>8. PlacesInStep'
    BY <1>5, <1>7 DEF Inv, YamlInv, PlacesInStep
  <1>9. repo_thr_count' = Cardinality(Busy)' /\ (repo_thr_count <= repo_index)'
    <2>1. Busy' = Busy
      BY DEF Busy
    <2> QED
      BY <1>5, <2>1 DEF Inv, YamlInv, CountersCount
  <1> QED
    BY <1>2, <1>3, <1>4, <1>6, <1>8, <1>9

\* A function of a tag that is under way is one of a place that waits for it, under
\* the domain it was made for.
LEMMA CopyAtHand ==
  ASSUME Inv, NEW p \in Place, NEW t \in Tag, copy[FunctionOf(p, t)] \in {"queued", "running"}
  PROVE  /\ at[p] = "tags" /\ current_domain = Domains[p[1]]
         /\ t \in ListedAt(p) /\ t \notin todo[p]
         /\ p[2] <= Len(Catalogued(p))
         /\ <<Domains[p[1]], Name(p), t>> \in Domain \X Repo \X Tag
  <1>1. at[p] = "tags" /\ t \in ListedAt(p) /\ t \notin todo[p]
    BY DEF Inv, YamlInv, FunctionsInStep
  <1>2. current_domain = Domains[p[1]] /\ p[2] <= Len(Catalogued(p))
    BY <1>1, BusyAtHand
  <1>3. Name(p) \in Repo /\ Domains[p[1]] \in Domain
    BY <1>2, ListedFacts, PlaceFacts DEF Inv, TypeOK
  <1> QED
    BY <1>1, <1>2, <1>3

LEMMA ExecuteTagKeeps ==
  ASSUME Inv, NEW p \in Place, NEW t \in Tag, ExecuteTag(p, t)
  PROVE  Inv' /\ copy[FunctionOf(p, t)] = "off"
  <1>1. /\ at[p] = "tags" /\ t \in todo[p]
        /\ thread_count' = [thread_count EXCEPT ![p] = thread_count[p] + 1]
        /\ copy' = [copy EXCEPT ![FunctionOf(p, t)] = "queued"]
        /\ todo' = [todo EXCEPT ![p] = todo[p] \ {t}]
        /\ UNCHANGED <<file, owner, repo_thr_count, at, asked, faults>>
    BY DEF ExecuteTag, FunctionOf
  <1>2. /\ todo' \in [Place -> SUBSET Tag] /\ todo'[p] = todo[p] \ {t}
        /\ \A q \in Place : q # p => todo'[q] = todo[q]
    BY <1>1 DEF Inv, TypeOK
  <1>3. copy[FunctionOf(p, t)] = "off" /\ t \in ListedAt(p)
    BY <1>1 DEF Inv, YamlInv, FunctionsInStep
  <1>4. /\ copy' \in [Function -> {"off", "queued", "running", "over"}]
        /\ copy'[FunctionOf(p, t)] = "queued"
        /\ \A q \in Place, u \in Tag : ~(q = p /\ u = t) =>
             copy'[FunctionOf(q, u)] = copy[FunctionOf(q, u)]
        /\ \A q \in Place : q # p => BusyTags(q)' = BusyTags(q)
        /\ OwnerInStep' /\ PlacesInStep'
        /\ repo_thr_count' = Cardinality(Busy)' /\ (repo_thr_count <= repo_index)'
    BY <1>1, <1>2, TagMoves
  <1>5. BusyTags(p)' = BusyTags(p) \cup {t} /\ t \notin BusyTags(p)
    BY <1>3, <1>4 DEF BusyTags, FunctionOf
  <1>6. Cardinality(BusyTags(p)') = Cardinality(BusyTags(p)) + 1
    BY <1>5, BusyTagsFinite, OneMore
  <1>7. Cardinality(BusyTags(p)') \in 0 .. Cardinality(Tag)
    <2>1. IsFiniteSet(Tag) /\ BusyTags(p)' \in SUBSET Tag
      BY <1>5, Bounds DEF BusyTags
    <2> QED
      BY <2>1, FS_Subset, FS_CardinalityType, Bounds
  <1>8. thread_count[p] = Cardinality(BusyTags(p))
    BY DEF Inv, YamlInv, CountersCount
  <1>9. /\ thread_count' \in [Place -> 0 .. Cardinality(Tag)]
        /\ \A q \in Place : thread_count'[q] = Cardinality(BusyTags(q)')
    BY <1>1, <1>4, <1>6, <1>7, <1>8 DEF Inv, YamlInv, CountersCount, TypeOK
  <1>10. TypeOK'
    BY <1>1, <1>2, <1>4, <1>9 DEF Inv, TypeOK, owner
  <1>11. \A q : Name(q)' = Name(q) /\ Catalogued(q)' = Catalogued(q) /\ ListedAt(q)' = ListedAt(q)
    BY <1>1, SameFile
  <1>12. FunctionsInStep'
    <2> SUFFICES ASSUME NEW q \in Place
                 PROVE  /\ \A u \in todo'[q] : u \in ListedAt(q)
                        /\ \A u \in Tag :
                             /\ copy'[FunctionOf(q, u)] # "off" =>
                                  at[q] \in {"tags", "over"} /\ u \in ListedAt(q) \ todo'[q]
                             /\ copy'[FunctionOf(q, u)] \in {"queued", "running"} => at[q] = "tags"
      BY <1>1, <1>11 DEF FunctionsInStep, FunctionOf
    <2>1. CASE q = p
      BY <1>1, <1>2, <1>3, <1>4, <2>1 DEF Inv, YamlInv, FunctionsInStep
    <2>2. CASE q # p
      BY <1>2, <1>4, <2>2 DEF Inv, YamlInv, FunctionsInStep
    <2> QED
      BY <2>1, <2>2
  <1>13. AskedListed'
    BY <1>1, <1>11 DEF Inv, YamlInv, AskedListed
  <1>14. CopiedIsAsked'
    <2> SUFFICES ASSUME NEW q \in Place, NEW u \in Tag, copy'[FunctionOf(q, u)] \in {"running", "over"}
                 PROVE  <<Domains[q[1]], Name(q), u>> \in asked
      BY <1>1, <1>11 DEF CopiedIsAsked, FunctionOf
    <2> QED
      BY <1>4 DEF Inv, YamlInv, CopiedIsAsked
  <1>15. ASSUME NothingForgotten
         PROVE  NothingForgotten'
    <2> SUFFICES ASSUME NEW q \in Place, at[q] \in {"tags", "over"}, NEW u \in ListedAt(q)
                 PROVE  u \in todo'[q] \/ copy'[FunctionOf(q, u)] # "off"
      BY <1>1, <1>11 DEF NothingForgotten, FunctionOf
    <2>1. u \in Tag
      <3>1. Submitted(q)
        BY DEF Inv, YamlInv, PlacesInStep
      <3> QED
        BY <3>1, ListedOfSubmitted
    <2> QED
      BY <1>1, <1>2, <1>4, <1>15, <2>1 DEF NothingForgotten
  <1> QED
    BY <1>1, <1>3, <1>4, <1>9, <1>10, <1>12, <1>13, <1>14, <1>15 DEF Inv, YamlInv, CountersCount

\* The function of a tag starts or ends: either time the tag has been asked for.
LEMMA CopyKeeps ==
  ASSUME Inv, NEW p \in Place, NEW t \in Tag, NEW s \in {"running", "over"},
         copy[FunctionOf(p, t)] = IF s = "running" THEN "queued" ELSE "running",
         copy' = [copy EXCEPT ![FunctionOf(p, t)] = s],
         asked' = asked \cup {<<current_domain, Name(p), t>>},
         thread_count' = IF s = "running" THEN thread_count
                         ELSE [thread_count EXCEPT ![p] = thread_count[p] - 1],
         UNCHANGED <<file, owner, repo_thr_count, at, todo, faults>>
  PROVE  Inv'
  <1>1. /\ at[p] = "tags" /\ current_domain = Domains[p[1]]
        /\ t \in ListedAt(p) /\ t \notin todo[p]
        /\ p[2] <= Len(Catalogued(p))
        /\ <<Domains[p[1]], Name(p), t>> \in Domain \X Repo \X Tag
    BY CopyAtHand
  <1>2. /\ copy' \in [Function -> {"off", "queued", "running", "over"}]
        /\ copy'[FunctionOf(p, t)] = s
        /\ \A q \in Place, u \in Tag : ~(q = p /\ u = t) =>
             copy'[FunctionOf(q, u)] = copy[FunctionOf(q, u)]
        /\ \A q \in Place : q # p => BusyTags(q)' = BusyTags(q)
        /\ OwnerInStep' /\ PlacesInStep'
        /\ repo_thr_count' = Cardinality(Busy)' /\ (repo_thr_count <= repo_index)'
    <2>1. todo' \in [Place -> SUBSET Tag] /\ \A q \in Place : todo'[q] = todo[q]
      BY DEF Inv, TypeOK
    <2> QED
      BY <1>1, <2>1, TagMoves
  <1>3. thread_count[p] = Cardinality(BusyTags(p))
    BY DEF Inv, YamlInv, CountersCount
  <1>4. /\ thread_count' \in [Place -> 0 .. Cardinality(Tag)]
        /\ \A q \in Place : thread_count'[q] = Cardinality(BusyTags(q)')
    <2>1. CASE s = "running"
      <3>1. BusyTags(p)' = BusyTags(p)
        BY <1>2, <2>1 DEF BusyTags, FunctionOf
      <3> QED
        BY <1>2, <2>1, <3>1 DEF Inv, YamlInv, CountersCount, TypeOK
    <2>2. CASE s = "over"
      <3>1. BusyTags(p)' = BusyTags(p) \ {t} /\ t \in BusyTags(p)
        BY <1>2, <2>2 DEF BusyTags, FunctionOf
      <3>2. Cardinality(BusyTags(p)') = Cardinality(BusyTags(p)) - 1
        BY <3>1, BusyTagsFinite, OneLess
      <3>3. Cardinality(BusyTags(p)') \in 0 .. Cardinality(Tag)
        <4>1. IsFiniteSet(Tag) /\ BusyTags(p)' \in SUBSET Tag
          BY <3>1, Bounds DEF BusyTags
        <4> QED
          BY <4>1, FS_Subset, FS_CardinalityType, Bounds
      <3>4. thread_count' = [thread_count EXCEPT ![p] = thread_count[p] - 1]
        BY <2>2
      <3>5. thread_count \in [Place -> 0 .. Cardinality(Tag)]
        BY DEF Inv, TypeOK
      <3>6. thread_count'[p] = Cardinality(BusyTags(p)')
        BY <1>3, <3>2, <3>4, <3>5
      <3>7. thread_count' \in [Place -> 0 .. Cardinality(Tag)]
        BY <1>3, <3>2, <3>3, <3>4, <3>5
      <3>8. \A q \in Place : q # p => thread_count'[q] = Cardinality(BusyTags(q)')
        BY <1>2, <3>4, <3>5 DEF Inv, YamlInv, CountersCount
      <3> QED
        BY <3>6, <3>7, <3>8
    <2> QED
      BY <2>1, <2>2
  <1>5. TypeOK'
    BY <1>1, <1>2, <1>4 DEF Inv, TypeOK, owner
  <1>6. \A q : Name(q)' = Name(q) /\ Catalogued(q)' = Catalogued(q) /\ ListedAt(q)' = ListedAt(q)
    BY SameFile
  <1>7. FunctionsInStep'
    <2> SUFFICES ASSUME NEW q \in Place
                 PROVE  /\ \A u \in todo[q] : u \in ListedAt(q)
                        /\ \A u \in Tag :
                             /\ copy'[FunctionOf(q, u)] # "off" =>
                                  at[q] \in {"tags", "over"} /\ u \in ListedAt(q) \ todo[q]
                             /\ copy'[FunctionOf(q, u)] \in {"queued", "running"} => at[q] = "tags"
      BY <1>6 DEF FunctionsInStep, FunctionOf
    <2>1. CASE q = p
      BY <1>1, <1>2, <2>1 DEF Inv, YamlInv, FunctionsInStep
    <2>2. CASE q # p
      BY <1>2, <2>2 DEF Inv, YamlInv, FunctionsInStep
    <2> QED
      BY <2>1, <2>2
  <1>8. AskedListed'
    <2> SUFFICES ASSUME NEW a \in asked'
                 PROVE  \E q \in Place : q[2] <= Len(Catalogued(q)) /\
                          \E u \in ListedAt(q) : a = <<Domains[q[1]], Name(q), u>>
      BY <1>6 DEF AskedListed
    <2>1. CASE a \in asked
      BY <1>1, <2>1 DEF Inv, YamlInv, AskedListed
    <2>2. CASE a = <<current_domain, Name(p), t>>
      BY <1>1, <2>2
    <2> QED
      BY <2>1, <2>2
  <1>9. CopiedIsAsked'
    <2> SUFFICES ASSUME NEW q \in Place, NEW u \in Tag, copy'[FunctionOf(q, u)] \in {"running", "over"}
                 PROVE  <<Domains[q[1]], Name(q), u>> \in asked'
      BY <1>6 DEF CopiedIsAsked, FunctionOf
    <2>1. CASE q = p /\ u = t
      BY <1>1, <2>1
    <2>2. CASE ~(q = p /\ u = t)
      BY <1>2, <2>2 DEF Inv, YamlInv, CopiedIsAsked
    <2> QED
      BY <2>1, <2>2
  <1>10. ASSUME NothingForgotten
         PROVE  NothingForgotten'
    <2> SUFFICES ASSUME NEW q \in Place, at[q] \in {"tags", "over"}, NEW u \in ListedAt(q)
                 PROVE  u \in todo[q] \/ copy'[FunctionOf(q, u)] # "off"
      BY <1>6 DEF NothingForgotten, FunctionOf
    <2>1. u \in Tag
      <3>1. Submitted(q)
        BY DEF Inv, YamlInv, PlacesInStep
      <3> QED
        BY <3>1, ListedOfSubmitted
    <2> QED
      BY <1>2, <1>10, <2>1 DEF NothingForgotten
  <1> QED
    BY <1>2, <1>4, <1>5, <1>7, <1>8, <1>9, <1>10 DEF Inv, YamlInv, CountersCount

LEMMA FunctionKeeps ==
  ASSUME Inv, NEW c \in Function, StartCopy(c) \/ FinishCopy(c)
  PROVE  Inv'
  <1> DEFINE p == PlaceOf(c)
             t == c[3]
  <1>1. p \in Place /\ t \in Tag /\ c = FunctionOf(p, t)
    BY FunctionFacts
  <1>2. asked' = asked \cup {<<current_domain, Name(p), t>>}
    BY DEF StartCopy, FinishCopy
  <1>3. UNCHANGED <<file, owner, repo_thr_count, at, todo, faults>>
    BY DEF StartCopy, FinishCopy
  <1>4. CASE StartCopy(c)
    <2>1. copy[c] = "queued" /\ copy' = [copy EXCEPT ![c] = "running"] /\ thread_count' = thread_count
      BY <1>4 DEF StartCopy
    <2> HIDE DEF p, t
    <2> QED
      BY <1>1, <1>2, <1>3, <2>1, CopyKeeps
  <1>5. CASE FinishCopy(c)
    <2>1. /\ copy[c] = "running" /\ copy' = [copy EXCEPT ![c] = "over"]
          /\ thread_count' = [thread_count EXCEPT ![p] = thread_count[p] - 1]
      BY <1>5 DEF FinishCopy
    <2> HIDE DEF p, t
    <2> QED
      BY <1>1, <1>2, <1>3, <2>1, CopyKeeps
  <1> QED
    BY <1>4, <1>5

LEMMA InvInductive ==
  ASSUME Inv, [Next]_vars
  PROVE  Inv'
  <1>1. CASE UNCHANGED vars
    <2>1. UNCHANGED <<file, main, nth, current_domain, repo_index, repo_thr_count, at, todo,
                      thread_count, copy, asked, faults>>
      BY <1>1 DEF vars, owner
    <2>2. TypeOK'
      BY <2>1 DEF Inv, TypeOK
    <2>3. CountersCount'
      BY <2>1, CountersStay DEF Inv, YamlInv, CountersCount, Busy
    <2>4. OwnerInStep' /\ PlacesInStep'
      BY <2>1, SameFile DEF Inv, YamlInv, OwnerInStep, Repositories, PlacesInStep, Submitted
    <2> QED
      BY <2>1, <2>2, <2>3, <2>4, FunctionsStay DEF Inv, YamlInv
  <1>2. CASE OwnerNext
    BY <1>2, OwnerKeeps, BackgroundKeeps DEF OwnerNext
  <1>3. CASE FunctionNext
    BY <1>3, ListKeeps, AuthThrowsKeeps, RepoReturnsKeeps, ExecuteTagKeeps, FunctionKeeps
       DEF FunctionNext
  <1> QED
    BY <1>1, <1>2, <1>3 DEF Next

\* The state of a sync has its types; in particular neither repo_thr_count nor a
\* thread_count, which functions of the pool count up and down, goes below zero or past
\* the number of what was submitted.
THEOREM YamlTypes == SafeSpec => []TypeOK
  <1>1. Inv => TypeOK
    BY DEF Inv
  <1> QED
    BY <1>1, InvInitially, InvInductive, PTL DEF SafeSpec

\* What a function on its way refers to is there for it: the counter it counts down,
\* on the stack of a call that has not seen it at zero, and current_domain_, which
\* names the domain the function was made for.
ReferencesValid == \A p \in Place :
  /\ at[p] \in {"queued", "tags"} =>
       main # "over" /\ repo_thr_count > 0 /\ current_domain = Domains[p[1]]
  /\ \A t \in Tag : copy[FunctionOf(p, t)] \in {"queued", "running"} =>
       at[p] = "tags" /\ thread_count[p] > 0

\* The references that the lambdas of Sync.cpp:46 and Sync.cpp:115 capture are valid
\* as long as they may use them, and no function asks for tags of another domain than
\* its own, though catalog moves the one domain all of them share.
THEOREM YamlReferences == SafeSpec => []ReferencesValid
  <1>1. ASSUME Inv PROVE ReferencesValid
    <2> SUFFICES ASSUME NEW p \in Place
                 PROVE  /\ at[p] \in {"queued", "tags"} =>
                             /\ main # "over" /\ repo_thr_count > 0
                             /\ current_domain = Domains[p[1]]
                        /\ \A t \in Tag : copy[FunctionOf(p, t)] \in {"queued", "running"} =>
                             at[p] = "tags" /\ thread_count[p] > 0
      BY DEF ReferencesValid
    <2>1. ASSUME at[p] \in {"queued", "tags"}
          PROVE  main # "over" /\ repo_thr_count > 0 /\ current_domain = Domains[p[1]]
      <3>1. main # "over" /\ current_domain = Domains[p[1]]
        BY <1>1, <2>1, BusyAtHand
      <3>2. repo_thr_count # 0
        BY <1>1, <2>1, NothingBusy DEF Busy
      <3>3. repo_thr_count \in Nat
        BY <1>1, BusyFinite DEF Inv, YamlInv, CountersCount
      <3> QED
        BY <3>1, <3>2, <3>3
    <2>2. ASSUME NEW t \in Tag, copy[FunctionOf(p, t)] \in {"queued", "running"}
          PROVE  at[p] = "tags" /\ thread_count[p] > 0
      <3>1. at[p] = "tags"
        BY <1>1, <2>2, CopyAtHand
      <3>2. thread_count[p] = Cardinality(BusyTags(p)) /\ BusyTags(p) # {}
        BY <1>1, <2>2 DEF Inv, YamlInv, CountersCount, BusyTags
      <3>3. Cardinality(BusyTags(p)) \in Nat /\ Cardinality(BusyTags(p)) # 0
        BY <3>2, BusyTagsFinite, FS_EmptySet, FS_CardinalityType
      <3> QED
        BY <3>1, <3>2, <3>3
    <2> QED
      BY <2>1, <2>2
  <1> QED
    BY <1>1, InvInitially, InvInductive, PTL DEF SafeSpec

\* What each of the three kinds of body waits for has come: the owner has a domain to
\* read, repositories to submit or a counter at zero; the function of a repository is
\* queued, has tags to submit or a counter at zero; that of a tag waits for nothing.
OwnerReady ==
  \/ main = "catalog" /\ nth <= Len(Domains)
  \/ main = "submit" /\ repo_index <= Len(Repositories)
  \/ main = "join" /\ repo_thr_count = 0
PlaceReady(p) ==
  \/ at[p] = "queued"
  \/ at[p] = "tags" /\ (thread_count[p] = 0 \/ \E t \in Tag : t \in todo[p])
TagReady(p, t) == copy[FunctionOf(p, t)] \in {"queued", "running"}

SomebodyIsReady ==
  \/ main \in {"over", "terminated"}
  \/ OwnerReady
  \/ \E p \in Place : PlaceReady(p) \/ \E t \in Tag : TagReady(p, t)

CatalogAtHand == main = "catalog" => nth <= Len(Domains)

LEMMA CatalogKept ==
  ASSUME Inv, CatalogAtHand, [Next]_vars
  PROVE  CatalogAtHand'
  <1>1. CASE Joined
    <2>1. main = "join" /\ nth <= Len(Domains)
      BY <1>1 DEF Joined, Inv, YamlInv, OwnerInStep
    <2>2. nth \in 1 .. Len(Domains) + 1
      BY DEF Inv, TypeOK
    <2> QED
      BY <1>1, <2>1, <2>2, Bounds DEF Joined, CatalogAtHand
  <1>2. CASE Catalog \/ Background \/ AllSubmitted
    BY <1>2 DEF Catalog, Background, AllSubmitted, CatalogAtHand
  <1>3. CASE FunctionNext
    BY <1>3 DEF FunctionNext, ListTags, ListTagsFails, AuthThrows, RepoReturns, ExecuteTag,
       StartCopy, FinishCopy, owner, CatalogAtHand
  <1>4. CASE UNCHANGED vars
    BY <1>4 DEF vars, owner, CatalogAtHand
  <1> QED
    BY <1>1, <1>2, <1>3, <1>4 DEF Next, OwnerNext

\* A sync of a file with a domain never waits for a counter that nobody will count
\* down: until it is over, or an exception has ended the process, some body can go on.
THEOREM YamlNeverStuck ==
  ASSUME Domains # <<>>
  PROVE  SafeSpec => []SomebodyIsReady
  <1>1. Init => CatalogAtHand
    <2>1. Domains \in Seq(Domain)
      BY YamlAssumption
    <2>2. Len(Domains) >= 1
      BY <2>1
    <2> QED
      BY <2>2 DEF Init, CatalogAtHand
  <1>2. ASSUME Inv, CatalogAtHand PROVE SomebodyIsReady
    <2> SUFFICES ASSUME main \in {"catalog", "submit", "join"}, ~OwnerReady
                 PROVE  \E p \in Place : PlaceReady(p) \/ \E t \in Tag : TagReady(p, t)
      BY <1>2 DEF SomebodyIsReady, Inv, TypeOK
    <2>1. main = "join" /\ repo_thr_count # 0
      BY <1>2 DEF OwnerReady, CatalogAtHand, Inv, YamlInv, OwnerInStep
    <2>2. Busy # {}
      BY <1>2, <2>1, BusyFinite, FS_EmptySet DEF Inv, YamlInv, CountersCount
    <2>3. PICK p \in Place : at[p] \in {"queued", "tags"}
      BY <2>2 DEF Busy
    <2>4. CASE at[p] = "queued" \/ thread_count[p] = 0
      BY <2>3, <2>4 DEF PlaceReady
    <2>5. CASE thread_count[p] # 0
      <3>1. BusyTags(p) # {}
        BY <1>2, <2>5, BusyTagsFinite, FS_EmptySet DEF Inv, YamlInv, CountersCount
      <3> QED
        BY <3>1 DEF BusyTags, TagReady
    <2> QED
      BY <2>4, <2>5
  <1> QED
    BY <1>1, <1>2, CatalogKept, InvInitially, InvInductive, PTL DEF SafeSpec

-----------------------------------------------------------------------------
(* What is asked of the source.                                              *)

\* What a file lists for a repository is wanted, if it is read as it is meant.
LEMMA WantedIsListed ==
  ASSUME TypeOK, ReadAsMeant, NEW p \in Place, p[2] <= Len(Catalogued(p))
  PROVE  /\ Catalogued(p)[p[2]] \in Repo /\ p[2] \in DOMAIN Catalogued(p)
         /\ Name(p) = FullName(Catalogued(p)[p[2]])
         /\ ListedAt(p) = WantedTags(Domains[p[1]], Catalogued(p)[p[2]])
  <1> DEFINE d == Domains[p[1]]
             r == Catalogued(p)[p[2]]
  <1>1. d \in Domain /\ p[2] \in 1 .. Most /\ file \in File
    BY PlaceFacts DEF TypeOK
  <1>2. Catalogued(p) \in Seq(Repo)
    BY <1>1, YamlAssumption DEF Catalogued
  <1>3. p[2] \in DOMAIN Catalogued(p)
    BY <1>1, <1>2, Bounds
  <1>4. r \in Repo /\ Name(p) \in Repo /\ Name(p) = FullName(r)
    BY <1>1, ListedFacts DEF Name, Catalogued
  <1>5. Tags[file][d] \in [Repo -> SUBSET Tag]
    BY <1>1, YamlAssumption
  <1>6. /\ Tags[file][d][FullName(r)] = Tags[file][d][r]
        /\ Tags[file][d][r] = {} => filterOf(file) = FilterOf(d)
    BY <1>1, <1>3 DEF ReadAsMeant, Catalogued
  <1>7. TagList(d, FullName(r)) = WantedTags(d, r)
    <2> HIDE DEF d, r
    <2>1. FullName(r) \in DOMAIN Tags[file][d]
      BY <1>4, <1>5
    <2> QED
      BY <1>6, <2>1 DEF TagList, WantedTags
  <1> QED
    BY <1>3, <1>4, <1>7 DEF ListedAt

LEMMA ReadAsMeantStays ==
  ASSUME ReadAsMeant, [Next]_vars
  PROVE  ReadAsMeant'
  <1>1. file' = file
    BY DEF Next, OwnerNext, FunctionNext, Catalog, Background, AllSubmitted, Joined, ListTags,
       ListTagsFails, AuthThrows, RepoReturns, ExecuteTag, StartCopy, FinishCopy, vars
  <1> QED
    BY <1>1 DEF ReadAsMeant, FilterOf

\* Whatever the interleaving of the functions that copy the one Yaml object, nothing
\* is asked of the source that a file read as it is meant does not name: no repository
\* of one domain at the registry of another, and no tag it leaves out.
THEOREM YamlAsksOnly == SafeSpec /\ ReadAsMeant => []AsksOnlyWhatTheFileNames
  <1>1. Inv /\ ReadAsMeant => AsksOnlyWhatTheFileNames
    <2> SUFFICES ASSUME Inv, ReadAsMeant, NEW a \in asked PROVE a \in Wanted
      BY DEF AsksOnlyWhatTheFileNames
    <2>1. PICK p \in Place : p[2] <= Len(Catalogued(p)) /\
                 \E t \in ListedAt(p) : a = <<Domains[p[1]], Name(p), t>>
      BY DEF Inv, YamlInv, AskedListed
    <2>2. PICK t \in ListedAt(p) : a = <<Domains[p[1]], Name(p), t>>
      BY <2>1
    <2>3. /\ p[2] \in DOMAIN Catalogued(p)
          /\ Name(p) = FullName(Catalogued(p)[p[2]])
          /\ t \in WantedTags(Domains[p[1]], Catalogued(p)[p[2]])
      BY <2>1, WantedIsListed DEF Inv
    <2>4. a \in Domain \X Repo \X Tag
      BY DEF Inv, TypeOK
    <2>5. a[1] = Domains[p[1]] /\ a[2] = Name(p) /\ a[3] = t
      BY <2>2
    <2> QED
      BY <2>3, <2>4, <2>5 DEF Wanted, Catalogued
  <1> QED
    BY <1>1, InvInitially, InvInductive, ReadAsMeantStays, PTL DEF SafeSpec

\* When the owner is through with the last domain and every registry has answered, all
\* that a file read as it is meant names has been asked for.
THEOREM YamlAsksAll == SafeSpec /\ ReadAsMeant => []AsksAllTheFileNames
  <1>1. Inv /\ ReadAsMeant => AsksAllTheFileNames
    <2> SUFFICES ASSUME Inv, ReadAsMeant, main = "over", faults = 0, NEW a \in Wanted
                 PROVE  a \in asked
      BY DEF AsksAllTheFileNames
    <2>1. a \in Domain \X Repo \X Tag
      BY DEF Wanted
    <2>2. PICK k \in DOMAIN Images[file][a[1]] :
            /\ a[2] = FullName(Images[file][a[1]][k])
            /\ a[3] \in WantedTags(a[1], Images[file][a[1]][k])
      BY DEF Wanted
    <2>3. PICK n \in 1 .. Len(Domains) : a[1] = Domains[n]
      <3>1. Domains \in Seq(Domain)
        BY YamlAssumption
      <3> QED
        BY <2>1, <3>1 DEF Domain
    <2> DEFINE p == <<n, k>>
    <2>4. k \in 1 .. Most /\ k <= Len(Images[file][a[1]])
      <3>1. Images[file][a[1]] \in Seq(Repo) /\ Len(Images[file][a[1]]) <= Most /\ Most \in Nat
        BY <2>1, YamlAssumption DEF Inv, TypeOK
      <3> QED
        BY <3>1
    <2>5. p \in Place /\ p[1] = n /\ p[2] = k
      BY <2>4 DEF Place
    <2> HIDE DEF p
    <2>6. Catalogued(p) = Images[file][a[1]]
      BY <2>3, <2>5 DEF Catalogued
    <2>7. Name(p) = a[2] /\ a[3] \in ListedAt(p)
      BY <2>2, <2>3, <2>4, <2>5, <2>6, WantedIsListed DEF Inv
    <2>8. at[p] = "over"
      <3>1. nth = Len(Domains) + 1
        BY DEF Inv, YamlInv, OwnerInStep
      <3>2. Submitted(p)
        BY <2>4, <2>5, <2>6, <3>1, Bounds DEF Submitted
      <3>3. at[p] # "off" /\ at[p] \notin {"queued", "tags"}
        BY <2>5, <3>1, <3>2, Bounds DEF Inv, YamlInv, PlacesInStep
      <3> QED
        BY <2>5, <3>3 DEF Inv, TypeOK
    <2>9. todo[p] = {}
      BY <2>5, <2>8 DEF Inv, YamlInv, PlacesInStep
    <2>10. copy[FunctionOf(p, a[3])] = "over"
      <3>1. a[3] \in Tag
        BY <2>1
      <3>2. copy[FunctionOf(p, a[3])] # "off"
        BY <2>5, <2>7, <2>8, <2>9 DEF Inv, YamlInv, NothingForgotten
      <3>3. copy[FunctionOf(p, a[3])] \notin {"queued", "running"}
        BY <2>5, <2>8, <3>1 DEF Inv, YamlInv, FunctionsInStep
      <3> QED
        BY <2>5, <3>1, <3>2, <3>3, FunctionFacts DEF Inv, TypeOK
    <2>11. <<a[1], a[2], a[3]>> \in asked
      BY <2>1, <2>3, <2>5, <2>7, <2>10 DEF Inv, YamlInv, CopiedIsAsked
    <2> QED
      BY <2>1, <2>11
  <1> QED
    BY <1>1, InvInitially, InvInductive, ReadAsMeantStays, PTL DEF SafeSpec

-----------------------------------------------------------------------------
(* Sync as a user of the executor.                                           *)

\* The owner, the functions of places and those of tags are not each other.
LEMMA TaskFacts ==
  /\ OwnerTask \in Task /\ Place \subseteq Task /\ Function \subseteq Task
  /\ OwnerTask \notin Place /\ OwnerTask \notin Function
  /\ \A p \in Place : p \notin Function
  /\ \A p \in Place : Parent[p] = OwnerTask
  /\ \A c \in Function : Parent[c] = PlaceOf(c)
  <1>1. OwnerTask \notin Place /\ OwnerTask \notin Function
    BY DEF OwnerTask, Place, Function
  <1>2. \A p \in Place : p \notin Function
    BY DEF Place, Function
  <1> QED
    BY <1>1, <1>2 DEF Task, Parent

\* What the executor sees of a state.
LEMMA ProgressFacts ==
  /\ TaskState[OwnerTask] = IF main = "over" THEN "done" ELSE "running"
  /\ \A p \in Place : TaskState[p] = Progress(at[p])
  /\ \A c \in Function : TaskState[c] = Progress(copy[c])
  BY TaskFacts DEF TaskState

\* The same of the next state.
LEMMA ProgressSeen ==
  /\ TaskState'[OwnerTask] = IF main' = "over" THEN "done" ELSE "running"
  /\ \A p \in Place : TaskState'[p] = Progress(at'[p])
  /\ \A c \in Function : TaskState'[c] = Progress(copy'[c])
  BY TaskFacts DEF TaskState, Progress

LEMMA ProgressValues ==
  /\ Progress("off") = "new" /\ Progress("queued") = "submitted"
  /\ Progress("tags") = "running" /\ Progress("running") = "running"
  /\ Progress("over") = "done"
  BY DEF Progress

\* One task comes to v.
LEMMA OneMoves ==
  ASSUME NEW c \in Task,
         \A e \in Task : e # c => TaskState'[e] = TaskState[e]
  PROVE  TaskState' = [TaskState EXCEPT ![c] = TaskState'[c]]
  BY DEF TaskState

\* A place alone comes to v, or a function of a tag alone does.
LEMMA PlaceSeen ==
  ASSUME Inv, NEW p \in Place, NEW v \in {"off", "queued", "tags", "over"},
         at' = [at EXCEPT ![p] = v], UNCHANGED <<main, copy>>
  PROVE  TaskState' = [TaskState EXCEPT ![p] = Progress(v)]
  <1>1. TaskState'[p] = Progress(v)
    BY ProgressSeen DEF Inv, TypeOK
  <1>2. ASSUME NEW e \in Task, e # p
        PROVE  TaskState'[e] = TaskState[e]
    <2>1. CASE e = OwnerTask
      BY <2>1, ProgressFacts, ProgressSeen
    <2>2. CASE e \in Place
      <3>1. at'[e] = at[e]
        BY <1>2, <2>2 DEF Inv, TypeOK
      <3> QED
        BY <2>2, <3>1, ProgressFacts, ProgressSeen
    <2>3. CASE e \in Function
      <3>1. copy'[e] = copy[e]
        BY <1>2, <2>3 DEF Inv, TypeOK
      <3> QED
        BY <2>3, <3>1, ProgressFacts, ProgressSeen
    <2> QED
      BY <2>1, <2>2, <2>3 DEF Task
  <1> QED
    BY <1>1, <1>2, TaskFacts, OneMoves

LEMMA CopySeen ==
  ASSUME Inv, NEW c \in Function, NEW v \in {"off", "queued", "running", "over"},
         copy' = [copy EXCEPT ![c] = v], UNCHANGED <<main, at>>
  PROVE  TaskState' = [TaskState EXCEPT ![c] = Progress(v)]
  <1>1. TaskState'[c] = Progress(v)
    BY ProgressSeen DEF Inv, TypeOK
  <1>2. ASSUME NEW e \in Task, e # c
        PROVE  TaskState'[e] = TaskState[e]
    <2>1. CASE e = OwnerTask
      BY <2>1, ProgressFacts, ProgressSeen
    <2>2. CASE e \in Place
      <3>1. at'[e] = at[e]
        BY <1>2, <2>2 DEF Inv, TypeOK
      <3> QED
        BY <2>2, <3>1, ProgressFacts, ProgressSeen
    <2>3. CASE e \in Function
      <3>1. copy'[e] = copy[e]
        BY <1>2, <2>3 DEF Inv, TypeOK
      <3> QED
        BY <2>3, <3>1, ProgressFacts, ProgressSeen
    <2> QED
      BY <2>1, <2>2, <2>3 DEF Task
  <1> QED
    BY <1>1, <1>2, TaskFacts, OneMoves

\* Nothing is seen of a step that moves neither place nor tag, and does not end the owner.
LEMMA NothingSeen ==
  ASSUME UNCHANGED <<at, copy>>, main = "over" <=> main' = "over"
  PROVE  TaskState' = TaskState
  BY DEF TaskState

\* Everything the owner does is seen as a submission, as its return after all it
\* submitted, or not at all.
LEMMA OwnerSeen ==
  ASSUME Inv, OwnerNext
  PROVE  Pool!Next \/ TaskState' = TaskState
  <1>1. CASE Catalog \/ AllSubmitted
    BY <1>1, NothingSeen DEF Catalog, AllSubmitted
  <1>2. CASE Background
    <2> DEFINE p == <<nth, repo_index + 1>>
    <2>1. p \in Place /\ at[p] = "off" /\ main = "submit"
      BY <1>2, NextPlace DEF Background
    <2>2. at' = [at EXCEPT ![p] = "queued"] /\ UNCHANGED <<main, copy>>
      BY <1>2 DEF Background
    <2> HIDE DEF p
    <2>3. TaskState' = [TaskState EXCEPT ![p] = "submitted"]
      BY <2>1, <2>2, PlaceSeen, ProgressValues
    <2>4. TaskState[p] = "new" /\ TaskState[Parent[p]] = "running" /\ p \in Task /\ p # OwnerTask
      BY <2>1, TaskFacts, ProgressFacts, ProgressValues
    <2>5. Pool!Submit(p)
      BY <2>3, <2>4 DEF Pool!Submit
    <2> QED
      BY <2>4, <2>5 DEF Pool!Next
  <1>3. CASE Joined
    <2>1. main = "join" /\ repo_thr_count = 0 /\ UNCHANGED <<at, copy>>
      BY <1>3 DEF Joined
    <2>2. CASE main' # "over"
      BY <2>1, <2>2, NothingSeen
    <2>3. CASE main' = "over"
      <3>1. TaskState' = [TaskState EXCEPT ![OwnerTask] = "done"]
        <4>1. TaskState'[OwnerTask] = "done"
          BY <2>3, ProgressSeen
        <4>2. ASSUME NEW e \in Task, e # OwnerTask
              PROVE  TaskState'[e] = TaskState[e]
          BY <2>1, <4>2, ProgressFacts, ProgressSeen DEF Task
        <4> QED
          BY <4>1, <4>2, TaskFacts, OneMoves
      <3>2. \A p \in Place : TaskState[p] \in {"new", "done"}
        <4> SUFFICES ASSUME NEW p \in Place PROVE TaskState[p] \in {"new", "done"}
          OBVIOUS
        <4>1. at[p] \in {"off", "over"}
          BY <2>1, NothingBusy DEF Busy, Inv, TypeOK
        <4> QED
          BY <4>1, ProgressFacts, ProgressValues
      <3>3. Pool!Kids(OwnerTask) \subseteq Place
        <4> SUFFICES ASSUME NEW c \in Pool!Kids(OwnerTask), c \in Function PROVE FALSE
          BY DEF Pool!Kids, Task
        <4> QED
          BY TaskFacts, FunctionFacts DEF Pool!Kids
      <3>4. TaskState[OwnerTask] = "running" /\ OwnerTask \in Task
        BY <2>1, ProgressFacts, TaskFacts
      <3>5. Pool!Complete(OwnerTask)
        BY <3>1, <3>2, <3>3, <3>4 DEF Pool!Complete
      <3> QED
        BY <3>4, <3>5 DEF Pool!Next
    <2> QED
      BY <2>2, <2>3
  <1> QED
    BY <1>1, <1>2, <1>3 DEF OwnerNext

\* The functions of places are started, submit and return as the executor allows.
LEMMA PlacesSeen ==
  ASSUME Inv, NEW p \in Place,
         ListTags(p) \/ ListTagsFails(p) \/ AuthThrows(p) \/ RepoReturns(p)
  PROVE  Pool!Next \/ TaskState' = TaskState
  <1>1. p \in Task
    BY TaskFacts
  <1>2. CASE ListTags(p) \/ ListTagsFails(p)
    <2>1. at[p] = "queued" /\ at' = [at EXCEPT ![p] = "tags"] /\ UNCHANGED <<main, copy>>
      BY <1>2 DEF ListTags, ListTagsFails, owner
    <2>2. TaskState' = [TaskState EXCEPT ![p] = "running"]
      BY <2>1, PlaceSeen, ProgressValues
    <2>3. TaskState[p] = "submitted"
      BY <2>1, ProgressFacts, ProgressValues
    <2> QED
      BY <1>1, <2>2, <2>3 DEF Pool!Start, Pool!Next
  <1>3. CASE AuthThrows(p)
    <2>1. at[p] = "queued" /\ main' = "terminated" /\ UNCHANGED <<at, copy>>
      BY <1>3 DEF AuthThrows
    <2>2. main # "over"
      BY <2>1, BusyAtHand
    <2> QED
      BY <2>1, <2>2, NothingSeen
  <1>4. CASE RepoReturns(p)
    <2>1. at[p] = "tags" /\ at' = [at EXCEPT ![p] = "over"] /\ UNCHANGED <<main, copy>>
      BY <1>4 DEF RepoReturns, owner
    <2>2. TaskState' = [TaskState EXCEPT ![p] = "done"]
      BY <2>1, PlaceSeen, ProgressValues
    <2>3. TaskState[p] = "running"
      BY <2>1, ProgressFacts, ProgressValues
    <2>4. ASSUME NEW c \in Pool!Kids(p)
          PROVE  TaskState[c] \in {"new", "done"}
      <3>1. c \in Function /\ PlaceOf(c) = p
        BY TaskFacts DEF Pool!Kids, Task
      <3>2. copy[c] \in {"off", "over"}
        BY <1>4, <3>1, FunctionFacts, RepoReturnsKeeps
      <3> QED
        BY <3>1, <3>2, ProgressFacts, ProgressValues
    <2>5. Pool!Complete(p)
      BY <2>2, <2>3, <2>4 DEF Pool!Complete
    <2> QED
      BY <1>1, <2>5 DEF Pool!Next
  <1> QED
    BY <1>2, <1>3, <1>4

LEMMA TagsSeen ==
  ASSUME Inv,
         \/ \E p \in Place, t \in Tag : ExecuteTag(p, t)
         \/ \E c \in Function : StartCopy(c) \/ FinishCopy(c)
  PROVE  Pool!Next
  <1>1. CASE \E p \in Place, t \in Tag : ExecuteTag(p, t)
    <2> PICK p \in Place, t \in Tag : ExecuteTag(p, t)
      BY <1>1
    <2> DEFINE c == FunctionOf(p, t)
    <2>1. /\ at[p] = "tags" /\ copy[c] = "off" /\ copy' = [copy EXCEPT ![c] = "queued"]
          /\ UNCHANGED <<main, at>>
      BY ExecuteTagKeeps DEF ExecuteTag, FunctionOf, owner
    <2>2. c \in Function /\ PlaceOf(c) = p
      BY FunctionFacts DEF FunctionOf, PlaceOf, Place
    <2> HIDE DEF c
    <2>3. TaskState' = [TaskState EXCEPT ![c] = "submitted"]
      BY <2>1, <2>2, CopySeen, ProgressValues
    <2>4. TaskState[c] = "new" /\ TaskState[Parent[c]] = "running" /\ c \in Task /\ c # OwnerTask
      BY <2>1, <2>2, TaskFacts, ProgressFacts, ProgressValues
    <2> QED
      BY <2>3, <2>4 DEF Pool!Submit, Pool!Next
  <1>2. CASE \E c \in Function : StartCopy(c)
    <2> PICK c \in Function : StartCopy(c)
      BY <1>2
    <2>1. copy[c] = "queued" /\ copy' = [copy EXCEPT ![c] = "running"] /\ UNCHANGED <<main, at>>
      BY DEF StartCopy, owner
    <2>2. TaskState' = [TaskState EXCEPT ![c] = "running"]
      BY <2>1, CopySeen, ProgressValues
    <2>3. TaskState[c] = "submitted" /\ c \in Task
      BY <2>1, TaskFacts, ProgressFacts, ProgressValues
    <2> QED
      BY <2>2, <2>3 DEF Pool!Start, Pool!Next
  <1>3. CASE \E c \in Function : FinishCopy(c)
    <2> PICK c \in Function : FinishCopy(c)
      BY <1>3
    <2>1. copy[c] = "running" /\ copy' = [copy EXCEPT ![c] = "over"] /\ UNCHANGED <<main, at>>
      BY DEF FinishCopy, owner
    <2>2. TaskState' = [TaskState EXCEPT ![c] = "done"]
      BY <2>1, CopySeen, ProgressValues
    <2>3. TaskState[c] = "running" /\ c \in Task /\ c \notin {OwnerTask} \cup Place
      BY <2>1, TaskFacts, ProgressFacts, ProgressValues
    <2> QED
      BY <2>2, <2>3 DEF Pool!Complete, Pool!Next
  <1> QED
    BY <1>1, <1>2, <1>3

\* Sync uses the executor as the executor is meant to be used: it submits each function
\* once, from the one that joins it, and nobody returns before what he submitted has.
THEOREM YamlImplementsExecutor == SafeSpec => ImplementsExecutor
  <1>1. Init => Pool!Init
    <2> SUFFICES ASSUME Init, NEW c \in Task
                 PROVE  TaskState[c] = IF c = OwnerTask THEN "running" ELSE "new"
      BY DEF Pool!Init, TaskState
    <2>1. main # "over" /\ (\A p \in Place : at[p] = "off") /\ \A e \in Function : copy[e] = "off"
      BY DEF Init
    <2> QED
      BY <2>1, TaskFacts, ProgressFacts, ProgressValues DEF Task
  <1>2. Inv /\ [Next]_vars => [Pool!Next]_TaskState
    <2> SUFFICES ASSUME Inv, [Next]_vars PROVE Pool!Next \/ TaskState' = TaskState
      OBVIOUS
    <2>1. CASE UNCHANGED vars
      BY <2>1, NothingSeen DEF vars, owner
    <2>2. CASE OwnerNext
      BY <2>2, OwnerSeen
    <2>3. CASE FunctionNext
      BY <2>3, PlacesSeen, TagsSeen DEF FunctionNext
    <2> QED
      BY <2>1, <2>2, <2>3 DEF Next
  <1> QED
    BY <1>1, <1>2, InvInitially, InvInductive, PTL DEF SafeSpec, ImplementsExecutor, Pool!SafeSpec

=============================================================================
