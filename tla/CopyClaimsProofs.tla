-------------------------- MODULE CopyClaimsProofs --------------------------
(* working_digests_: a layer that the destination lacks is downloaded by one *)
(* thread at a time. With a Dir, whose hasBlob answers exactly, that is so   *)
(* of every layer, and a claimed digest is in somebody's hands until it      *)
(* is taken out again. From that, for every catalogue: no download outlives  *)
(* the sync that submitted it.                                               *)
EXTENDS CopyProofs

\* What is known of the pool in every step.
PoolOrder == Proved!TypeOK /\ Proved!IdleCountsIdleWorkers /\ Proved!Discipline

\* The worker loop, a decided push and a return submit no download, set none
\* going and end none.
LEMMA PoolMovesNoDownload ==
  ASSUME PoolOrder, NEW c \in Download, UNCHANGED copyVars,
         \/ \E w \in Worker : WorkerLoop(w)
         \/ \E t \in Thread : PushDecided(t) \/ ReturnDone(t)
         \/ MainStep
         \/ UNCHANGED poolVars
  PROVE  /\ Active(c)' <=> Active(c)
         /\ status'[c] = "new" => status[c] = "new"
  <1>1. c \in Task /\ c \notin Tag /\ c # Main /\ at' = at
    BY DownloadFacts, CopyAssumption DEF copyVars
  <1>2. status \in [Task -> Proved!Status]
    BY DEF PoolOrder, Proved!TypeOK
  <1>3. CASE \E w \in Worker : WorkerLoop(w)
    <2> PICK w \in Worker : Pool!Pop(w) \/ Pool!Begin(w) \/ Pool!End(w)
      BY <1>3 DEF WorkerLoop
    <2>1. Proved!Pop(w) \/ Proved!Begin(w) \/ Proved!End(w)
      BY DEF Pool!Pop, Proved!Pop, Pool!PopForeground, Proved!PopForeground,
         Pool!PopBackground, Proved!PopBackground, Pool!Begin, Proved!Begin, Pool!End, Proved!End
    <2>2. \/ status'[c] = status[c]
          \/ {status[c], status'[c]} \subseteq {"queued", "taken", "running"}
      BY <1>1, <2>1, CopyIsATreeOfTasks, Proved!LoopRunsSubmitted DEF PoolOrder
    <2> QED
      BY <1>1, <2>2 DEF Active
  <1>4. CASE \E t \in Thread : ReturnDone(t)
    <2> PICK t \in Thread : Pool!Return(t) /\ at[Head(stack[t])] = "done"
      BY <1>4 DEF ReturnDone
    <2> QED
      BY <1>1, <1>2 DEF Pool!Return, Active
  <1>5. CASE \E t \in Thread : PushDecided(t)
    BY <1>1, <1>2, <1>5 DEF PushDecided, Pool!PushForeground, Active
  <1>6. CASE MainStep
    <2>1. CASE ReturnMain
      BY <1>1, <1>2, <2>1 DEF ReturnMain, Runs, Pool!Return, Active
    <2> QED
      BY <1>1, <1>2, <1>6, <2>1 DEF MainStep, SubmitTag, Pool!Background, Active
  <1>7. CASE UNCHANGED poolVars
    BY <1>1, <1>7 DEF poolVars, Active
  <1> QED
    BY <1>3, <1>4, <1>5, <1>6, <1>7

-----------------------------------------------------------------------------
(* Claims and their holders. *)

Holder == Image \cup Download

\* A step that lets go no digest, claims none of a Dir's, and gives nobody a digest to
\* hold of which hasBlob is exact, keeps the claims if what is held of a Dir stays in
\* somebody's hands.
LEMMA FewerHolders ==
  ASSUME CopyTypeOK, ClaimsInv, LayersErasedOnly', DownloadsFresh',
         working_digests \subseteq working_digests', blobs \subseteq blobs',
         DirDestination => UNCHANGED working_digests,
         \A p \in Holder, d \in Digest : Exact(d)' /\ Holds(p, d)' => Holds(p, d),
         DirDestination /\ ConfigsAreNoLayers =>
           \A p \in Holder, d \in Digest : Holds(p, d) => \E q \in Holder : Holds(q, d)'
  PROVE  ClaimsInv'
  <1>1. \A d : Exact(d)' => Exact(d)
    BY DEF Exact
  <1>2. HoldersClaim' /\ OneHolder'
    BY <1>1 DEF ClaimsInv, HoldersClaim, OneHolder, Holder
  <1>3. DirDestination /\ ConfigsAreNoLayers => ClaimsHeld'
    BY DEF CopyTypeOK, ClaimsInv, ClaimsHeld, ConfigsAreNoLayers, Holder
  <1> QED
    BY <1>2, <1>3 DEF ClaimsInv, ConfigsAreNoLayers

\* A download is held by its own state only, an image's claim by the image's and
\* by the blobs.
LEMMA SameClaim ==
  ASSUME CopyTypeOK, NEW p \in Holder, NEW d,
         p \in Download => (Active(p)' <=> Active(p)),
         p \in Image => UNCHANGED <<at[p], layers[p], itr[p], d \in blobs>>
  PROVE  Holds(p, d)' <=> Holds(p, d)
  BY CopyAssumption DEF Holds, Holder

\* If no image moves, no blob arrives and the same downloads are under way, the
\* claims are as they were.
LEMMA NobodyMoves ==
  ASSUME CopyTypeOK, ClaimsInv, UNCHANGED <<working_digests, layers, itr, blobs>>,
         \A i \in Image : at'[i] = at[i],
         \A c \in Download : /\ Active(c)' <=> Active(c)
                             /\ status'[c] = "new" => status[c] = "new" /\ at'[c] = at[c]
  PROVE  ClaimsInv'
  <1>1. \A p \in Holder, d \in Digest : Holds(p, d)' <=> Holds(p, d)
    BY SameClaim DEF Holder
  <1>2. LayersErasedOnly' /\ DownloadsFresh'
    BY DEF ClaimsInv, LayersErasedOnly, DownloadsFresh
  <1> QED
    BY <1>1, <1>2, FewerHolders

\* If task q alone moves, the others hold what they held.
LEMMA OthersHold ==
  ASSUME CopyTypeOK, NEW q \in Task \ {Main}, NEW l, Goto(q, l), UNCHANGED <<blobs, status>>,
         \A j \in Image : j # q => layers'[j] = layers[j] /\ itr'[j] = itr[j],
         NEW p \in Holder, p # q, NEW d
  PROVE  /\ at'[p] = at[p]
         /\ Holds(p, d)' <=> Holds(p, d)
  <1>1. p \in Task \ {Main}
    BY DownloadFacts, CopyAssumption DEF Holder, Task
  <1>2. at'[p] = at[p]
    BY <1>1 DEF Goto, CopyTypeOK
  <1> QED
    BY <1>2, SameClaim DEF Active

\* A body that is run keeps the downloads fresh that are not submitted.
LEMMA FreshStay ==
  ASSUME CopyTypeOK, ClaimsInv, NEW q \in Task \ {Main}, NEW l, Goto(q, l), UNCHANGED status,
         status[q] # "new" \/ q \notin Download
  PROVE  DownloadsFresh'
  <1> SUFFICES ASSUME NEW c \in Download, status[c] = "new" PROVE at'[c] = "fetch"
    BY DEF DownloadsFresh
  <1>1. c # q /\ c \in Task \ {Main}
    BY DownloadFacts
  <1> QED
    BY <1>1 DEF Goto, CopyTypeOK, ClaimsInv, DownloadsFresh

\* An image moves to where it holds nothing, and with a Dir held nothing before.
LEMMA ImageHoldsNothing ==
  ASSUME CopyTypeOK, ClaimsInv, NEW i \in Image, NEW l, Goto(i, l),
         l \notin {"found", "get"} \/ (l = "found" /\ layers'[i][itr'[i]] \in blobs),
         at[i] # "get",
         DirDestination /\ at[i] = "found" => layers[i][itr[i]] \in blobs,
         working_digests \subseteq working_digests', DirDestination => UNCHANGED working_digests,
         UNCHANGED <<blobs, status>>,
         \A j \in Image : j # i => layers'[j] = layers[j] /\ itr'[j] = itr[j],
         Range(layers'[i]) \subseteq Range(layers[i])
  PROVE  ClaimsInv'
  <1>1. i \in Task \ {Main} /\ i \notin Download
    BY CopyAssumption DEF Task
  <1>2. at'[i] = l
    BY <1>1 DEF Goto, CopyTypeOK
  <1>3. \A d : ~Holds(i, d)' /\ (DirDestination => ~Holds(i, d))
    BY <1>1, <1>2 DEF Holds
  <1>4. ASSUME NEW p \in Holder, NEW d \in Digest
        PROVE  /\ Holds(p, d)' => Holds(p, d)
               /\ DirDestination => (Holds(p, d)' <=> Holds(p, d))
    BY <1>1, <1>3, OthersHold
  <1>5. LayersErasedOnly'
    BY DEF ClaimsInv, LayersErasedOnly
  <1>6. DownloadsFresh'
    BY <1>1, FreshStay
  <1>7. \A p \in Holder, d \in Digest : Exact(d)' /\ Holds(p, d)' => Holds(p, d)
    BY <1>4
  <1>8. DirDestination =>
          \A p \in Holder, d \in Digest : Holds(p, d) => \E q \in Holder : Holds(q, d)'
    BY <1>4
  <1>9. blobs \subseteq blobs'
    OBVIOUS
  <1> QED
    BY <1>5, <1>6, <1>7, <1>8, <1>9, FewerHolders

-----------------------------------------------------------------------------
(* The steps of an image. *)

\* Where an image stands, before and after it moves.
LEMMA ImageAt ==
  ASSUME CopyTypeOK, NEW i \in Image
  PROVE  /\ i \in Task \ {Main} /\ i \notin Download /\ i \in Holder
         /\ \A l : Goto(i, l) => at'[i] = l
         /\ at[i] \in {"find", "found", "get", "wait"} =>
              /\ itr[i] \in DOMAIN layers[i]
              /\ layers[i][itr[i]] \in Range(layers[i]) /\ layers[i][itr[i]] \in Digest
  <1>1. i \in Task \ {Main}
    BY CopyAssumption DEF Task
  <1>2. layers[i] \in Seq(Digest)
    BY DEF CopyTypeOK
  <1>3. CASE at[i] \in {"find", "found", "get", "wait"}
    <2>1. itr[i] \in DOMAIN layers[i]
      BY <1>3 DEF CopyTypeOK
    <2> QED
      BY <1>1, <1>2, <2>1, CopyAssumption DEF Range, Goto, CopyTypeOK, Holder
  <1> QED
    BY <1>1, <1>3, CopyAssumption DEF Goto, CopyTypeOK, Holder

\* A Dir answers what is true, and a registry does not have what it lacks.
LEMMA ExactAnswers ==
  ASSUME NEW d, Exact(d), NEW answer \in Answers(d \in blobs)
  PROVE  answer = (d \in blobs)
  <1>1. CASE DirDestination
    BY <1>1 DEF Answers
  <1>2. CASE d \notin blobs
    <2>1. (d \in blobs) = FALSE
      BY <1>2
    <2>2. answer \in Answers(FALSE)
      BY <2>1
    <2> QED
      BY <2>1, <2>2 DEF Answers
  <1> QED
    BY <1>1, <1>2 DEF Exact

\* An image that claims a layer is its one holder.
LEMMA FindKeepsClaims ==
  ASSUME CopyTypeOK, ClaimsInv, NEW t \in Thread, NEW i \in Image, FindLayer(t, i)
  PROVE  ClaimsInv'
  <1> DEFINE d == layers[i][itr[i]]
  <1>1. /\ at[i] = "find" /\ d \notin working_digests /\ Goto(i, "found")
        /\ UNCHANGED <<layers, itr, blobs, status>>
    BY DEF FindLayer, poolVars, destVars
  <1>2. d \in Digest /\ at'[i] = "found"
    BY <1>1, ImageAt
  <1>3. /\ working_digests \subseteq working_digests'
        /\ Exact(d) => working_digests' = IF d \in blobs THEN working_digests ELSE working_digests \cup {d}
    <2>1. PICK present \in Answers(d \in blobs) :
            working_digests' = IF present THEN working_digests ELSE working_digests \cup {d}
      BY DEF FindLayer
    <2>2. Exact(d) => present = (d \in blobs)
      BY <2>1, ExactAnswers
    <2> QED
      BY <2>1, <2>2
  <1>4. CASE d \in blobs
    <2>1. DirDestination => UNCHANGED working_digests
      BY <1>3, <1>4 DEF Exact
    <2> QED
      BY <1>1, <1>3, <1>4, <2>1, ImageHoldsNothing
  <1>5. CASE d \notin blobs
    <2>0. working_digests' = working_digests \cup {d} /\ \A e : Exact(e)' <=> Exact(e)
      BY <1>1, <1>3, <1>5 DEF Exact
    <2>1. \A e : (Holds(i, e)' <=> e = d) /\ ~Holds(i, e)
      BY <1>1, <1>2, <1>5, ImageAt DEF Holds
    <2>2. \A p \in Holder, e \in Digest : p # i => (Holds(p, e)' <=> Holds(p, e))
      BY <1>1, OthersHold, ImageAt
    <2>3. \A p \in Holder : ~Holds(p, d)
      BY <1>1, <1>2, <1>5 DEF ClaimsInv, HoldersClaim, Holder, Exact
    <2>4. HoldersClaim' /\ OneHolder'
      BY <2>0, <2>1, <2>2, <2>3 DEF ClaimsInv, HoldersClaim, OneHolder, Holder
    <2>5. DirDestination /\ ConfigsAreNoLayers => ClaimsHeld'
      <3>1. working_digests' \subseteq Digest
        BY <1>2, <2>0 DEF CopyTypeOK
      <3> QED
        BY <2>0, <2>1, <2>2, <3>1, ImageAt
        DEF ClaimsInv, ClaimsHeld, ConfigsAreNoLayers, Holder, CopyTypeOK
    <2>6. LayersErasedOnly'
      BY <1>1 DEF ClaimsInv, LayersErasedOnly
    <2>7. DownloadsFresh'
      BY <1>1, FreshStay, ImageAt
    <2> QED
      BY <2>4, <2>5, <2>6, <2>7 DEF ClaimsInv, ConfigsAreNoLayers
  <1> QED
    BY <1>4, <1>5

\* An image whose layer is missing at the second question too keeps its claim.
LEMMA MissingKeepsClaims ==
  ASSUME CopyTypeOK, ClaimsInv, NEW t \in Thread, NEW i \in Image, LayerMissing(t, i)
  PROVE  ClaimsInv'
  <1> DEFINE d == layers[i][itr[i]]
  <1>1. /\ at[i] = "found" /\ Goto(i, "get")
        /\ UNCHANGED <<working_digests, layers, itr, blobs, status>>
    BY DEF LayerMissing, poolVars, destVars
  <1>2. Exact(d) => d \notin blobs
    <2>1. FALSE \in Answers(d \in blobs)
      BY DEF LayerMissing
    <2> QED
      BY <2>1, ExactAnswers
  <1>3. at'[i] = "get"
    BY <1>1, ImageAt
  <1>4. \A e : Exact(e) => (Holds(i, e)' <=> Holds(i, e))
    BY <1>1, <1>2, <1>3, ImageAt DEF Holds
  <1>5. \A p \in Holder, e \in Digest : p # i => (Holds(p, e)' <=> Holds(p, e))
    BY <1>1, OthersHold, ImageAt
  <1>6. LayersErasedOnly' /\ DownloadsFresh'
    <2>1. DownloadsFresh'
      BY <1>1, FreshStay, ImageAt
    <2> QED
      BY <1>1, <2>1 DEF ClaimsInv, LayersErasedOnly
  <1> QED
    BY <1>1, <1>4, <1>5, <1>6, FewerHolders DEF Exact

\* Of an image and the download it submits, one has the claim.
LEMMA SubmitKeepsClaims ==
  ASSUME PoolOrder, CopyTypeOK, ClaimsInv, NEW t \in Thread, NEW i \in Image, SubmitDownload(t, i)
  PROVE  ClaimsInv'
  <1> PICK d : d = layers[i][itr[i]]
    OBVIOUS
  <1>1. /\ at[i] = "get" /\ Goto(i, "find")
        /\ UNCHANGED <<working_digests, layers, blobs>>
        /\ itr' = [itr EXCEPT ![i] = 1]
    BY DEF SubmitDownload, destVars
  <1>2. PICK n \in Attempt : status[<<i, d, n>>] = "new" /\ Execute(t, <<i, d, n>>)
    BY DEF SubmitDownload
  <1> PICK c : c = <<i, d, n>>
    OBVIOUS
  <1>3. d \in Range(LayersOf[i]) /\ d \in Digest /\ at'[i] = "find"
    BY <1>1, ImageAt DEF ClaimsInv, LayersErasedOnly
  <1>4. c \in Download /\ c[2] = d
    BY <1>3 DEF Download
  <1>5. /\ status' = [status EXCEPT ![c] = status'[c]]
        /\ status'[c] \in {"pushing", "running"}
    <2>1. c \in Task /\ status \in [Task -> Proved!Status]
      BY <1>4, DownloadFacts DEF PoolOrder, Proved!TypeOK
    <2>2. status' = [status EXCEPT ![c] = "pushing"] \/ status' = [status EXCEPT ![c] = "running"]
      BY <1>2 DEF Execute, Pool!ExecuteFoundIdle, Pool!ExecuteInline
    <2> QED
      BY <2>1, <2>2
  <1>6. ASSUME NEW e \in Download
        PROVE  /\ e # i /\ e \in Task \ {Main} /\ at'[e] = at[e]
               /\ e # c => status'[e] = status[e]
    <2>1. e # i /\ e \in Task \ {Main}
      BY DownloadFacts, ImageAt
    <2>2. at'[e] = at[e]
      BY <1>1, <2>1 DEF Goto, CopyTypeOK
    <2> QED
      BY <1>5, <2>1, <2>2 DEF PoolOrder, Proved!TypeOK
  <1>7. ~Active(c) /\ Active(c)'
    <2>1. at[c] = "fetch"
      BY <1>2, <1>4 DEF ClaimsInv, DownloadsFresh
    <2> QED
      BY <1>2, <1>4, <1>5, <1>6, <2>1 DEF Active
  <1>8. \A e : (Holds(i, e) <=> e = d) /\ ~Holds(i, e)'
    BY <1>1, <1>3, ImageAt DEF Holds
  <1>9. \A e : (Holds(c, e)' <=> e = d) /\ ~Holds(c, e)
    BY <1>4, <1>7, CopyAssumption DEF Holds
  <1>10. ASSUME NEW p \in Holder, p # i, p # c, NEW e
         PROVE  Holds(p, e)' <=> Holds(p, e)
    <2>1. CASE p \in Download
      BY <1>6, <1>10, <2>1, SameClaim, CopyAssumption DEF Active
    <2>2. CASE p \in Image
      <3>1. at'[p] = at[p] /\ itr'[p] = itr[p] /\ p \notin Download
        BY <1>1, <1>10, <2>2, CopyAssumption, ImageAt DEF Goto, CopyTypeOK
      <3> QED
        BY <1>1, <2>2, <3>1, SameClaim
    <2> QED
      BY <2>1, <2>2 DEF Holder
  <1>11. c \in Holder /\ i \in Holder /\ c # i
    BY <1>4, <1>6 DEF Holder
  <1>12. HoldersClaim' /\ OneHolder'
    BY <1>1, <1>3, <1>8, <1>9, <1>10, <1>11 DEF ClaimsInv, HoldersClaim, OneHolder, Holder, Exact
  <1>13. DirDestination /\ ConfigsAreNoLayers => ClaimsHeld'
    BY <1>1, <1>8, <1>9, <1>10, <1>11 DEF ClaimsInv, ClaimsHeld, ConfigsAreNoLayers, Holder
  <1>14. LayersErasedOnly' /\ DownloadsFresh'
    BY <1>1, <1>5, <1>6 DEF ClaimsInv, LayersErasedOnly, DownloadsFresh
  <1> QED
    BY <1>12, <1>13, <1>14 DEF ClaimsInv, ConfigsAreNoLayers

\* The blob that a transfer stores has no holder among the images, or is no layer.
LEMMA TransferKeepsClaims ==
  ASSUME CopyTypeOK, ClaimsInv, NEW q \in Task \ {Main}, NEW l, Goto(q, l),
         NEW j \in Image, NEW b, Transfer(j, b), UNCHANGED <<working_digests, layers, itr, status>>,
         q \in Image => at[q] \notin {"found", "get"} /\ l \notin {"found", "get"},
         q \in Download => status[q] = "running" /\ at[q] # "done" /\ l # "done",
         ConfigsAreNoLayers => \A i \in Image : at[i] = "found" /\ layers[i][itr[i]] = b => b \in blobs
  PROVE  ClaimsInv'
  <1>1. blobs \subseteq blobs' /\ blobs' \subseteq blobs \cup {b}
    BY TransferFacts DEF Transfer, Store
  <1>2. ASSUME NEW p \in Holder
        PROVE  at'[p] = IF p = q THEN l ELSE at[p]
    <2>1. p \in Task \ {Main}
      BY DownloadFacts, ImageAt DEF Holder
    <2> QED
      BY <2>1 DEF Goto, CopyTypeOK
  <1>3. ASSUME NEW p \in Download
        PROVE  Active(p)' <=> Active(p)
    BY <1>2 DEF Active, Holder
  <1>4. ASSUME NEW p \in Image
        PROVE  /\ at'[p] = at[p] \/ {at[p], at'[p]} \cap {"found", "get"} = {}
               /\ p \notin Download
    BY <1>2, ImageAt DEF Holder
  <1>5. ASSUME NEW p \in Holder, NEW d \in Digest, Holds(p, d)'
        PROVE  Holds(p, d)
    BY <1>1, <1>3, <1>4, <1>5 DEF Holds, Holder
  <1>6. ASSUME ConfigsAreNoLayers, NEW p \in Holder, NEW d \in Digest, Holds(p, d)
        PROVE  Holds(p, d)'
    BY <1>1, <1>3, <1>4, <1>6 DEF Holds, Holder
  <1>7. LayersErasedOnly'
    BY DEF ClaimsInv, LayersErasedOnly
  <1>8. DownloadsFresh'
    BY FreshStay
  <1>9. \A p \in Holder, d \in Digest : Exact(d)' /\ Holds(p, d)' => Holds(p, d)
    BY <1>5
  <1>10. DirDestination /\ ConfigsAreNoLayers =>
           \A p \in Holder, d \in Digest : Holds(p, d) => \E r \in Holder : Holds(r, d)'
    BY <1>6
  <1> QED
    BY <1>1, <1>7, <1>8, <1>9, <1>10, FewerHolders

\* No step of an image takes a claim from its holder, or makes two.
LEMMA ImageKeepsClaims ==
  ASSUME PoolOrder, CopyTypeOK, ClaimsInv, NEW t \in Thread, ImageStep(t)
  PROVE  ClaimsInv'
  <1> PICK i \in Image :
        \/ CompareManifest(t, i) \/ SkipWorking(t, i) \/ FindLayer(t, i)
        \/ LayerPresent(t, i) \/ LayerMissing(t, i) \/ SubmitDownload(t, i) \/ Wake(t, i)
        \/ ConfigPresent(t, i) \/ ConfigMissing(t, i) \/ FetchConfig(t, i) \/ PutManifest(t, i)
        \/ DestinationThrows(t, i)
    BY DEF ImageStep
  <1>1. CASE CompareManifest(t, i)
    <2>1. PICK l \in {"put", "config", "find"} : Goto(i, l)
      BY <1>1 DEF CompareManifest
    <2> QED
      BY <1>1, <2>1, ImageHoldsNothing DEF CompareManifest, poolVars, destVars
  <1>2. CASE SkipWorking(t, i)
    <2>1. PICK l \in {"find", "wait"} : Goto(i, l)
      BY <1>2, ImageAt DEF SkipWorking, Goto, CopyTypeOK
    <2> QED
      BY <1>2, <2>1, ImageHoldsNothing DEF SkipWorking, poolVars, destVars, CopyTypeOK
  <1>3. CASE FindLayer(t, i)
    BY <1>3, FindKeepsClaims
  <1>4. CASE LayerPresent(t, i)
    <2>1. PICK l \in {"config", "find"} : Goto(i, l)
      BY <1>4 DEF LayerPresent
    <2>2. layers' = [layers EXCEPT ![i] = RemoveAt(layers[i], itr[i])]
          /\ itr' = [itr EXCEPT ![i] = 1] /\ at[i] = "found"
      BY <1>4 DEF LayerPresent
    <2>3. Range(RemoveAt(layers[i], itr[i])) \subseteq Range(layers[i])
      BY <2>2, RemoveAtFacts, ImageAt DEF CopyTypeOK
    <2>4. Range(layers'[i]) \subseteq Range(layers[i])
      BY <2>2, <2>3 DEF CopyTypeOK
    <2> QED
      BY <1>4, <2>1, <2>2, <2>4, ImageHoldsNothing DEF LayerPresent, poolVars, destVars, CopyTypeOK
  <1>5. CASE LayerMissing(t, i)
    BY <1>5, MissingKeepsClaims
  <1>6. CASE SubmitDownload(t, i)
    BY <1>6, SubmitKeepsClaims
  <1>7. CASE Wake(t, i) \/ ConfigPresent(t, i) \/ ConfigMissing(t, i) \/ PutManifest(t, i)
    <2>1. PICK l \in {"find", "put", "fetch", "done"} :
            Goto(i, l) /\ at[i] \in {"wait", "config", "put"}
      BY <1>7 DEF Wake, ConfigPresent, ConfigMissing, PutManifest
    <2> QED
      BY <1>7, <2>1, ImageHoldsNothing
      DEF Wake, ConfigPresent, ConfigMissing, PutManifest, poolVars, destVars
  <1>8. CASE FetchConfig(t, i)
    <2>1. PICK l \in {"put", "done"} : Goto(i, l) /\ at[i] = "fetch"
      BY <1>8 DEF FetchConfig
    <2>2. ASSUME ConfigsAreNoLayers, NEW j \in Image, at[j] = "found"
          PROVE  layers[j][itr[j]] # ConfigOf[i]
      BY <2>2, ImageAt DEF ConfigsAreNoLayers, ClaimsInv, LayersErasedOnly
    <2> QED
      BY <1>8, <2>1, <2>2, TransferKeepsClaims, ImageAt DEF FetchConfig, poolVars
  <1>9. CASE DestinationThrows(t, i)
    <2>1. ~DirDestination /\ Goto(i, "done") /\ at[i] # "get"
      BY <1>9 DEF DestinationThrows
    <2> QED
      BY <1>9, <2>1, ImageHoldsNothing DEF DestinationThrows, poolVars, destVars
  <1> QED
    BY <1>1, <1>2, <1>3, <1>4, <1>5, <1>6, <1>7, <1>8, <1>9

-----------------------------------------------------------------------------
(* The steps of a download and of a tag. *)

LEMMA DownloadKeepsClaims ==
  ASSUME PoolOrder, CopyTypeOK, ClaimsInv, NEW t \in Thread, DownloadStep(t)
  PROVE  ClaimsInv'
  <1> PICK c \in Download : FetchLayer(t, c) \/ Finalize(t, c)
    BY DEF DownloadStep
  <1>1. Runs(t, c) /\ c \in Task \ {Main} /\ c \notin Image /\ c \in Holder
    BY DownloadFacts, CopyAssumption DEF FetchLayer, Finalize, Holder
  <1>2. status[c] = "running"
    <2>1. t \in Proved!Thread
      BY DEF Thread, Proved!Thread
    <2> QED
      BY <1>1, <2>1, CopyIsATreeOfTasks, Proved!InnermostRuns DEF PoolOrder, Runs
  <1>3. c[1] \in Image /\ c[2] \in Digest
    BY DownloadFacts
  <1>4. CASE FetchLayer(t, c)
    <2>1. at[c] = "fetch" /\ Goto(c, "finalize") /\ Transfer(c[1], c[2])
      BY <1>4 DEF FetchLayer
    <2>2. Holds(c, c[2])
      BY <1>2, <2>1 DEF Holds, Active
    <2>3. ASSUME NEW i \in Image, at[i] = "found", layers[i][itr[i]] = c[2], c[2] \notin blobs
          PROVE  FALSE
      <3>1. Holds(i, c[2])
        BY <2>3 DEF Holds
      <3> QED
        BY <1>1, <1>3, <2>2, <2>3, <3>1 DEF ClaimsInv, OneHolder, Holder, Exact
    <2> QED
      BY <1>1, <1>2, <1>3, <1>4, <2>1, <2>3, TransferKeepsClaims DEF FetchLayer, poolVars
  <1>5. CASE Finalize(t, c)
    <2>1. /\ at[c] = "finalize" /\ Goto(c, "done") /\ UNCHANGED <<layers, itr, blobs, status>>
          /\ working_digests' = working_digests \ {c[2]}
      BY <1>5 DEF Finalize, poolVars, destVars
    <2>2. Holds(c, c[2]) /\ \A d : ~Holds(c, d)' /\ (Holds(c, d) => d = c[2])
      <3>1. at'[c] = "done"
        BY <1>1, <2>1 DEF Goto, CopyTypeOK
      <3> QED
        BY <1>1, <1>2, <2>1, <3>1 DEF Holds, Active
    <2>3. ASSUME NEW p \in Holder, p # c, NEW d
          PROVE  Holds(p, d)' <=> Holds(p, d)
      BY <1>1, <2>1, <2>3, OthersHold
    <2>4. Exact(c[2]) => \A p \in Holder : ~Holds(p, c[2])'
      BY <1>1, <1>3, <2>2, <2>3 DEF ClaimsInv, OneHolder, Holder
    <2>0. \A d : Exact(d)' <=> Exact(d)
      BY <2>1 DEF Exact
    <2>5. HoldersClaim' /\ OneHolder'
      BY <2>0, <2>1, <2>2, <2>3, <2>4 DEF ClaimsInv, HoldersClaim, OneHolder, Holder
    <2>6. DirDestination /\ ConfigsAreNoLayers => ClaimsHeld'
      BY <2>1, <2>2, <2>3 DEF ClaimsInv, ClaimsHeld, ConfigsAreNoLayers, Holder
    <2>7. LayersErasedOnly'
      BY <2>1 DEF ClaimsInv, LayersErasedOnly
    <2>8. DownloadsFresh'
      BY <1>1, <1>2, <2>1, FreshStay
    <2> QED
      BY <2>5, <2>6, <2>7, <2>8 DEF ClaimsInv, ConfigsAreNoLayers
  <1> QED
    BY <1>4, <1>5

LEMMA TagKeepsClaims ==
  ASSUME PoolOrder, CopyTypeOK, ClaimsInv, NEW t \in Thread, TagStep(t)
  PROVE  ClaimsInv'
  <1> PICK g \in Tag : \/ CompareList(t, g) \/ SubmitImage(t, g) \/ ImagesReturned(t, g)
                       \/ PutManifestList(t, g) \/ ListThrows(t, g)
    BY DEF TagStep
  <1>1. UNCHANGED <<working_digests, layers, itr, blobs>>
    BY DEF CompareList, SubmitImage, ImagesReturned, PutManifestList, ListThrows, copyVars, destVars
  <1>2. ASSUME NEW p \in Holder
        PROVE  at'[p] = at[p]
    <2>1. p \in Task \ {Main} /\ p # g
      BY DownloadFacts, ImageAt, CopyAssumption DEF Holder
    <2> QED
      BY <2>1 DEF CompareList, SubmitImage, ImagesReturned, PutManifestList, ListThrows, Goto,
                  CopyTypeOK, copyVars
  <1>3. ASSUME NEW c \in Download
        PROVE  status'[c] = status[c]
    <2>1. CASE SubmitImage(t, g)
      <3>1. PICK i \in Image : Execute(t, i)
        BY <2>1 DEF SubmitImage, ImagesOf
      <3>2. c # i
        BY <3>1, CopyAssumption
      <3> QED
        BY <3>1, <3>2, DownloadFacts
        DEF Execute, Pool!ExecuteFoundIdle, Pool!ExecuteInline, PoolOrder, Proved!TypeOK
    <2> QED
      BY <2>1 DEF CompareList, ImagesReturned, PutManifestList, ListThrows, poolVars
  <1> QED
    BY <1>1, <1>2, <1>3, NobodyMoves DEF Active, Holder

-----------------------------------------------------------------------------
LEMMA ClaimsInitially == Init => ClaimsInv
  <1> SUFFICES ASSUME Init PROVE ClaimsInv
    OBVIOUS
  <1>1. ASSUME NEW c \in Download
        PROVE  at[c] = "fetch" /\ status[c] = "new"
    <2>1. c \in Task \ {Main}
      BY DownloadFacts
    <2> QED
      BY <2>1 DEF Init, Pool!Init
  <1>2. \A i \in Image : at[i] = "compare"
    BY CopyAssumption DEF Init, Task
  <1>3. \A p \in Holder, d \in Digest : ~Holds(p, d)
    BY <1>1, <1>2 DEF Holds, Active
  <1> QED
    BY <1>1, <1>3 DEF Init, ClaimsInv, HoldersClaim, OneHolder, ClaimsHeld, LayersErasedOnly,
                      DownloadsFresh, Holder

LEMMA ClaimsInductive ==
  ASSUME PoolOrder, CopyTypeOK, ClaimsInv, [Next]_vars
  PROVE  ClaimsInv'
  <1>1. CASE \E t \in Thread : TagStep(t)
    BY <1>1, TagKeepsClaims
  <1>2. CASE \E t \in Thread : ImageStep(t)
    BY <1>2, ImageKeepsClaims
  <1>3. CASE \E t \in Thread : DownloadStep(t)
    BY <1>3, DownloadKeepsClaims
  <1>4. CASE \/ \E w \in Worker : WorkerLoop(w)
             \/ \E t \in Thread : PushDecided(t) \/ ReturnDone(t)
             \/ MainStep
             \/ Terminated
             \/ UNCHANGED vars
    <2>1. UNCHANGED copyVars
      BY <1>4 DEF WorkerLoop, PushDecided, ReturnDone, MainStep, SubmitTag, ReturnMain,
                  Terminated, vars
    <2>2. Terminated => UNCHANGED poolVars
      BY DEF Terminated, Pool!Terminated, Pool!poolVars, poolVars
    <2>3. \A c \in Download : /\ Active(c)' <=> Active(c)
                              /\ status'[c] = "new" => status[c] = "new"
      BY <1>4, <2>1, <2>2, PoolMovesNoDownload DEF vars
    <2> QED
      BY <2>1, <2>3, NobodyMoves DEF copyVars, destVars
  <1> QED
    BY <1>1, <1>2, <1>3, <1>4 DEF Next, ThreadStep

\* In every run the claims are as they should be.
LEMMA ClaimsAlways == SafeSpec => [](CopyTypeOK /\ ClaimsInv)
  <1> DEFINE Inv == PoolOrder /\ CopyTypeOK /\ ClaimsInv
  <1>1. Init => Inv
    BY SamePool, CopyIsATreeOfTasks, Proved!TypesInitially, Proved!DisciplineInitially,
       CopyTypesInitially, ClaimsInitially DEF Init, PoolOrder
  <1>2. Inv /\ [Next]_vars => PoolOrder'
    <2> SUFFICES ASSUME Inv, [Next]_vars PROVE PoolOrder'
      OBVIOUS
    <2>1. [Proved!Next]_(Proved!poolVars)
      BY StepOfPool, SamePool
    <2>2. Proved!TypeOK' /\ Proved!IdleCountsIdleWorkers'
      BY <2>1, CopyIsATreeOfTasks, Proved!TypesInductive DEF PoolOrder
    <2>3. Proved!Discipline'
      BY <2>1, CopyIsATreeOfTasks, Proved!DisciplineInductive DEF PoolOrder
    <2> QED
      BY <2>2, <2>3 DEF PoolOrder
  <1>3. Inv /\ [Next]_vars => CopyTypeOK' /\ ClaimsInv'
    BY CopyTypesInductive, ClaimsInductive
  <1> QED
    BY <1>1, <1>2, <1>3, PTL DEF SafeSpec

\* Whatever images share which layers, and whatever fails: of all the downloads
\* of a layer to a Dir only one is under way.
THEOREM OneDownloadAtATime ==
  ASSUME DirDestination
  PROVE  SafeSpec => []OneDownloadPerDigest
  <1>1. CopyTypeOK /\ ClaimsInv => OneDownloadPerDigest
    <2> SUFFICES ASSUME ClaimsInv, NEW c \in Download, NEW e \in Download,
                        Active(c), Active(e), c[2] = e[2]
                 PROVE  c = e
      BY DEF OneDownloadPerDigest
    <2>1. Holds(c, c[2]) /\ Holds(e, c[2]) /\ c[2] \in Digest
      BY DownloadFacts DEF Holds
    <2> QED
      BY <2>1 DEF ClaimsInv, OneHolder, Exact
  <1> QED
    BY <1>1, ClaimsAlways, PTL

\* The same of any destination and the layers it lacks, however many calls are answered
\* wrongly, fail or throw: while a layer is missing, one thread at most downloads it.
THEOREM MissingOnce == SafeSpec => []MissingLayerDownloadedOnce
  <1>1. CopyTypeOK /\ ClaimsInv => MissingLayerDownloadedOnce
    <2> SUFFICES ASSUME ClaimsInv, NEW c \in Download, NEW e \in Download,
                        Active(c), Active(e), c[2] = e[2], c[2] \notin blobs
                 PROVE  c = e
      BY DEF MissingLayerDownloadedOnce
    <2>1. Holds(c, c[2]) /\ Holds(e, c[2]) /\ c[2] \in Digest
      BY DownloadFacts DEF Holds
    <2> QED
      BY <2>1 DEF ClaimsInv, OneHolder, Exact
  <1> QED
    BY <1>1, ClaimsAlways, PTL

\* Whatever images share which layers, and whatever fails: every digest in
\* working_digests_ is that of a layer being downloaded to the Dir, or about to be,
\* so that no image sleeps for a layer that nobody is to bring.
THEOREM ClaimsAreDownloads ==
  ASSUME DirDestination, ConfigsAreNoLayers
  PROVE  SafeSpec => []WorkingIsDownloading
  <1>1. CopyTypeOK /\ ClaimsInv => WorkingIsDownloading
    <2> SUFFICES ASSUME ClaimsHeld, NEW d \in working_digests
                 PROVE  \/ \E c \in Download : c[2] = d /\ Active(c)
                        \/ \E i \in Image : at[i] \in {"found", "get"} /\ layers[i][itr[i]] = d
      BY DEF WorkingIsDownloading, ClaimsInv, ConfigsAreNoLayers
    <2> QED
      BY DEF ClaimsHeld, Holds
  <1> QED
    BY <1>1, ClaimsAlways, PTL

-----------------------------------------------------------------------------
(* When the owner of a sync is through, no download is left: the functions   *)
(* that download layers are joined by nobody and use members of a Copy that  *)
(* is destroyed then (Copy.hpp).                                             *)

Scanning == {"find", "found", "get", "wait"}

\* The layer an image is about to erase or to claim is in nobody's hands.
FoundFree == \A i \in Image : at[i] = "found" =>
  /\ \A c \in Download : Active(c) => c[2] # layers[i][itr[i]]
  /\ \A j \in Image : at[j] = "get" => layers[j][itr[j]] # layers[i][itr[i]]

\* p has been submitted and has not returned.
Pends(p) == status[p] \notin {"new", "done"}

\* The image of a download has not got past its layers, and has that one on its list.
DownloadsFollowed == \A c \in Download : Active(c) =>
  /\ c[2] \in Range(layers[c[1]])
  /\ at[c[1]] \in Scanning
  /\ Pends(c[1])

LifetimeInv == FoundFree /\ DownloadsFollowed

-----------------------------------------------------------------------------
(* Frames. *)

\* What is in nobody's hands stays so while nobody claims or submits a layer.
LEMMA FreeStay ==
  ASSUME FoundFree,
         \A c \in Download : Active(c)' => Active(c),
         \A j \in Image : at'[j] \in {"found", "get"} =>
           at'[j] = at[j] /\ layers'[j] = layers[j] /\ itr'[j] = itr[j]
  PROVE  FoundFree'
  BY DEF FoundFree

\* The image of a download is followed if it moves only among its layers, and erases
\* only what nobody downloads.
LEMMA FollowedStay ==
  ASSUME DownloadsFollowed,
         \A c \in Download : Active(c)' => Active(c),
         \A i \in Image : at[i] \in Scanning /\ Pends(i) => Pends(i)',
         \A c \in Download : Active(c) =>
           c[2] \in Range(layers'[c[1]]) /\ at'[c[1]] \in Scanning
  PROVE  DownloadsFollowed'
  BY DownloadFacts DEF DownloadsFollowed

\* A step that moves no image among its layers and submits no download.
LEMMA LifetimeStays ==
  ASSUME LifetimeInv, UNCHANGED <<layers, itr>>,
         \A i \in Image : at'[i] = at[i] /\ (Pends(i) /\ at[i] # "done" => Pends(i)'),
         \A c \in Download : Active(c)' => Active(c)
  PROVE  LifetimeInv'
  <1>1. FoundFree'
    BY FreeStay DEF LifetimeInv
  <1>2. \A c \in Download : Active(c) => c[2] \in Range(layers'[c[1]]) /\ at'[c[1]] \in Scanning
    BY DownloadFacts DEF LifetimeInv, DownloadsFollowed
  <1>3. DownloadsFollowed'
    BY <1>2, FollowedStay DEF LifetimeInv, Scanning
  <1> QED
    BY <1>1, <1>3 DEF LifetimeInv

\* A move of image i that submits no download.
LEMMA ImageMoves ==
  ASSUME CopyTypeOK, LifetimeInv, NEW i \in Image, NEW l, Goto(i, l), UNCHANGED status,
         \A j \in Image : j # i => layers'[j] = layers[j] /\ itr'[j] = itr[j],
         l \notin {"found", "get"},
         at[i] \in Scanning => \/ layers'[i] = layers[i] /\ l \in Scanning
                               \/ \A c \in Download : Active(c) /\ c[1] = i =>
                                    c[2] \in Range(layers'[i]) /\ l \in Scanning
  PROVE  LifetimeInv'
  <1>1. at'[i] = l /\ i \in Task \ {Main}
    BY ImageAt
  <1>2. ASSUME NEW c \in Download
        PROVE  Active(c)' <=> Active(c)
    <2>1. c # i /\ c \in Task \ {Main}
      BY ImageAt, DownloadFacts
    <2> QED
      BY <2>1 DEF Goto, CopyTypeOK, Active
  <1>3. ASSUME NEW j \in Image, j # i
        PROVE  at'[j] = at[j]
    BY <1>3, ImageAt DEF Goto, CopyTypeOK
  <1>4. FoundFree'
    BY <1>1, <1>2, <1>3, FreeStay DEF LifetimeInv
  <1>5. ASSUME NEW c \in Download, Active(c)
        PROVE  c[2] \in Range(layers'[c[1]]) /\ at'[c[1]] \in Scanning
    <2>1. c[1] \in Image /\ c[2] \in Range(layers[c[1]]) /\ at[c[1]] \in Scanning
      BY <1>5, DownloadFacts DEF LifetimeInv, DownloadsFollowed
    <2>2. CASE c[1] = i
      BY <1>1, <1>5, <2>1, <2>2
    <2>3. CASE c[1] # i
      BY <1>3, <2>1, <2>3
    <2> QED
      BY <2>2, <2>3
  <1>6. DownloadsFollowed'
    BY <1>2, <1>5, FollowedStay DEF LifetimeInv, Pends
  <1> QED
    BY <1>4, <1>6 DEF LifetimeInv

-----------------------------------------------------------------------------
(* The steps of an image. *)

\* A layer that find_if stops at is in nobody's hands, as its digest is not claimed.
LEMMA FindKeepsLifetime ==
  ASSUME CopyTypeOK, ClaimsInv, LifetimeInv, DirDestination,
         NEW t \in Thread, NEW i \in Image, FindLayer(t, i)
  PROVE  LifetimeInv'
  <1> PICK d : d = layers[i][itr[i]]
    OBVIOUS
  <1>1. /\ at[i] = "find" /\ d \notin working_digests /\ Goto(i, "found")
        /\ UNCHANGED <<layers, itr, status, blobs>>
    BY DEF FindLayer, poolVars, destVars
  <1>2. at'[i] = "found" /\ d \in Digest
    BY <1>1, ImageAt
  <1>3. ASSUME NEW c \in Download
        PROVE  Active(c)' <=> Active(c)
    <2>1. c # i /\ c \in Task \ {Main}
      BY ImageAt, DownloadFacts
    <2> QED
      BY <1>1, <2>1 DEF Goto, CopyTypeOK, Active
  <1>4. ASSUME NEW j \in Image, j # i
        PROVE  at'[j] = at[j]
    BY <1>1, <1>4, ImageAt DEF Goto, CopyTypeOK
  <1>5. ASSUME NEW p \in Holder
        PROVE  ~Holds(p, d)
    BY <1>1, <1>2 DEF ClaimsInv, HoldersClaim, Holder, Exact
  <1>6. \A c \in Download : Active(c) => c[2] # d
    BY <1>5 DEF Holds, Holder
  <1>7. \A j \in Image : at[j] = "get" => layers[j][itr[j]] # d
    BY <1>5 DEF Holds, Holder
  <1>8. FoundFree'
    BY <1>1, <1>2, <1>3, <1>4, <1>6, <1>7 DEF LifetimeInv, FoundFree
  <1>9. ASSUME NEW c \in Download, Active(c)
        PROVE  c[2] \in Range(layers'[c[1]]) /\ at'[c[1]] \in Scanning
    BY <1>1, <1>2, <1>4, <1>9, DownloadFacts DEF LifetimeInv, DownloadsFollowed, Scanning
  <1>10. DownloadsFollowed'
    BY <1>1, <1>3, <1>9, FollowedStay DEF LifetimeInv, Pends
  <1> QED
    BY <1>8, <1>10 DEF LifetimeInv

\* A layer that is still missing at the second question has one claimant.
LEMMA MissingKeepsLifetime ==
  ASSUME CopyTypeOK, ClaimsInv, LifetimeInv, DirDestination,
         NEW t \in Thread, NEW i \in Image, LayerMissing(t, i)
  PROVE  LifetimeInv'
  <1> PICK d : d = layers[i][itr[i]]
    OBVIOUS
  <1>1. at[i] = "found" /\ Goto(i, "get") /\ UNCHANGED <<layers, itr, status>>
    BY DEF LayerMissing, poolVars
  <1>2. d \notin blobs
    <2>1. FALSE \in Answers(d \in blobs)
      BY DEF LayerMissing
    <2> QED
      BY <2>1, ExactAnswers DEF Exact
  <1>3. at'[i] = "get" /\ d \in Digest
    BY <1>1, ImageAt
  <1>4. ASSUME NEW c \in Download
        PROVE  Active(c)' <=> Active(c)
    <2>1. c # i /\ c \in Task \ {Main}
      BY ImageAt, DownloadFacts
    <2> QED
      BY <1>1, <2>1 DEF Goto, CopyTypeOK, Active
  <1>5. ASSUME NEW j \in Image, j # i
        PROVE  at'[j] = at[j]
    BY <1>1, <1>5, ImageAt DEF Goto, CopyTypeOK
  <1>6. ASSUME NEW j \in Image, j # i, at[j] = "found"
        PROVE  layers[j][itr[j]] # d
    <2> SUFFICES ASSUME layers[j][itr[j]] = d PROVE FALSE
      OBVIOUS
    <2>1. Holds(i, d) /\ Holds(j, d)
      BY <1>1, <1>2, <1>6 DEF Holds
    <2> QED
      BY <1>3, <1>6, <2>1 DEF ClaimsInv, OneHolder, Exact
  <1>7. FoundFree'
    BY <1>1, <1>3, <1>4, <1>5, <1>6 DEF LifetimeInv, FoundFree
  <1>8. ASSUME NEW c \in Download, Active(c)
        PROVE  c[2] \in Range(layers'[c[1]]) /\ at'[c[1]] \in Scanning
    BY <1>1, <1>3, <1>5, <1>8, DownloadFacts DEF LifetimeInv, DownloadsFollowed, Scanning
  <1>9. DownloadsFollowed'
    BY <1>1, <1>4, <1>8, FollowedStay DEF LifetimeInv, Pends
  <1> QED
    BY <1>7, <1>9 DEF LifetimeInv

\* A download is submitted by the image at its layer, whose body runs.
LEMMA SubmitKeepsLifetime ==
  ASSUME PoolOrder, CopyTypeOK, ClaimsInv, LifetimeInv,
         NEW t \in Thread, NEW i \in Image, SubmitDownload(t, i)
  PROVE  LifetimeInv'
  <1> PICK d : d = layers[i][itr[i]]
    OBVIOUS
  <1>1. /\ at[i] = "get" /\ Goto(i, "find") /\ layers' = layers
        /\ itr' = [itr EXCEPT ![i] = 1]
    BY DEF SubmitDownload
  <1>2. PICK n \in Attempt : Execute(t, <<i, d, n>>)
    BY DEF SubmitDownload
  <1> PICK c : c = <<i, d, n>>
    OBVIOUS
  <1>3. d \in Range(layers[i]) /\ at'[i] = "find" /\ c[1] = i /\ c[2] = d
    BY <1>1, ImageAt
  <1>4. ASSUME NEW p \in Task, p # c
        PROVE  status'[p] = status[p]
    BY <1>2, <1>4
    DEF Execute, Pool!ExecuteFoundIdle, Pool!ExecuteInline, PoolOrder, Proved!TypeOK
  <1>5. ASSUME NEW e \in Download, e # c
        PROVE  Active(e)' <=> Active(e)
    <2>1. e # i /\ e \in Task \ {Main}
      BY ImageAt, DownloadFacts
    <2> QED
      BY <1>1, <1>4, <1>5, <2>1 DEF Goto, CopyTypeOK, Active
  <1>6. ASSUME NEW j \in Image, j # i
        PROVE  at'[j] = at[j] /\ itr'[j] = itr[j]
    BY <1>1, <1>6, ImageAt DEF Goto, CopyTypeOK
  <1>7. FoundFree'
    BY <1>1, <1>3, <1>5, <1>6 DEF LifetimeInv, FoundFree
  <1>8. Pends(i)
    <2>1. Runs(t, i) /\ t \in Proved!Thread
      BY DEF SubmitDownload, Thread, Proved!Thread
    <2> QED
      BY <2>1, CopyIsATreeOfTasks, Proved!InnermostRuns DEF PoolOrder, Runs, Pends
  <1>9. ASSUME NEW j \in Image
        PROVE  Pends(j)' <=> Pends(j)
    <2>1. j \in Task /\ j # c
      <3>1. d \in Range(LayersOf[i])
        BY <1>3 DEF ClaimsInv, LayersErasedOnly
      <3>2. c \in Download
        BY <3>1 DEF Download
      <3> QED
        BY <3>2, ImageAt, CopyAssumption
    <2> QED
      BY <1>4, <2>1 DEF Pends
  <1>10. DownloadsFollowed'
    <2> SUFFICES ASSUME NEW e \in Download, Active(e)'
                 PROVE  /\ e[2] \in Range(layers'[e[1]]) /\ at'[e[1]] \in Scanning
                        /\ Pends(e[1])'
      BY DEF DownloadsFollowed
    <2>1. CASE e = c
      BY <1>1, <1>3, <1>8, <1>9, <2>1 DEF Scanning
    <2>2. CASE e # c
      BY <1>1, <1>3, <1>5, <1>6, <1>9, <2>2, DownloadFacts
      DEF LifetimeInv, DownloadsFollowed, Scanning
    <2> QED
      BY <2>1, <2>2
  <1> QED
    BY <1>7, <1>10 DEF LifetimeInv

\* Whatever else an image does, it leaves its layers only when none of them is being
\* downloaded for it: that it erases was not.
LEMMA ImageKeepsLifetime ==
  ASSUME PoolOrder, CopyTypeOK, ClaimsInv, LifetimeInv, DirDestination,
         NEW t \in Thread, ImageStep(t)
  PROVE  LifetimeInv'
  <1> PICK i \in Image :
        \/ CompareManifest(t, i) \/ SkipWorking(t, i) \/ FindLayer(t, i)
        \/ LayerPresent(t, i) \/ LayerMissing(t, i) \/ SubmitDownload(t, i) \/ Wake(t, i)
        \/ ConfigPresent(t, i) \/ ConfigMissing(t, i) \/ FetchConfig(t, i) \/ PutManifest(t, i)
        \/ DestinationThrows(t, i)
    BY DEF ImageStep
  <1>1. CASE CompareManifest(t, i)
    <2>1. PICK l \in {"put", "config", "find"} : Goto(i, l) /\ at[i] = "compare"
      BY <1>1 DEF CompareManifest
    <2> QED
      BY <1>1, <2>1, ImageMoves DEF CompareManifest, poolVars, Scanning
  <1>2. CASE SkipWorking(t, i)
    <2>1. PICK l \in {"find", "wait"} : Goto(i, l)
      BY <1>2, ImageAt DEF SkipWorking, Goto, CopyTypeOK
    <2>2. layers' = layers /\ \A j \in Image : j # i => itr'[j] = itr[j]
      BY <1>2 DEF SkipWorking, CopyTypeOK
    <2> QED
      BY <1>2, <2>1, <2>2, ImageMoves DEF SkipWorking, poolVars, Scanning
  <1>3. CASE FindLayer(t, i)
    BY <1>3, FindKeepsLifetime
  <1>4. CASE LayerPresent(t, i)
    <2> DEFINE d == layers[i][itr[i]]
               rest == RemoveAt(layers[i], itr[i])
    <2>1. /\ at[i] = "found" /\ layers' = [layers EXCEPT ![i] = rest]
          /\ itr' = [itr EXCEPT ![i] = 1] /\ UNCHANGED status
          /\ Goto(i, IF rest = <<>> THEN "config" ELSE "find")
      BY <1>4 DEF LayerPresent, poolVars
    <2>2. Range(layers[i]) \subseteq Range(rest) \cup {d}
      BY <2>1, RemoveAtFacts, ImageAt DEF CopyTypeOK
    <2> HIDE DEF rest
    <2>3. ASSUME NEW c \in Download, Active(c), c[1] = i
          PROVE  c[2] \in Range(rest) /\ rest # <<>>
      <3>1. c[2] \in Range(layers[i]) /\ c[2] # d
        BY <2>1, <2>3 DEF LifetimeInv, DownloadsFollowed, FoundFree
      <3> QED
        BY <2>2, <3>1 DEF Range
    <2>4. layers'[i] = rest /\ \A j \in Image : j # i => layers'[j] = layers[j] /\ itr'[j] = itr[j]
      BY <2>1 DEF CopyTypeOK
    <2>5. PICK l \in {"config", "find"} : Goto(i, l) /\ (l = "find" <=> rest # <<>>)
      BY <2>1
    <2> QED
      BY <2>1, <2>3, <2>4, <2>5, ImageMoves DEF Scanning
  <1>5. CASE LayerMissing(t, i)
    BY <1>5, MissingKeepsLifetime
  <1>6. CASE SubmitDownload(t, i)
    BY <1>6, SubmitKeepsLifetime
  <1>7. CASE Wake(t, i)
    BY <1>7, ImageMoves DEF Wake, poolVars, Scanning
  <1>8. CASE ConfigPresent(t, i) \/ ConfigMissing(t, i) \/ FetchConfig(t, i) \/ PutManifest(t, i)
    <2>1. PICK l \in {"put", "fetch", "done"} : Goto(i, l) /\ at[i] \in {"config", "fetch", "put"}
      BY <1>8 DEF ConfigPresent, ConfigMissing, FetchConfig, PutManifest
    <2>2. UNCHANGED <<layers, itr, status>>
      BY <1>8 DEF ConfigPresent, ConfigMissing, FetchConfig, PutManifest, poolVars
    <2> QED
      BY <2>1, <2>2, ImageMoves DEF Scanning
  <1>9. CASE DestinationThrows(t, i)
    BY <1>9 DEF DestinationThrows
  <1> QED
    BY <1>1, <1>2, <1>3, <1>4, <1>5, <1>6, <1>7, <1>8, <1>9

-----------------------------------------------------------------------------
(* The steps of others. *)

\* A download on its way stays one of its image, until it is none.
LEMMA DownloadKeepsLifetime ==
  ASSUME CopyTypeOK, LifetimeInv, NEW t \in Thread, DownloadStep(t)
  PROVE  LifetimeInv'
  <1> PICK c \in Download : FetchLayer(t, c) \/ Finalize(t, c)
    BY DEF DownloadStep
  <1>1. PICK l \in {"finalize", "done"} : Goto(c, l) /\ at[c] # "done"
    BY DEF FetchLayer, Finalize
  <1>2. UNCHANGED <<layers, itr, status>>
    BY DEF FetchLayer, Finalize, poolVars
  <1>3. \A i \in Image : at'[i] = at[i]
    BY <1>1, ImageAt DEF Goto, CopyTypeOK
  <1>4. \A e \in Download : Active(e)' => Active(e)
    BY <1>1, <1>2, DownloadFacts DEF Goto, CopyTypeOK, Active
  <1> QED
    BY <1>2, <1>3, <1>4, LifetimeStays DEF Pends

LEMMA TagKeepsLifetime ==
  ASSUME PoolOrder, CopyTypeOK, LifetimeInv, NEW t \in Thread, TagStep(t)
  PROVE  LifetimeInv'
  <1> PICK g \in Tag : \/ CompareList(t, g) \/ SubmitImage(t, g) \/ ImagesReturned(t, g)
                       \/ PutManifestList(t, g) \/ ListThrows(t, g)
    BY DEF TagStep
  <1>1. UNCHANGED <<layers, itr>>
    BY DEF CompareList, SubmitImage, ImagesReturned, PutManifestList, ListThrows, copyVars
  <1>2. ASSUME NEW p \in Holder
        PROVE  at'[p] = at[p]
    <2>1. p \in Task \ {Main} /\ p # g
      BY DownloadFacts, ImageAt, CopyAssumption DEF Holder
    <2> QED
      BY <2>1 DEF CompareList, SubmitImage, ImagesReturned, PutManifestList, ListThrows, Goto,
                  CopyTypeOK, copyVars
  <1>3. CASE SubmitImage(t, g)
    <2>1. PICK i \in Image : Execute(t, i)
      BY <1>3 DEF SubmitImage, ImagesOf
    <2>2. \A p \in Holder : p # i => status'[p] = status[p]
      BY <2>1, DownloadFacts, ImageAt
      DEF Execute, Pool!ExecuteFoundIdle, Pool!ExecuteInline, PoolOrder, Proved!TypeOK, Holder
    <2>3. Pends(i)'
      BY <2>1, ImageAt
      DEF Execute, Pool!ExecuteFoundIdle, Pool!ExecuteInline, PoolOrder, Proved!TypeOK, Pends
    <2>4. \A c \in Download : Active(c)' => Active(c)
      BY <1>2, <2>2, ImageAt DEF Active, Holder
    <2> QED
      BY <1>1, <1>2, <2>2, <2>3, <2>4, LifetimeStays DEF Holder, Pends
  <1>4. CASE ~SubmitImage(t, g)
    <2>1. UNCHANGED status
      BY <1>4 DEF CompareList, ImagesReturned, PutManifestList, ListThrows, poolVars
    <2> QED
      BY <1>1, <1>2, <2>1, LifetimeStays DEF Active, Holder, Pends
  <1> QED
    BY <1>3, <1>4

\* The pool ends no image that is not through.
LEMMA PoolMovesNoImage ==
  ASSUME PoolOrder, CopyTypeOK, UNCHANGED copyVars,
         NEW i \in Image, at[i] # "done", Pends(i),
         \/ \E w \in Worker : WorkerLoop(w)
         \/ \E t \in Thread : PushDecided(t) \/ ReturnDone(t)
         \/ MainStep
         \/ UNCHANGED poolVars
  PROVE  Pends(i)'
  <1>1. i \in Task /\ i \notin Tag /\ i # Main
    BY ImageAt, CopyAssumption
  <1>2. status \in [Task -> Proved!Status]
    BY DEF PoolOrder, Proved!TypeOK
  <1>3. CASE \E w \in Worker : WorkerLoop(w)
    <2> PICK w \in Worker : Pool!Pop(w) \/ Pool!Begin(w) \/ Pool!End(w)
      BY <1>3 DEF WorkerLoop
    <2>1. Proved!Pop(w) \/ Proved!Begin(w) \/ Proved!End(w)
      BY DEF Pool!Pop, Proved!Pop, Pool!PopForeground, Proved!PopForeground,
         Pool!PopBackground, Proved!PopBackground, Pool!Begin, Proved!Begin, Pool!End, Proved!End
    <2>2. \/ status'[i] = status[i]
          \/ {status[i], status'[i]} \subseteq {"queued", "taken", "running"}
      BY <1>1, <2>1, CopyIsATreeOfTasks, Proved!LoopRunsSubmitted DEF PoolOrder
    <2> QED
      BY <1>1, <2>2 DEF Pends
  <1>4. CASE \E t \in Thread : ReturnDone(t)
    <2> PICK t \in Thread : Pool!Return(t) /\ at[Head(stack[t])] = "done"
      BY <1>4 DEF ReturnDone
    <2> QED
      BY <1>1, <1>2 DEF Pool!Return, Pends
  <1>5. CASE \E t \in Thread : PushDecided(t)
    BY <1>1, <1>2, <1>5 DEF PushDecided, Pool!PushForeground, Pends
  <1>6. CASE MainStep
    <2>1. CASE ReturnMain
      BY <1>1, <1>2, <2>1 DEF ReturnMain, Runs, Pool!Return, Pends
    <2> QED
      BY <1>1, <1>2, <1>6, <2>1 DEF MainStep, SubmitTag, Pool!Background, Pends
  <1>7. CASE UNCHANGED poolVars
    BY <1>7 DEF poolVars, Pends
  <1> QED
    BY <1>3, <1>4, <1>5, <1>6, <1>7

-----------------------------------------------------------------------------
LEMMA LifetimeInitially == Init => LifetimeInv
  <1> SUFFICES ASSUME Init PROVE LifetimeInv
    OBVIOUS
  <1>1. ASSUME NEW c \in Download
        PROVE  ~Active(c)
    <2>1. c \in Task \ {Main}
      BY DownloadFacts
    <2> QED
      BY <2>1 DEF Init, Pool!Init, Active
  <1>2. \A i \in Image : at[i] = "compare"
    BY CopyAssumption DEF Init, Task
  <1> QED
    BY <1>1, <1>2 DEF LifetimeInv, FoundFree, DownloadsFollowed

LEMMA LifetimeInductive ==
  ASSUME PoolOrder, CopyTypeOK, ClaimsInv, LifetimeInv, DirDestination, [Next]_vars
  PROVE  LifetimeInv'
  <1>1. CASE \E t \in Thread : TagStep(t)
    BY <1>1, TagKeepsLifetime
  <1>2. CASE \E t \in Thread : ImageStep(t)
    BY <1>2, ImageKeepsLifetime
  <1>3. CASE \E t \in Thread : DownloadStep(t)
    BY <1>3, DownloadKeepsLifetime
  <1>4. CASE \/ \E w \in Worker : WorkerLoop(w)
             \/ \E t \in Thread : PushDecided(t) \/ ReturnDone(t)
             \/ MainStep
             \/ Terminated
             \/ UNCHANGED vars
    <2>1. UNCHANGED copyVars
      BY <1>4 DEF WorkerLoop, PushDecided, ReturnDone, MainStep, SubmitTag, ReturnMain,
                  Terminated, vars
    <2>2. Terminated => UNCHANGED poolVars
      BY DEF Terminated, Pool!Terminated, Pool!poolVars, poolVars
    <2>3. \A c \in Download : Active(c)' => Active(c)
      BY <1>4, <2>1, <2>2, PoolMovesNoDownload DEF vars
    <2>4. \A i \in Image : Pends(i) /\ at[i] # "done" => Pends(i)'
      BY <1>4, <2>1, <2>2, PoolMovesNoImage DEF vars
    <2> QED
      BY <2>1, <2>3, <2>4, LifetimeStays DEF copyVars
  <1> QED
    BY <1>1, <1>2, <1>3, <1>4 DEF Next, ThreadStep

-----------------------------------------------------------------------------
(* The joins from an image up to Main. *)

\* While an image has not returned, neither has its tag, nor Main.
LEMMA MainWaits ==
  ASSUME PoolOrder, Proved!Custody, NEW i \in Image, Pends(i)
  PROVE  mode[Client] # "fin"
  <1>1. /\ TagOf[i] \in Tag /\ TagOf[i] \in Task \ {Main}
        /\ i \in Task \ {Main} /\ i \notin Tag
    BY CopyAssumption DEF Task
  <1>2. Parent[i] = TagOf[i]
    BY <1>1 DEF Parent
  <1>3. Parent[TagOf[i]] = Main
    <2>1. \A g \in Tag : Parent[g] = Main
      BY CopyAssumption DEF Parent, Task
    <2> QED
      BY <1>1, <2>1
  <1>4. status[TagOf[i]] = "running"
    <2>1. status[TagOf[i]] \in {"running", "done"}
      BY <1>1, <1>2 DEF PoolOrder, Proved!Discipline, Proved!KidsAfterParent, Pends
    <2> QED
      BY <1>1, <1>2, <2>1 DEF Proved!Custody, Proved!JoinsAreOver, Joins, Pends
  <1>5. status[Main] # "done"
    BY <1>1, <1>3, <1>4 DEF Proved!Custody, Proved!JoinsAreOver, Joins
  <1> QED
    BY <1>5, CopyIsATreeOfTasks, Proved!FinishedIsDone DEF PoolOrder

\* For every catalogue, whatever images share layers and whatever transfers fail: when
\* Main is through, every download to a Dir has taken its digest out of
\* working_digests_, so that none uses the Copy after its end.
THEOREM DownloadsEndFirst ==
  ASSUME DirDestination
  PROVE  SafeSpec => []SyncOutlivesDownloads
  <1> DEFINE Inv == /\ PoolOrder /\ Proved!Custody
                    /\ CopyTypeOK /\ ClaimsInv /\ LifetimeInv
  <1>1. Init => Inv
    BY SamePool, CopyIsATreeOfTasks, Proved!TypesInitially, Proved!DisciplineInitially,
       Proved!CustodyInitially, CopyTypesInitially, ClaimsInitially, LifetimeInitially
    DEF Init, PoolOrder
  <1>2. Inv /\ [Next]_vars => Inv'
    <2> SUFFICES ASSUME Inv, [Next]_vars PROVE Inv'
      OBVIOUS
    <2>1. [Proved!Next]_(Proved!poolVars)
      BY StepOfPool, SamePool
    <2>2. Proved!TypeOK' /\ Proved!IdleCountsIdleWorkers'
      BY <2>1, CopyIsATreeOfTasks, Proved!TypesInductive DEF PoolOrder
    <2>3. Proved!Discipline'
      BY <2>1, CopyIsATreeOfTasks, Proved!DisciplineInductive DEF PoolOrder
    <2>4. Proved!Custody'
      BY <2>1, CopyIsATreeOfTasks, Proved!CustodyInductive DEF PoolOrder
    <2>5. CopyTypeOK' /\ ClaimsInv' /\ LifetimeInv'
      BY CopyTypesInductive, ClaimsInductive, LifetimeInductive
    <2> QED
      BY <2>2, <2>3, <2>4, <2>5 DEF PoolOrder
  <1>3. Inv => SyncOutlivesDownloads
    BY DownloadFacts, MainWaits DEF SyncOutlivesDownloads, LifetimeInv, DownloadsFollowed
  <1> QED
    BY <1>1, <1>2, <1>3, PTL DEF SafeSpec

=============================================================================
