----------------------------- MODULE CopyProofs -----------------------------
(* What holds of a mirroring run for every catalogue, every number of        *)
(* workers, either destination and any number of failures: it uses the pool  *)
(* as the pool allows, and no image comes to its manifest before its layers. *)
EXTENDS Copy, TLAPS

-----------------------------------------------------------------------------
(* The copy as a user of the pool. *)

\* A tag's step is a submission to the pool, or none of the pool's business.
LEMMA TagStepOfPool ==
  ASSUME NEW t \in Thread, TagStep(t)
  PROVE  (\E c \in Task \ {Main} : Execute(t, c)) \/ UNCHANGED poolVars
  <1> PICK g \in Tag : \/ CompareList(t, g) \/ SubmitImage(t, g) \/ ImagesReturned(t, g)
                       \/ PutManifestList(t, g) \/ ListThrows(t, g)
    BY DEF TagStep
  <1>1. CASE SubmitImage(t, g)
    <2> PICK i \in ImagesOf(g) : Execute(t, i)
      BY <1>1 DEF SubmitImage
    <2>1. i \in Task \ {Main}
      BY CopyAssumption DEF ImagesOf, Task
    <2> QED
      BY <2>1
  <1> QED
    BY <1>1 DEF CompareList, ImagesReturned, PutManifestList, ListThrows

\* Of an image's steps only the submission of a download concerns the pool.
LEMMA ImageStepOfPool ==
  ASSUME NEW t \in Thread, ImageStep(t)
  PROVE  (\E c \in Task \ {Main} : Execute(t, c)) \/ UNCHANGED poolVars
  <1> PICK i \in Image :
        \/ CompareManifest(t, i) \/ SkipWorking(t, i) \/ FindLayer(t, i)
        \/ LayerPresent(t, i) \/ LayerMissing(t, i) \/ SubmitDownload(t, i) \/ Wake(t, i)
        \/ ConfigPresent(t, i) \/ ConfigMissing(t, i) \/ FetchConfig(t, i) \/ PutManifest(t, i)
        \/ DestinationThrows(t, i)
    BY DEF ImageStep
  <1>1. CASE SubmitDownload(t, i)
    <2> PICK n \in Attempt : Execute(t, <<i, layers[i][itr[i]], n>>)
      BY <1>1 DEF SubmitDownload
    <2>1. <<i, layers[i][itr[i]], n>> \in Task \ {Main}
      BY DEF Execute, Pool!ExecuteFoundIdle, Pool!ExecuteInline, Pool!CanSubmit, Pool!Kids
    <2> QED
      BY <2>1
  <1> QED
    BY <1>1 DEF CompareManifest, SkipWorking, FindLayer, LayerPresent, LayerMissing, Wake,
       ConfigPresent, ConfigMissing, FetchConfig, PutManifest, DestinationThrows

\* Every step of the copy is a step of the pool or leaves it alone.
LEMMA StepOfPool ==
  ASSUME [Next]_vars
  PROVE  [Pool!Next]_(Pool!poolVars)
  <1> SUFFICES Pool!Next \/ UNCHANGED poolVars
    BY DEF Pool!poolVars, poolVars
  <1>1. CASE UNCHANGED vars
    BY <1>1 DEF vars
  <1>2. CASE \E t \in Thread : ThreadStep(t)
    <2> PICK t \in Thread : ThreadStep(t)
      BY <1>2
    <2>1. t \in Pool!Thread
      BY DEF Thread, Pool!Thread
    <2>2. CASE \E c \in Task \ {Main} : Execute(t, c)
      BY <2>1, <2>2 DEF Execute, Pool!Next, Pool!Submit
    <2>3. CASE PushDecided(t)
      BY <2>1, <2>3 DEF PushDecided, Pool!Next, Pool!Submit
    <2>4. CASE ReturnDone(t)
      BY <2>1, <2>4 DEF ReturnDone, Pool!Next
    <2>5. CASE DownloadStep(t)
      BY <2>5 DEF DownloadStep, FetchLayer, Finalize
    <2> QED
      BY <2>2, <2>3, <2>4, <2>5, TagStepOfPool, ImageStepOfPool DEF ThreadStep
  <1>3. CASE \E w \in Worker : WorkerLoop(w)
    BY <1>3 DEF WorkerLoop, Pool!Next
  <1>4. CASE MainStep
    <2>1. Client \in Pool!Thread
      BY DEF Pool!Thread
    <2>2. CASE \E g \in Tag : SubmitTag(g)
      <3> PICK g \in Tag : Pool!Background(Client, g)
        BY <2>2 DEF SubmitTag
      <3>1. g \in Task \ {Main}
        BY CopyAssumption DEF Task
      <3> QED
        BY <2>1, <3>1 DEF Pool!Next, Pool!Submit
    <2>3. CASE ReturnMain
      BY <2>1, <2>3 DEF ReturnMain, Pool!Next
    <2> QED
      BY <1>4, <2>2, <2>3 DEF MainStep
  <1>5. CASE Terminated
    BY <1>5 DEF Terminated, Pool!Next
  <1> QED
    BY <1>1, <1>2, <1>3, <1>4, <1>5 DEF Next

\* Whatever is mirrored, with whatever failures, Sync and Copy submit each
\* function once, from the body that owns it, and join as the pool expects; so
\* what is proved of the pool holds of it under them.
THEOREM CopyImplementsTaskPool == SafeSpec => ImplementsTaskPool
  <1>1. Init => Pool!Init
    BY DEF Init
  <1>2. [Next]_vars => [Pool!Next]_(Pool!poolVars)
    BY StepOfPool
  <1> QED
    BY <1>1, <1>2, PTL DEF SafeSpec, ImplementsTaskPool, Pool!SafeSpec

-----------------------------------------------------------------------------
(* The types of the copy's own state. *)

\* What stands in a concatenation behind its first part.
LEMMA BehindTheFront ==
  ASSUME NEW S, NEW s \in Seq(S), NEW t \in Seq(S),
         NEW j \in 1 .. Len(s) + Len(t), j > Len(s)
  PROVE  (s \o t)[j] = t[j - Len(s)]
  OBVIOUS

\* Erasing an element of a sequence loses that element at most.
LEMMA RemoveAtFacts ==
  ASSUME NEW S, NEW s \in Seq(S), NEW k \in DOMAIN s
  PROVE  /\ RemoveAt(s, k) \in Seq(S)
         /\ Range(s) \subseteq Range(RemoveAt(s, k)) \cup {s[k]}
         /\ Range(RemoveAt(s, k)) \subseteq Range(s)
         /\ RemoveAt(s, k) # <<>> => 1 \in DOMAIN RemoveAt(s, k)
  <1> DEFINE front == SubSeq(s, 1, k - 1)
             back == SubSeq(s, k + 1, Len(s))
  <1>1. k \in 1 .. Len(s)
    OBVIOUS
  <1>2. front \in Seq(S) /\ Len(front) = k - 1 /\ \A j \in 1 .. k - 1 : front[j] = s[j]
    BY <1>1
  <1>3. /\ back \in Seq(S) /\ Len(back) = Len(s) - k
        /\ \A j \in 1 .. Len(s) - k : back[j] = s[k + j]
    BY <1>1
  <1>4. RemoveAt(s, k) = front \o back
    BY DEF RemoveAt
  <1> HIDE DEF front, back
  <1>5. RemoveAt(s, k) \in Seq(S) /\ Len(RemoveAt(s, k)) = Len(s) - 1
    BY <1>1, <1>2, <1>3, <1>4
  <1>6. ASSUME NEW j \in DOMAIN s, j # k
        PROVE  s[j] \in Range(RemoveAt(s, k))
    <2>1. CASE j < k
      <3>1. j \in DOMAIN RemoveAt(s, k) /\ RemoveAt(s, k)[j] = s[j]
        BY <1>1, <1>2, <1>3, <1>4, <1>5, <2>1
      <3> QED
        BY <3>1 DEF Range
    <2>2. CASE j > k
      <3>1. j - 1 \in DOMAIN RemoveAt(s, k) /\ RemoveAt(s, k)[j - 1] = back[j - k]
        <4>1. j - 1 \in 1 .. Len(front) + Len(back) /\ j - 1 > Len(front)
          BY <1>1, <1>2, <1>3, <2>2
        <4>2. (front \o back)[j - 1] = back[j - 1 - Len(front)]
          BY <1>2, <1>3, <4>1, BehindTheFront
        <4>3. j - 1 - Len(front) = j - k
          BY <1>1, <1>2
        <4>4. j - 1 \in DOMAIN RemoveAt(s, k)
          BY <1>1, <1>5, <2>2
        <4> QED
          BY <1>4, <4>2, <4>3, <4>4
      <3>2. back[j - k] = s[j]
        BY <1>1, <1>3, <2>2
      <3> QED
        BY <3>1, <3>2 DEF Range
    <2> QED
      BY <1>1, <1>6, <2>1, <2>2
  <1>7. ASSUME NEW j \in DOMAIN RemoveAt(s, k)
        PROVE  RemoveAt(s, k)[j] \in Range(s)
    <2>1. CASE j < k
      <3>1. j \in DOMAIN s /\ RemoveAt(s, k)[j] = s[j]
        BY <1>1, <1>2, <1>3, <1>4, <1>5, <2>1
      <3> QED
        BY <3>1 DEF Range
    <2>2. CASE j >= k
      <3>1. j \in 1 .. Len(s) - 1 /\ j + 1 \in DOMAIN s
        BY <1>1, <1>5
      <3>2. RemoveAt(s, k)[j] = back[j - (k - 1)]
        BY <1>1, <1>2, <1>3, <1>4, <2>2, <3>1
      <3>3. j - (k - 1) \in 1 .. Len(s) - k /\ k + (j - (k - 1)) = j + 1
        BY <1>1, <2>2, <3>1
      <3>4. back[j - (k - 1)] = s[j + 1]
        BY <1>3, <3>3
      <3> QED
        BY <3>1, <3>2, <3>4 DEF Range
    <2> QED
      BY <1>1, <1>5, <2>1, <2>2
  <1> QED
    BY <1>5, <1>6, <1>7 DEF Range

\* A download belongs to an image and a layer.
LEMMA DownloadFacts ==
  ASSUME NEW c \in Download
  PROVE  c[1] \in Image /\ c[2] \in Digest /\ c \in Task \ {Main}
  <1>1. PICK i \in Image : c \in {<<i, d, n>> : d \in Range(LayersOf[i]), n \in Attempt}
    BY DEF Download
  <1>2. PICK d \in Range(LayersOf[i]), n \in Attempt : c = <<i, d, n>>
    BY <1>1
  <1>3. c \in Task \ {Main}
    BY CopyAssumption DEF Task
  <1> QED
    BY <1>2, <1>3, CopyAssumption DEF Range

\* The failures stay within their bound.
LEMMA CountFaultFacts ==
  ASSUME faults \in 0 .. MaxFaults, NEW truth, NEW answer \in Answers(truth),
         CountFault(truth, answer)
  PROVE  faults' \in 0 .. MaxFaults
  <1>1. CASE answer = truth
    BY <1>1 DEF CountFault
  <1>2. CASE answer # truth
    <2>1. faults # MaxFaults
      BY <1>2 DEF Answers
    <2>2. faults' = faults + 1
      BY <1>2 DEF CountFault
    <2> QED
      BY <2>1, <2>2, CopyAssumption
  <1> QED
    BY <1>1, <1>2

LEMMA FaultFacts ==
  ASSUME faults \in 0 .. MaxFaults, Fault
  PROVE  faults' \in 0 .. MaxFaults
  BY CopyAssumption DEF Fault

\* Types of everything but where tasks stand in their bodies, and images in
\* their layers.
DestinationTypes ==
  /\ working_digests \subseteq Digest
  /\ blobs \subseteq Digest
  /\ dirs \subseteq Image
  /\ manifests \subseteq Image
  /\ lists \subseteq Tag
  /\ completed \subseteq Tag
  /\ faults \in 0 .. MaxFaults

\* A step that moves one task p to location l, and no image but p in its layers,
\* keeps the types if an image that p is may be at l.
LEMMA MoveKeepsTypes ==
  ASSUME CopyTypeOK, DestinationTypes',
         NEW p \in Task \ {Main}, NEW l \in Location, Goto(p, l),
         layers' \in [Image -> Seq(Digest)], itr' \in [Image -> Nat],
         \A i \in Image : i # p => layers'[i] = layers[i] /\ itr'[i] = itr[i],
         p \in Image =>
           /\ l \in {"find", "found", "get", "wait"} => itr'[p] \in DOMAIN layers'[p]
           /\ l \in {"compare", "wait"} => itr'[p] = 1
  PROVE  CopyTypeOK'
  <1>1. at' \in [Task \ {Main} -> Location]
    BY DEF CopyTypeOK, Goto
  <1>2. ASSUME NEW i \in Image
        PROVE  /\ at'[i] \in {"find", "found", "get", "wait"} => itr'[i] \in DOMAIN layers'[i]
               /\ at'[i] \in {"compare", "wait"} => itr'[i] = 1
    <2>1. i \in Task \ {Main}
      BY CopyAssumption DEF Task
    <2>2. CASE i = p
      BY <2>1, <2>2 DEF CopyTypeOK, Goto
    <2>3. CASE i # p
      BY <2>1, <2>3 DEF CopyTypeOK, Goto
    <2> QED
      BY <2>2, <2>3
  <1> QED
    BY <1>1, <1>2 DEF CopyTypeOK, DestinationTypes

\* The same, if no image moves in its layers.
LEMMA GotoKeepsTypes ==
  ASSUME CopyTypeOK, DestinationTypes', UNCHANGED <<layers, itr>>,
         NEW p \in Task \ {Main}, NEW l \in Location, Goto(p, l),
         p \in Image =>
           /\ l \in {"find", "found", "get", "wait"} => itr[p] \in DOMAIN layers[p]
           /\ l \in {"compare", "wait"} => itr[p] = 1
  PROVE  CopyTypeOK'
  BY MoveKeepsTypes DEF CopyTypeOK

LEMMA TagStepKeepsTypes ==
  ASSUME CopyTypeOK, NEW t \in Thread, TagStep(t)
  PROVE  CopyTypeOK'
  <1> PICK g \in Tag : \/ CompareList(t, g) \/ SubmitImage(t, g) \/ ImagesReturned(t, g)
                       \/ PutManifestList(t, g) \/ ListThrows(t, g)
    BY DEF TagStep
  <1>1. g \in Task \ {Main} /\ g \notin Image
    BY CopyAssumption DEF Task
  <1>2. CASE SubmitImage(t, g)
    BY <1>2 DEF SubmitImage, copyVars, destVars, CopyTypeOK
  <1>3. CASE ~SubmitImage(t, g)
    <2>1. DestinationTypes'
      <3>1. faults' \in 0 .. MaxFaults
        <4> faults \in 0 .. MaxFaults
          BY DEF CopyTypeOK
        <4>1. CASE CompareList(t, g)
          <5> PICK same \in Answers(g \in lists) : CountFault(g \in lists, same)
            BY <4>1 DEF CompareList
          <5> QED
            BY CountFaultFacts, Zenon
        <4>2. CASE PutManifestList(t, g)
          <5> DEFINE due == ImagesOf(g) \subseteq manifests
          <5> PICK accepted \in Answers(due) : CountFault(due, accepted)
            BY <4>2 DEF PutManifestList
          <5> due \in BOOLEAN
            OBVIOUS
          <5> HIDE DEF due
          <5> QED
            BY CountFaultFacts, Zenon
        <4> QED
          BY <1>3, <4>1, <4>2, FaultFacts DEF ImagesReturned, ListThrows
      <3> QED
        BY <1>3, <3>1 DEF CompareList, ImagesReturned, PutManifestList, ListThrows, CopyTypeOK,
           DestinationTypes, destVars
    <2>2. PICK l \in Location : Goto(g, l)
      BY <1>3 DEF CompareList, ImagesReturned, PutManifestList, ListThrows, Location
    <2>3. UNCHANGED <<layers, itr>>
      BY <1>3 DEF CompareList, ImagesReturned, PutManifestList, ListThrows
    <2> QED
      BY <1>1, <2>1, <2>2, <2>3, GotoKeepsTypes
  <1> QED
    BY <1>2, <1>3

\* Of an image's steps, those that leave it where it is in its layers.
LEMMA ImageAskKeepsTypes ==
  ASSUME CopyTypeOK, NEW t \in Thread, NEW i \in Image,
         CompareManifest(t, i) \/ FindLayer(t, i) \/ LayerMissing(t, i) \/ ConfigMissing(t, i)
  PROVE  CopyTypeOK'
  <1> i \in Task \ {Main}
    BY CopyAssumption DEF Task
  <1> faults \in 0 .. MaxFaults
    BY DEF CopyTypeOK
  <1>1. CASE CompareManifest(t, i)
    <2> PICK same \in Answers(i \in manifests) :
          /\ Goto(i, IF same THEN "put" ELSE IF layers[i] = <<>> THEN "config" ELSE "find")
          /\ CountFault(i \in manifests, same)
      BY <1>1 DEF CompareManifest
    <2>1. faults' \in 0 .. MaxFaults
      BY CountFaultFacts, Zenon
    <2>2. DestinationTypes'
      BY <1>1, <2>1 DEF CompareManifest, CopyTypeOK, DestinationTypes, destVars
    <2>3. layers[i] # <<>> => itr[i] \in DOMAIN layers[i]
      <3>1. itr[i] = 1 /\ layers[i] \in Seq(Digest)
        BY <1>1 DEF CompareManifest, CopyTypeOK
      <3> QED
        BY <3>1
    <2>4. PICK l \in {"put", "config", "find"} :
            Goto(i, l) /\ (l = "find" => itr[i] \in DOMAIN layers[i])
      BY <2>3
    <2> QED
      BY <1>1, <2>2, <2>4, GotoKeepsTypes DEF CompareManifest, Location
  <1>2. CASE FindLayer(t, i)
    <2> DEFINE d == layers[i][itr[i]]
    <2> PICK present \in Answers(d \in blobs) :
          /\ working_digests' = IF present THEN working_digests ELSE working_digests \cup {d}
          /\ CountFault(d \in blobs, present)
      BY <1>2 DEF FindLayer
    <2>1. faults' \in 0 .. MaxFaults
      BY CountFaultFacts, Zenon
    <2>2. itr[i] \in DOMAIN layers[i] /\ d \in Digest
      BY <1>2 DEF FindLayer, CopyTypeOK
    <2>3. DestinationTypes'
      BY <1>2, <2>1, <2>2 DEF FindLayer, CopyTypeOK, DestinationTypes, destVars
    <2> QED
      BY <1>2, <2>2, <2>3, GotoKeepsTypes DEF FindLayer, Location
  <1>3. CASE LayerMissing(t, i)
    <2> DEFINE d == layers[i][itr[i]]
    <2>1. faults' \in 0 .. MaxFaults
      BY <1>3, CountFaultFacts, Zenon DEF LayerMissing
    <2>2. itr[i] \in DOMAIN layers[i]
      BY <1>3 DEF LayerMissing, CopyTypeOK
    <2>3. DestinationTypes'
      BY <1>3, <2>1 DEF LayerMissing, CopyTypeOK, DestinationTypes, destVars
    <2> QED
      BY <1>3, <2>2, <2>3, GotoKeepsTypes DEF LayerMissing, Location
  <1>4. CASE ConfigMissing(t, i)
    <2>1. faults' \in 0 .. MaxFaults
      BY <1>4, CountFaultFacts, Zenon DEF ConfigMissing
    <2>2. DestinationTypes'
      BY <1>4, <2>1 DEF ConfigMissing, CopyTypeOK, DestinationTypes, destVars
    <2> QED
      BY <1>4, <2>2, GotoKeepsTypes DEF ConfigMissing, Location
  <1> QED
    BY <1>1, <1>2, <1>3, <1>4

\* A transfer, whatever becomes of it, keeps the types of the destination.
LEMMA TransferFacts ==
  ASSUME CopyTypeOK, NEW i \in Image, NEW d \in Digest, Transfer(i, d)
  PROVE  /\ blobs' \subseteq Digest /\ blobs \subseteq blobs'
         /\ dirs' \subseteq Image
         /\ faults' \in 0 .. MaxFaults
  BY FaultFacts DEF Transfer, Store, CopyTypeOK

\* The other steps that leave an image where it is in its layers.
LEMMA ImagePutKeepsTypes ==
  ASSUME CopyTypeOK, NEW t \in Thread, NEW i \in Image,
         \/ Wake(t, i) \/ ConfigPresent(t, i) \/ FetchConfig(t, i) \/ PutManifest(t, i)
         \/ DestinationThrows(t, i)
  PROVE  CopyTypeOK'
  <1> i \in Task \ {Main}
    BY CopyAssumption DEF Task
  <1>1. CASE Wake(t, i)
    <2>1. itr[i] \in DOMAIN layers[i]
      BY <1>1 DEF Wake, CopyTypeOK
    <2>2. DestinationTypes'
      BY <1>1 DEF Wake, CopyTypeOK, DestinationTypes, destVars
    <2> QED
      BY <1>1, <2>1, <2>2, GotoKeepsTypes DEF Wake, Location
  <1>2. CASE ConfigPresent(t, i)
    <2>1. DestinationTypes'
      BY <1>2 DEF ConfigPresent, CopyTypeOK, DestinationTypes, destVars
    <2> QED
      BY <1>2, <2>1, GotoKeepsTypes DEF ConfigPresent, Location
  <1>3. CASE FetchConfig(t, i)
    <2>1. DestinationTypes'
      BY <1>3, TransferFacts, CopyAssumption DEF FetchConfig, CopyTypeOK, DestinationTypes
    <2> QED
      BY <1>3, <2>1, GotoKeepsTypes DEF FetchConfig, Location
  <1>4. CASE PutManifest(t, i)
    <2>1. DestinationTypes'
      BY <1>4 DEF PutManifest, CopyTypeOK, DestinationTypes
    <2> QED
      BY <1>4, <2>1, GotoKeepsTypes DEF PutManifest, Location
  <1>5. CASE DestinationThrows(t, i)
    <2>1. DestinationTypes'
      BY <1>5, FaultFacts DEF DestinationThrows, CopyTypeOK, DestinationTypes, destVars
    <2> QED
      BY <1>5, <2>1, GotoKeepsTypes DEF DestinationThrows, Location
  <1> QED
    BY <1>1, <1>2, <1>3, <1>4, <1>5

\* The steps in which an image moves in its layers.
LEMMA ImageScanKeepsTypes ==
  ASSUME CopyTypeOK, NEW t \in Thread, NEW i \in Image,
         SkipWorking(t, i) \/ LayerPresent(t, i) \/ SubmitDownload(t, i)
  PROVE  CopyTypeOK'
  <1>1. i \in Task \ {Main}
    BY CopyAssumption DEF Task
  <1>2. DestinationTypes'
    BY DEF SkipWorking, LayerPresent, SubmitDownload, CopyTypeOK, DestinationTypes, destVars
  <1>3. /\ layers[i] \in Seq(Digest) /\ itr[i] \in Nat /\ itr[i] \in DOMAIN layers[i]
        /\ 1 \in DOMAIN layers[i]
    <2>1. layers[i] \in Seq(Digest) /\ itr[i] \in DOMAIN layers[i]
      BY DEF SkipWorking, LayerPresent, SubmitDownload, CopyTypeOK
    <2> QED
      BY <2>1
  <1>4. CASE SkipWorking(t, i)
    <2>1. CASE itr[i] < Len(layers[i])
      <3>1. CopyTypeOK' <=> \A j \in Image :
              /\ at[j] \in {"find", "found", "get", "wait"} => itr'[j] \in DOMAIN layers[j]
              /\ at[j] \in {"compare", "wait"} => itr'[j] = 1
        BY <1>2, <1>3, <1>4, <2>1 DEF SkipWorking, CopyTypeOK, DestinationTypes
      <3>2. at[i] = "find" /\ itr' = [itr EXCEPT ![i] = itr[i] + 1]
        BY <1>4, <2>1 DEF SkipWorking
      <3>3. itr[i] + 1 \in DOMAIN layers[i]
        BY <1>3, <2>1
      <3> QED
        BY <3>1, <3>2, <3>3 DEF CopyTypeOK
    <2>2. CASE ~(itr[i] < Len(layers[i]))
      <3>1. itr' = [itr EXCEPT ![i] = 1] /\ Goto(i, "wait") /\ layers' = layers
        BY <1>4, <2>2 DEF SkipWorking
      <3> QED
        BY <1>1, <1>2, <1>3, <3>1, MoveKeepsTypes DEF CopyTypeOK, Location
    <2> QED
      BY <2>1, <2>2
  <1>5. CASE LayerPresent(t, i)
    <2> DEFINE rest == RemoveAt(layers[i], itr[i])
    <2>1. rest \in Seq(Digest) /\ (rest # <<>> => 1 \in DOMAIN rest)
      BY <1>3, RemoveAtFacts
    <2>2. /\ layers' = [layers EXCEPT ![i] = rest]
          /\ itr' = [itr EXCEPT ![i] = 1]
          /\ Goto(i, IF rest = <<>> THEN "config" ELSE "find")
      BY <1>5 DEF LayerPresent
    <2> HIDE DEF rest
    <2>3. /\ layers' \in [Image -> Seq(Digest)] /\ itr' \in [Image -> Nat]
          /\ layers'[i] = rest /\ itr'[i] = 1
          /\ \A j \in Image : j # i => layers'[j] = layers[j] /\ itr'[j] = itr[j]
      BY <2>1, <2>2 DEF CopyTypeOK
    <2>4. PICK l \in {"config", "find"} : Goto(i, l) /\ (l = "find" => rest # <<>>)
      BY <2>2
    <2> QED
      BY <1>1, <1>2, <2>1, <2>3, <2>4, MoveKeepsTypes DEF Location
  <1>6. CASE SubmitDownload(t, i)
    <2>1. itr' = [itr EXCEPT ![i] = 1] /\ Goto(i, "find") /\ layers' = layers
      BY <1>6 DEF SubmitDownload
    <2> QED
      BY <1>1, <1>2, <1>3, <2>1, MoveKeepsTypes DEF CopyTypeOK, Location
  <1> QED
    BY <1>4, <1>5, <1>6

LEMMA DownloadStepKeepsTypes ==
  ASSUME CopyTypeOK, NEW t \in Thread, DownloadStep(t)
  PROVE  CopyTypeOK'
  <1> PICK c \in Download : FetchLayer(t, c) \/ Finalize(t, c)
    BY DEF DownloadStep
  <1>1. c[1] \in Image /\ c[2] \in Digest /\ c \in Task \ {Main} /\ c \notin Image
    BY DownloadFacts, CopyAssumption
  <1>2. DestinationTypes'
    BY <1>1, TransferFacts DEF FetchLayer, Finalize, CopyTypeOK, DestinationTypes, destVars
  <1>3. PICK l \in Location : Goto(c, l) /\ UNCHANGED <<layers, itr>>
    BY DEF FetchLayer, Finalize, Location
  <1> QED
    BY <1>1, <1>2, <1>3, GotoKeepsTypes

\* Types initially: an image begins at its first layer.
LEMMA CopyTypesInitially ==
  ASSUME Init
  PROVE  CopyTypeOK
  <1>1. at \in [Task \ {Main} -> Location] /\ \A i \in Image : at[i] = "compare"
    BY CopyAssumption DEF Init, Location, Task
  <1>2. DestinationTypes
    BY CopyAssumption DEF Init, DestinationTypes
  <1>3. layers \in [Image -> Seq(Digest)] /\ itr \in [Image -> Nat] /\ \A i \in Image : itr[i] = 1
    BY CopyAssumption DEF Init
  <1> QED
    BY <1>1, <1>2, <1>3 DEF CopyTypeOK, DestinationTypes

\* The copy's types are inductive by themselves: no step needs more of the pool
\* than that it lets the step happen.
LEMMA CopyTypesInductive ==
  ASSUME CopyTypeOK, [Next]_vars
  PROVE  CopyTypeOK'
  <1>1. CASE UNCHANGED copyVars
    BY <1>1 DEF copyVars, destVars, CopyTypeOK
  <1>2. CASE \E t \in Thread : ThreadStep(t)
    <2> PICK t \in Thread : ThreadStep(t)
      BY <1>2
    <2>1. CASE ImageStep(t)
      BY <2>1, ImageAskKeepsTypes, ImagePutKeepsTypes, ImageScanKeepsTypes DEF ImageStep
    <2>2. CASE PushDecided(t) \/ ReturnDone(t)
      BY <1>1, <2>2 DEF PushDecided, ReturnDone
    <2> QED
      BY <2>1, <2>2, TagStepKeepsTypes, DownloadStepKeepsTypes DEF ThreadStep
  <1> QED
    BY <1>1, <1>2 DEF Next, WorkerLoop, MainStep, SubmitTag, ReturnMain, Terminated, vars

-----------------------------------------------------------------------------
(* Layers and manifests. *)

\* The images that have got past their layers.
Past == {"config", "fetch", "put"}

\* What a step must not do, for the layers to stay in order.
LEMMA LayersFrame ==
  ASSUME LayersInv, blobs \subseteq blobs',
         \A i \in Image : Range(layers[i]) \subseteq Range(layers'[i]) \cup blobs,
         \A i \in manifests' : i \in manifests \/ Range(LayersOf[i]) \subseteq blobs,
         \A i \in Image : at'[i] \in Past => at[i] \in Past \/ Range(LayersOf[i]) \subseteq blobs
  PROVE  LayersInv'
  BY DEF LayersInv, MissingLayersListed, ManifestsHaveLayers, LayersStoredBeforeManifest, Past

\* A step that neither moves an image nor touches a manifest keeps the order.
LEMMA LayersStay ==
  ASSUME LayersInv, blobs \subseteq blobs', layers' = layers, manifests' = manifests,
         \A i \in Image : at'[i] \in Past => at[i] \in Past
  PROVE  LayersInv'
  BY LayersFrame

\* Moving a task that is no image, or to a place before the configuration or
\* after the manifest, brings no image past its layers.
LEMMA GotoNotPast ==
  ASSUME CopyTypeOK, NEW p, NEW l, Goto(p, l), p \notin Image \/ l \notin Past \/ at[p] \in Past
  PROVE  \A i \in Image : at'[i] \in Past => at[i] \in Past
  <1> SUFFICES ASSUME NEW i \in Image, at'[i] \in Past PROVE at[i] \in Past
    OBVIOUS
  <1>1. i \in DOMAIN at
    BY CopyAssumption DEF CopyTypeOK, Task
  <1> QED
    BY <1>1 DEF Goto, CopyTypeOK

LEMMA ImageStepKeepsLayers ==
  ASSUME CopyTypeOK, LayersInv, NEW t \in Thread, ImageStep(t)
  PROVE  LayersInv'
  <1> PICK i \in Image :
        \/ CompareManifest(t, i) \/ SkipWorking(t, i) \/ FindLayer(t, i)
        \/ LayerPresent(t, i) \/ LayerMissing(t, i) \/ SubmitDownload(t, i) \/ Wake(t, i)
        \/ ConfigPresent(t, i) \/ ConfigMissing(t, i) \/ FetchConfig(t, i) \/ PutManifest(t, i)
        \/ DestinationThrows(t, i)
    BY DEF ImageStep
  <1>0. i \in DOMAIN at /\ \A j \in Image : j \in DOMAIN at
    BY CopyAssumption DEF CopyTypeOK, Task
  <1>1. CASE CompareManifest(t, i)
    <2>1. PICK same \in Answers(i \in manifests) :
            Goto(i, IF same THEN "put" ELSE IF layers[i] = <<>> THEN "config" ELSE "find")
      BY <1>1 DEF CompareManifest
    <2>2. same => i \in manifests
      BY DEF Answers
    <2>3. layers[i] = <<>> => Range(LayersOf[i]) \subseteq blobs
      BY DEF LayersInv, MissingLayersListed, Range
    <2>4. \A j \in Image : at'[j] \in Past => at[j] \in Past \/ Range(LayersOf[j]) \subseteq blobs
      BY <1>0, <2>1, <2>2, <2>3 DEF Goto, LayersInv, ManifestsHaveLayers, Past
    <2> QED
      BY <1>1, <2>4, LayersFrame DEF CompareManifest, destVars
  <1>2. CASE LayerPresent(t, i)
    <2> DEFINE rest == RemoveAt(layers[i], itr[i])
    <2>1. layers[i] \in Seq(Digest) /\ itr[i] \in DOMAIN layers[i]
      BY <1>2 DEF LayerPresent, CopyTypeOK
    <2>2. Range(layers[i]) \subseteq Range(rest) \cup blobs
      BY <1>2, <2>1, RemoveAtFacts DEF LayerPresent
    <2>3. layers' = [layers EXCEPT ![i] = rest] /\ Goto(i, IF rest = <<>> THEN "config" ELSE "find")
      BY <1>2 DEF LayerPresent
    <2> HIDE DEF rest
    <2>4. \A j \in Image : Range(layers[j]) \subseteq Range(layers'[j]) \cup blobs
      BY <2>2, <2>3 DEF CopyTypeOK
    <2>5. rest = <<>> => Range(LayersOf[i]) \subseteq blobs
      BY <2>2 DEF LayersInv, MissingLayersListed, Range
    <2>6. \A j \in Image : at'[j] \in Past => at[j] \in Past \/ Range(LayersOf[j]) \subseteq blobs
      BY <1>0, <2>3, <2>5 DEF Goto, Past
    <2> QED
      BY <1>2, <2>4, <2>6, LayersFrame DEF LayerPresent, destVars
  <1>3. CASE PutManifest(t, i)
    <2>1. \A j \in manifests' : j \in manifests \/ Range(LayersOf[j]) \subseteq blobs
      BY <1>3 DEF PutManifest
    <2>2. \A j \in Image : at'[j] \in Past => at[j] \in Past
      BY <1>3, GotoNotPast DEF PutManifest, Past
    <2> QED
      BY <1>3, <2>1, <2>2, LayersFrame DEF PutManifest
  <1>4. CASE ConfigPresent(t, i) \/ ConfigMissing(t, i)
    <2>1. \A j \in Image : at'[j] \in Past => at[j] \in Past
      BY <1>4, GotoNotPast DEF ConfigPresent, ConfigMissing, Past
    <2> QED
      BY <1>4, <2>1, LayersStay DEF ConfigPresent, ConfigMissing, destVars
  <1>5. CASE FetchConfig(t, i)
    <2>1. \A j \in Image : at'[j] \in Past => at[j] \in Past
      BY <1>5, GotoNotPast DEF FetchConfig, Past
    <2>2. blobs \subseteq blobs'
      BY <1>5, TransferFacts, CopyAssumption DEF FetchConfig
    <2> QED
      BY <1>5, <2>1, <2>2, LayersStay DEF FetchConfig
  <1>6. CASE SkipWorking(t, i)
    <2>1. \A j \in Image : at'[j] \in Past => at[j] \in Past
      BY <1>6, GotoNotPast DEF SkipWorking, Past
    <2> QED
      BY <1>6, <2>1, LayersStay DEF SkipWorking, destVars
  <1>7. CASE FindLayer(t, i) \/ LayerMissing(t, i) \/ Wake(t, i)
    <2>1. \A j \in Image : at'[j] \in Past => at[j] \in Past
      BY <1>7, GotoNotPast DEF FindLayer, LayerMissing, Wake, Past
    <2> QED
      BY <1>7, <2>1, LayersStay DEF FindLayer, LayerMissing, Wake, destVars
  <1>8. CASE SubmitDownload(t, i) \/ DestinationThrows(t, i)
    <2>1. \A j \in Image : at'[j] \in Past => at[j] \in Past
      BY <1>8, GotoNotPast DEF SubmitDownload, DestinationThrows, Past
    <2> QED
      BY <1>8, <2>1, LayersStay DEF SubmitDownload, DestinationThrows, destVars
  <1> QED
    BY <1>1, <1>2, <1>3, <1>4, <1>5, <1>6, <1>7, <1>8

\* The order of layers and manifests is inductive, given the types.
LEMMA LayersInductive ==
  ASSUME CopyTypeOK, LayersInv, [Next]_vars
  PROVE  LayersInv'
  <1>1. CASE UNCHANGED copyVars
    BY <1>1, LayersStay DEF copyVars, destVars
  <1>2. CASE \E t \in Thread : ThreadStep(t)
    <2> PICK t \in Thread : ThreadStep(t)
      BY <1>2
    <2>1. CASE TagStep(t)
      <3> PICK g \in Tag : \/ CompareList(t, g) \/ SubmitImage(t, g) \/ ImagesReturned(t, g)
                           \/ PutManifestList(t, g) \/ ListThrows(t, g)
        BY <2>1 DEF TagStep
      <3>1. CASE SubmitImage(t, g)
        BY <1>1, <3>1 DEF SubmitImage
      <3>2. CASE ~SubmitImage(t, g)
        <4>1. g \notin Image
          BY CopyAssumption
        <4>2. PICK l : Goto(g, l)
          BY <3>2 DEF CompareList, ImagesReturned, PutManifestList, ListThrows
        <4>3. UNCHANGED <<layers, blobs, manifests>>
          BY <3>2 DEF CompareList, ImagesReturned, PutManifestList, ListThrows, destVars
        <4> QED
          BY <4>1, <4>2, <4>3, GotoNotPast, LayersStay
      <3> QED
        BY <3>1, <3>2
    <2>2. CASE DownloadStep(t)
      <3> PICK c \in Download : FetchLayer(t, c) \/ Finalize(t, c)
        BY <2>2 DEF DownloadStep
      <3>1. c[1] \in Image /\ c[2] \in Digest /\ c \notin Image
        BY DownloadFacts, CopyAssumption
      <3>2. PICK l : Goto(c, l)
        BY DEF FetchLayer, Finalize
      <3>3. blobs \subseteq blobs' /\ UNCHANGED <<layers, manifests>>
        BY <3>1, TransferFacts DEF FetchLayer, Finalize, destVars
      <3> QED
        BY <3>1, <3>2, <3>3, GotoNotPast, LayersStay
    <2>3. CASE PushDecided(t) \/ ReturnDone(t)
      BY <1>1, <2>3 DEF PushDecided, ReturnDone
    <2> QED
      BY <2>1, <2>2, <2>3, ImageStepKeepsLayers DEF ThreadStep
  <1> QED
    BY <1>1, <1>2 DEF Next, WorkerLoop, MainStep, SubmitTag, ReturnMain, Terminated, vars

LEMMA LayersInitially == Init => LayersInv
  <1> SUFFICES ASSUME Init PROVE LayersInv
    OBVIOUS
  <1>1. \A i \in Image : at[i] = "compare"
    BY CopyAssumption DEF Init, Task
  <1> QED
    BY <1>1 DEF Init, LayersInv, MissingLayersListed, ManifestsHaveLayers,
       LayersStoredBeforeManifest

\* An image that has got past its layers has them all at the destination: for
\* every catalogue, however many images share a layer, however often a registry
\* denies a blob it has and whatever fails, putManifest never meets a missing layer.
THEOREM LayersComeFirst == SafeSpec => []LayersStoredBeforeManifest
  <1>1. LayersInv => LayersStoredBeforeManifest
    BY DEF LayersInv
  <1> QED
    BY <1>1, LayersInitially, CopyTypesInitially, CopyTypesInductive, LayersInductive, PTL DEF SafeSpec

-----------------------------------------------------------------------------
(* The pool's own theorems, for the tasks of the copy. *)

Proved == INSTANCE TaskPoolProofs

\* The tasks of a sync are a tree of tasks as the pool assumes one.
LEMMA CopyIsATreeOfTasks ==
  /\ Proved!IsFiniteSet(Worker) /\ Worker # {}
  /\ Client \notin Worker
  /\ Main \in Task
  /\ Parent \in [Task \ {Main} -> Task]
  /\ Joins \subseteq Task
  /\ BackgroundTask \subseteq {c \in Task \ {Main} : Parent[c] = Main}
  <1>1. Parent \in [Task \ {Main} -> Task]
    BY DownloadFacts, CopyAssumption DEF Parent, Task
  <1>2. \A c \in Tag : Parent[c] = Main
    BY CopyAssumption DEF Parent, Task
  <1>3. Proved!IsFiniteSet(Worker)
    BY CopyAssumption DEF Proved!IsFiniteSet, IsFiniteSet
  <1> QED
    BY <1>1, <1>2, <1>3, CopyAssumption DEF Task, Joins, BackgroundTask

\* Two instances of one module say the same.
LEMMA SamePool ==
  /\ Pool!Init <=> Proved!Init
  /\ [Pool!Next]_(Pool!poolVars) <=> [Proved!Next]_(Proved!poolVars)
  /\ Pool!TypeOK <=> Proved!TypeOK
  /\ Pool!NeverAllStuck <=> Proved!NeverAllStuck
  <1> USE DEF Pool!Thread, Proved!Thread, Pool!Kids, Proved!Kids, Pool!Pending, Proved!Pending
  <1>1. Pool!Init <=> Proved!Init
    BY DEF Pool!Init, Proved!Init, Pool!Cardinality, Proved!Cardinality
  <1>2. Pool!Next <=> Proved!Next
    BY DEF Pool!Next, Proved!Next, Pool!Submit, Proved!Submit, Pool!Background, Proved!Background,
       Pool!ExecuteFoundIdle, Proved!ExecuteFoundIdle, Pool!PushForeground, Proved!PushForeground,
       Pool!ExecuteInline, Proved!ExecuteInline, Pool!CanSubmit, Proved!CanSubmit,
       Pool!Return, Proved!Return, Pool!Pop, Proved!Pop, Pool!PopForeground, Proved!PopForeground,
       Pool!PopBackground, Proved!PopBackground, Pool!Begin, Proved!Begin, Pool!End, Proved!End,
       Pool!Terminated, Proved!Terminated, Pool!poolVars, Proved!poolVars
  <1>3. Pool!TypeOK <=> Proved!TypeOK
    BY DEF Pool!TypeOK, Proved!TypeOK, Pool!Mode, Proved!Mode, Pool!Status, Proved!Status
  <1>4. Pool!NeverAllStuck <=> Proved!NeverAllStuck
    BY DEF Pool!NeverAllStuck, Proved!NeverAllStuck, Pool!Stuck, Proved!Stuck
  <1> QED
    BY <1>1, <1>2, <1>3, <1>4 DEF Pool!poolVars, Proved!poolVars

\* To the pool a mirroring run is a run of the pool.
LEMMA CopyRunsThePool == SafeSpec => Proved!SafeSpec
  <1>1. Init => Proved!Init
    BY SamePool DEF Init
  <1>2. [Next]_vars => [Proved!Next]_(Proved!poolVars)
    BY StepOfPool, SamePool
  <1> QED
    BY <1>1, <1>2, PTL DEF SafeSpec, Proved!SafeSpec

\* The state of a mirroring run has its types.
THEOREM CopyTypeCorrect == SafeSpec => []TypeOK
  <1>1. Proved!SafeSpec => []Proved!TypeOK
    BY CopyIsATreeOfTasks, Proved!TypeCorrect
  <1>2. Proved!TypeOK /\ CopyTypeOK => TypeOK
    BY SamePool DEF TypeOK
  <1> QED
    BY <1>1, <1>2, CopyRunsThePool, CopyTypesInitially, CopyTypesInductive, PTL DEF SafeSpec

\* Whatever Sync and Copy run on it, the workers of the pool are never all
\* waiting for tasks of their own that others must run.
THEOREM CopyNeverAllStuck == SafeSpec => []Pool!NeverAllStuck
  <1>1. Proved!SafeSpec => []Proved!NeverAllStuck
    BY CopyIsATreeOfTasks, Proved!PoolNeverWedges
  <1> QED
    BY <1>1, CopyRunsThePool, SamePool, PTL

-----------------------------------------------------------------------------
(* What is reported as completed is at the destination.                      *)

\* What a step must not do, for what is reported to be there.
LEMMA WrittenFrame ==
  ASSUME WrittenInv, OverWhenDone',
         blobs \subseteq blobs', dirs \subseteq dirs', manifests \subseteq manifests',
         \A d \in blobs' \ blobs : \E j \in Image : j \in dirs' /\ d \in BlobsOf(j),
         \A i \in manifests' \ manifests : BlobsOf(i) \subseteq blobs,
         faults' = 0 =>
           /\ faults = 0
           /\ \A i \in Image : at'[i] = "put" => at[i] = "put" \/ BlobsOf(i) \subseteq blobs'
           /\ \A i \in Image : at'[i] = "done" => at[i] = "done" \/ i \in manifests'
           /\ \A g \in Tag : at'[g] = "put" => at[g] = "put" \/ ImagesOf(g) \subseteq manifests
           /\ \A g \in lists' \ lists : ImagesOf(g) \subseteq manifests'
           /\ completed' \subseteq lists'
  PROVE  WrittenInv'
  <1>1. DirectoriesMade'
    <2> SUFFICES ASSUME DirDestination, NEW i \in Image, OwnBlobs(i) \subseteq blobs'
                 PROVE  i \in dirs'
      BY DEF DirectoriesMade, OwnBlobs, BlobsOf
    <2>1. CASE OwnBlobs(i) \subseteq blobs
      BY <2>1 DEF WrittenInv, DirectoriesMade
    <2>2. CASE ~(OwnBlobs(i) \subseteq blobs)
      <3>1. PICK d \in OwnBlobs(i) : d \in blobs' \ blobs
        BY <2>2
      <3>2. PICK j \in Image : j \in dirs' /\ d \in BlobsOf(j)
        BY <3>1
      <3>3. j = i
        BY <3>1, <3>2 DEF OwnBlobs
      <3> QED
        BY <3>2, <3>3
    <2> QED
      BY <2>1, <2>2
  <1>2. ManifestsHaveBlobs'
    BY DEF WrittenInv, ManifestsHaveBlobs, BlobsOf
  <1>3. faults' = 0 => ImagesWritten' /\ ListsComplete' /\ completed' \subseteq lists'
    BY DEF WrittenInv, ImagesWritten, ListsComplete, BlobsOf, ImagesOf
  <1>4. faults' = 0 => ListsHaveManifests'
    BY DEF WrittenInv, ListsHaveManifests, ImagesOf
  <1> QED
    BY <1>1, <1>2, <1>3, <1>4 DEF WrittenInv

\* A task that is over stays over, if no step runs a body past its end and only
\* a body at its end returns.
LEMMA OverStays ==
  ASSUME CopyTypeOK, OverWhenDone,
         \A p \in Task \ {Main} : status'[p] = "done" => status[p] = "done",
         at' = at \/ \E p, l : Goto(p, l) /\ at[p] # "done"
  PROVE  OverWhenDone'
  BY DEF OverWhenDone, Goto, CopyTypeOK

\* A submission ends nothing.
LEMMA ExecuteEndsNothing ==
  ASSUME Pool!TypeOK, NEW t, NEW c \in Task \ {Main}, Execute(t, c)
  PROVE  \A p \in Task \ {Main} : status'[p] = "done" => status[p] = "done"
  BY DEF Execute, Pool!ExecuteFoundIdle, Pool!ExecuteInline, Pool!TypeOK

\* Where a step that moves task p to l leaves the others.
LEMMA GotoElsewhere ==
  ASSUME CopyTypeOK, NEW p \in Task \ {Main}, NEW l, Goto(p, l)
  PROVE  /\ at'[p] = l
         /\ \A q \in Task \ {Main} : q # p => at'[q] = at[q]
         /\ \A i \in Image : i \in Task \ {Main}
         /\ \A g \in Tag : g \in Task \ {Main}
  BY CopyAssumption DEF Goto, CopyTypeOK, Task

\* A step that stores nothing and reports nothing.
LEMMA NothingStored ==
  ASSUME CopyTypeOK, WrittenInv, OverWhenDone', UNCHANGED <<destVars, completed>>,
         NEW p \in Task \ {Main}, NEW l, Goto(p, l),
         faults' = 0 =>
           /\ faults = 0
           /\ p \in Image => /\ l = "put" => BlobsOf(p) \subseteq blobs
                             /\ l = "done" => p \in manifests
           /\ p \in Tag /\ l = "put" => ImagesOf(p) \subseteq manifests
  PROVE  WrittenInv'
  <1>1. /\ at'[p] = l
        /\ \A i \in Image : i # p => at'[i] = at[i]
        /\ \A g \in Tag : g # p => at'[g] = at[g]
    BY GotoElsewhere
  <1>2. blobs' = blobs /\ dirs' = dirs /\ manifests' = manifests /\ lists' = lists
    BY DEF destVars
  <1>3. faults' = 0 => completed' \subseteq lists'
    BY <1>2 DEF WrittenInv
  <1> QED
    BY <1>1, <1>2, <1>3, WrittenFrame

\* A failure is counted.
LEMMA AnswersCounted ==
  ASSUME faults \in Nat, NEW truth, NEW answer \in Answers(truth), CountFault(truth, answer)
  PROVE  faults' = 0 => faults = 0 /\ answer = truth
  <1>1. CASE answer = truth
    BY <1>1 DEF CountFault
  <1>2. CASE answer # truth
    <2>1. answer = FALSE
      BY <1>2, Zenon DEF Answers
    <2>2. faults' = faults + 1
      BY <1>2, Zenon DEF CountFault
    <2> QED
      BY <2>1, <2>2
  <1> QED
    BY <1>1, <1>2

LEMMA FaultCounted ==
  ASSUME faults \in Nat, Fault
  PROVE  faults' # 0
  BY DEF Fault

\* Main and the steps of the pool move no body.
LEMMA PoolKeepsWritten ==
  ASSUME Pool!TypeOK, CopyTypeOK, WrittenInv, UNCHANGED copyVars,
         \A p \in Task \ {Main} : status'[p] = "done" => status[p] = "done" \/ at[p] = "done"
  PROVE  WrittenInv'
  <1>1. UNCHANGED <<at, blobs, dirs, manifests, lists, completed, faults>>
    BY DEF copyVars, destVars
  <1>2. OverWhenDone'
    BY <1>1 DEF WrittenInv, OverWhenDone
  <1> QED
    BY <1>1, <1>2, WrittenFrame DEF WrittenInv

LEMMA TagKeepsWritten ==
  ASSUME Pool!TypeOK, CopyTypeOK, WrittenInv, NEW t \in Thread, TagStep(t)
  PROVE  WrittenInv'
  <1> PICK g \in Tag : \/ CompareList(t, g) \/ SubmitImage(t, g) \/ ImagesReturned(t, g)
                       \/ PutManifestList(t, g) \/ ListThrows(t, g)
    BY DEF TagStep
  <1>1. g \in Task \ {Main} /\ g \notin Image /\ faults \in Nat /\ at[g] # "done"
    BY CopyAssumption DEF Task, CopyTypeOK, CompareList, SubmitImage, ImagesReturned,
       PutManifestList, ListThrows
  <1>2. CASE SubmitImage(t, g)
    <2> PICK i \in ImagesOf(g) : Execute(t, i)
      BY <1>2 DEF SubmitImage
    <2>1. i \in Task \ {Main}
      BY CopyAssumption DEF ImagesOf, Task
    <2> QED
      BY <1>2, <2>1, ExecuteEndsNothing, PoolKeepsWritten DEF SubmitImage
  <1>3. ASSUME NEW l, Goto(g, l), UNCHANGED poolVars
        PROVE  OverWhenDone'
    BY <1>1, <1>3, OverStays DEF poolVars, WrittenInv
  <1>4. CASE CompareList(t, g)
    <2> PICK same \in Answers(g \in lists) :
          /\ Goto(g, IF same \/ ImagesOf(g) = {} THEN "done" ELSE "submit")
          /\ CountFault(g \in lists, same)
      BY <1>4 DEF CompareList
    <2>1. faults' = 0 => faults = 0
      BY <1>1, AnswersCounted, Zenon
    <2>2. PICK l \in {"done", "submit"} : Goto(g, l)
      OBVIOUS
    <2> QED
      BY <1>1, <1>3, <1>4, <2>1, <2>2, NothingStored DEF CompareList
  <1>5. CASE ImagesReturned(t, g)
    <2>1. faults = 0 => ImagesOf(g) \subseteq manifests
      <3> SUFFICES ASSUME faults = 0, NEW i \in ImagesOf(g) PROVE i \in manifests
        OBVIOUS
      <3>1. i \in Image /\ i \in Task \ {Main} /\ status[i] = "done"
        BY <1>5, CopyAssumption DEF ImagesReturned, ImagesOf, Task
      <3> QED
        BY <3>1 DEF WrittenInv, OverWhenDone, ImagesWritten
    <2> QED
      BY <1>1, <1>3, <1>5, <2>1, NothingStored DEF ImagesReturned
  <1>6. CASE PutManifestList(t, g)
    <2> DEFINE due == ImagesOf(g) \subseteq manifests
    <2> PICK accepted \in Answers(due) :
          /\ lists' = IF accepted THEN lists \cup {g} ELSE lists
          /\ CountFault(due, accepted)
      BY <1>6 DEF PutManifestList
    <2>1. due \in BOOLEAN
      OBVIOUS
    <2>2. at[g] = "put" /\ Goto(g, "done") /\ completed' = completed \cup {g}
      BY <1>6 DEF PutManifestList
    <2>3. faults = 0 => due
      BY <2>2 DEF WrittenInv, ListsComplete
    <2> HIDE DEF due
    <2>4. faults' = 0 => faults = 0 /\ accepted = due
      BY <1>1, <2>1, AnswersCounted, Zenon
    <2>5. faults' = 0 => completed' \subseteq lists'
      BY <2>2, <2>3, <2>4 DEF WrittenInv
    <2>6. lists \subseteq lists' /\ UNCHANGED <<blobs, dirs, manifests>>
      BY <1>6 DEF PutManifestList
    <2>7. faults' = 0 => \A h \in lists' \ lists : ImagesOf(h) \subseteq manifests'
      <3> SUFFICES ASSUME faults' = 0, NEW h \in lists', h \notin lists
                   PROVE  ImagesOf(h) \subseteq manifests'
        OBVIOUS
      <3>1. h = g /\ due
        BY <2>3, <2>4
      <3> QED
        BY <2>6, <3>1 DEF due
    <2>8. OverWhenDone'
      BY <1>3, <1>6, <2>2 DEF PutManifestList
    <2>9. /\ at'[g] = "done" /\ \A i \in Image : at'[i] = at[i]
          /\ \A h \in Tag : h # g => at'[h] = at[h]
      BY <1>1, <2>2, GotoElsewhere
    <2> QED
      BY <2>4, <2>5, <2>6, <2>7, <2>8, <2>9, WrittenFrame
  <1>7. CASE ListThrows(t, g)
    <2>1. faults' # 0
      BY <1>1, <1>7, FaultCounted DEF ListThrows
    <2> QED
      BY <1>1, <1>3, <1>7, <2>1, NothingStored DEF ListThrows
  <1> QED
    BY <1>2, <1>4, <1>5, <1>6, <1>7

\* putBlob makes the directory of the image it stores a blob for.
LEMMA TransferStores ==
  ASSUME CopyTypeOK, NEW i \in Image, NEW d \in BlobsOf(i), Transfer(i, d)
  PROVE  /\ blobs \subseteq blobs' /\ dirs \subseteq dirs'
         /\ \A e \in blobs' \ blobs : \E j \in Image : j \in dirs' /\ e \in BlobsOf(j)
         /\ faults' = 0 => faults = 0 /\ d \in blobs'
         /\ faults' # faults => faults' # 0
  <1>1. faults \in Nat
    BY CopyAssumption DEF CopyTypeOK
  <1>2. CASE Store(i, d)
    BY <1>1, <1>2, FaultCounted DEF Store, Transfer
  <1>3. CASE ~Store(i, d)
    BY <1>1, <1>3, FaultCounted DEF Transfer
  <1> QED
    BY <1>2, <1>3

\* Of an image's steps, those that store nothing and submit nothing.
LEMMA ImageKeepsWritten ==
  ASSUME CopyTypeOK, LayersInv, WrittenInv, NEW t \in Thread, NEW i \in Image,
         \/ CompareManifest(t, i) \/ SkipWorking(t, i) \/ FindLayer(t, i)
         \/ LayerPresent(t, i) \/ LayerMissing(t, i) \/ Wake(t, i)
         \/ ConfigPresent(t, i) \/ ConfigMissing(t, i) \/ DestinationThrows(t, i)
  PROVE  WrittenInv'
  <1>0. at[i] # "done"
    BY DEF CompareManifest, SkipWorking, FindLayer, LayerPresent,
       LayerMissing, Wake, ConfigPresent, ConfigMissing, DestinationThrows
  <1>1. i \in Task \ {Main} /\ i \notin Tag /\ faults \in Nat
    BY CopyAssumption DEF Task, CopyTypeOK
  <1>2. UNCHANGED <<poolVars, destVars, completed>>
    BY DEF CompareManifest, SkipWorking, FindLayer, LayerPresent,
       LayerMissing, Wake, ConfigPresent, ConfigMissing, DestinationThrows
  <1>3. ASSUME NEW l, Goto(i, l)
        PROVE  OverWhenDone'
    BY <1>0, <1>2, <1>3, OverStays DEF poolVars, WrittenInv
  <1>4. CASE CompareManifest(t, i)
    <2> PICK same \in Answers(i \in manifests) :
          /\ Goto(i, IF same THEN "put" ELSE IF layers[i] = <<>> THEN "config" ELSE "find")
          /\ CountFault(i \in manifests, same)
      BY <1>4 DEF CompareManifest
    <2>0. faults' = 0 => faults = 0
      BY <1>1, AnswersCounted, Zenon
    <2>1. same => i \in manifests
      BY DEF Answers
    <2>2. PICK l \in {"put", "config", "find"} : Goto(i, l) /\ (l = "put" => i \in manifests)
      <3>1. CASE same
        BY <2>1, <3>1
      <3>2. CASE ~same
        BY <3>2
      <3> QED
        BY <3>1, <3>2
    <2>3. l = "put" => BlobsOf(i) \subseteq blobs
      BY <2>2 DEF WrittenInv, ManifestsHaveBlobs
    <2> QED
      BY <1>1, <1>2, <1>3, <2>0, <2>2, <2>3, NothingStored
  <1>5. CASE SkipWorking(t, i)
    <2>1. CASE at' = at
      <3>1. UNCHANGED <<status, blobs, dirs, manifests, lists, completed, faults>>
        BY <1>2, <1>5 DEF SkipWorking, poolVars, destVars
      <3>2. OverWhenDone'
        BY <2>1, <3>1 DEF WrittenInv, OverWhenDone
      <3> QED
        BY <2>1, <3>1, <3>2, WrittenFrame DEF WrittenInv
    <2>2. CASE Goto(i, "wait")
      BY <1>1, <1>2, <1>3, <1>5, <2>2, NothingStored DEF SkipWorking
    <2> QED
      BY <1>5, <2>1, <2>2 DEF SkipWorking
  <1>6. CASE FindLayer(t, i)
    <2> DEFINE d == layers[i][itr[i]]
    <2> PICK present \in Answers(d \in blobs) : CountFault(d \in blobs, present)
      BY <1>6 DEF FindLayer
    <2>1. faults' = 0 => faults = 0
      BY <1>1, AnswersCounted, Zenon
    <2> QED
      BY <1>1, <1>2, <1>3, <1>6, <2>1, NothingStored DEF FindLayer
  <1>7. CASE LayerPresent(t, i)
    <2>1. PICK l \in {"config", "find"} : Goto(i, l)
      BY <1>7 DEF LayerPresent
    <2> QED
      BY <1>1, <1>2, <1>3, <1>7, <2>1, NothingStored DEF LayerPresent
  <1>8. CASE LayerMissing(t, i)
    <2>1. faults' = 0 => faults = 0
      BY <1>1, <1>8, AnswersCounted, Zenon DEF LayerMissing
    <2> QED
      BY <1>1, <1>2, <1>3, <1>8, <2>1, NothingStored DEF LayerMissing
  <1>9. CASE Wake(t, i)
    BY <1>1, <1>2, <1>3, <1>9, NothingStored DEF Wake
  <1>10. CASE ConfigPresent(t, i)
    <2>1. BlobsOf(i) \subseteq blobs
      BY <1>10 DEF ConfigPresent, BlobsOf, LayersInv, LayersStoredBeforeManifest
    <2> QED
      BY <1>1, <1>2, <1>3, <1>10, <2>1, NothingStored DEF ConfigPresent
  <1>11. CASE ConfigMissing(t, i)
    <2>1. faults' = 0 => faults = 0
      BY <1>1, <1>11, AnswersCounted, Zenon DEF ConfigMissing
    <2> QED
      BY <1>1, <1>2, <1>3, <1>11, <2>1, NothingStored DEF ConfigMissing
  <1>12. CASE DestinationThrows(t, i)
    <2>1. faults' # 0
      BY <1>1, <1>12, FaultCounted DEF DestinationThrows
    <2> QED
      BY <1>1, <1>2, <1>3, <1>12, <2>1, NothingStored DEF DestinationThrows
  <1> QED
    BY <1>4, <1>5, <1>6, <1>7, <1>8, <1>9, <1>10, <1>11, <1>12

\* The steps of an image that store, or submit a download.
LEMMA ImageStoresWritten ==
  ASSUME Pool!TypeOK, CopyTypeOK, LayersInv, WrittenInv, NEW t \in Thread, NEW i \in Image,
         SubmitDownload(t, i) \/ FetchConfig(t, i) \/ PutManifest(t, i)
  PROVE  WrittenInv'
  <1>1. i \in Task \ {Main} /\ i \notin Tag /\ faults \in Nat
    BY CopyAssumption DEF Task, CopyTypeOK
  <1>2. at[i] # "done"
    BY DEF SubmitDownload, FetchConfig, PutManifest
  <1>3. CASE SubmitDownload(t, i)
    <2> PICK n \in Attempt : Execute(t, <<i, layers[i][itr[i]], n>>)
      BY <1>3 DEF SubmitDownload
    <2>1. <<i, layers[i][itr[i]], n>> \in Task \ {Main}
      BY DEF Execute, Pool!ExecuteFoundIdle, Pool!ExecuteInline, Pool!CanSubmit, Pool!Kids
    <2>2. OverWhenDone'
      BY <1>2, <1>3, <2>1, ExecuteEndsNothing, OverStays DEF SubmitDownload, WrittenInv
    <2> QED
      BY <1>1, <1>3, <2>2, NothingStored DEF SubmitDownload
  <1>4. CASE FetchConfig(t, i)
    <2>1. PICK l \in {"put", "done"} : Goto(i, l) /\ (l = "done" => faults' # faults)
      BY <1>4 DEF FetchConfig
    <2>2. OverWhenDone'
      BY <1>2, <1>4, <2>1, OverStays DEF FetchConfig, poolVars, WrittenInv
    <2>3. /\ blobs \subseteq blobs' /\ dirs \subseteq dirs'
          /\ \A e \in blobs' \ blobs : \E j \in Image : j \in dirs' /\ e \in BlobsOf(j)
          /\ faults' = 0 => faults = 0 /\ ConfigOf[i] \in blobs'
          /\ faults' # faults => faults' # 0
      <3>1. ConfigOf[i] \in BlobsOf(i)
        BY DEF BlobsOf
      <3> QED
        BY <1>4, <3>1, TransferStores DEF FetchConfig
    <2>4. Range(LayersOf[i]) \subseteq blobs
      BY <1>4 DEF FetchConfig, LayersInv, LayersStoredBeforeManifest
    <2>5. faults' = 0 => BlobsOf(i) \subseteq blobs'
      BY <2>3, <2>4 DEF BlobsOf
    <2>6. /\ at'[i] = l
          /\ \A j \in Image : j # i => at'[j] = at[j]
          /\ \A g \in Tag : at'[g] = at[g]
      BY <1>1, <2>1, GotoElsewhere
    <2>7. manifests' = manifests /\ lists' = lists /\ completed' = completed
      BY <1>4 DEF FetchConfig
    <2> QED
      BY <2>1, <2>2, <2>3, <2>5, <2>6, <2>7, WrittenFrame DEF WrittenInv
  <1>5. CASE PutManifest(t, i)
    <2>1. at[i] = "put" /\ Goto(i, "done") /\ UNCHANGED <<status, blobs, dirs, lists, completed, faults>>
      BY <1>5 DEF PutManifest, poolVars
    <2>2. OverWhenDone'
      BY <2>1, OverStays DEF WrittenInv
    <2>3. OwnBlobs(i) \subseteq BlobsOf(i)
      BY DEF OwnBlobs
    <2>4. faults = 0 => BlobsOf(i) \subseteq blobs /\ (DirDestination => i \in dirs)
      BY <2>1, <2>3 DEF WrittenInv, ImagesWritten, DirectoriesMade
    <2>5. /\ faults = 0 => i \in manifests'
          /\ manifests \subseteq manifests'
          /\ \A j \in manifests' \ manifests : BlobsOf(j) \subseteq blobs
      BY <1>5, <2>4 DEF PutManifest, BlobsOf
    <2>6. /\ at'[i] = "done"
          /\ \A j \in Image : j # i => at'[j] = at[j]
          /\ \A g \in Tag : at'[g] = at[g]
      BY <1>1, <2>1, GotoElsewhere
    <2> QED
      BY <2>1, <2>2, <2>5, <2>6, WrittenFrame DEF WrittenInv
  <1> QED
    BY <1>3, <1>4, <1>5

LEMMA DownloadKeepsWritten ==
  ASSUME CopyTypeOK, WrittenInv, NEW t \in Thread, DownloadStep(t)
  PROVE  WrittenInv'
  <1> PICK c \in Download : FetchLayer(t, c) \/ Finalize(t, c)
    BY DEF DownloadStep
  <1>1. /\ c \in Task \ {Main} /\ c \notin Image /\ c \notin Tag
        /\ c[1] \in Image /\ c[2] \in BlobsOf(c[1])
    <2> PICK i \in Image : c \in {<<i, d, n>> : d \in Range(LayersOf[i]), n \in Attempt}
      BY DEF Download
    <2> PICK d \in Range(LayersOf[i]), n \in Attempt : c = <<i, d, n>>
      OBVIOUS
    <2> QED
      BY DownloadFacts, CopyAssumption DEF BlobsOf
  <1>2. CASE FetchLayer(t, c)
    <2>1. at[c] # "done" /\ Goto(c, "finalize") /\ UNCHANGED <<status, manifests, lists, completed>>
      BY <1>2 DEF FetchLayer, poolVars
    <2>2. OverWhenDone'
      BY <2>1, OverStays DEF WrittenInv
    <2>3. /\ blobs \subseteq blobs' /\ dirs \subseteq dirs'
          /\ \A e \in blobs' \ blobs : \E j \in Image : j \in dirs' /\ e \in BlobsOf(j)
          /\ faults' = 0 => faults = 0
      BY <1>1, <1>2, TransferStores DEF FetchLayer
    <2>4. /\ \A j \in Image : at'[j] = at[j]
          /\ \A g \in Tag : at'[g] = at[g]
      BY <1>1, <2>1, GotoElsewhere
    <2> QED
      BY <2>1, <2>2, <2>3, <2>4, WrittenFrame DEF WrittenInv
  <1>3. CASE Finalize(t, c)
    <2>1. at[c] # "done" /\ Goto(c, "done")
          /\ UNCHANGED <<status, destVars, completed, faults>>
      BY <1>3 DEF Finalize, poolVars
    <2>2. OverWhenDone'
      BY <2>1, OverStays DEF WrittenInv
    <2> QED
      BY <1>1, <2>1, <2>2, NothingStored
  <1> QED
    BY <1>2, <1>3

\* A worker's loop, a decided push and a return end only what is over.
LEMMA LoopKeepsWritten ==
  ASSUME Pool!TypeOK, CopyTypeOK, WrittenInv,
         \/ \E w \in Worker : WorkerLoop(w)
         \/ \E t \in Thread : PushDecided(t) \/ ReturnDone(t)
         \/ MainStep \/ Terminated
  PROVE  WrittenInv'
  <1>1. UNCHANGED copyVars
    BY DEF WorkerLoop, PushDecided, ReturnDone, MainStep, SubmitTag, ReturnMain, Terminated
  <1>2. ASSUME NEW p \in Task \ {Main}, status'[p] = "done"
        PROVE  status[p] = "done" \/ at[p] = "done"
    <2> status \in [Task -> Pool!Status]
      BY DEF Pool!TypeOK
    <2>1. CASE \E w \in Worker : WorkerLoop(w)
      BY <1>2, <2>1 DEF WorkerLoop, Pool!Pop, Pool!PopForeground, Pool!PopBackground, Pool!Begin,
         Pool!End
    <2>2. CASE \E t \in Thread : PushDecided(t)
      BY <1>2, <2>2 DEF PushDecided, Pool!PushForeground
    <2>3. CASE \E t \in Thread : ReturnDone(t)
      BY <1>2, <2>3 DEF ReturnDone, Pool!Return
    <2>4. CASE MainStep
      BY <1>2, <2>4 DEF MainStep, SubmitTag, Pool!Background, ReturnMain, Pool!Return, Runs
    <2>5. CASE Terminated
      BY <1>2, <2>5 DEF Terminated, Pool!Terminated, Pool!poolVars
    <2> QED
      BY <2>1, <2>2, <2>3, <2>4, <2>5
  <1> QED
    BY <1>1, <1>2, PoolKeepsWritten

LEMMA WrittenInductive ==
  ASSUME Pool!TypeOK, CopyTypeOK, LayersInv, WrittenInv, [Next]_vars
  PROVE  WrittenInv'
  <1>1. CASE UNCHANGED vars
    BY <1>1, PoolKeepsWritten DEF vars, poolVars
  <1>2. CASE \E t \in Thread : ThreadStep(t)
    <2> PICK t \in Thread : ThreadStep(t)
      BY <1>2
    <2>1. CASE ImageStep(t)
      BY <2>1, ImageKeepsWritten, ImageStoresWritten DEF ImageStep
    <2> QED
      BY <2>1, TagKeepsWritten, DownloadKeepsWritten, LoopKeepsWritten DEF ThreadStep
  <1> QED
    BY <1>1, <1>2, LoopKeepsWritten DEF Next

\* The tag that "completed ManifestList for" names is at the destination if no
\* call has failed, for every catalogue and every interleaving.  A registry takes
\* any image; a Dir must be able to tell from the blobs that it lacks an image,
\* that is, each image it does not hold at the start has a blob to bring.
THEOREM CompletedIsWritten == SafeSpec /\ ImagesBringBlobs => []CompletedMeansWritten
  <1>1. Init /\ ImagesBringBlobs => WrittenInv
    <2> SUFFICES ASSUME Init, ImagesBringBlobs PROVE WrittenInv
      OBVIOUS
    <2>1. /\ \A p \in Task \ {Main} : at[p] \in {"fetch", "compare"} /\ status[p] = "new"
          /\ \A i \in Image : i \in Task \ {Main}
          /\ \A g \in Tag : g \in Task \ {Main}
      BY CopyAssumption DEF Init, Pool!Init, Task
    <2>2. DirectoriesMade
      BY DEF Init, ImagesBringBlobs, DirectoriesMade
    <2>3. ManifestsHaveBlobs
      BY DEF Init, ManifestsHaveBlobs, BlobsOf
    <2> QED
      BY <2>1, <2>2, <2>3
         DEF Init, WrittenInv, OverWhenDone, ImagesWritten, ListsComplete, ListsHaveManifests
  <1>2. WrittenInv => CompletedMeansWritten
    BY DEF WrittenInv, ListsHaveManifests, ManifestsHaveBlobs, CompletedMeansWritten, ImagesOf
  <1>3. TypeOK => Pool!TypeOK /\ CopyTypeOK
    BY DEF TypeOK
  <1>4. Init => LayersInv
    BY LayersInitially
  <1> QED
    BY <1>1, <1>2, <1>3, <1>4, CopyTypeCorrect, LayersInductive, WrittenInductive, PTL DEF SafeSpec

=============================================================================
