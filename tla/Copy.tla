-------------------------------- MODULE Copy --------------------------------
(* OCI::Copy (src/src/lib/OCI/Copy.cpp) mirroring tags to a destination on   *)
(* the thread pool it shares with OCI::Sync (src/src/lib/OCI/Sync.cpp).      *)
(*                                                                           *)
(* Main submits the tags and joins them (Sync::repoSync; the repository and  *)
(* its Sync::execute are folded into the tag).  A tag is Copy::execute of a  *)
(* ManifestList: it executes its images and joins them.  An image is         *)
(* Copy::execute of an ImageManifest: it executes the download of each       *)
(* missing layer and does not join it, but polls the destination until no    *)
(* layer is missing.  working_digests_ keeps two images from downloading one *)
(* layer at the same time.                                                   *)
(*                                                                           *)
(* An image is a manifest under one tag: two tags naming the same manifest   *)
(* are two images with the same layers and configuration.                    *)
EXTENDS Naturals, Sequences, FiniteSets, SequencesExt

CONSTANTS
  Worker, Client, Main,
  Tag, Image, Digest,
  TagOf,          \* the tag of an image
  LayersOf,       \* the layers of an image, a sequence of digests
  ConfigOf,       \* the digest of its configuration blob
  InitialBlob,    \* the blobs that may be at the destination beforehand
  DirDestination, \* the destination is a Dir, which answers hasBlob exactly; else a registry
  MaxFaults       \* bound: how many calls to source or destination may fail

Attempt == 1 .. MaxFaults + 1

\* The n-th download that image i submits for layer d.
Download == UNION {{<<i, d, n>> : d \in Range(LayersOf[i]), n \in Attempt} : i \in Image}

Task == {Main} \cup Tag \cup Image \cup Download
Joins == {Main} \cup Tag
BackgroundTask == Tag
Parent == [c \in Task \ {Main} |->
  CASE c \in Tag -> Main
    [] c \in Image -> TagOf[c]
    [] OTHER -> c[1]]

ASSUME CopyAssumption ==
  /\ IsFiniteSet(Worker) /\ Worker # {}
  /\ Client \notin Worker
  /\ Main \notin Tag \cup Image \cup Download
  /\ Tag \cap Image = {} /\ Download \cap (Tag \cup Image) = {}
  /\ TagOf \in [Image -> Tag]
  /\ LayersOf \in [Image -> Seq(Digest)]
  /\ ConfigOf \in [Image -> Digest]
  /\ InitialBlob \subseteq Digest
  /\ DirDestination \in BOOLEAN
  /\ MaxFaults \in Nat

VARIABLES
  fg_funcs, bg_funcs, idle, stack, mode, status,  \* the pool, as in TaskPool
  working_digests,  \* working_digests_, guarded by wd_mutex_
  layers,           \* layers[i]: the layers image i has not yet seen at the destination
  itr,              \* itr[i]: where find_if, or layer_itr, stands in layers[i]
  at,               \* at[p]: where task p stands in its body: see Location
  blobs,            \* the destination: its blobs,
  dirs,             \*   the image directories that exist (of a Dir),
  manifests,        \*   the images whose manifest it holds,
  lists,            \*   the tags whose manifest list it holds
  completed,        \* tags reported with "completed ManifestList"
  faults            \* how many calls have failed

Pool == INSTANCE TaskPool

poolVars == <<fg_funcs, bg_funcs, idle, stack, mode, status>>
destVars == <<blobs, dirs, manifests, lists>>
copyVars == <<working_digests, layers, itr, at, destVars, completed, faults>>
vars == <<poolVars, copyVars>>

Thread == Worker \cup {Client}

\* Of a tag:      compare, submit, put, done
\* Of an image:   compare, find, found, get, wait, config, fetch, put, done
\* Of a download: fetch, finalize, done
Location == {"compare", "submit", "put", "done", "find", "found", "get", "wait", "config",
             "fetch", "finalize"}

CopyTypeOK ==
  /\ working_digests \subseteq Digest
  /\ layers \in [Image -> Seq(Digest)]
  /\ itr \in [Image -> Nat]
  /\ at \in [Task \ {Main} -> Location]
  /\ \A i \in Image :
       /\ at[i] \in {"find", "found", "get", "wait"} => itr[i] \in DOMAIN layers[i]
       /\ at[i] \in {"compare", "wait"} => itr[i] = 1
  /\ blobs \subseteq Digest
  /\ dirs \subseteq Image
  /\ manifests \subseteq Image
  /\ lists \subseteq Tag
  /\ completed \subseteq Tag
  /\ faults \in 0 .. MaxFaults

TypeOK == Pool!TypeOK /\ CopyTypeOK

ImagesOf(g) == {i \in Image : TagOf[i] = g}

\* The destination may hold what earlier syncs have left there.
Init ==
  /\ Pool!Init
  /\ working_digests = {}
  /\ layers = LayersOf
  /\ itr = [i \in Image |-> 1]
  /\ at = [c \in Task \ {Main} |-> IF c \in Download THEN "fetch" ELSE "compare"]
  /\ blobs \in SUBSET InitialBlob
  /\ manifests \in SUBSET {i \in Image : Range(LayersOf[i]) \cup {ConfigOf[i]} \subseteq blobs}
  /\ lists \in SUBSET {g \in Tag : ImagesOf(g) \subseteq manifests}
  /\ dirs = manifests /\ completed = {}
  /\ faults = 0

-----------------------------------------------------------------------------
(* The thread pool.  A step of the pool leaves the copy alone, except that a *)
(* body submits only what its code calls for.                                *)

\* t executes the body of p.
Runs(t, p) == mode[t] = "body" /\ stack[t] # <<>> /\ Head(stack[t]) = p

Goto(p, l) == at' = [at EXCEPT ![p] = l]

\* stm_->execute( c ): decide, then push or run inline.
Execute(t, c) == Pool!ExecuteFoundIdle(t, c) \/ Pool!ExecuteInline(t, c)

PushDecided(t) == (\E c \in Task \ {Main} : Pool!PushForeground(t, c)) /\ UNCHANGED copyVars

WorkerLoop(w) == (Pool!Pop(w) \/ Pool!Begin(w) \/ Pool!End(w)) /\ UNCHANGED copyVars

\* A body that has come to its end returns.
ReturnDone(t) ==
  /\ stack[t] # <<>> /\ Head(stack[t]) # Main
  /\ at[Head(stack[t])] = "done"
  /\ Pool!Return(t)
  /\ UNCHANGED copyVars

\* A call to source or destination fails, if the bound allows another failure.
Fault == faults < MaxFaults /\ faults' = faults + 1

\* What the destination may answer where a positive answer is due iff truth: a
\* Dir looks at its files; a registry may also answer with an error status, as
\* one of the bounded faults.
Answers(truth) == {truth} \cup IF DirDestination \/ faults = MaxFaults THEN {} ELSE {FALSE}

CountFault(truth, answer) == faults' = IF answer = truth THEN faults ELSE faults + 1

-----------------------------------------------------------------------------
(* Mutants: each is one of the operations below with a plausible bug in it.  *)

\* The images are not waited for before the list is written.
ImagesSubmitted(t, g) ==
  /\ Runs(t, g) /\ at[g] = "submit"
  /\ \A i \in Image : TagOf[i] = g => status[i] # "new"
  /\ Goto(g, "put")
  /\ UNCHANGED <<poolVars, working_digests, layers, itr, destVars, completed, faults>>

\* The loop over the layers ends when all that are left are being downloaded.
SkipWorkingToEnd(t, i) ==
  /\ Runs(t, i) /\ at[i] = "find"
  /\ layers[i][itr[i]] \in working_digests
  /\ IF itr[i] < Len(layers[i])
     THEN itr' = [itr EXCEPT ![i] = itr[i] + 1] /\ at' = at
     ELSE itr' = [itr EXCEPT ![i] = 1] /\ Goto(i, "config")
  /\ UNCHANGED <<poolVars, working_digests, layers, destVars, completed, faults>>

\* A layer that is there is taken for done, though its download is not.
SkipWorkingThere(t, i) ==
  /\ Runs(t, i) /\ at[i] = "find"
  /\ layers[i][itr[i]] \in working_digests
  /\ IF layers[i][itr[i]] \in blobs
     THEN itr' = itr /\ Goto(i, "found")
     ELSE IF itr[i] < Len(layers[i])
     THEN itr' = [itr EXCEPT ![i] = itr[i] + 1] /\ at' = at
     ELSE itr' = [itr EXCEPT ![i] = 1] /\ Goto(i, "wait")
  /\ UNCHANGED <<poolVars, working_digests, layers, destVars, completed, faults>>

\* A missing layer is not claimed.
FindLayerUnclaimed(t, i) ==
  /\ Runs(t, i) /\ at[i] = "find"
  /\ layers[i][itr[i]] \notin working_digests
  /\ Goto(i, "found")
  /\ UNCHANGED <<poolVars, working_digests, layers, itr, destVars, completed, faults>>

\* The erased iterator is used again.
LayerPresentStale(t, i) ==
  LET rest == RemoveAt(layers[i], itr[i]) IN
  /\ Runs(t, i) /\ at[i] = "found"
  /\ layers[i][itr[i]] \in blobs
  /\ layers' = [layers EXCEPT ![i] = rest]
  /\ Goto(i, IF rest = <<>> THEN "config" ELSE "find")
  /\ UNCHANGED <<poolVars, working_digests, itr, destVars, completed, faults>>

\* putBlob does not make the image's directory.
FetchConfigNoDirectory(t, i) ==
  /\ Runs(t, i) /\ at[i] = "fetch"
  /\ blobs' = blobs \cup {ConfigOf[i]}
  /\ Goto(i, "put")
  /\ UNCHANGED <<poolVars, working_digests, layers, itr, dirs, manifests, lists, completed, faults>>

\* The finalizer does not erase the digest.
FinalizeLeaves(t, c) ==
  /\ Runs(t, c) /\ at[c] = "finalize"
  /\ Goto(c, "done")
  /\ UNCHANGED <<poolVars, working_digests, layers, itr, destVars, completed, faults>>

-----------------------------------------------------------------------------
(* Sync::repoSync. *)

SubmitTag(g) == Pool!Background(Client, g) /\ UNCHANGED copyVars

ReturnMain ==
  /\ Runs(Client, Main)
  /\ \A g \in Tag : status[g] # "new"
  /\ Pool!Return(Client)
  /\ UNCHANGED copyVars

-----------------------------------------------------------------------------
(* Copy::execute of the manifest list of tag g. *)

CompareList(t, g) ==
  /\ Runs(t, g) /\ at[g] = "compare"
  /\ \E same \in Answers(g \in lists) :
       /\ Goto(g, IF same \/ ImagesOf(g) = {} THEN "done" ELSE "submit")
       /\ CountFault(g \in lists, same)
  /\ UNCHANGED <<poolVars, working_digests, layers, itr, destVars, completed>>

SubmitImage(t, g) ==
  /\ Runs(t, g) /\ at[g] = "submit"
  /\ \E i \in ImagesOf(g) : Execute(t, i)
  /\ UNCHANGED copyVars

\* thread_count has come down to zero
ImagesReturned(t, g) ==
  /\ Runs(t, g) /\ at[g] = "submit"
  /\ \A i \in ImagesOf(g) : status[i] = "done"
  /\ Goto(g, "put")
  /\ UNCHANGED <<poolVars, working_digests, layers, itr, destVars, completed, faults>>

\* A list with an image whose manifest is missing is refused, and a registry may
\* answer with an error; the answer of putManifest is not looked at.
PutManifestList(t, g) ==
  /\ Runs(t, g) /\ at[g] = "put"
  /\ \E accepted \in Answers(ImagesOf(g) \subseteq manifests) :
       /\ lists' = IF accepted THEN lists \cup {g} ELSE lists
       /\ CountFault(ImagesOf(g) \subseteq manifests, accepted)
  /\ completed' = completed \cup {g}
  /\ Goto(g, "done")
  /\ UNCHANGED <<poolVars, working_digests, layers, itr, blobs, dirs, manifests>>

-----------------------------------------------------------------------------
(* Copy::execute of the manifest of image i. *)

\* putBlob stores blob d for image i, in a directory it makes if there is none.
Store(i, d) == blobs' = blobs \cup {d} /\ dirs' = dirs \cup {i}

\* fetchBlob of the source with putBlob as its callback: the blob arrives, or the
\* transfer fails before any data, after some, or when all of them are stored.
Transfer(i, d) ==
  \/ Store(i, d) /\ UNCHANGED faults
  \/ Fault /\ Store(i, d)
  \/ Fault /\ UNCHANGED blobs /\ dirs' \in {dirs, dirs \cup {i}}

CompareManifest(t, i) ==
  /\ Runs(t, i) /\ at[i] = "compare"
  /\ \E same \in Answers(i \in manifests) :
       /\ Goto(i, IF same THEN "put" ELSE IF layers[i] = <<>> THEN "config" ELSE "find")
       /\ CountFault(i \in manifests, same)
  /\ UNCHANGED <<poolVars, working_digests, layers, itr, destVars, completed>>

\* find_if passes over a layer that somebody is downloading.
SkipWorking(t, i) ==
  /\ Runs(t, i) /\ at[i] = "find"
  /\ layers[i][itr[i]] \in working_digests
  /\ IF itr[i] < Len(layers[i])
     THEN itr' = [itr EXCEPT ![i] = itr[i] + 1] /\ at' = at
     ELSE itr' = [itr EXCEPT ![i] = 1] /\ Goto(i, "wait")
  /\ UNCHANGED <<poolVars, working_digests, layers, destVars, completed, faults>>

\* find_if stops at a layer nobody is downloading, and under the same lock
\* claims it if it is missing.
FindLayer(t, i) ==
  LET d == layers[i][itr[i]] IN
  /\ Runs(t, i) /\ at[i] = "find"
  /\ d \notin working_digests
  /\ \E present \in Answers(d \in blobs) :
       /\ working_digests' = IF present THEN working_digests ELSE working_digests \cup {d}
       /\ CountFault(d \in blobs, present)
  /\ Goto(i, "found")
  /\ UNCHANGED <<poolVars, layers, itr, destVars, completed>>

\* The destination is asked again, now without the lock.
LayerPresent(t, i) ==
  LET d == layers[i][itr[i]]
      rest == RemoveAt(layers[i], itr[i])
  IN
  /\ Runs(t, i) /\ at[i] = "found"
  /\ d \in blobs
  /\ layers' = [layers EXCEPT ![i] = rest]
  /\ itr' = [itr EXCEPT ![i] = 1]
  /\ Goto(i, IF rest = <<>> THEN "config" ELSE "find")
  /\ UNCHANGED <<poolVars, working_digests, destVars, completed, faults>>

LayerMissing(t, i) ==
  LET d == layers[i][itr[i]] IN
  /\ Runs(t, i) /\ at[i] = "found"
  /\ FALSE \in Answers(d \in blobs)
  /\ CountFault(d \in blobs, FALSE)
  /\ Goto(i, "get")
  /\ UNCHANGED <<poolVars, working_digests, layers, itr, destVars, completed>>

SubmitDownload(t, i) ==
  /\ Runs(t, i) /\ at[i] = "get"
  /\ \E n \in Attempt :
       LET c == <<i, layers[i][itr[i]], n>> IN
       /\ status[c] = "new"
       /\ \A m \in 1 .. n - 1 : status[<<i, layers[i][itr[i]], m>>] # "new"
       /\ Execute(t, c)
  /\ itr' = [itr EXCEPT ![i] = 1]
  /\ Goto(i, "find")
  /\ UNCHANGED <<working_digests, layers, destVars, completed, faults>>

\* wait_for on finish_download_ returns, notified or after its 30 s.
Wake(t, i) ==
  /\ Runs(t, i) /\ at[i] = "wait"
  /\ Goto(i, "find")
  /\ UNCHANGED <<poolVars, working_digests, layers, itr, destVars, completed, faults>>

\* The configuration blob is fetched by the image itself, outside working_digests_.
ConfigPresent(t, i) ==
  /\ Runs(t, i) /\ at[i] = "config"
  /\ ConfigOf[i] \in blobs
  /\ Goto(i, "put")
  /\ UNCHANGED <<poolVars, working_digests, layers, itr, destVars, completed, faults>>

ConfigMissing(t, i) ==
  LET present == ConfigOf[i] \in blobs IN
  /\ Runs(t, i) /\ at[i] = "config"
  /\ FALSE \in Answers(present)
  /\ CountFault(present, FALSE)
  /\ Goto(i, "fetch")
  /\ UNCHANGED <<poolVars, working_digests, layers, itr, destVars, completed>>

\* A fetch that fails either answers false, which is not looked at, or throws,
\* which ends the copy of the image.
FetchConfig(t, i) ==
  /\ Runs(t, i) /\ at[i] = "fetch"
  /\ Transfer(i, ConfigOf[i])
  /\ \/ Goto(i, "put")
     \/ faults' # faults /\ Goto(i, "done")
  /\ UNCHANGED <<poolVars, working_digests, layers, itr, manifests, lists, completed>>

\* A manifest is accepted once its blobs are there; that of a Dir goes into the
\* directory that the image's first putBlob has made, or nowhere.
PutManifest(t, i) ==
  /\ Runs(t, i) /\ at[i] = "put"
  /\ manifests' = IF /\ Range(LayersOf[i]) \cup {ConfigOf[i]} \subseteq blobs
                     /\ DirDestination => i \in dirs
                  THEN manifests \cup {i} ELSE manifests
  /\ Goto(i, "done")
  /\ UNCHANGED <<poolVars, working_digests, layers, itr, blobs, dirs, lists, completed, faults>>

\* A registry that does not answer, or whose connection breaks, makes the client
\* throw; the catch of Copy::execute ends the image, or the list, there.
DestinationThrows(t, i) ==
  /\ ~DirDestination /\ Fault
  /\ Runs(t, i)
  /\ \/ at[i] \in {"compare", "found", "config", "put"}
     \/ at[i] = "find" /\ layers[i][itr[i]] \notin working_digests
  /\ Goto(i, "done")
  /\ UNCHANGED <<poolVars, working_digests, layers, itr, destVars, completed>>

ListThrows(t, g) ==
  /\ ~DirDestination /\ Fault
  /\ Runs(t, g) /\ at[g] \in {"compare", "put"}
  /\ Goto(g, "done")
  /\ UNCHANGED <<poolVars, working_digests, layers, itr, destVars, completed>>

-----------------------------------------------------------------------------
(* The function that downloads layer d for image i. *)

\* A failure is caught and logged.
FetchLayer(t, c) ==
  /\ Runs(t, c) /\ at[c] = "fetch"
  /\ Transfer(c[1], c[2])
  /\ Goto(c, "finalize")
  /\ UNCHANGED <<poolVars, working_digests, layers, itr, manifests, lists, completed>>

\* ~DelayedCall: whoever finishes takes the digest out of working_digests_.
Finalize(t, c) ==
  /\ Runs(t, c) /\ at[c] = "finalize"
  /\ working_digests' = working_digests \ {c[2]}
  /\ Goto(c, "done")
  /\ UNCHANGED <<poolVars, layers, itr, destVars, completed, faults>>

-----------------------------------------------------------------------------
TagStep(t) == \E g \in Tag :
  CompareList(t, g) \/ SubmitImage(t, g) \/ ImagesReturned(t, g) \/ PutManifestList(t, g)
  \/ ListThrows(t, g)

ImageStep(t) == \E i \in Image :
  \/ CompareManifest(t, i) \/ SkipWorking(t, i) \/ FindLayer(t, i)
  \/ LayerPresent(t, i) \/ LayerMissing(t, i) \/ SubmitDownload(t, i) \/ Wake(t, i)
  \/ ConfigPresent(t, i) \/ ConfigMissing(t, i) \/ FetchConfig(t, i) \/ PutManifest(t, i)
  \/ DestinationThrows(t, i)

DownloadStep(t) == \E c \in Download : FetchLayer(t, c) \/ Finalize(t, c)

ThreadStep(t) ==
  TagStep(t) \/ ImageStep(t) \/ DownloadStep(t) \/ PushDecided(t) \/ ReturnDone(t)

MainStep == (\E g \in Tag : SubmitTag(g)) \/ ReturnMain

Terminated == Pool!Terminated /\ UNCHANGED copyVars

Next ==
  \/ \E t \in Thread : ThreadStep(t)
  \/ \E w \in Worker : WorkerLoop(w)
  \/ MainStep
  \/ Terminated

SafeSpec == Init /\ [][Next]_vars

\* Every thread keeps running its body or its loop.
Fairness ==
  /\ WF_vars(MainStep)
  /\ \A t \in Thread : WF_vars(ThreadStep(t))
  /\ \A w \in Worker : WF_vars(WorkerLoop(w))

Spec == SafeSpec /\ Fairness

-----------------------------------------------------------------------------
(* Properties. *)

\* Submitted, and not yet past its finalizer.
Active(c) == status[c] \in {"pushing", "queued", "taken", "running"} /\ at[c] # "done"

\* If hasBlob answers exactly, the two questions and the two locks between
\* finding a layer and submitting its download keep two threads from ever
\* downloading one layer (Copy.cpp:156-246), whatever downloads fail meanwhile.
OneDownloadPerDigest ==
  \A c, e \in Download : Active(c) /\ Active(e) /\ c[2] = e[2] => c = e

\* However often a registry denies blobs that it has, breaks off or makes an image end
\* between its claim and its download: a layer that the destination lacks is never
\* downloaded by two threads at once (Copy.cpp:156-246).
MissingLayerDownloadedOnce ==
  \A c, e \in Download : Active(c) /\ Active(e) /\ c[2] = e[2] => c = e \/ c[2] \in blobs

\* A digest is in working_digests_ only while an image is about to submit its
\* download or a download of it is under way: "All images being downloaded by
\* other threads", as the trace at Copy.cpp:179 says of those an image skips.
WorkingIsDownloading ==
  \A d \in working_digests :
    \/ \E c \in Download : c[2] = d /\ Active(c)
    \/ \E i \in Image : at[i] \in {"found", "get"} /\ layers[i][itr[i]] = d

\* An image gets past its layers only when all of them are at the destination,
\* though it erases them one by one while other threads download them, and
\* though its answers and its position may be stale: putManifest never meets a
\* missing layer.
LayersStoredBeforeManifest ==
  \A i \in Image : at[i] \in {"config", "fetch", "put"} => Range(LayersOf[i]) \subseteq blobs

\* Nobody joins a download, and its finalizer uses members of the Copy that the owner of
\* the sync then destroys (Copy.cpp:196-206, Copy.hpp:46-53).  With a Dir, though, no
\* image goes on before that finalizer, so that no download is left when
\* "OCI::Sync::execute completed all repos" (Sync.cpp:35).
SyncOutlivesDownloads == mode[Client] = "fin" => \A c \in Download : ~Active(c)

BlobsOf(i) == Range(LayersOf[i]) \cup {ConfigOf[i]}

\* "completed ManifestList for" (Copy.cpp:130) is true: the tag it names is at the
\* destination with every manifest of its list and their blobs, unless some call failed.
CompletedMeansWritten == faults = 0 => \A g \in completed :
  /\ g \in lists
  /\ \A i \in ImagesOf(g) : i \in manifests /\ BlobsOf(i) \subseteq blobs

\* "waiting for blobs to be ready before writing the manifests" (Copy.cpp:175):
\* an image that sleeps goes on to its manifest in the end.
SleepEnds == \A i \in Image : at[i] = "wait" ~> at[i] \in {"config", "fetch", "put", "done"}

\* A sync in which no call fails ends with every tag mirrored.
EveryTagMirrored == [](faults = 0) => <>(lists = Tag)

\* Main gets all its counts down to zero, whatever downloads failed.
SyncReturns == <>(mode[Client] = "fin")

\* To the pool the copy is one more tree of tasks: what holds of every run of
\* TaskPool holds of it.
ImplementsTaskPool == Pool!SafeSpec

-----------------------------------------------------------------------------
(* Why the layers are stored before the manifest: a layer leaves the list of *)
(* its image only when it is at the destination, which keeps what it has.    *)

MissingLayersListed == \A i \in Image : Range(LayersOf[i]) \subseteq Range(layers[i]) \cup blobs

ManifestsHaveLayers == \A i \in manifests : Range(LayersOf[i]) \subseteq blobs

LayersInv == MissingLayersListed /\ ManifestsHaveLayers /\ LayersStoredBeforeManifest

-----------------------------------------------------------------------------
(* Why a layer is downloaded once at a time as long as hasBlob answers       *)
(* exactly, and why a Dir's digests are taken out again: every digest in     *)
(* working_digests_ has one holder, first the image that claimed it, then    *)
(* its download.                                                             *)

\* p is to take d out of working_digests_, or to hand it to one that will.
Holds(p, d) ==
  \/ p \in Download /\ p[2] = d /\ Active(p)
  \/ p \in Image /\ at[p] = "get" /\ layers[p][itr[p]] = d
  \/ p \in Image /\ at[p] = "found" /\ layers[p][itr[p]] = d /\ d \notin blobs

\* What hasBlob says of d is true: no registry claims to have what it has not.
Exact(d) == DirDestination \/ d \notin blobs

HoldersClaim == \A p \in Image \cup Download, d \in Digest :
  Exact(d) /\ Holds(p, d) => d \in working_digests

OneHolder == \A p, q \in Image \cup Download, d \in Digest :
  Exact(d) /\ Holds(p, d) /\ Holds(q, d) => p = q

ClaimsHeld == \A d \in working_digests : \E p \in Image \cup Download : Holds(p, d)

LayersErasedOnly == \A i \in Image : Range(layers[i]) \subseteq Range(LayersOf[i])

DownloadsFresh == \A c \in Download : status[c] = "new" => at[c] = "fetch"

\* No configuration blob is a layer: else a configuration that arrives between
\* the two questions for that layer leaves the layer's digest claimed.
ConfigsAreNoLayers == \A i, j \in Image : ConfigOf[i] \notin Range(LayersOf[j])

ClaimsInv ==
  /\ HoldersClaim /\ OneHolder
  /\ LayersErasedOnly /\ DownloadsFresh
  /\ DirDestination /\ ConfigsAreNoLayers => ClaimsHeld

-----------------------------------------------------------------------------
(* Why what is reported as completed is there, when no call has failed.      *)

\* The blobs that nobody stores but image i.
OwnBlobs(i) == {d \in BlobsOf(i) : \A j \in Image \ {i} : d \notin BlobsOf(j)}

\* An image that a Dir does not hold has a blob to bring that no other image
\* brings: else nobody makes its directory, and its manifest is not written.
ImagesBringBlobs == DirDestination => \A i \in Image \ manifests : ~(OwnBlobs(i) \subseteq blobs)

DirectoriesMade == DirDestination => \A i \in Image : OwnBlobs(i) \subseteq blobs => i \in dirs

ManifestsHaveBlobs == \A i \in manifests : BlobsOf(i) \subseteq blobs

OverWhenDone == \A p \in Task \ {Main} : status[p] = "done" => at[p] = "done"

ImagesWritten == \A i \in Image :
  /\ at[i] = "put" => BlobsOf(i) \subseteq blobs
  /\ at[i] = "done" => i \in manifests

ListsComplete == \A g \in Tag : at[g] = "put" => ImagesOf(g) \subseteq manifests

ListsHaveManifests == \A g \in lists : ImagesOf(g) \subseteq manifests

WrittenInv ==
  /\ DirectoriesMade /\ ManifestsHaveBlobs /\ OverWhenDone
  /\ faults = 0 => ImagesWritten /\ ListsComplete /\ ListsHaveManifests /\ completed \subseteq lists
=============================================================================
