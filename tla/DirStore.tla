------------------------------ MODULE DirStore ------------------------------
(* OCI::Extensions::Dir (src/src/lib/OCI/Extensions/Dir.cpp) as a           *)
(* destination, by the steps it takes on the file system, under the part of  *)
(* OCI::Copy that drives it: one tag that is mirrored again and again, while *)
(* its manifest list at the source moves from version to version.            *)
(*                                                                           *)
(* A writer <<i, d>> is a Dir object that receives blob d for image i        *)
(* through putBlob, part by part, from a registry (Client::fetchBlob).       *)
(* Writers run concurrently; Copy lets two of them have one digest when it   *)
(* is the configuration of two images, the model lets any two.               *)
(*                                                                           *)
(* A file is abstracted to how much of it is there: the temporary file of a  *)
(* writer to its length and whether it is a prefix of the blob.  A crash may *)
(* come between any two steps; what is not on the file system is lost.       *)
EXTENDS Naturals, FiniteSets

CONSTANTS
  Image, Digest, Version,
  LayersOf,      \* LayersOf[i]: the digests of the layers of image i, a set
  ConfigOf,      \* ConfigOf[i]: the digest of its configuration blob
  ImagesIn,      \* ImagesIn[v]: the images of version v of the manifest list
  Follows,       \* Follows[v]: the versions the source may have when the next run starts
  Size,          \* the size of a blob in the units it is sent in
  MaxRuns,       \* bound: how often the tag is mirrored, or tried to
  MaxDrops,      \* bound: connections to the source that break
  MaxAccidents   \* bound: crashes, and writes that fail on a full disk

BlobsOf == [i \in Image |-> LayersOf[i] \cup {ConfigOf[i]}]

Writer == {w \in Image \X Digest : w[2] \in BlobsOf[w[1]]}

\* `while ( not res and ++retries != 3 )`: how often a blob is asked for.
Gets == 3

ASSUME DirAssumption ==
  /\ LayersOf \in [Image -> SUBSET Digest]
  /\ ConfigOf \in [Image -> Digest]
  /\ ImagesIn \in [Version -> SUBSET Image]
  /\ Follows \in [Version -> SUBSET Version]
  /\ Size \in Nat \ {0}
  /\ MaxRuns \in Nat \ {0} /\ MaxDrops \in Nat /\ MaxAccidents \in Nat

VARIABLES
  \* on the file system
  blob,           \* blob[d]: the file blobs/d
  dirs,           \* the image directories
  manifest,       \* manifest[i]: the ImageManifest.json of i
  list, listed,   \* the ManifestList.json, and the version it was written for
  \* of each writer
  at,             \* where it stands in fetchBlob and putBlob
  temp,           \* the file temp_file_
  bytes_written,  \* bytes_written_
  sent,           \* how much of the blob the current Get has delivered
  gets,           \* the number of that Get
  \* of the run
  img,            \* where Copy::execute of each image manifest stands
  tag,            \* where Copy::execute of the manifest list stands
  version,        \* the version of the list the source has
  disturbed,      \* whether something has failed in it
  runs, drops, accidents

files == <<blob, dirs, manifest, list, listed>>
streams == <<at, temp, bytes_written, sent, gets>>
bounds == <<disturbed, runs, drops, accidents>>
vars == <<files, streams, img, tag, version, bounds>>

NoTemp == [len |-> 0, good |-> TRUE]

TypeOK ==
  /\ blob \in [Digest -> {"absent", "short", "whole", "wrong"}]
  /\ dirs \subseteq Image
  /\ manifest \in [Image -> {"absent", "torn", "whole"}]
  /\ list \in {"absent", "torn", "whole"}
  /\ listed \in Version
  /\ at \in [Writer -> {"idle", "stream", "full", "copying"}]
  /\ temp \in [Writer -> [len : Nat, good : BOOLEAN]]
  /\ bytes_written \in [Writer -> Nat]
  /\ sent \in [Writer -> 0 .. Size]
  /\ gets \in [Writer -> 1 .. Gets]
  /\ img \in [Image -> {"off", "compare", "blobs", "config", "fetch", "manifest", "writing", "over"}]
  /\ tag \in {"compare", "images", "remove", "write", "writing", "over"}
  /\ version \in Version
  /\ disturbed \in BOOLEAN
  /\ runs \in 1 .. MaxRuns /\ drops \in 0 .. MaxDrops /\ accidents \in 0 .. MaxAccidents

Present(d) == blob[d] # "absent"

Init ==
  /\ blob = [d \in Digest |-> "absent"]
  /\ dirs = {}
  /\ manifest = [i \in Image |-> "absent"]
  /\ list = "absent" /\ listed \in Version
  /\ at = [w \in Writer |-> "idle"]
  /\ temp = [w \in Writer |-> NoTemp]
  /\ bytes_written = [w \in Writer |-> 0]
  /\ sent = [w \in Writer |-> 0]
  /\ gets = [w \in Writer |-> 1]
  /\ img = [i \in Image |-> "off"]
  /\ tag = "compare"
  /\ version \in Version
  /\ disturbed = FALSE /\ runs = 1 /\ drops = 0 /\ accidents = 0

\* DIR_MUTEX is held while a blob is copied to its place and while a list is written.
MutexFree == tag # "writing" /\ \A w \in Writer : at[w] # "copying"

\* A fault of the source, or of the disk, if the bound allows another one.
Drop ==
  /\ drops < MaxDrops /\ drops' = drops + 1
  /\ disturbed' = TRUE /\ UNCHANGED <<runs, accidents>>

Accident ==
  /\ accidents < MaxAccidents /\ accidents' = accidents + 1
  /\ disturbed' = TRUE /\ UNCHANGED <<runs, drops>>

-----------------------------------------------------------------------------
(* Mutants: each is one of the operations below with a plausible bug in it.  *)

\* The Gets are not counted.
GetAgainForEver(w) ==
  /\ gets' = [gets EXCEPT ![w] = gets[w] + 1]
  /\ sent' = [sent EXCEPT ![w] = 0]
  /\ at' = [at EXCEPT ![w] = "stream"]
  /\ UNCHANGED img

\* Every part is written to the start of the file.
AppendedAtStart(w, n) == [len |-> n, good |-> sent[w] = 0]

\* The size is compared, and not the hash.
ValidSize(w) == temp[w].len = Size

\* The blob is not looked for again under the lock.
StartCopyAnyway(w) ==
  /\ at[w] = "full"
  /\ MutexFree
  /\ blob' = [blob EXCEPT ![w[2]] = "short"]
  /\ at' = [at EXCEPT ![w] = "copying"]
  /\ UNCHANGED <<dirs, manifest, list, listed, temp, bytes_written, sent, gets, img, tag, version, bounds>>

\* A list that cannot be read is left alone.
KeepUnreadableList ==
  /\ tag = "remove" /\ dirs \subseteq ImagesIn[version]
  /\ list' = IF list = "whole" THEN "absent" ELSE list
  /\ tag' = IF list = "torn" THEN "over" ELSE "write"
  /\ UNCHANGED <<blob, dirs, manifest, listed, streams, img, version, bounds>>

\* The last image that is looked at decides.
SomeManifest == \E i \in ImagesIn[version] : manifest[i] # "absent"

-----------------------------------------------------------------------------
(* A writer.                                                                 *)

\* putBlob is done with the temporary file, or ~Dir is.
RemoveTemp(w) ==
  /\ temp' = [temp EXCEPT ![w] = NoTemp]
  /\ bytes_written' = [bytes_written EXCEPT ![w] = 0]

\* A Get has returned NULL: the blob is asked for again, into the same callback, or
\* fetchBlob returns and the Dir object of the writer is destroyed.
GetAgain(w) ==
  /\ gets[w] < Gets
  /\ gets' = [gets EXCEPT ![w] = gets[w] + 1]
  /\ sent' = [sent EXCEPT ![w] = 0]
  /\ at' = [at EXCEPT ![w] = "stream"]
  /\ UNCHANGED img

FetchOver(w, next) ==
  /\ at' = [at EXCEPT ![w] = "idle"]
  /\ gets' = [gets EXCEPT ![w] = 1]
  /\ sent' = [sent EXCEPT ![w] = 0]
  /\ RemoveTemp(w)
  /\ img' = IF img[w[1]] = "fetch" /\ w[2] = ConfigOf[w[1]]
            THEN [img EXCEPT ![w[1]] = next] ELSE img

\* Copy submits a download when hasBlob is false.
StartLayer(w) ==
  /\ img[w[1]] = "blobs" /\ w[2] \in LayersOf[w[1]]
  /\ at[w] = "idle" /\ ~Present(w[2])
  /\ at' = [at EXCEPT ![w] = "stream"]
  /\ UNCHANGED <<files, temp, bytes_written, sent, gets, img, tag, version, bounds>>

StartConfig(w) ==
  /\ img[w[1]] = "config" /\ w[2] = ConfigOf[w[1]]
  /\ at[w] = "idle" /\ ~Present(w[2])
  /\ at' = [at EXCEPT ![w] = "stream"]
  /\ img' = [img EXCEPT ![w[1]] = "fetch"]
  /\ UNCHANGED <<files, temp, bytes_written, sent, gets, tag, version, bounds>>

\* putBlob of the next k units makes the image's directory.
Receives(w, k) ==
  /\ at[w] = "stream"
  /\ k \in 1 .. Size - sent[w]
  /\ w[1] \in dirs \/ MutexFree
  /\ dirs' = dirs \cup {w[1]}
  /\ UNCHANGED <<blob, manifest, list, listed, tag, version>>

\* The blob is there by now: the part is not needed.
SkipPart(w, k) ==
  /\ Receives(w, k)
  /\ Present(w[2])
  /\ sent' = [sent EXCEPT ![w] = sent[w] + k]
  /\ RemoveTemp(w)
  /\ UNCHANGED <<at, gets, img, bounds>>

\* n units, sent from where the Get stands, are added to the temporary file.
Appended(w, n) ==
  [len |-> temp[w].len + n, good |-> temp[w].good /\ (n = 0 \/ sent[w] = temp[w].len)]

Append(w, k) ==
  /\ Receives(w, k)
  /\ ~Present(w[2])
  /\ temp' = [temp EXCEPT ![w] = Appended(w, k)]
  /\ bytes_written' = [bytes_written EXCEPT ![w] = bytes_written[w] + k]
  /\ sent' = [sent EXCEPT ![w] = sent[w] + k]
  /\ at' = [at EXCEPT ![w] = IF bytes_written'[w] = Size THEN "full" ELSE "stream"]
  /\ UNCHANGED <<gets, img, bounds>>

\* The disk is full: some of the part may be in the file, bytes_written_ does not
\* count it, and putBlob answers false, which cancels the Get.
AppendFails(w, k) ==
  /\ Receives(w, k)
  /\ ~Present(w[2])
  /\ Accident
  /\ \/ \E n \in 0 .. k - 1 : temp' = [temp EXCEPT ![w] = Appended(w, n)]
        /\ UNCHANGED bytes_written /\ GetAgain(w)
     \/ gets[w] = Gets /\ FetchOver(w, "manifest")

\* The connection breaks, or already the Head before the first Get fails.
ConnectionDrops(w) ==
  /\ at[w] = "stream"
  /\ Drop
  /\ \/ GetAgain(w) /\ UNCHANGED <<temp, bytes_written>>
     \/ gets[w] = Gets /\ FetchOver(w, "manifest")
     \/ gets[w] = 1 /\ sent[w] = 0 /\ FetchOver(w, "manifest")
  /\ UNCHANGED <<files, tag, version>>

\* The source answers a Get with an error status, and its body goes to putBlob like
\* a blob: unless it happens to have the size that is waited for, fetchBlob is over.
ErrorAnswer(w) ==
  /\ at[w] = "stream" /\ sent[w] = 0
  /\ w[1] \in dirs \/ MutexFree
  /\ Drop
  /\ \/ FetchOver(w, "manifest")
     \/ ~Present(w[2]) /\ GetAgain(w) /\ RemoveTemp(w)
  /\ dirs' = dirs \cup {w[1]}
  /\ UNCHANGED <<blob, manifest, list, listed, tag, version>>

\* validateFile
Valid(w) == temp[w].good /\ temp[w].len = Size

\* "Removed dirty file, file did not validate": putBlob answers false.
RemoveDirty(w) ==
  /\ at[w] = "full" /\ ~Valid(w)
  /\ \/ GetAgain(w) /\ RemoveTemp(w)
     \/ gets[w] = Gets /\ FetchOver(w, "manifest")
  /\ UNCHANGED <<files, tag, version, bounds>>

\* Somebody else has stored the blob meanwhile.
LeaveOther(w) ==
  /\ at[w] = "full" /\ Valid(w)
  /\ Present(w[2])
  /\ at' = [at EXCEPT ![w] = "stream"]
  /\ RemoveTemp(w)
  /\ UNCHANGED <<files, sent, gets, img, tag, version, bounds>>

\* Under the lock the blob is still not there: copy_file creates it, ...
StartCopy(w) ==
  /\ at[w] = "full" /\ Valid(w)
  /\ MutexFree
  /\ ~Present(w[2])
  /\ blob' = [blob EXCEPT ![w[2]] = "short"]
  /\ at' = [at EXCEPT ![w] = "copying"]
  /\ UNCHANGED <<dirs, manifest, list, listed, temp, bytes_written, sent, gets, img, tag, version, bounds>>

\* ... and fills it.
FinishCopy(w) ==
  /\ at[w] = "copying"
  /\ blob' = [blob EXCEPT ![w[2]] = IF temp[w] = [len |-> Size, good |-> TRUE]
                                        THEN "whole" ELSE "wrong"]
  /\ at' = [at EXCEPT ![w] = "stream"]
  /\ RemoveTemp(w)
  /\ UNCHANGED <<dirs, manifest, list, listed, sent, gets, img, tag, version, bounds>>

\* The disk is full: copy_file throws, which ends the download, or the image.
CopyFails(w) ==
  /\ at[w] = "copying"
  /\ Accident
  /\ FetchOver(w, "over")
  /\ UNCHANGED <<files, tag, version>>

\* The Get has returned OK, whether or not the blob was stored.
EndOfBlob(w) ==
  /\ at[w] = "stream" /\ sent[w] = Size
  /\ FetchOver(w, "manifest")
  /\ UNCHANGED <<files, tag, version, bounds>>

-----------------------------------------------------------------------------
(* An image: Copy::execute and Dir::putManifest of an image manifest.        *)

ImgGoto(i, l) == img' = [img EXCEPT ![i] = l]

CompareImage(i) ==
  /\ img[i] = "compare"
  /\ ImgGoto(i, IF manifest[i] = "whole" THEN "manifest" ELSE "blobs")
  /\ UNCHANGED <<files, streams, tag, version, bounds>>

LayersThere(i) ==
  /\ img[i] = "blobs" /\ \A d \in LayersOf[i] : Present(d)
  /\ ImgGoto(i, "config")
  /\ UNCHANGED <<files, streams, tag, version, bounds>>

ConfigThere(i) ==
  /\ img[i] = "config" /\ Present(ConfigOf[i])
  /\ ImgGoto(i, "manifest")
  /\ UNCHANGED <<files, streams, tag, version, bounds>>

\* The manifest is written if all blobs are found, there is none, and there is a
\* directory for it; the ofstream creates the file, ...
WriteManifest(i) ==
  /\ img[i] = "manifest"
  /\ \A d \in BlobsOf[i] : Present(d)
  /\ manifest[i] = "absent" /\ i \in dirs
  /\ manifest' = [manifest EXCEPT ![i] = "torn"]
  /\ ImgGoto(i, "writing")
  /\ UNCHANGED <<blob, dirs, list, listed, streams, tag, version, bounds>>

LeaveManifest(i) ==
  /\ img[i] = "manifest"
  /\ \/ \E d \in BlobsOf[i] : ~Present(d)
     \/ manifest[i] # "absent"
     \/ i \notin dirs
  /\ ImgGoto(i, "over")
  /\ UNCHANGED <<files, streams, tag, version, bounds>>

\* ... and its destructor closes it.
ManifestWritten(i) ==
  /\ img[i] = "writing"
  /\ manifest' = [manifest EXCEPT ![i] = "whole"]
  /\ ImgGoto(i, "over")
  /\ UNCHANGED <<blob, dirs, list, listed, streams, tag, version, bounds>>

\* The disk is full, and nobody looks at the state of the stream.
ManifestWriteFails(i) ==
  /\ img[i] = "writing"
  /\ Accident
  /\ ImgGoto(i, "over")
  /\ UNCHANGED <<files, streams, tag, version>>

-----------------------------------------------------------------------------
(* The tag: Copy::execute and Dir::putManifest of a manifest list.           *)

CompareList ==
  /\ tag = "compare"
  /\ IF list = "whole" /\ listed = version
     THEN tag' = "over" /\ UNCHANGED img
     ELSE /\ tag' = "images"
          /\ img' = [i \in Image |-> IF i \in ImagesIn[version] THEN "compare" ELSE "off"]
  /\ UNCHANGED <<files, streams, version, bounds>>

ImagesReturned ==
  /\ tag = "images"
  /\ \A i \in ImagesIn[version] : img[i] = "over"
  /\ tag' = "remove"
  /\ UNCHANGED <<files, streams, img, version, bounds>>

\* Directories of images that the new list does not name go first, ...
RemoveStale(i) ==
  /\ tag = "remove" /\ MutexFree
  /\ i \in dirs \ ImagesIn[version]
  /\ dirs' = dirs \ {i}
  /\ manifest' = [manifest EXCEPT ![i] = "absent"]
  /\ UNCHANGED <<blob, list, listed, streams, img, tag, version, bounds>>

\* ... then the list, if it is another one or cannot be read.
RemoveOldList ==
  /\ tag = "remove" /\ dirs \subseteq ImagesIn[version]
  /\ list = "absent" \/ MutexFree
  /\ list' = "absent"
  /\ tag' = "write"
  /\ UNCHANGED <<blob, dirs, manifest, listed, streams, img, version, bounds>>

AllManifests == \A i \in ImagesIn[version] : manifest[i] # "absent"

WriteList ==
  /\ tag = "write" /\ AllManifests /\ MutexFree
  /\ list' = "torn" /\ listed' = version
  /\ tag' = "writing"
  /\ UNCHANGED <<blob, dirs, manifest, streams, img, version, bounds>>

RefuseList ==
  /\ tag = "write" /\ ~AllManifests
  /\ tag' = "over"
  /\ UNCHANGED <<files, streams, img, version, bounds>>

ListWritten ==
  /\ tag = "writing"
  /\ list' = "whole"
  /\ tag' = "over"
  /\ UNCHANGED <<blob, dirs, manifest, listed, streams, img, version, bounds>>

ListWriteFails ==
  /\ tag = "writing"
  /\ Accident
  /\ tag' = "over"
  /\ UNCHANGED <<files, streams, img, version>>

-----------------------------------------------------------------------------
\* oci-sync is started anew; the source may have moved the tag.
Restart ==
  /\ runs < MaxRuns /\ runs' = runs + 1
  /\ at' = [w \in Writer |-> "idle"]
  /\ temp' = [w \in Writer |-> NoTemp]
  /\ bytes_written' = [w \in Writer |-> 0]
  /\ sent' = [w \in Writer |-> 0]
  /\ gets' = [w \in Writer |-> 1]
  /\ img' = [i \in Image |-> "off"]
  /\ tag' = "compare"
  /\ version' \in Follows[version]
  /\ disturbed' = FALSE
  /\ UNCHANGED <<files, drops>>

Over == tag = "over" /\ \A w \in Writer : at[w] = "idle"

Rerun == Over /\ Restart /\ UNCHANGED accidents

Crash == ~Over /\ accidents < MaxAccidents /\ accidents' = accidents + 1 /\ Restart

Terminated == Over /\ runs = MaxRuns /\ UNCHANGED vars

WriterStep(w) ==
  \/ StartLayer(w) \/ StartConfig(w)
  \/ \E k \in 1 .. Size : SkipPart(w, k) \/ Append(w, k)
  \/ RemoveDirty(w) \/ LeaveOther(w) \/ StartCopy(w) \/ FinishCopy(w) \/ EndOfBlob(w)

ImageStep(i) ==
  CompareImage(i) \/ LayersThere(i) \/ ConfigThere(i)
  \/ WriteManifest(i) \/ LeaveManifest(i) \/ ManifestWritten(i)

TagStep ==
  CompareList \/ ImagesReturned \/ (\E i \in Image : RemoveStale(i)) \/ RemoveOldList
  \/ WriteList \/ RefuseList \/ ListWritten

Mishap ==
  \/ \E w \in Writer : ConnectionDrops(w) \/ ErrorAnswer(w) \/ CopyFails(w)
                       \/ \E k \in 1 .. Size : AppendFails(w, k)
  \/ \E i \in Image : ManifestWriteFails(i)
  \/ ListWriteFails
  \/ Crash

Next ==
  \/ \E w \in Writer : WriterStep(w)
  \/ \E i \in Image : ImageStep(i)
  \/ TagStep
  \/ Mishap
  \/ Rerun \/ Terminated

SafeSpec == Init /\ [][Next]_vars

\* The threads of a run go on; nothing obliges anybody to start another run.
Fairness ==
  /\ \A w \in Writer : WF_vars(WriterStep(w))
  /\ \A i \in Image : WF_vars(ImageStep(i))
  /\ WF_vars(TagStep)

Spec == SafeSpec /\ Fairness

-----------------------------------------------------------------------------
(* Properties. *)

\* What stands under a digest has been validated (Dir.cpp:304), however often
\* its transfer was broken off and repeated into the same temporary file, whoever
\* else was writing it; only a crash or a full disk leaves it short.
BlobsVerified ==
  \A d \in Digest :
    /\ blob[d] # "wrong"
    /\ blob[d] = "short" => accidents > 0 \/ \E w \in Writer : w[2] = d /\ at[w] = "copying"

\* "Unable to write ManifestList, missing ImageManifest" (Dir.cpp:529): a list that
\* can be read names only images whose manifests are there, except while putManifest
\* is between removing stale directories and the old list, or was killed there.
ListHasManifests ==
  list = "whole" /\ accidents = 0 /\ tag # "remove"
    => \A i \in ImagesIn[listed] : manifest[i] # "absent"

\* The store holds what the source has; all of it, if no accident happened.
Mirrored ==
  /\ list = "whole" /\ listed = version
  /\ \A i \in ImagesIn[version] :
       /\ manifest[i] # "absent"
       /\ \A d \in BlobsOf[i] : Present(d)
       /\ accidents = 0 => manifest[i] = "whole" /\ \A d \in BlobsOf[i] : blob[d] = "whole"

\* "completed ManifestList for" (Copy.cpp:130) is true of a run in which nothing
\* failed, whatever failed in runs before it and wherever they were killed.
UndisturbedRunMirrors == tag = "over" /\ ~disturbed => Mirrored

\* Every run comes to its end, as often as transfers break off and repeat.
RunEnds == tag # "over" ~> tag = "over"

\* What is on the file system changes only as OCI::Copy may expect it to.
Store == INSTANCE ContentStore

ImplementsContentStore == Store!SafeSpec

\* Why: what is being copied is a whole file to a short blob of its own, ...
CopyingInv ==
  \A w \in Writer : at[w] = "copying" =>
    /\ temp[w].good /\ temp[w].len = Size
    /\ blob[w[2]] = "short"
    /\ \A u \in Writer : at[u] = "copying" /\ u[2] = w[2] => u = w

\* ... an image of the run is one of its version, and has its manifest torn while it is
\* written, ...
WritingInv ==
  \A i \in Image :
    /\ img[i] \notin {"off", "over"} => i \in ImagesIn[version]
    /\ img[i] = "writing" => manifest[i] = "torn"

\* ... and the list that is being written is that of the version, and complete.
ListInv ==
  /\ tag = "write" => list = "absent"
  /\ tag = "writing" => list = "torn" /\ listed = version /\ AllManifests

DirInv == CopyingInv /\ BlobsVerified /\ WritingInv /\ ListInv /\ ListHasManifests
=============================================================================
