--------------------------- MODULE DirMirrorProofs ---------------------------
(* A run of oci-sync in which nothing fails leaves the tag mirrored, for all *)
(* images and lists, and whatever failed in the runs before it, provided     *)
(* that every image has a blob of its own and that no image comes back to a  *)
(* tag it has left.  Without the provisions it is false: the directory of an *)
(* image is only made by putBlob (Dir.cpp:268-274), which is not called for  *)
(* blobs that are there.                                                     *)
EXTENDS DirStoreProofs

\* Each image has a blob no other image has.
OwnBlob(i, d) == d \in BlobsOf[i] /\ \A j \in Image \ {i} : d \notin BlobsOf[j]
ImagesHaveOwnBlobs == \A i \in Image : \E d \in Digest : OwnBlob(i, d)

\* The versions have a rank that the source never goes back in, and an image that is in
\* two versions is in all between them.
NeverReturns(rank) ==
  /\ rank \in [Version -> Nat]
  /\ \A v \in Version : \A u \in Follows[v] : rank[v] <= rank[u]
  /\ \A v, u, x \in Version :
       rank[v] <= rank[u] /\ rank[u] <= rank[x] => ImagesIn[v] \cap ImagesIn[x] \subseteq ImagesIn[u]

-----------------------------------------------------------------------------
(* The inductive invariant.                                                  *)

\* The stream of w, when no fault has disturbed the run: unless its blob is there and
\* parts are skipped, the temporary file holds what was sent.
StreamOK(w) ==
  /\ at[w] = "idle" => temp[w] = NoTemp /\ bytes_written[w] = 0 /\ sent[w] = 0
  /\ at[w] # "idle" => w[1] \in ImagesIn[version]
  /\ at[w] \in {"full", "copying"} => w[1] \in dirs
  /\ ~disturbed /\ (at[w] \in {"full", "copying"} \/ ~Present(w[2])) =>
       /\ temp[w].good /\ temp[w].len = sent[w] /\ bytes_written[w] = sent[w]
       /\ at[w] \in {"idle", "stream"} => sent[w] < Size
       /\ at[w] \in {"full", "copying"} => sent[w] = Size

StreamsOK == \A w \in Writer : StreamOK(w)

\* An image by where it stands.
ImageOK(i) ==
  /\ img[i] # "off" => i \in ImagesIn[version]
  /\ tag # "images" => img[i] \in {"off", "over"}
  /\ tag = "compare" => img[i] = "off"
  /\ manifest[i] # "absent" => \A d \in BlobsOf[i] : Present(d)
  /\ img[i] \in {"config", "fetch"} => \A d \in LayersOf[i] : Present(d)
  /\ accidents = 0 /\ manifest[i] = "torn" => img[i] = "writing"
  /\ ~disturbed => /\ img[i] = "manifest" => \A d \in BlobsOf[i] : Present(d)
                   /\ img[i] = "over" => manifest[i] # "absent"

ImagesOK == \A i \in Image : ImageOK(i)

\* The list may yet name i.
Wanted(rank, i) == \E u \in Version : i \in ImagesIn[u] /\ rank[version] <= rank[u]

\* Directories go only when nobody will want them again.
DirsOK(rank) ==
  \A i \in Image :
    /\ i \in dirs => \E v \in Version : i \in ImagesIn[v] /\ rank[v] <= rank[version]
    /\ Wanted(rank, i) => \A d \in Digest : OwnBlob(i, d) /\ Present(d) => i \in dirs
    /\ list = "whole" /\ i \in ImagesIn[listed] /\ Wanted(rank, i) => manifest[i] # "absent"

TagOK ==
  /\ tag = "compare" => \A w \in Writer : at[w] = "idle"
  /\ tag = "writing" => \A w \in Writer : at[w] # "copying"
  /\ tag \in {"remove", "write", "writing"} /\ ~disturbed => AllManifests

MirrorInv(rank) == StreamsOK /\ ImagesOK /\ DirsOK(rank) /\ TagOK /\ UndisturbedRunMirrors

-----------------------------------------------------------------------------
(* Facts of all steps.                                                       *)

\* A blob that is there stays there.
LEMMA PresentStays ==
  ASSUME TypeOK, DirInv, [Next]_vars, NEW d \in Digest, Present(d)
  PROVE  Present(d)'
  <1>1. [Store!Next]_storeVars
    BY StepOfStore
  <1>2. CASE \E e \in Digest : Store!BeginBlob(e) \/ Store!FinishBlob(e)
    BY <1>2 DEF Store!BeginBlob, Store!FinishBlob, Present, TypeOK
  <1>3. CASE UNCHANGED blob
    BY <1>3 DEF Present
  <1> QED
    BY <1>1, <1>2, <1>3 DEF Store!Next, storeVars, Store!BeginManifest, Store!FinishManifest,
       Store!DropManifest, Store!BeginList, Store!FinishList, Store!DropList

WriterAction(w) ==
  \/ WriterStep(w) \/ ConnectionDrops(w) \/ ErrorAnswer(w) \/ CopyFails(w)
  \/ \E k \in 1 .. Size : AppendFails(w, k)

LEMMA WriterActionIsNext ==
  ASSUME NEW w \in Writer, WriterAction(w)
  PROVE  Next
  BY DEF WriterAction, Next, Mishap

\* The stream of a writer that does not take the step.
SameStream(u) ==
  at'[u] = at[u] /\ temp'[u] = temp[u] /\ bytes_written'[u] = bytes_written[u] /\ sent'[u] = sent[u]

\* A step is counted, and if it is a fault the run is disturbed.
Counted ==
  \/ disturbed' = TRUE /\ accidents' \in {accidents, accidents + 1}
  \/ disturbed' = disturbed /\ accidents' = accidents

LEMMA FaultIsCounted ==
  ASSUME Drop \/ Accident
  PROVE  Counted /\ disturbed' = TRUE
  BY DEF Drop, Accident, Counted

LEMMA OtherStream ==
  ASSUME TypeOK, NEW u \in Writer, StreamOK(u), SameStream(u), version' = version,
         u[1] \in dirs => u[1] \in dirs', Counted, Present(u[2]) => Present(u[2])'
  PROVE  StreamOK(u)'
  <1>1. ~disturbed' => ~disturbed
    BY Zenon DEF Counted
  <1> QED
    BY <1>1 DEF StreamOK, SameStream

LEMMA FetchOverStream ==
  ASSUME TypeOK, NEW w \in Writer, NEW next \in {"manifest", "over"}, FetchOver(w, next)
  PROVE  /\ at'[w] = "idle" /\ temp'[w] = NoTemp /\ bytes_written'[w] = 0 /\ sent'[w] = 0
         /\ \A u \in Writer \ {w} : SameStream(u)
  BY DEF TypeOK, FetchOver, RemoveTemp, SameStream

\* Each step of a writer, by what it does to other streams and to the rest.
Frame(w) ==
  /\ \A u \in Writer \ {w} : SameStream(u)
  /\ UNCHANGED <<manifest, list, listed, tag, version>>
  /\ dirs \subseteq dirs' /\ dirs' \subseteq dirs \cup {w[1]}
  /\ at[w] = "stream" \/ UNCHANGED dirs
  /\ Counted

LEMMA WriterFrame ==
  ASSUME TypeOK, NEW w \in Writer, WriterAction(w)
  PROVE  Frame(w)
  <1> USE DEF Frame, SameStream
  <1>1. ASSUME UNCHANGED bounds
        PROVE  Counted
    BY <1>1, Zenon DEF bounds, Counted
  <1>2. CASE StartLayer(w)
    BY <1>1, <1>2 DEF StartLayer, files, TypeOK
  <1>3. CASE StartConfig(w)
    BY <1>1, <1>3 DEF StartConfig, files, TypeOK
  <1>4. ASSUME NEW k \in 1 .. Size, SkipPart(w, k)
        PROVE  Frame(w)
    BY <1>1, <1>4 DEF SkipPart, Receives, RemoveTemp, TypeOK
  <1>5. ASSUME NEW k \in 1 .. Size, Append(w, k)
        PROVE  Frame(w)
    BY <1>1, <1>5 DEF Append, Receives, TypeOK
  <1>6. ASSUME GetAgain(w)
        PROVE  \A u \in Writer \ {w} : at'[u] = at[u] /\ sent'[u] = sent[u]
    BY <1>6 DEF GetAgain, TypeOK
  <1>7. ASSUME RemoveTemp(w)
        PROVE  \A u \in Writer \ {w} : temp'[u] = temp[u] /\ bytes_written'[u] = bytes_written[u]
    BY <1>7 DEF RemoveTemp, TypeOK
  <1>8. CASE RemoveDirty(w)
    BY <1>1, <1>6, <1>7, <1>8, FetchOverStream DEF RemoveDirty, files
  <1>9. CASE LeaveOther(w)
    BY <1>1, <1>7, <1>9 DEF LeaveOther, files, TypeOK
  <1>10. CASE StartCopy(w)
    BY <1>1, <1>10 DEF StartCopy, TypeOK
  <1>11. CASE FinishCopy(w)
    BY <1>1, <1>7, <1>11 DEF FinishCopy, TypeOK
  <1>12. CASE EndOfBlob(w)
    BY <1>1, <1>12, FetchOverStream DEF EndOfBlob, files
  <1>13. CASE ConnectionDrops(w)
    BY <1>6, <1>13, FetchOverStream, FaultIsCounted DEF ConnectionDrops, files
  <1>14. CASE ErrorAnswer(w)
    <2>1. \A u \in Writer \ {w} : SameStream(u)
      BY <1>6, <1>7, <1>14, FetchOverStream DEF ErrorAnswer
    <2> QED
      BY <1>14, <2>1, FaultIsCounted DEF ErrorAnswer
  <1>15. CASE CopyFails(w)
    BY <1>15, FetchOverStream, FaultIsCounted DEF CopyFails, files
  <1>16. ASSUME NEW k \in 1 .. Size, AppendFails(w, k)
         PROVE  Frame(w)
    <2>1. ASSUME NEW n \in 0 .. k - 1, temp' = [temp EXCEPT ![w] = Appended(w, n)]
          PROVE  \A u \in Writer \ {w} : temp'[u] = temp[u]
      BY <2>1 DEF TypeOK
    <2>2. \A u \in Writer \ {w} : SameStream(u)
      BY <1>6, <1>16, <2>1, FetchOverStream DEF AppendFails
    <2> QED
      BY <1>16, <2>2, FaultIsCounted DEF AppendFails, Receives
  <1> QED
    BY <1>2, <1>3, <1>4, <1>5, <1>8, <1>9, <1>10, <1>11, <1>12, <1>13, <1>14, <1>15, <1>16
       DEF WriterAction, WriterStep

LEMMA IdleStream ==
  ASSUME NEW w \in Writer, at'[w] = "idle", temp'[w] = NoTemp, bytes_written'[w] = 0, sent'[w] = 0
  PROVE  StreamOK(w)'
  BY DirAssumption DEF StreamOK, NoTemp

\* A run that a fault has disturbed owes its streams little.
LEMMA DisturbedStream ==
  ASSUME NEW w \in Writer, disturbed', at'[w] = "stream", w[1] \in ImagesIn[version], UNCHANGED version
  PROVE  StreamOK(w)'
  BY DEF StreamOK

\* The next part is added where the temporary file ends.
LEMMA AppendStream ==
  ASSUME TypeOK, NEW w \in Writer, StreamOK(w), NEW k \in 1 .. Size, Append(w, k), ~disturbed
  PROVE  /\ temp'[w].good /\ temp'[w].len = sent'[w] /\ bytes_written'[w] = sent'[w]
         /\ at'[w] = "stream" => sent'[w] < Size
         /\ at'[w] = "full" => sent'[w] = Size
         /\ at'[w] \in {"stream", "full"}
  <1>1. /\ temp[w].good /\ temp[w].len = sent[w] /\ bytes_written[w] = sent[w]
        /\ sent[w] \in Nat /\ k \in Nat /\ sent[w] + k <= Size
    BY DirAssumption DEF Append, Receives, StreamOK, TypeOK
  <1>2. temp'[w] = Appended(w, k) /\ bytes_written'[w] = sent[w] + k /\ sent'[w] = sent[w] + k
    BY <1>1 DEF Append, TypeOK
  <1>3. Appended(w, k).good /\ Appended(w, k).len = sent[w] + k
    BY <1>1, Zenon DEF Appended
  <1>4. at'[w] = IF sent[w] + k = Size THEN "full" ELSE "stream"
    BY <1>2 DEF Append, TypeOK
  <1> QED
    BY <1>1, <1>2, <1>3, <1>4, DirAssumption

LEMMA WriterOwnStream ==
  ASSUME TypeOK, DirInv, NEW w \in Writer, StreamOK(w), ImageOK(w[1]), WriterAction(w)
  PROVE  StreamOK(w)'
  <1> w[1] \in Image /\ w[2] \in Digest
    BY WriterFacts
  <1>1. UNCHANGED version /\ Counted
    BY WriterFrame DEF Frame
  <1>2. Present(w[2]) => Present(w[2])'
    BY PresentStays, WriterActionIsNext
  <1>3. CASE StartLayer(w) \/ StartConfig(w)
    <2>1. at[w] = "idle" /\ at'[w] = "stream" /\ ~Present(w[2]) /\ w[1] \in ImagesIn[version]
          /\ UNCHANGED <<temp, bytes_written, sent>>
      BY <1>3 DEF StartLayer, StartConfig, TypeOK, ImageOK
    <2> QED
      BY <1>1, <2>1, DirAssumption DEF StreamOK, NoTemp
  <1>4. ASSUME NEW k \in 1 .. Size, SkipPart(w, k)
        PROVE  StreamOK(w)'
    <2>1. at'[w] = "stream" /\ Present(w[2])' /\ at[w] = "stream"
      BY <1>2, <1>4 DEF SkipPart, Receives
    <2> QED
      BY <1>1, <2>1 DEF StreamOK
  <1>5. ASSUME NEW k \in 1 .. Size, Append(w, k)
        PROVE  StreamOK(w)'
    <2>1. at[w] = "stream" /\ at'[w] \in {"stream", "full"} /\ w[1] \in dirs' /\ disturbed' = disturbed
      BY <1>5 DEF Append, Receives, TypeOK, bounds
    <2>2. w[1] \in ImagesIn[version]
      BY <2>1 DEF StreamOK
    <2>3. CASE disturbed'
      BY <1>1, <2>1, <2>2, <2>3 DEF StreamOK
    <2>4. CASE ~disturbed'
      BY <1>1, <1>5, <2>1, <2>2, <2>4, AppendStream DEF StreamOK
    <2> QED
      BY <2>3, <2>4
  <1>6. CASE RemoveDirty(w)
    <2>1. at[w] = "full" /\ ~Valid(w) /\ disturbed' = disturbed
      BY <1>6 DEF RemoveDirty, bounds
    <2>2. disturbed
      BY <2>1 DEF StreamOK, Valid
    <2>3. CASE GetAgain(w)
      <3>1. at'[w] = "stream"
        BY <2>3 DEF GetAgain, TypeOK
      <3> QED
        BY <1>1, <2>1, <2>2, <3>1, DisturbedStream DEF StreamOK
    <2> QED
      BY <1>6, <2>3, FetchOverStream, IdleStream DEF RemoveDirty
  <1>7. CASE LeaveOther(w) \/ FinishCopy(w)
    <2>1. at[w] # "idle" /\ at'[w] = "stream"
      BY <1>7 DEF LeaveOther, FinishCopy, TypeOK
    <2>2. Present(w[2])
      BY <1>7 DEF LeaveOther, FinishCopy, DirInv, CopyingInv, Present
    <2> QED
      BY <1>1, <1>2, <2>1, <2>2 DEF StreamOK
  <1>8. CASE StartCopy(w)
    <2>1. /\ at[w] = "full" /\ at'[w] = "copying"
          /\ UNCHANGED <<temp, bytes_written, sent, dirs>> /\ disturbed' = disturbed
      BY <1>8 DEF StartCopy, TypeOK, bounds
    <2> QED
      BY <1>1, <2>1 DEF StreamOK
  <1>9. CASE EndOfBlob(w) \/ CopyFails(w)
    BY <1>9, FetchOverStream, IdleStream DEF EndOfBlob, CopyFails
  <1>10. ASSUME at[w] = "stream", Drop \/ Accident, GetAgain(w) \/ FetchOver(w, "manifest")
         PROVE  StreamOK(w)'
    <2>1. disturbed' /\ w[1] \in ImagesIn[version]
      BY <1>10, FaultIsCounted DEF StreamOK
    <2>2. CASE GetAgain(w)
      <3>1. at'[w] = "stream"
        BY <2>2 DEF GetAgain, TypeOK
      <3> QED
        BY <1>1, <2>1, <3>1, DisturbedStream
    <2> QED
      BY <1>10, <2>2, FetchOverStream, IdleStream
  <1>11. CASE ConnectionDrops(w)
    BY <1>10, <1>11 DEF ConnectionDrops
  <1>12. CASE ErrorAnswer(w)
    BY <1>10, <1>12 DEF ErrorAnswer
  <1>13. ASSUME NEW k \in 1 .. Size, AppendFails(w, k)
         PROVE  StreamOK(w)'
    BY <1>10, <1>13 DEF AppendFails, Receives
  <1> QED
    BY <1>3, <1>4, <1>5, <1>6, <1>7, <1>8, <1>9, <1>11, <1>12, <1>13 DEF WriterAction, WriterStep

\* The streams of all writers.
LEMMA WriterKeepsStreams ==
  ASSUME TypeOK, DirInv, StreamsOK, ImagesOK, NEW w \in Writer, WriterAction(w)
  PROVE  StreamsOK'
  <1> SUFFICES ASSUME NEW u \in Writer PROVE StreamOK(u)'
    BY DEF StreamsOK
  <1>1. StreamOK(u) /\ StreamOK(w) /\ ImageOK(w[1]) /\ u[2] \in Digest
    BY WriterFacts DEF StreamsOK, ImagesOK
  <1>2. CASE u = w
    BY <1>1, <1>2, WriterOwnStream
  <1>3. CASE u # w
    <2>1. Frame(w)
      BY WriterFrame
    <2>2. Present(u[2]) => Present(u[2])'
      BY <1>1, PresentStays, WriterActionIsNext
    <2> QED
      BY <1>1, <1>3, <2>1, <2>2, OtherStream DEF Frame
  <1> QED
    BY <1>2, <1>3

\* The steps of images and of the tag leave streams alone.
ImageAction(i) == ImageStep(i) \/ ManifestWriteFails(i)
TagAction == TagStep \/ ListWriteFails

LEMMA ImageFrame ==
  ASSUME TypeOK, NEW i \in Image, ImageAction(i)
  PROVE  /\ UNCHANGED <<streams, blob, dirs, list, listed, tag, version>>
         /\ Counted
         /\ \A j \in Image \ {i} : img'[j] = img[j] /\ manifest'[j] = manifest[j]
         /\ img[i] \notin {"off", "over"}
  <1>1. ASSUME UNCHANGED bounds
        PROVE  Counted
    BY <1>1, Zenon DEF bounds, Counted
  <1>2. CASE ImageStep(i)
    BY <1>1, <1>2
    DEF ImageStep, CompareImage, LayersThere, ConfigThere, WriteManifest, LeaveManifest,
        ManifestWritten, ImgGoto, files, TypeOK
  <1>3. CASE ManifestWriteFails(i)
    BY <1>3, FaultIsCounted DEF ManifestWriteFails, ImgGoto, files, TypeOK
  <1> QED
    BY <1>2, <1>3 DEF ImageAction

LEMMA TagFrame ==
  ASSUME TypeOK, TagAction
  PROVE  /\ UNCHANGED <<streams, blob, version>>
         /\ Counted
         /\ \A i \in ImagesIn[version] : (i \in dirs' <=> i \in dirs) /\ manifest'[i] = manifest[i]
         /\ dirs' \subseteq dirs
         /\ tag' # "compare"
  <1>1. ASSUME UNCHANGED bounds
        PROVE  Counted
    BY <1>1, Zenon DEF bounds, Counted
  <1>2. ASSUME NEW i \in Image, RemoveStale(i)
        PROVE  /\ UNCHANGED <<streams, blob, version, tag>> /\ Counted
               /\ \A j \in ImagesIn[version] : (j \in dirs' <=> j \in dirs) /\ manifest'[j] = manifest[j]
               /\ dirs' \subseteq dirs
               /\ tag = "remove"
    BY <1>1, <1>2, DirAssumption DEF RemoveStale, TypeOK
  <1>3. CASE \/ CompareList \/ ImagesReturned \/ RemoveOldList \/ WriteList \/ RefuseList
             \/ ListWritten
    BY <1>1, <1>3
    DEF CompareList, ImagesReturned, RemoveOldList, WriteList, RefuseList, ListWritten, files
  <1>4. CASE ListWriteFails
    BY <1>4, FaultIsCounted DEF ListWriteFails, files
  <1> QED
    BY <1>2, <1>3, <1>4 DEF TagAction, TagStep

LEMMA OthersKeepStreams ==
  ASSUME TypeOK, StreamsOK, (\E i \in Image : ImageAction(i)) \/ TagAction
  PROVE  StreamsOK'
  <1> SUFFICES ASSUME NEW u \in Writer PROVE StreamOK(u)'
    BY DEF StreamsOK
  <1>1. StreamOK(u)
    BY DEF StreamsOK
  <1>2. UNCHANGED <<streams, blob, version>> /\ Counted
    BY ImageFrame, TagFrame
  <1>3. u[1] \in ImagesIn[version] => (u[1] \in dirs => u[1] \in dirs')
    BY ImageFrame, TagFrame
  <1>4. ~disturbed' => ~disturbed
    BY <1>2, Zenon DEF Counted
  <1> QED
    BY <1>1, <1>2, <1>3, <1>4 DEF StreamOK, streams, Present

LEMMA RestartStreams ==
  ASSUME Restart
  PROVE  StreamsOK'
  BY IdleStream DEF Restart, StreamsOK

-----------------------------------------------------------------------------
(* Images.                                                                   *)

\* What a writer does to an image that fetches its configuration.
LEMMA WriterImage ==
  ASSUME TypeOK, NEW w \in Writer, StreamOK(w), WriterAction(w), NEW i \in Image
  PROVE  \/ img'[i] = img[i]
         \/ img[i] = "config" /\ img'[i] = "fetch"
         \/ img[i] = "fetch" /\ img'[i] \in {"manifest", "over"} /\ disturbed'
         \/ /\ img[i] = "fetch" /\ img'[i] = "manifest"
            /\ EndOfBlob(w) /\ w[1] = i /\ w[2] = ConfigOf[i]
  <1> w[1] \in Image /\ w[2] \in Digest
    BY WriterFacts
  <1>1. ASSUME NEW next \in {"manifest", "over"}, FetchOver(w, next)
        PROVE  \/ img'[i] = img[i]
               \/ img[i] = "fetch" /\ img'[i] = next /\ w[1] = i /\ w[2] = ConfigOf[i]
    BY <1>1 DEF FetchOver, TypeOK
  <1>2. ASSUME GetAgain(w)
        PROVE  img' = img
    BY <1>2 DEF GetAgain
  <1>3. CASE StartConfig(w)
    BY <1>3 DEF StartConfig, TypeOK
  <1>4. CASE StartLayer(w) \/ LeaveOther(w) \/ StartCopy(w) \/ FinishCopy(w)
    BY <1>4 DEF StartLayer, LeaveOther, StartCopy, FinishCopy
  <1>5. ASSUME NEW k \in 1 .. Size, SkipPart(w, k) \/ Append(w, k)
        PROVE  img' = img
    BY <1>5 DEF SkipPart, Append
  <1>6. CASE RemoveDirty(w)
    <2>1. disturbed' = disturbed
      BY <1>6 DEF RemoveDirty, bounds
    <2>2. disturbed
      BY <1>6 DEF RemoveDirty, StreamOK, Valid
    <2> QED
      BY <1>1, <1>2, <1>6, <2>1, <2>2 DEF RemoveDirty
  <1>7. CASE EndOfBlob(w)
    BY <1>1, <1>7 DEF EndOfBlob
  <1>8. CASE ConnectionDrops(w)
    BY <1>1, <1>2, <1>8, FaultIsCounted DEF ConnectionDrops
  <1>9. CASE ErrorAnswer(w)
    BY <1>1, <1>2, <1>9, FaultIsCounted DEF ErrorAnswer
  <1>10. CASE CopyFails(w)
    BY <1>1, <1>10, FaultIsCounted DEF CopyFails
  <1>11. ASSUME NEW k \in 1 .. Size, AppendFails(w, k)
         PROVE  \/ img'[i] = img[i]
                \/ img[i] = "fetch" /\ img'[i] = "manifest" /\ disturbed'
    BY <1>1, <1>2, <1>11, FaultIsCounted DEF AppendFails
  <1> QED
    BY <1>3, <1>4, <1>5, <1>6, <1>7, <1>8, <1>9, <1>10, <1>11 DEF WriterAction, WriterStep

LEMMA WriterKeepsImages ==
  ASSUME TypeOK, DirInv, StreamsOK, ImagesOK, NEW w \in Writer, WriterAction(w)
  PROVE  ImagesOK'
  <1> SUFFICES ASSUME NEW i \in Image PROVE ImageOK(i)'
    BY DEF ImagesOK
  <1>1. ImageOK(i) /\ StreamOK(w)
    BY DEF ImagesOK, StreamsOK
  <1>2. UNCHANGED <<manifest, tag, version>> /\ Counted
    BY WriterFrame DEF Frame
  <1>3. \A d \in BlobsOf[i] : Present(d) => Present(d)'
    BY PresentStays, WriterActionIsNext, DirAssumption DEF BlobsOf
  <1>4. LayersOf[i] \subseteq BlobsOf[i] /\ BlobsOf[i] = LayersOf[i] \cup {ConfigOf[i]}
    BY DEF BlobsOf
  <1>5. /\ ~disturbed' => ~disturbed
        /\ accidents' = 0 => accidents = 0
    <2>1. ~disturbed' => ~disturbed
      BY <1>2, Zenon DEF Counted
    <2>2. accidents' = 0 => accidents = 0
      BY <1>2, DirAssumption DEF Counted, TypeOK
    <2> QED
      BY <2>1, <2>2
  <1>6. CASE img'[i] = img[i]
    BY <1>1, <1>2, <1>3, <1>4, <1>5, <1>6 DEF ImageOK
  <1>7. CASE img[i] = "config" /\ img'[i] = "fetch"
    BY <1>1, <1>2, <1>3, <1>4, <1>5, <1>7 DEF ImageOK
  <1>8. CASE img[i] = "fetch" /\ img'[i] \in {"manifest", "over"} /\ disturbed'
    BY <1>1, <1>2, <1>3, <1>4, <1>5, <1>8 DEF ImageOK
  <1>9. CASE /\ img[i] = "fetch" /\ img'[i] = "manifest"
             /\ EndOfBlob(w) /\ w[1] = i /\ w[2] = ConfigOf[i]
    <2>1. ~disturbed => Present(ConfigOf[i])
      BY <1>1, <1>9, DirAssumption DEF StreamOK, EndOfBlob
    <2>2. ~disturbed => \A d \in BlobsOf[i] : Present(d)
      BY <1>1, <1>4, <1>9, <2>1 DEF ImageOK
    <2> QED
      BY <1>1, <1>2, <1>3, <1>4, <1>5, <1>9, <2>2 DEF ImageOK
  <1> QED
    BY <1>1, <1>6, <1>7, <1>8, <1>9, WriterImage

\* An image that is in the version of the run, and has its own blob, has its directory.
LEMMA OwnDirectory ==
  ASSUME ImagesHaveOwnBlobs, NEW rank, NeverReturns(rank), TypeOK, DirsOK(rank),
         NEW i \in Image, i \in ImagesIn[version], \A d \in BlobsOf[i] : Present(d)
  PROVE  i \in dirs
  <1>1. Wanted(rank, i)
    BY DEF Wanted, TypeOK, NeverReturns
  <1>2. PICK d \in Digest : OwnBlob(i, d)
    BY DEF ImagesHaveOwnBlobs
  <1>3. Present(d)
    BY <1>2 DEF OwnBlob
  <1> QED
    BY <1>1, <1>2, <1>3 DEF DirsOK

LEMMA ImageKeepsImages ==
  ASSUME ImagesHaveOwnBlobs, NEW rank, NeverReturns(rank),
         TypeOK, DirInv, ImagesOK, DirsOK(rank), NEW i \in Image, ImageAction(i)
  PROVE  ImagesOK'
  <1> SUFFICES ASSUME NEW j \in Image PROVE ImageOK(j)'
    BY DEF ImagesOK
  <1>1. ImageOK(i) /\ ImageOK(j)
    BY DEF ImagesOK
  <1>2. /\ UNCHANGED <<streams, blob, dirs, list, listed, tag, version>> /\ Counted
        /\ j # i => img'[j] = img[j] /\ manifest'[j] = manifest[j]
        /\ img[i] \notin {"off", "over"}
    BY ImageFrame
  <1>3. \A d : Present(d)' <=> Present(d)
    BY <1>2 DEF Present
  <1>4. /\ ~disturbed' => ~disturbed
        /\ accidents' = 0 => accidents = 0
    <2>1. ~disturbed' => ~disturbed
      BY <1>2, Zenon DEF Counted
    <2>2. accidents' = 0 => accidents = 0
      BY <1>2, DirAssumption DEF Counted, TypeOK
    <2> QED
      BY <2>1, <2>2
  <1>5. CASE j # i
    BY <1>1, <1>2, <1>3, <1>4, <1>5 DEF ImageOK
  <1>6. i \in ImagesIn[version] /\ tag = "images"
    BY <1>1, <1>2 DEF ImageOK, TypeOK
  <1>7. BlobsOf[i] = LayersOf[i] \cup {ConfigOf[i]}
    BY DEF BlobsOf
  <1>8. CASE CompareImage(i)
    <2>1. /\ UNCHANGED manifest
          /\ \/ img'[i] = "blobs"
             \/ img'[i] = "manifest" /\ manifest[i] = "whole"
      BY <1>8 DEF CompareImage, ImgGoto, files, TypeOK
    <2>2. ImageOK(i)'
      BY <1>1, <1>2, <1>3, <1>4, <1>6, <1>8, <2>1 DEF ImageOK, CompareImage
    <2> QED
      BY <1>5, <2>2
  <1>9. CASE LayersThere(i)
    <2>1. UNCHANGED manifest /\ img'[i] = "config" /\ \A d \in LayersOf[i] : Present(d)
      BY <1>9 DEF LayersThere, ImgGoto, files, TypeOK
    <2>2. ImageOK(i)'
      BY <1>1, <1>2, <1>3, <1>4, <1>6, <1>9, <2>1 DEF ImageOK, LayersThere
    <2> QED
      BY <1>5, <2>2
  <1>10. CASE ConfigThere(i)
    <2>1. UNCHANGED manifest /\ img'[i] = "manifest" /\ img[i] = "config" /\ Present(ConfigOf[i])
      BY <1>10 DEF ConfigThere, ImgGoto, files, TypeOK
    <2>2. \A d \in BlobsOf[i] : Present(d)
      BY <1>1, <1>7, <2>1 DEF ImageOK
    <2>3. ImageOK(i)'
      BY <1>1, <1>2, <1>3, <1>4, <1>6, <2>1, <2>2 DEF ImageOK
    <2> QED
      BY <1>5, <2>3
  <1>11. CASE WriteManifest(i)
    <2>1. /\ manifest'[i] = "torn" /\ img'[i] = "writing"
          /\ \A d \in BlobsOf[i] : Present(d)
      BY <1>11 DEF WriteManifest, ImgGoto, TypeOK
    <2>2. ImageOK(i)'
      BY <1>1, <1>2, <1>3, <1>4, <1>6, <2>1 DEF ImageOK
    <2> QED
      BY <1>5, <2>2
  <1>12. CASE LeaveManifest(i)
    <2>1. UNCHANGED manifest /\ img'[i] = "over" /\ img[i] = "manifest"
      BY <1>12 DEF LeaveManifest, ImgGoto, files, TypeOK
    <2>2. ASSUME ~disturbed
          PROVE  manifest[i] # "absent"
      <3>1. \A d \in BlobsOf[i] : Present(d)
        BY <1>1, <2>1, <2>2 DEF ImageOK
      <3>2. i \in dirs
        BY <1>6, <3>1, OwnDirectory
      <3> QED
        BY <1>12, <3>1, <3>2 DEF LeaveManifest
    <2>3. ImageOK(i)'
      BY <1>1, <1>2, <1>3, <1>4, <1>6, <2>1, <2>2 DEF ImageOK
    <2> QED
      BY <1>5, <2>3
  <1>13. CASE ManifestWritten(i)
    <2>1. manifest'[i] = "whole" /\ img'[i] = "over" /\ manifest[i] = "torn"
      BY <1>13 DEF ManifestWritten, ImgGoto, TypeOK, DirInv, WritingInv
    <2>2. ImageOK(i)'
      BY <1>1, <1>2, <1>3, <1>4, <1>6, <2>1 DEF ImageOK
    <2> QED
      BY <1>5, <2>2
  <1>14. CASE ManifestWriteFails(i)
    <2>1. UNCHANGED manifest /\ img'[i] = "over" /\ disturbed'
      BY <1>14, FaultIsCounted DEF ManifestWriteFails, ImgGoto, files, TypeOK
    <2>2. accidents' # 0
      BY <1>14, DirAssumption DEF ManifestWriteFails, Accident, TypeOK
    <2>3. ImageOK(i)'
      BY <1>1, <1>2, <1>3, <1>4, <1>6, <2>1, <2>2 DEF ImageOK
    <2> QED
      BY <1>5, <2>3
  <1> QED
    BY <1>8, <1>9, <1>10, <1>11, <1>12, <1>13, <1>14 DEF ImageAction, ImageStep

LEMMA TagKeepsImages ==
  ASSUME TypeOK, ImagesOK, TagAction
  PROVE  ImagesOK'
  <1> SUFFICES ASSUME NEW i \in Image PROVE ImageOK(i)'
    BY DEF ImagesOK
  <1>1. ImageOK(i) /\ (\A d : Present(d)' <=> Present(d)) /\ UNCHANGED version
    BY TagFrame DEF ImagesOK, Present
  <1>2. /\ ~disturbed' => ~disturbed
        /\ accidents' = 0 => accidents = 0
    <2>1. Counted
      BY TagFrame
    <2>2. ~disturbed' => ~disturbed
      BY <2>1, Zenon DEF Counted
    <2>3. accidents' = 0 => accidents = 0
      BY <2>1, DirAssumption DEF Counted, TypeOK
    <2> QED
      BY <2>2, <2>3
  <1>3. CASE CompareList
    <2>1. CASE list = "whole" /\ listed = version
      <3>1. UNCHANGED <<manifest, img>> /\ tag = "compare" /\ tag' = "over"
        BY <1>3, <2>1 DEF CompareList, files
      <3> QED
        BY <1>1, <1>2, <3>1 DEF ImageOK
    <2>2. CASE ~(list = "whole" /\ listed = version)
      <3>1. /\ UNCHANGED manifest /\ tag = "compare" /\ tag' = "images"
            /\ img'[i] = IF i \in ImagesIn[version] THEN "compare" ELSE "off"
        BY <1>3, <2>2 DEF CompareList, files
      <3> QED
        BY <1>1, <1>2, <3>1 DEF ImageOK
    <2> QED
      BY <2>1, <2>2
  <1>4. CASE ImagesReturned
    <2>1. /\ UNCHANGED <<manifest, img>> /\ tag = "images" /\ tag' = "remove"
          /\ i \in ImagesIn[version] => img[i] = "over"
      BY <1>4 DEF ImagesReturned, files
    <2> QED
      BY <1>1, <1>2, <2>1 DEF ImageOK
  <1>5. ASSUME NEW j \in Image, RemoveStale(j)
        PROVE  ImageOK(i)'
    <2>1. UNCHANGED <<img, tag>> /\ tag = "remove" /\ j \notin ImagesIn[version]
          /\ manifest'[i] = IF i = j THEN "absent" ELSE manifest[i]
      BY <1>5 DEF RemoveStale, TypeOK
    <2> QED
      BY <1>1, <1>2, <2>1 DEF ImageOK
  <1>6. CASE RemoveOldList \/ WriteList \/ RefuseList \/ ListWritten \/ ListWriteFails
    <2>1. /\ UNCHANGED <<img, manifest>> /\ tag \notin {"images", "compare"}
          /\ tag' \notin {"images", "compare"}
      BY <1>6 DEF RemoveOldList, WriteList, RefuseList, ListWritten, ListWriteFails, files
    <2> QED
      BY <1>1, <1>2, <2>1 DEF ImageOK
  <1> QED
    BY <1>3, <1>4, <1>5, <1>6 DEF TagAction, TagStep

LEMMA RestartImages ==
  ASSUME TypeOK, ImagesOK, Rerun \/ Crash
  PROVE  ImagesOK'
  <1> SUFFICES ASSUME NEW i \in Image PROVE ImageOK(i)'
    BY DEF ImagesOK
  <1>1. /\ ImageOK(i) /\ img'[i] = "off" /\ tag' = "compare"
        /\ UNCHANGED <<manifest, blob>>
    BY DEF Rerun, Crash, Restart, files, ImagesOK
  <1>2. accidents' = 0 => tag = "over" /\ accidents = 0
    BY DirAssumption DEF Rerun, Crash, Over, TypeOK
  <1> QED
    BY <1>1, <1>2 DEF ImageOK, Present

-----------------------------------------------------------------------------
(* Directories.                                                              *)

\* What DirsOK says of one image.
LEMMA WriterKeepsDirs ==
  ASSUME NEW rank, NeverReturns(rank), TypeOK, DirInv, StreamsOK, DirsOK(rank),
         NEW w \in Writer, WriterAction(w)
  PROVE  DirsOK(rank)'
  <1> SUFFICES ASSUME NEW i \in Image
               PROVE  /\ i \in dirs' => \E v \in Version : i \in ImagesIn[v] /\ rank[v] <= rank[version']
                      /\ Wanted(rank, i)' => \A d \in Digest : OwnBlob(i, d) /\ Present(d)' => i \in dirs'
                      /\ list' = "whole" /\ i \in ImagesIn[listed'] /\ Wanted(rank, i)' => manifest'[i] # "absent"
    BY DEF DirsOK, OwnBlob
  <1>1. Frame(w) /\ StreamOK(w) /\ w[1] \in Image /\ w[2] \in BlobsOf[w[1]]
    BY WriterFrame DEF StreamsOK, Writer
  <1>2. Wanted(rank, i)' <=> Wanted(rank, i)
    BY <1>1 DEF Frame, Wanted
  <1>3. i \in dirs' => \E v \in Version : i \in ImagesIn[v] /\ rank[v] <= rank[version']
    <2>1. CASE i \in dirs
      BY <1>1, <2>1 DEF DirsOK, Frame
    <2>2. CASE i \notin dirs /\ i \in dirs'
      <3>1. i \in ImagesIn[version]
        BY <1>1, <2>2 DEF Frame, StreamOK
      <3> QED
        BY <1>1, <3>1 DEF Frame, TypeOK, NeverReturns
    <2> QED
      BY <2>1, <2>2
  <1>4. ASSUME Wanted(rank, i), NEW d \in Digest, OwnBlob(i, d), Present(d)'
        PROVE  i \in dirs'
    <2>1. CASE Present(d)
      BY <1>1, <1>4, <2>1 DEF DirsOK, Frame
    <2>2. CASE ~Present(d)
      <3>1. StartCopy(w)
        BY <1>4, <2>2, WriterKinds
        DEF WriterAction, QuietStep, StartCopy, FinishCopy, CopyFails, files, Present, TypeOK, DirInv,
            CopyingInv
      <3>2. d = w[2] /\ at[w] = "full"
        BY <1>4, <2>2, <3>1, WriterFacts DEF StartCopy, Present, TypeOK
      <3>3. w[1] = i
        BY <1>1, <1>4, <3>2 DEF OwnBlob
      <3> QED
        BY <1>1, <3>2, <3>3 DEF StreamOK, Frame
    <2> QED
      BY <2>1, <2>2
  <1> QED
    BY <1>1, <1>2, <1>3, <1>4 DEF DirsOK, Frame

LEMMA ImageKeepsDirs ==
  ASSUME NEW rank, TypeOK, DirsOK(rank), NEW j \in Image, ImageAction(j)
  PROVE  DirsOK(rank)'
  <1>1. UNCHANGED <<blob, dirs, list, listed, version>>
    BY ImageFrame
  <1>2. ASSUME NEW i \in Image, manifest[i] # "absent"
        PROVE  manifest'[i] # "absent"
    BY <1>2
    DEF ImageAction, ImageStep, CompareImage, LayersThere, ConfigThere, WriteManifest, LeaveManifest,
        ManifestWritten, ManifestWriteFails, files, TypeOK
  <1> QED
    BY <1>1, <1>2 DEF DirsOK, Wanted, OwnBlob, Present

\* A directory that goes belongs to an image no later list names.
LEMMA StaleIsUnwanted ==
  ASSUME NEW rank, NeverReturns(rank), TypeOK, DirsOK(rank), NEW i \in Image, RemoveStale(i)
  PROVE  ~Wanted(rank, i)
  <1> SUFFICES ASSUME NEW u \in Version, i \in ImagesIn[u], rank[version] <= rank[u]
               PROVE  FALSE
    BY DEF Wanted
  <1>1. i \in dirs /\ i \notin ImagesIn[version] /\ version \in Version
    BY DEF RemoveStale, TypeOK
  <1>2. PICK v \in Version : i \in ImagesIn[v] /\ rank[v] <= rank[version]
    BY <1>1 DEF DirsOK
  <1> QED
    BY <1>1, <1>2 DEF NeverReturns

LEMMA TagKeepsDirs ==
  ASSUME NEW rank, NeverReturns(rank), TypeOK, DirInv, DirsOK(rank), TagAction
  PROVE  DirsOK(rank)'
  <1>1. UNCHANGED <<blob, version>>
    BY TagFrame
  <1>2. ASSUME NEW j \in Image, RemoveStale(j)
        PROVE  DirsOK(rank)'
    <2>1. /\ ~Wanted(rank, j) /\ UNCHANGED <<list, listed>>
          /\ \A i \in Image \ {j} : manifest'[i] = manifest[i]
          /\ dirs' = dirs \ {j}
      BY <1>2, StaleIsUnwanted DEF RemoveStale, TypeOK
    <2> QED
      BY <1>1, <2>1 DEF DirsOK, Wanted, OwnBlob, Present
  <1>3. CASE ListWritten
    <2>1. /\ UNCHANGED <<manifest, dirs, listed>>
          /\ \A i \in ImagesIn[listed] : manifest[i] # "absent"
      BY <1>3 DEF ListWritten, DirInv, ListInv, AllManifests
    <2> QED
      BY <1>1, <2>1 DEF DirsOK, Wanted, OwnBlob, Present
  <1>4. CASE RemoveOldList \/ WriteList
    <2>1. UNCHANGED <<manifest, dirs>> /\ list' # "whole"
      BY <1>4 DEF RemoveOldList, WriteList
    <2> QED
      BY <1>1, <2>1 DEF DirsOK, Wanted, OwnBlob, Present
  <1>5. CASE CompareList \/ ImagesReturned \/ RefuseList \/ ListWriteFails
    <2>1. UNCHANGED files
      BY <1>5 DEF CompareList, ImagesReturned, RefuseList, ListWriteFails
    <2> QED
      BY <1>1, <2>1 DEF DirsOK, Wanted, OwnBlob, Present, files
  <1> QED
    BY <1>2, <1>3, <1>4, <1>5 DEF TagAction, TagStep

LEMMA RestartKeepsDirs ==
  ASSUME NEW rank, NeverReturns(rank), TypeOK, DirsOK(rank), Restart
  PROVE  DirsOK(rank)'
  <1>1. UNCHANGED files /\ version \in Version /\ version' \in Version /\ rank[version] <= rank[version']
    BY DirAssumption DEF Restart, NeverReturns, TypeOK
  <1>2. ASSUME NEW u \in Version
        PROVE  /\ rank[version'] <= rank[u] => rank[version] <= rank[u]
               /\ rank[u] <= rank[version] => rank[u] <= rank[version']
    BY <1>1 DEF NeverReturns
  <1> QED
    BY <1>1, <1>2 DEF DirsOK, Wanted, OwnBlob, Present, files

-----------------------------------------------------------------------------
(* The tag.                                                                  *)

\* No writer starts before the images do, and none copies while the list is written.
LEMMA WriterKeepsTag ==
  ASSUME TypeOK, DirInv, ImagesOK, TagOK, NEW w \in Writer, WriterAction(w)
  PROVE  TagOK'
  <1>1. Frame(w) /\ w[1] \in Image /\ ImageOK(w[1])
    BY WriterFrame, WriterFacts DEF ImagesOK
  <1>2. UNCHANGED <<manifest, version, tag>> /\ (~disturbed' => ~disturbed)
    <2>1. ~disturbed' => ~disturbed
      BY <1>1, Zenon DEF Frame, Counted
    <2> QED
      BY <1>1, <2>1 DEF Frame
  <1>3. tag # "compare"
    <2> SUFFICES ASSUME tag = "compare" PROVE FALSE
      OBVIOUS
    <2>1. at[w] = "idle" /\ img[w[1]] = "off"
      BY <1>1 DEF TagOK, ImageOK
    <2> QED
      BY <2>1
      DEF WriterAction, WriterStep, StartLayer, StartConfig, SkipPart, Append, Receives, RemoveDirty,
          LeaveOther, StartCopy, FinishCopy, EndOfBlob, ConnectionDrops, ErrorAnswer, CopyFails,
          AppendFails
  <1>4. ASSUME tag = "writing", NEW u \in Writer
        PROVE  at'[u] # "copying"
    <2>1. ~StartCopy(w) /\ at[u] # "copying" /\ at[w] # "copying"
      BY <1>4 DEF StartCopy, MutexFree, TagOK
    <2>2. at'[w] # "copying"
      BY <2>1, WriterKinds DEF WriterAction, QuietStep, FinishCopy, CopyFails
    <2> QED
      BY <1>1, <2>1, <2>2 DEF Frame, SameStream
  <1> QED
    BY <1>2, <1>3, <1>4 DEF TagOK, AllManifests

LEMMA ImageKeepsTag ==
  ASSUME TypeOK, ImagesOK, TagOK, NEW i \in Image, ImageAction(i)
  PROVE  TagOK'
  <1>1. UNCHANGED <<streams, tag>> /\ img[i] \notin {"off", "over"} /\ ImageOK(i)
    BY ImageFrame DEF ImagesOK
  <1>2. tag = "images"
    BY <1>1 DEF ImageOK
  <1> QED
    BY <1>1, <1>2 DEF TagOK

LEMMA TagKeepsTag ==
  ASSUME TypeOK, ImagesOK, TagOK, TagAction
  PROVE  TagOK'
  <1>1. UNCHANGED <<streams, version>> /\ tag' # "compare"
        /\ \A i \in ImagesIn[version] : manifest'[i] = manifest[i]
    BY TagFrame
  <1>2. AllManifests => AllManifests'
    BY <1>1 DEF AllManifests
  <1>3. ~disturbed' => ~disturbed
    <2>1. Counted
      BY TagFrame
    <2> QED
      BY <2>1, Zenon DEF Counted
  <1>4. CASE CompareList
    BY <1>1, <1>4 DEF CompareList, TagOK
  <1>5. CASE ImagesReturned
    <2>1. tag' = "remove" /\ (~disturbed => AllManifests)
      BY <1>5, DirAssumption DEF ImagesReturned, ImagesOK, ImageOK, AllManifests, TypeOK
    <2> QED
      BY <1>1, <1>2, <1>3, <2>1 DEF TagOK
  <1>6. ASSUME NEW i \in Image, RemoveStale(i)
        PROVE  TagOK'
    BY <1>1, <1>2, <1>3, <1>6 DEF RemoveStale, TagOK, streams
  <1>7. CASE RemoveOldList
    BY <1>1, <1>2, <1>3, <1>7 DEF RemoveOldList, TagOK
  <1>8. CASE WriteList
    BY <1>1, <1>2, <1>3, <1>8 DEF WriteList, TagOK, MutexFree, streams
  <1>9. CASE RefuseList \/ ListWritten \/ ListWriteFails
    <2>1. tag' = "over"
      BY <1>9 DEF RefuseList, ListWritten, ListWriteFails
    <2> QED
      BY <1>1, <2>1 DEF TagOK
  <1> QED
    BY <1>4, <1>5, <1>6, <1>7, <1>8, <1>9 DEF TagAction, TagStep

LEMMA RestartKeepsTag ==
  ASSUME Restart
  PROVE  TagOK'
  BY DEF Restart, TagOK

-----------------------------------------------------------------------------
(* The end of a run.                                                         *)

\* A writer that is still on its way when the tag is over has nothing left to store.
LEMMA WriterKeepsMirror ==
  ASSUME TypeOK, DirInv, StreamsOK, UndisturbedRunMirrors, NEW w \in Writer, WriterAction(w)
  PROVE  UndisturbedRunMirrors'
  <1> SUFFICES ASSUME tag' = "over", ~disturbed' PROVE Mirrored'
    BY DEF UndisturbedRunMirrors
  <1>1. Frame(w) /\ StreamOK(w) /\ w[1] \in Image /\ w[2] \in BlobsOf[w[1]] /\ w[2] \in Digest
    BY WriterFrame, WriterFacts DEF StreamsOK, Writer
  <1>2. ~disturbed
    BY <1>1, Zenon DEF Frame, Counted
  <1>3. Mirrored /\ UNCHANGED <<manifest, list, listed, version>>
    BY <1>1, <1>2 DEF Frame, UndisturbedRunMirrors
  <1>4. accidents' = 0 => accidents = 0
    BY <1>1, DirAssumption DEF Frame, Counted, TypeOK
  <1>5. ~StartCopy(w)
    BY <1>1, <1>3 DEF StartCopy, StreamOK, Mirrored
  <1>6. ASSUME NEW d \in Digest
        PROVE  /\ Present(d) => Present(d)'
               /\ blob[d] = "whole" => blob'[d] = "whole"
    <2>1. UNCHANGED blob \/ FinishCopy(w)
      BY <1>5, WriterKinds DEF WriterAction, QuietStep, CopyFails, files
    <2>2. CASE FinishCopy(w)
      BY <1>1, <2>2 DEF FinishCopy, DirInv, CopyingInv, Present, TypeOK
    <2> QED
      BY <2>1, <2>2 DEF Present
  <1>7. \A i \in ImagesIn[version] : BlobsOf[i] \subseteq Digest
    BY DirAssumption DEF BlobsOf, TypeOK
  <1> QED
    BY <1>3, <1>4, <1>6, <1>7 DEF Mirrored

LEMMA ImageKeepsMirror ==
  ASSUME TypeOK, ImagesOK, NEW i \in Image, ImageAction(i)
  PROVE  UndisturbedRunMirrors'
  <1>1. UNCHANGED tag /\ img[i] \notin {"off", "over"} /\ ImageOK(i)
    BY ImageFrame DEF ImagesOK
  <1> QED
    BY <1>1 DEF ImageOK, UndisturbedRunMirrors

\* With all manifests there, and nobody copying a blob, the store is complete.
LEMMA ManifestsAreEnough ==
  ASSUME TypeOK, DirInv, ImagesOK, AllManifests, tag # "images",
         \A w \in Writer : at[w] # "copying",
         NEW i \in ImagesIn[version]
  PROVE  /\ manifest[i] # "absent"
         /\ \A d \in BlobsOf[i] : Present(d)
         /\ accidents = 0 => manifest[i] = "whole" /\ \A d \in BlobsOf[i] : blob[d] = "whole"
  <1>1. i \in Image /\ ImageOK(i) /\ BlobsOf[i] \subseteq Digest
    BY DirAssumption DEF ImagesOK, BlobsOf, TypeOK
  <1>2. manifest[i] # "absent" /\ \A d \in BlobsOf[i] : Present(d)
    BY <1>1 DEF ImageOK, AllManifests
  <1>3. accidents = 0 => manifest[i] = "whole"
    BY <1>1, <1>2 DEF ImageOK, TypeOK
  <1>4. ASSUME accidents = 0, NEW d \in BlobsOf[i]
        PROVE  blob[d] = "whole"
    <2>1. blob[d] \notin {"absent", "wrong", "short"}
      BY <1>1, <1>2, <1>4 DEF Present, DirInv, BlobsVerified
    <2> QED
      BY <1>1, <2>1 DEF TypeOK
  <1> QED
    BY <1>2, <1>3, <1>4

LEMMA TagKeepsMirror ==
  ASSUME NEW rank, NeverReturns(rank), TypeOK, DirInv, ImagesOK, DirsOK(rank), TagOK, TagAction
  PROVE  UndisturbedRunMirrors'
  <1> SUFFICES ASSUME tag' = "over", ~disturbed' PROVE Mirrored'
    BY DEF UndisturbedRunMirrors
  <1>1. ~disturbed
    <2>1. Counted
      BY TagFrame
    <2> QED
      BY <2>1, Zenon DEF Counted
  <1>2. CompareList \/ RefuseList \/ ListWritten
    <2>1. ~ListWriteFails
      BY FaultIsCounted DEF ListWriteFails
    <2> QED
      BY <2>1 DEF TagAction, TagStep, ImagesReturned, RemoveStale, RemoveOldList, WriteList
  <1>3. ASSUME list' = "whole", listed' = version, UNCHANGED <<blob, manifest, version, accidents>>,
               AllManifests, tag # "images", \A w \in Writer : at[w] # "copying"
        PROVE  Mirrored'
    BY <1>3, ManifestsAreEnough DEF Mirrored, Present
  <1>4. CASE CompareList
    <2>1. list = "whole" /\ listed = version /\ tag = "compare" /\ UNCHANGED <<files, version, bounds>>
      BY <1>4 DEF CompareList
    <2>2. ASSUME NEW i \in ImagesIn[version]
          PROVE  manifest[i] # "absent"
      <3>1. i \in Image /\ Wanted(rank, i)
        BY DirAssumption DEF Wanted, NeverReturns, TypeOK
      <3> QED
        BY <2>1, <3>1 DEF DirsOK
    <2> QED
      BY <1>3, <2>1, <2>2 DEF AllManifests, TagOK, files, bounds
  <1>5. CASE RefuseList
    BY <1>1, <1>5 DEF RefuseList, TagOK
  <1>6. CASE ListWritten
    BY <1>3, <1>6 DEF ListWritten, DirInv, ListInv, TagOK, bounds
  <1> QED
    BY <1>2, <1>4, <1>5, <1>6

-----------------------------------------------------------------------------
LEMMA MirrorInitially ==
  ASSUME NEW rank, Init
  PROVE  MirrorInv(rank)
  <1>1. StreamsOK
    BY DirAssumption DEF Init, StreamsOK, StreamOK, NoTemp
  <1>2. ImagesOK
    BY DEF Init, ImagesOK, ImageOK
  <1>3. DirsOK(rank)
    BY DEF Init, DirsOK, Present
  <1>4. TagOK /\ UndisturbedRunMirrors
    BY DEF Init, TagOK, UndisturbedRunMirrors
  <1> QED
    BY <1>1, <1>2, <1>3, <1>4 DEF MirrorInv

LEMMA MirrorInductive ==
  ASSUME ImagesHaveOwnBlobs, NEW rank, NeverReturns(rank), TypeOK, DirInv, MirrorInv(rank),
         [Next]_vars
  PROVE  MirrorInv(rank)'
  <1> USE DEF MirrorInv
  <1>1. ASSUME NEW w \in Writer, WriterAction(w)
        PROVE  MirrorInv(rank)'
    BY <1>1, WriterKeepsStreams, WriterKeepsImages, WriterKeepsDirs, WriterKeepsTag, WriterKeepsMirror
  <1>2. ASSUME NEW i \in Image, ImageAction(i)
        PROVE  MirrorInv(rank)'
    BY <1>2, OthersKeepStreams, ImageKeepsImages, ImageKeepsDirs, ImageKeepsTag, ImageKeepsMirror
  <1>3. CASE TagAction
    BY <1>3, OthersKeepStreams, TagKeepsImages, TagKeepsDirs, TagKeepsTag, TagKeepsMirror
  <1>4. CASE Rerun \/ Crash
    <2>1. Restart /\ tag' # "over"
      BY <1>4 DEF Rerun, Crash, Restart
    <2>2. UndisturbedRunMirrors'
      BY <2>1 DEF UndisturbedRunMirrors
    <2> QED
      BY <1>4, <2>1, <2>2, RestartStreams, RestartImages, RestartKeepsDirs, RestartKeepsTag
  <1>5. CASE UNCHANGED vars
    <2>1. UNCHANGED <<blob, dirs, manifest, list, listed, at, temp, bytes_written, sent, img, tag,
                      version, accidents>>
      BY <1>5 DEF vars, files, streams, bounds
    <2>2. disturbed' = disturbed
      BY <1>5, Zenon DEF vars, bounds
    <2> QED
      BY <2>1, <2>2
      DEF StreamsOK, StreamOK, ImagesOK, ImageOK, DirsOK, Wanted, OwnBlob, TagOK, AllManifests,
          UndisturbedRunMirrors, Mirrored, Present
  <1> QED
    BY <1>1, <1>2, <1>3, <1>4, <1>5
    DEF Next, Mishap, Terminated, WriterAction, ImageAction, TagAction

\* If every image has a blob of its own and the source never goes back to an image it has
\* left, a run that nothing disturbs leaves the tag mirrored, wherever the runs before it
\* were killed and whatever they left half written.
THEOREM DirUndisturbedRunMirrors ==
  ASSUME ImagesHaveOwnBlobs, NEW CONSTANT rank, NeverReturns(rank)
  PROVE  SafeSpec => []UndisturbedRunMirrors
  <1>1. Init => MirrorInv(rank)
    BY MirrorInitially
  <1>2. TypeOK /\ DirInv /\ MirrorInv(rank) /\ [Next]_vars => MirrorInv(rank)'
    BY MirrorInductive
  <1>3. MirrorInv(rank) => UndisturbedRunMirrors
    BY DEF MirrorInv
  <1> QED
    BY <1>1, <1>2, <1>3, DirInvariant, PTL DEF SafeSpec
=============================================================================
