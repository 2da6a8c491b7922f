--------------------------- MODULE DirStoreProofs ---------------------------
(* What holds of a Dir for all images and versions of a list, any number of  *)
(* runs, of connections that break, of crashes and of full disks.            *)
EXTENDS DirStore, TLAPS

-----------------------------------------------------------------------------
(* Types.  A stream's state and the counters of faults change together.      *)

StreamTypeOK ==
  /\ at \in [Writer -> {"idle", "stream", "full", "copying"}]
  /\ temp \in [Writer -> [len : Nat, good : BOOLEAN]]
  /\ bytes_written \in [Writer -> Nat]
  /\ sent \in [Writer -> 0 .. Size]
  /\ gets \in [Writer -> 1 .. Gets]
  /\ img \in [Image -> {"off", "compare", "blobs", "config", "fetch", "manifest", "writing", "over"}]

BoundTypeOK ==
  /\ disturbed \in BOOLEAN
  /\ runs \in 1 .. MaxRuns /\ drops \in 0 .. MaxDrops /\ accidents \in 0 .. MaxAccidents

FileTypeOK ==
  /\ blob \in [Digest -> {"absent", "short", "whole", "wrong"}]
  /\ dirs \subseteq Image
  /\ manifest \in [Image -> {"absent", "torn", "whole"}]
  /\ list \in {"absent", "torn", "whole"}
  /\ listed \in Version
  /\ tag \in {"compare", "images", "remove", "write", "writing", "over"}
  /\ version \in Version

LEMMA TypeParts == TypeOK <=> StreamTypeOK /\ BoundTypeOK /\ FileTypeOK
  BY DEF TypeOK, StreamTypeOK, BoundTypeOK, FileTypeOK

LEMMA TypePartsNext ==
  ASSUME StreamTypeOK', BoundTypeOK', FileTypeOK'
  PROVE  TypeOK'
  BY DEF TypeOK, StreamTypeOK, BoundTypeOK, FileTypeOK

LEMMA WriterFacts ==
  ASSUME NEW w \in Writer
  PROVE  w[1] \in Image /\ w[2] \in Digest
  BY DEF Writer

\* A fault is counted within its bound.
LEMMA FaultTypes ==
  ASSUME BoundTypeOK, Drop \/ Accident
  PROVE  BoundTypeOK'
  <1> USE DirAssumption DEF BoundTypeOK
  <1>1. disturbed' \in BOOLEAN
    BY Zenon DEF Drop, Accident
  <1>2. runs' \in 1 .. MaxRuns /\ drops' \in 0 .. MaxDrops /\ accidents' \in 0 .. MaxAccidents
    BY DEF Drop, Accident
  <1> QED
    BY <1>1, <1>2

LEMMA NoTempType == NoTemp \in [len : Nat, good : BOOLEAN]
  BY DEF NoTemp

LEMMA AppendedType ==
  ASSUME StreamTypeOK, NEW w \in Writer, NEW n \in Nat
  PROVE  Appended(w, n) \in [len : Nat, good : BOOLEAN]
  <1>1. temp[w].len + n \in Nat
    BY DEF StreamTypeOK
  <1>2. (temp[w].good /\ (n = 0 \/ sent[w] = temp[w].len)) \in BOOLEAN
    BY Zenon
  <1> QED
    BY <1>1, <1>2, Zenon DEF Appended

LEMMA RemoveTempTypes ==
  ASSUME StreamTypeOK, NEW w \in Writer, RemoveTemp(w)
  PROVE  temp' \in [Writer -> [len : Nat, good : BOOLEAN]] /\ bytes_written' \in [Writer -> Nat]
  <1> HIDE DEF NoTemp
  <1> QED
    BY NoTempType DEF StreamTypeOK, RemoveTemp

LEMMA FetchOverTypes ==
  ASSUME StreamTypeOK, NEW w \in Writer, NEW next \in {"manifest", "over"}, FetchOver(w, next)
  PROVE  StreamTypeOK'
  <1>1. temp' \in [Writer -> [len : Nat, good : BOOLEAN]] /\ bytes_written' \in [Writer -> Nat]
    BY RemoveTempTypes DEF FetchOver
  <1>2. /\ at' \in [Writer -> {"idle", "stream", "full", "copying"}]
        /\ sent' \in [Writer -> 0 .. Size]
        /\ gets' \in [Writer -> 1 .. Gets]
    BY DirAssumption DEF StreamTypeOK, FetchOver, Gets
  <1>3. img' \in [Image -> {"off", "compare", "blobs", "config", "fetch", "manifest", "writing", "over"}]
    BY WriterFacts DEF StreamTypeOK, FetchOver
  <1> QED
    BY <1>1, <1>2, <1>3 DEF StreamTypeOK

LEMMA GetAgainTypes ==
  ASSUME StreamTypeOK, NEW w \in Writer, GetAgain(w)
  PROVE  /\ at' \in [Writer -> {"idle", "stream", "full", "copying"}]
         /\ sent' \in [Writer -> 0 .. Size]
         /\ gets' \in [Writer -> 1 .. Gets]
         /\ UNCHANGED img
  BY DirAssumption DEF StreamTypeOK, GetAgain, Gets

LEMMA WriterStepTypes ==
  ASSUME TypeOK, NEW w \in Writer, WriterStep(w)
  PROVE  TypeOK'
  <1> StreamTypeOK /\ BoundTypeOK /\ FileTypeOK
    BY TypeParts
  <1> SUFFICES StreamTypeOK' /\ BoundTypeOK' /\ FileTypeOK'
    BY TypePartsNext
  <1> w[1] \in Image /\ w[2] \in Digest
    BY WriterFacts
  <1>1. CASE StartLayer(w)
    BY <1>1 DEF StartLayer, bounds, files, StreamTypeOK, BoundTypeOK, FileTypeOK
  <1>2. CASE StartConfig(w)
    <2>1. UNCHANGED <<files, tag, version, bounds>>
      BY <1>2 DEF StartConfig
    <2>2. BoundTypeOK' /\ FileTypeOK'
      BY <2>1 DEF bounds, files, BoundTypeOK, FileTypeOK
    <2>3. StreamTypeOK'
      BY <1>2 DEF StartConfig, StreamTypeOK
    <2> QED
      BY <2>2, <2>3
  <1>3. ASSUME NEW k \in 1 .. Size, Receives(w, k)
        PROVE  /\ FileTypeOK'
               /\ [sent EXCEPT ![w] = sent[w] + k] \in [Writer -> 0 .. Size]
    BY <1>3, DirAssumption DEF Receives, FileTypeOK, StreamTypeOK
  <1>4. ASSUME NEW k \in 1 .. Size, SkipPart(w, k)
        PROVE  StreamTypeOK' /\ BoundTypeOK' /\ FileTypeOK'
    <2>1. temp' \in [Writer -> [len : Nat, good : BOOLEAN]] /\ bytes_written' \in [Writer -> Nat]
      BY <1>4, RemoveTempTypes DEF SkipPart
    <2> QED
      BY <1>3, <1>4, <2>1 DEF SkipPart, bounds, StreamTypeOK, BoundTypeOK
  <1>5. ASSUME NEW k \in 1 .. Size, Append(w, k)
        PROVE  StreamTypeOK' /\ BoundTypeOK' /\ FileTypeOK'
    <2>1. k \in Nat
      BY DirAssumption
    <2>2. temp' \in [Writer -> [len : Nat, good : BOOLEAN]]
      BY <1>5, <2>1, AppendedType DEF Append, StreamTypeOK
    <2>3. bytes_written' \in [Writer -> Nat] /\ sent' \in [Writer -> 0 .. Size] /\ FileTypeOK'
      BY <1>3, <1>5, <2>1 DEF Append, StreamTypeOK
    <2>4. at' \in [Writer -> {"idle", "stream", "full", "copying"}]
      BY <1>5 DEF Append, StreamTypeOK
    <2> QED
      BY <1>5, <2>2, <2>3, <2>4 DEF Append, bounds, StreamTypeOK, BoundTypeOK
  <1>6. CASE RemoveDirty(w)
    <2>1. BoundTypeOK' /\ FileTypeOK'
      BY <1>6 DEF RemoveDirty, bounds, files, BoundTypeOK, FileTypeOK
    <2>2. CASE GetAgain(w) /\ RemoveTemp(w)
      BY <2>1, <2>2, GetAgainTypes, RemoveTempTypes DEF StreamTypeOK
    <2>3. CASE FetchOver(w, "manifest")
      BY <2>1, <2>3, FetchOverTypes
    <2> QED
      BY <1>6, <2>2, <2>3 DEF RemoveDirty
  <1>7. CASE LeaveOther(w)
    <2>1. temp' \in [Writer -> [len : Nat, good : BOOLEAN]] /\ bytes_written' \in [Writer -> Nat]
      BY <1>7, RemoveTempTypes DEF LeaveOther
    <2> QED
      BY <1>7, <2>1 DEF LeaveOther, bounds, files, StreamTypeOK, BoundTypeOK, FileTypeOK
  <1>8. CASE StartCopy(w)
    BY <1>8 DEF StartCopy, bounds, StreamTypeOK, BoundTypeOK, FileTypeOK
  <1>9. CASE FinishCopy(w)
    <2>1. temp' \in [Writer -> [len : Nat, good : BOOLEAN]] /\ bytes_written' \in [Writer -> Nat]
      BY <1>9, RemoveTempTypes DEF FinishCopy
    <2> QED
      BY <1>9, <2>1 DEF FinishCopy, bounds, StreamTypeOK, BoundTypeOK, FileTypeOK
  <1>10. CASE EndOfBlob(w)
    BY <1>10, FetchOverTypes DEF EndOfBlob, bounds, files, BoundTypeOK, FileTypeOK
  <1> QED
    BY <1>1, <1>2, <1>4, <1>5, <1>6, <1>7, <1>8, <1>9, <1>10 DEF WriterStep

LEMMA ImageStepTypes ==
  ASSUME TypeOK, NEW i \in Image, ImageStep(i)
  PROVE  TypeOK'
  <1> USE DEF TypeOK, ImgGoto, files, streams, bounds
  <1>1. CASE CompareImage(i)
    BY <1>1 DEF CompareImage
  <1>2. CASE LayersThere(i)
    BY <1>2 DEF LayersThere
  <1>3. CASE ConfigThere(i)
    BY <1>3 DEF ConfigThere
  <1>4. CASE WriteManifest(i)
    BY <1>4 DEF WriteManifest
  <1>5. CASE LeaveManifest(i)
    BY <1>5 DEF LeaveManifest
  <1>6. CASE ManifestWritten(i)
    BY <1>6 DEF ManifestWritten
  <1> QED
    BY <1>1, <1>2, <1>3, <1>4, <1>5, <1>6 DEF ImageStep

LEMMA TagStepTypes ==
  ASSUME TypeOK, TagStep
  PROVE  TypeOK'
  <1> USE DEF TypeOK, files, streams, bounds
  <1>1. CASE CompareList
    BY <1>1 DEF CompareList
  <1>2. CASE ImagesReturned
    BY <1>2 DEF ImagesReturned
  <1>3. ASSUME NEW i \in Image, RemoveStale(i)
        PROVE  TypeOK'
    BY <1>3 DEF RemoveStale
  <1>4. CASE RemoveOldList
    BY <1>4 DEF RemoveOldList
  <1>5. CASE WriteList
    BY <1>5 DEF WriteList
  <1>6. CASE RefuseList
    BY <1>6 DEF RefuseList
  <1>7. CASE ListWritten
    BY <1>7 DEF ListWritten
  <1> QED
    BY <1>1, <1>2, <1>3, <1>4, <1>5, <1>6, <1>7 DEF TagStep

\* A run that starts anew has nothing but the files.
LEMMA RestartTypes ==
  ASSUME TypeOK, Restart, accidents' \in 0 .. MaxAccidents
  PROVE  TypeOK'
  <1>1. temp' \in [Writer -> [len : Nat, good : BOOLEAN]]
    <2> HIDE DEF NoTemp
    <2> QED
      BY NoTempType DEF Restart
  <1>2. StreamTypeOK'
    BY <1>1, DirAssumption DEF Restart, StreamTypeOK, Gets
  <1>3. version' \in Version
    BY DirAssumption DEF Restart, TypeOK
  <1>4. disturbed' \in BOOLEAN
    BY Zenon DEF Restart
  <1>5. BoundTypeOK'
    BY <1>4, DirAssumption DEF Restart, TypeOK, BoundTypeOK
  <1>6. FileTypeOK'
    BY <1>3 DEF Restart, TypeOK, FileTypeOK, files
  <1> QED
    BY <1>2, <1>5, <1>6, TypePartsNext

LEMMA MishapTypes ==
  ASSUME TypeOK, Mishap
  PROVE  TypeOK'
  <1> StreamTypeOK /\ BoundTypeOK /\ FileTypeOK
    BY TypeParts
  <1>1. ASSUME StreamTypeOK', BoundTypeOK', FileTypeOK'
        PROVE  TypeOK'
    BY <1>1, TypePartsNext
  <1>2. ASSUME NEW w \in Writer, ConnectionDrops(w)
        PROVE  TypeOK'
    <2>1. BoundTypeOK' /\ FileTypeOK'
      BY <1>2, FaultTypes DEF ConnectionDrops, files, FileTypeOK
    <2>2. CASE GetAgain(w) /\ UNCHANGED <<temp, bytes_written>>
      BY <1>1, <2>1, <2>2, GetAgainTypes DEF StreamTypeOK
    <2>3. CASE FetchOver(w, "manifest")
      BY <1>1, <2>1, <2>3, FetchOverTypes
    <2> QED
      BY <1>2, <2>2, <2>3 DEF ConnectionDrops
  <1>3. ASSUME NEW w \in Writer, ErrorAnswer(w)
        PROVE  TypeOK'
    <2>1. BoundTypeOK' /\ FileTypeOK'
      BY <1>3, FaultTypes, WriterFacts DEF ErrorAnswer, FileTypeOK
    <2>2. CASE GetAgain(w) /\ RemoveTemp(w)
      BY <1>1, <2>1, <2>2, GetAgainTypes, RemoveTempTypes DEF StreamTypeOK
    <2>3. CASE FetchOver(w, "manifest")
      BY <1>1, <2>1, <2>3, FetchOverTypes
    <2> QED
      BY <1>3, <2>2, <2>3 DEF ErrorAnswer
  <1>4. ASSUME NEW w \in Writer, CopyFails(w)
        PROVE  TypeOK'
    BY <1>1, <1>4, FaultTypes, FetchOverTypes DEF CopyFails, files, FileTypeOK
  <1>5. ASSUME NEW w \in Writer, NEW k \in 1 .. Size, AppendFails(w, k)
        PROVE  TypeOK'
    <2>1. BoundTypeOK' /\ FileTypeOK'
      BY <1>5, FaultTypes, WriterFacts DEF AppendFails, Receives, FileTypeOK
    <2>2. ASSUME NEW n \in 0 .. k - 1, temp' = [temp EXCEPT ![w] = Appended(w, n)],
                 UNCHANGED bytes_written, GetAgain(w)
          PROVE  TypeOK'
      <3>1. n \in Nat
        BY DirAssumption
      <3>2. temp' \in [Writer -> [len : Nat, good : BOOLEAN]]
        BY <2>2, <3>1, AppendedType DEF StreamTypeOK
      <3> QED
        BY <1>1, <2>1, <2>2, <3>2, GetAgainTypes DEF StreamTypeOK
    <2>3. CASE FetchOver(w, "manifest")
      BY <1>1, <2>1, <2>3, FetchOverTypes
    <2> QED
      BY <1>5, <2>2, <2>3 DEF AppendFails
  <1>6. ASSUME NEW i \in Image, ManifestWriteFails(i)
        PROVE  TypeOK'
    <2>1. BoundTypeOK'
      BY <1>6, FaultTypes DEF ManifestWriteFails
    <2>2. FileTypeOK' /\ StreamTypeOK'
      BY <1>6 DEF ManifestWriteFails, ImgGoto, files, streams, FileTypeOK, StreamTypeOK
    <2> QED
      BY <1>1, <2>1, <2>2
  <1>7. CASE ListWriteFails
    BY <1>1, <1>7, FaultTypes DEF ListWriteFails, files, streams, FileTypeOK, StreamTypeOK
  <1>8. CASE Crash
    BY <1>8, RestartTypes, DirAssumption DEF Crash, TypeOK
  <1> QED
    BY <1>2, <1>3, <1>4, <1>5, <1>6, <1>7, <1>8 DEF Mishap

LEMMA StepTypes ==
  ASSUME TypeOK, [Next]_vars
  PROVE  TypeOK'
  <1>1. CASE UNCHANGED vars
    BY <1>1 DEF vars, files, streams, bounds, TypeOK
  <1>2. CASE Rerun
    BY <1>2, RestartTypes DEF Rerun, TypeOK
  <1> QED
    BY <1>1, <1>2, WriterStepTypes, ImageStepTypes, TagStepTypes, MishapTypes DEF Next, Terminated

LEMMA InitTypes == Init => TypeOK
  <1> SUFFICES ASSUME Init PROVE TypeOK
    OBVIOUS
  <1>1. temp \in [Writer -> [len : Nat, good : BOOLEAN]]
    <2> HIDE DEF NoTemp
    <2> QED
      BY NoTempType DEF Init
  <1>2. disturbed \in BOOLEAN
    BY Zenon DEF Init
  <1> QED
    BY <1>1, <1>2, DirAssumption DEF Init, TypeOK, Gets

\* Lengths, counts and bounds stay within their types: above all a Get is not repeated
\* more often than `++retries != 3` allows, and no more is delivered than the blob has.
THEOREM DirTypes == SafeSpec => []TypeOK
  BY InitTypes, StepTypes, PTL DEF SafeSpec

-----------------------------------------------------------------------------
(* The inductive invariant.  A step of a writer touches files only where it  *)
(* starts and finishes the copy of a blob.                                   *)

\* Nothing else of the store moves, and an image leaves what it did for something
\* other than writing.
RestUnchanged ==
  /\ UNCHANGED <<manifest, list, listed, tag, version>>
  /\ accidents' \in {accidents, accidents + 1}
  /\ \A i \in Image : img'[i] = img[i] \/ (img[i] \notin {"off", "over"} /\ img'[i] # "writing")

OthersUnchanged(w) == \A u \in Writer \ {w} : at'[u] = at[u] /\ temp'[u] = temp[u]

\* A step of a writer that neither starts nor ends a copy.
QuietStep(w) ==
  /\ at[w] # "copying" /\ at'[w] # "copying"
  /\ OthersUnchanged(w)
  /\ UNCHANGED blob

LEMMA FaultCounted ==
  ASSUME Drop \/ Accident
  PROVE  accidents' \in {accidents, accidents + 1}
  BY DEF Drop, Accident

LEMMA RemoveTempFacts ==
  ASSUME TypeOK, NEW w \in Writer, RemoveTemp(w)
  PROVE  \A u \in Writer \ {w} : temp'[u] = temp[u]
  BY DEF TypeOK, RemoveTemp

LEMMA FetchOverFacts ==
  ASSUME TypeOK, NEW w \in Writer, NEW next \in {"manifest", "over"}, FetchOver(w, next)
  PROVE  /\ at'[w] = "idle" /\ OthersUnchanged(w)
         /\ \A i \in Image : img'[i] = img[i] \/ (img[i] = "fetch" /\ img'[i] = next)
  <1>1. at'[w] = "idle" /\ OthersUnchanged(w)
    BY RemoveTempFacts DEF TypeOK, FetchOver, OthersUnchanged
  <1>2. \A i \in Image : img'[i] = img[i] \/ (img[i] = "fetch" /\ img'[i] = next)
    BY WriterFacts DEF TypeOK, FetchOver
  <1> QED
    BY <1>1, <1>2

LEMMA GetAgainFacts ==
  ASSUME TypeOK, NEW w \in Writer, GetAgain(w)
  PROVE  /\ at'[w] = "stream" /\ UNCHANGED img
         /\ \A u \in Writer \ {w} : at'[u] = at[u]
  BY DEF TypeOK, GetAgain

\* The steps of a writer, and what can go wrong with it, one kind of step each.
LEMMA WriterKinds ==
  ASSUME TypeOK, NEW w \in Writer,
         \/ WriterStep(w) \/ ConnectionDrops(w) \/ ErrorAnswer(w) \/ CopyFails(w)
         \/ \E k \in 1 .. Size : AppendFails(w, k)
  PROVE  /\ RestUnchanged
         /\ QuietStep(w) \/ StartCopy(w) \/ FinishCopy(w) \/ CopyFails(w)
  <1> w[1] \in Image /\ w[2] \in Digest
    BY WriterFacts
  <1> USE DEF RestUnchanged, QuietStep, OthersUnchanged
  <1>1. CASE StartLayer(w)
    BY <1>1 DEF StartLayer, bounds, files, TypeOK
  <1>2. CASE StartConfig(w)
    <2>1. QuietStep(w)
      BY <1>2 DEF StartConfig, files, TypeOK
    <2>2. UNCHANGED <<manifest, list, listed, tag, version, accidents>>
      BY <1>2 DEF StartConfig, files, bounds
    <2>3. \A i \in Image : img'[i] = img[i] \/ (img[i] = "config" /\ img'[i] = "fetch")
      BY <1>2 DEF StartConfig, TypeOK
    <2> QED
      BY <2>1, <2>2, <2>3
  <1>3. ASSUME NEW k \in 1 .. Size, SkipPart(w, k)
        PROVE  RestUnchanged /\ QuietStep(w)
    <2>1. at[w] = "stream" /\ UNCHANGED <<at, img, blob, manifest, list, listed, tag, version, accidents>>
      BY <1>3 DEF SkipPart, Receives, bounds
    <2> QED
      BY <1>3, <2>1, RemoveTempFacts DEF SkipPart
  <1>4. ASSUME NEW k \in 1 .. Size, Append(w, k)
        PROVE  RestUnchanged /\ QuietStep(w)
    <2>1. at[w] = "stream" /\ UNCHANGED <<img, blob, manifest, list, listed, tag, version, accidents>>
      BY <1>4 DEF Append, Receives, bounds
    <2>2. /\ at'[w] \in {"full", "stream"}
          /\ \A u \in Writer \ {w} : at'[u] = at[u] /\ temp'[u] = temp[u]
      BY <1>4 DEF Append, TypeOK
    <2> QED
      BY <2>1, <2>2
  <1>5. ASSUME at[w] # "copying", UNCHANGED <<blob, manifest, list, listed, tag, version>>,
               accidents' \in {accidents, accidents + 1},
               \/ GetAgain(w) /\ (\A u \in Writer \ {w} : temp'[u] = temp[u])
               \/ FetchOver(w, "manifest")
        PROVE  RestUnchanged /\ QuietStep(w)
    <2>1. CASE GetAgain(w) /\ \A u \in Writer \ {w} : temp'[u] = temp[u]
      BY <1>5, <2>1, GetAgainFacts
    <2>2. CASE FetchOver(w, "manifest")
      BY <1>5, <2>2, FetchOverFacts
    <2> QED
      BY <1>5, <2>1, <2>2
  <1>6. CASE RemoveDirty(w)
    BY <1>5, <1>6, RemoveTempFacts DEF RemoveDirty, bounds, files
  <1>7. CASE LeaveOther(w)
    <2>1. at[w] = "full" /\ UNCHANGED <<img, blob, manifest, list, listed, tag, version, accidents>>
      BY <1>7 DEF LeaveOther, bounds, files
    <2>2. at'[w] = "stream" /\ \A u \in Writer \ {w} : at'[u] = at[u]
      BY <1>7 DEF LeaveOther, TypeOK
    <2> QED
      BY <1>7, <2>1, <2>2, RemoveTempFacts DEF LeaveOther
  <1>8. CASE StartCopy(w)
    BY <1>8 DEF StartCopy, bounds
  <1>9. CASE FinishCopy(w)
    BY <1>9 DEF FinishCopy, bounds
  <1>10. CASE EndOfBlob(w)
    BY <1>5, <1>10 DEF EndOfBlob, bounds, files
  <1>11. CASE ConnectionDrops(w)
    BY <1>5, <1>11, FaultCounted DEF ConnectionDrops, files
  <1>12. CASE ErrorAnswer(w)
    BY <1>5, <1>12, FaultCounted, RemoveTempFacts DEF ErrorAnswer
  <1>13. CASE CopyFails(w)
    BY <1>13, FaultCounted, FetchOverFacts DEF CopyFails, files
  <1>14. ASSUME NEW k \in 1 .. Size, AppendFails(w, k)
         PROVE  RestUnchanged /\ QuietStep(w)
    <2>1. at[w] # "copying" /\ UNCHANGED <<blob, manifest, list, listed, tag, version>>
      BY <1>14 DEF AppendFails, Receives
    <2>2. ASSUME NEW n \in 0 .. k - 1, temp' = [temp EXCEPT ![w] = Appended(w, n)]
          PROVE  \A u \in Writer \ {w} : temp'[u] = temp[u]
      BY <2>2 DEF TypeOK
    <2> QED
      BY <1>5, <1>14, <2>1, <2>2, FaultCounted DEF AppendFails
  <1> QED
    BY <1>1, <1>2, <1>3, <1>4, <1>6, <1>7, <1>8, <1>9, <1>10, <1>11, <1>12, <1>13, <1>14 DEF WriterStep

LEMMA QuietInv ==
  ASSUME TypeOK, CopyingInv, BlobsVerified, RestUnchanged, NEW w \in Writer, QuietStep(w)
  PROVE  CopyingInv' /\ BlobsVerified'
  <1>1. ASSUME NEW u \in Writer, at'[u] = "copying"
        PROVE  u # w /\ at[u] = "copying" /\ temp'[u] = temp[u]
    BY <1>1 DEF QuietStep, OthersUnchanged
  <1>2. ASSUME NEW u \in Writer, at[u] = "copying"
        PROVE  at'[u] = "copying"
    BY <1>2 DEF QuietStep, OthersUnchanged
  <1>3. CopyingInv'
    BY <1>1 DEF CopyingInv, QuietStep
  <1>4. BlobsVerified'
    BY <1>2 DEF BlobsVerified, QuietStep, RestUnchanged, TypeOK
  <1> QED
    BY <1>3, <1>4

LEMMA StartCopyInv ==
  ASSUME TypeOK, CopyingInv, BlobsVerified, RestUnchanged, NEW w \in Writer, StartCopy(w)
  PROVE  CopyingInv' /\ BlobsVerified'
  <1> w[2] \in Digest /\ \A u \in Writer : u[2] \in Digest
    BY WriterFacts
  <1>1. /\ blob[w[2]] = "absent" /\ blob'[w[2]] = "short" /\ at'[w] = "copying"
        /\ \A d \in Digest \ {w[2]} : blob'[d] = blob[d]
        /\ \A u \in Writer \ {w} : at'[u] = at[u]
        /\ temp[w].good /\ temp[w].len = Size /\ UNCHANGED temp
    BY DEF StartCopy, TypeOK, Present, Valid
  <1>2. \A u \in Writer : at[u] = "copying" => u[2] # w[2]
    BY <1>1 DEF CopyingInv
  <1>3. CopyingInv'
    BY <1>1, <1>2 DEF CopyingInv
  <1>4. ASSUME NEW u \in Writer, at[u] = "copying"
        PROVE  at'[u] = "copying"
    BY <1>1, <1>4
  <1>5. accidents > 0 => accidents' > 0
    BY DEF RestUnchanged, TypeOK
  <1>6. BlobsVerified'
    <2> SUFFICES ASSUME NEW d \in Digest
                 PROVE  /\ blob'[d] # "wrong"
                        /\ \/ blob'[d] # "short"
                           \/ accidents' > 0
                           \/ \E u \in Writer : u[2] = d /\ at'[u] = "copying"
      BY DEF BlobsVerified
    <2>1. CASE d = w[2]
      BY <1>1, <2>1
    <2>2. CASE d # w[2]
      <3>1. blob'[d] = blob[d]
        BY <1>1, <2>2
      <3> QED
        BY <1>4, <1>5, <3>1 DEF BlobsVerified
    <2> QED
      BY <2>1, <2>2
  <1> QED
    BY <1>3, <1>6

LEMMA FinishCopyInv ==
  ASSUME TypeOK, CopyingInv, BlobsVerified, RestUnchanged, NEW w \in Writer, FinishCopy(w)
  PROVE  CopyingInv' /\ BlobsVerified' /\ blob' = [blob EXCEPT ![w[2]] = "whole"]
  <1> w[2] \in Digest /\ \A u \in Writer : u[2] \in Digest
    BY WriterFacts
  <1>1. temp[w] = [len |-> Size, good |-> TRUE]
    BY DEF FinishCopy, CopyingInv, TypeOK
  <1>2. blob' = [blob EXCEPT ![w[2]] = "whole"]
    BY <1>1 DEF FinishCopy
  <1>3. /\ at[w] = "copying" /\ at'[w] = "stream"
        /\ \A u \in Writer \ {w} : at'[u] = at[u] /\ temp'[u] = temp[u]
    BY RemoveTempFacts DEF FinishCopy, TypeOK
  <1>4. \A u \in Writer \ {w} : at[u] = "copying" => u[2] # w[2]
    BY <1>3 DEF CopyingInv
  <1>5. CopyingInv'
    BY <1>2, <1>3, <1>4 DEF CopyingInv, TypeOK
  <1>6. BlobsVerified'
    <2>1. blob'[w[2]] = "whole" /\ \A d \in Digest \ {w[2]} : blob'[d] = blob[d]
      BY <1>2 DEF TypeOK
    <2>2. \A u \in Writer : u[2] # w[2] /\ at[u] = "copying" => at'[u] = "copying"
      BY <1>3
    <2> QED
      BY <2>1, <2>2 DEF BlobsVerified, RestUnchanged, TypeOK
  <1> QED
    BY <1>2, <1>5, <1>6

LEMMA CopyFailsInv ==
  ASSUME TypeOK, CopyingInv, BlobsVerified, NEW w \in Writer, CopyFails(w)
  PROVE  CopyingInv' /\ BlobsVerified'
  <1>1. accidents' > 0
    BY DEF CopyFails, Accident, TypeOK
  <1>2. at'[w] = "idle" /\ OthersUnchanged(w) /\ UNCHANGED blob
    BY FetchOverFacts DEF CopyFails, files
  <1>3. CopyingInv'
    BY <1>2 DEF CopyingInv, OthersUnchanged
  <1>4. BlobsVerified'
    BY <1>1, <1>2 DEF BlobsVerified
  <1> QED
    BY <1>3, <1>4

\* What the images and the list know does not depend on the writers.
LEMMA RestInv ==
  ASSUME TypeOK, DirInv, RestUnchanged
  PROVE  WritingInv' /\ ListInv' /\ ListHasManifests'
  <1>1. WritingInv'
    BY DEF DirInv, WritingInv, RestUnchanged
  <1>2. ListInv' /\ ListHasManifests'
    BY DEF DirInv, ListInv, ListHasManifests, AllManifests, RestUnchanged, TypeOK
  <1> QED
    BY <1>1, <1>2

LEMMA WriterInv ==
  ASSUME TypeOK, DirInv, NEW w \in Writer,
         \/ WriterStep(w) \/ ConnectionDrops(w) \/ ErrorAnswer(w) \/ CopyFails(w)
         \/ \E k \in 1 .. Size : AppendFails(w, k)
  PROVE  DirInv'
  <1>1. RestUnchanged /\ (QuietStep(w) \/ StartCopy(w) \/ FinishCopy(w) \/ CopyFails(w))
    BY WriterKinds
  <1>2. CopyingInv' /\ BlobsVerified'
    BY <1>1, QuietInv, StartCopyInv, FinishCopyInv, CopyFailsInv DEF DirInv
  <1> QED
    BY <1>1, <1>2, RestInv DEF DirInv

LEMMA ImageInv ==
  ASSUME TypeOK, DirInv, NEW i \in Image, ImageStep(i) \/ ManifestWriteFails(i)
  PROVE  DirInv'
  <1>1. /\ UNCHANGED <<blob, at, temp, list, listed, tag, version>>
        /\ accidents' \in {accidents, accidents + 1}
        /\ img[i] \notin {"off", "over"} /\ \A j \in Image \ {i} : img'[j] = img[j]
    <2> USE DEF ImgGoto, files, streams, bounds, TypeOK
    <2>1. CASE CompareImage(i)
      BY <2>1 DEF CompareImage
    <2>2. CASE LayersThere(i)
      BY <2>2 DEF LayersThere
    <2>3. CASE ConfigThere(i)
      BY <2>3 DEF ConfigThere
    <2>4. CASE WriteManifest(i)
      BY <2>4 DEF WriteManifest
    <2>5. CASE LeaveManifest(i)
      BY <2>5 DEF LeaveManifest
    <2>6. CASE ManifestWritten(i)
      BY <2>6 DEF ManifestWritten
    <2>7. CASE ManifestWriteFails(i)
      BY <2>7, FaultCounted DEF ManifestWriteFails
    <2> QED
      BY <2>1, <2>2, <2>3, <2>4, <2>5, <2>6, <2>7 DEF ImageStep
  <1>2. /\ \A j \in Image \ {i} : manifest'[j] = manifest[j]
        /\ manifest[i] # "absent" => manifest'[i] # "absent"
        /\ img'[i] = "writing" => manifest'[i] = "torn"
    <2> USE DEF ImgGoto, files, TypeOK
    <2>1. CASE UNCHANGED manifest /\ img'[i] # "writing"
      BY <2>1
    <2>2. CASE CompareImage(i) \/ LayersThere(i) \/ ConfigThere(i) \/ LeaveManifest(i) \/ ManifestWriteFails(i)
      BY <2>1, <2>2 DEF CompareImage, LayersThere, ConfigThere, LeaveManifest, ManifestWriteFails
    <2>3. CASE WriteManifest(i)
      BY <2>3 DEF WriteManifest
    <2>4. CASE ManifestWritten(i)
      BY <2>4 DEF ManifestWritten
    <2> QED
      BY <2>2, <2>3, <2>4 DEF ImageStep
  <1>3. CopyingInv' /\ BlobsVerified'
    BY <1>1 DEF DirInv, CopyingInv, BlobsVerified, TypeOK
  <1>4. WritingInv'
    BY <1>1, <1>2 DEF DirInv, WritingInv
  <1>5. \A j \in Image : manifest[j] # "absent" => manifest'[j] # "absent"
    BY <1>2
  <1>6. \A v \in Version : ImagesIn[v] \subseteq Image
    BY DirAssumption
  <1>7. ListInv'
    BY <1>1, <1>5, <1>6 DEF DirInv, ListInv, AllManifests, TypeOK
  <1>8. ListHasManifests'
    BY <1>1, <1>5, <1>6 DEF DirInv, ListHasManifests, TypeOK
  <1> QED
    BY <1>3, <1>4, <1>7, <1>8 DEF DirInv

LEMMA TagInv ==
  ASSUME TypeOK, DirInv, TagStep \/ ListWriteFails
  PROVE  DirInv'
  <1>1. UNCHANGED <<blob, at, temp, version>> /\ accidents' \in {accidents, accidents + 1}
    <2> USE DEF files, streams, bounds
    <2>1. CASE CompareList
      BY <2>1 DEF CompareList
    <2>2. CASE ImagesReturned
      BY <2>2 DEF ImagesReturned
    <2>3. CASE \E i \in Image : RemoveStale(i)
      BY <2>3 DEF RemoveStale
    <2>4. CASE RemoveOldList
      BY <2>4 DEF RemoveOldList
    <2>5. CASE WriteList
      BY <2>5 DEF WriteList
    <2>6. CASE RefuseList
      BY <2>6 DEF RefuseList
    <2>7. CASE ListWritten
      BY <2>7 DEF ListWritten
    <2>8. CASE ListWriteFails
      BY <2>8, FaultCounted DEF ListWriteFails
    <2> QED
      BY <2>1, <2>2, <2>3, <2>4, <2>5, <2>6, <2>7, <2>8 DEF TagStep
  <1>2. CopyingInv' /\ BlobsVerified'
    BY <1>1 DEF DirInv, CopyingInv, BlobsVerified, TypeOK
  <1>3. WritingInv' /\ ListInv' /\ ListHasManifests'
    <2> USE DEF DirInv, WritingInv, ListInv, ListHasManifests, AllManifests, files, streams
    <2>1. CASE CompareList
      BY <2>1, <1>1 DEF CompareList, TypeOK, bounds
    <2>2. CASE ImagesReturned
      BY <2>2 DEF ImagesReturned, bounds
    <2>3. ASSUME NEW i \in Image, RemoveStale(i)
          PROVE  WritingInv' /\ ListInv' /\ ListHasManifests'
      BY <2>3 DEF RemoveStale, TypeOK, bounds
    <2>4. CASE RemoveOldList
      BY <2>4 DEF RemoveOldList, bounds
    <2>5. CASE WriteList
      BY <2>5 DEF WriteList, bounds
    <2>6. CASE RefuseList
      BY <2>6 DEF RefuseList, bounds
    <2>7. CASE ListWritten
      BY <2>7 DEF ListWritten, bounds
    <2>8. CASE ListWriteFails
      BY <2>8, <1>1 DEF ListWriteFails, TypeOK
    <2> QED
      BY <2>1, <2>2, <2>3, <2>4, <2>5, <2>6, <2>7, <2>8 DEF TagStep
  <1> QED
    BY <1>2, <1>3 DEF DirInv

\* A blob that is short when a run starts was left so by an accident.
LEMMA RestartInv ==
  ASSUME TypeOK, DirInv, Restart, accidents' \in Nat,
         \/ UNCHANGED accidents /\ Over
         \/ accidents' > 0
  PROVE  DirInv'
  <1>1. /\ UNCHANGED <<blob, manifest, list, listed>> /\ tag' = "compare"
        /\ \A w \in Writer : at'[w] = "idle"
        /\ \A i \in Image : img'[i] = "off"
    BY DEF Restart, files
  <1>2. CopyingInv' /\ WritingInv' /\ ListInv'
    <2>1. CopyingInv'
      BY <1>1 DEF CopyingInv
    <2>2. WritingInv'
      BY <1>1 DEF WritingInv
    <2>3. ListInv'
      BY <1>1 DEF ListInv
    <2> QED
      BY <2>1, <2>2, <2>3
  <1>3. BlobsVerified'
    BY <1>1 DEF DirInv, BlobsVerified, Over
  <1>4. ListHasManifests'
    BY <1>1 DEF DirInv, ListHasManifests, Over
  <1> QED
    BY <1>2, <1>3, <1>4 DEF DirInv

LEMMA StepInv ==
  ASSUME TypeOK, DirInv, [Next]_vars
  PROVE  DirInv'
  <1>1. CASE UNCHANGED vars
    BY <1>1 DEF vars, files, streams, bounds, DirInv, CopyingInv, BlobsVerified, WritingInv, ListInv,
       AllManifests, ListHasManifests
  <1>2. CASE Rerun
    BY <1>2, RestartInv DEF Rerun, TypeOK
  <1>3. CASE Crash
    BY <1>3, RestartInv DEF Crash, TypeOK
  <1>4. CASE Mishap
    BY <1>3, <1>4, WriterInv, ImageInv, TagInv DEF Mishap
  <1>5. CASE Terminated
    BY <1>1, <1>5 DEF Terminated
  <1> QED
    BY <1>1, <1>2, <1>4, <1>5, WriterInv, ImageInv, TagInv DEF Next

LEMMA InitInv == Init => DirInv
  BY DirAssumption DEF Init, DirInv, CopyingInv, BlobsVerified, WritingInv, ListInv, ListHasManifests

LEMMA DirInvariant == SafeSpec => [](TypeOK /\ DirInv)
  <1>1. TypeOK /\ DirInv /\ [Next]_vars => (TypeOK /\ DirInv)'
    BY StepTypes, StepInv
  <1> QED
    BY InitTypes, InitInv, <1>1, PTL DEF SafeSpec

\* No blob stands under a digest that is not its own, however often its transfer was
\* broken off and repeated into the same file and whoever else wrote it (Dir.cpp:304);
\* a blob is short only while it is copied, or after a crash or a full disk.
THEOREM DirBlobsVerified == SafeSpec => []BlobsVerified
  <1>1. DirInv => BlobsVerified
    BY DEF DirInv
  <1> QED
    BY DirInvariant, <1>1, PTL

\* A manifest list that can be read has all its manifests beside it (Dir.cpp:529), as
\* long as nobody is killed while stale directories go.
THEOREM DirListHasManifests == SafeSpec => []ListHasManifests
  <1>1. DirInv => ListHasManifests
    BY DEF DirInv
  <1> QED
    BY DirInvariant, <1>1, PTL

-----------------------------------------------------------------------------
(* The refinement of ContentStore.                                           *)

storeVars == <<blob, manifest, list, listed>>

LEMMA StepOfStore ==
  ASSUME TypeOK, DirInv, [Next]_vars
  PROVE  [Store!Next]_storeVars
  <1> SUFFICES Store!Next \/ UNCHANGED storeVars
    OBVIOUS
  <1> USE DEF storeVars
  <1>1. ASSUME NEW w \in Writer,
               \/ WriterStep(w) \/ ConnectionDrops(w) \/ ErrorAnswer(w) \/ CopyFails(w)
               \/ \E k \in 1 .. Size : AppendFails(w, k)
        PROVE  Store!Next \/ UNCHANGED storeVars
    <2>1. RestUnchanged /\ (QuietStep(w) \/ StartCopy(w) \/ FinishCopy(w) \/ CopyFails(w))
      BY <1>1, WriterKinds
    <2>2. w[2] \in Digest
      BY WriterFacts
    <2>3. CASE QuietStep(w) \/ CopyFails(w)
      BY <2>1, <2>3 DEF QuietStep, RestUnchanged, CopyFails, files
    <2>4. CASE StartCopy(w)
      <3>1. Store!BeginBlob(w[2])
        BY <2>1, <2>4 DEF StartCopy, Present, Store!BeginBlob, RestUnchanged
      <3> QED
        BY <2>2, <3>1 DEF Store!Next
    <2>5. CASE FinishCopy(w)
      <3>1. Store!FinishBlob(w[2])
        BY <2>1, <2>5, FinishCopyInv DEF DirInv, CopyingInv, FinishCopy, Store!FinishBlob, RestUnchanged
      <3> QED
        BY <2>2, <3>1 DEF Store!Next
    <2> QED
      BY <2>1, <2>3, <2>4, <2>5
  <1>2. ASSUME NEW i \in Image, ImageStep(i) \/ ManifestWriteFails(i)
        PROVE  Store!Next \/ UNCHANGED storeVars
    <2>1. CASE UNCHANGED files
      BY <2>1 DEF files
    <2>2. CASE WriteManifest(i)
      <3>1. Store!BeginManifest(i)
        BY <2>2 DEF WriteManifest, Present, Store!BeginManifest
      <3> QED
        BY <3>1 DEF Store!Next
    <2>3. CASE ManifestWritten(i)
      <3>1. Store!FinishManifest(i)
        BY <2>3 DEF ManifestWritten, DirInv, WritingInv, Store!FinishManifest
      <3> QED
        BY <3>1 DEF Store!Next
    <2> QED
      BY <1>2, <2>1, <2>2, <2>3
         DEF ImageStep, CompareImage, LayersThere, ConfigThere, LeaveManifest, ManifestWriteFails
  <1>3. ASSUME TagStep \/ ListWriteFails
        PROVE  Store!Next \/ UNCHANGED storeVars
    <2>1. CASE UNCHANGED files
      BY <2>1 DEF files
    <2>2. ASSUME NEW i \in Image, RemoveStale(i)
          PROVE  Store!Next
      BY <2>2 DEF RemoveStale, Store!Next, Store!DropManifest
    <2>3. CASE RemoveOldList
      BY <2>3 DEF RemoveOldList, Store!Next, Store!DropList
    <2>4. CASE WriteList
      <3>1. Store!BeginList(version)
        BY <2>4 DEF WriteList, AllManifests, DirInv, ListInv, Store!BeginList
      <3> QED
        BY <3>1 DEF Store!Next, TypeOK
    <2>5. CASE ListWritten
      BY <2>5 DEF ListWritten, DirInv, ListInv, Store!Next, Store!FinishList
    <2> QED
      BY <1>3, <2>1, <2>2, <2>3, <2>4, <2>5
         DEF TagStep, CompareList, ImagesReturned, RefuseList, ListWriteFails
  <1>4. CASE Rerun \/ Crash
    BY <1>4 DEF Rerun, Crash, Restart, files
  <1>5. CASE Terminated \/ UNCHANGED vars
    BY <1>5 DEF Terminated, vars, files
  <1> QED
    BY <1>1, <1>2, <1>3, <1>4, <1>5 DEF Next, Mishap

\* Copy may take what it finds in a Dir for granted: under concurrent writers, broken
\* transfers, crashes and full disks the files change only as a content store's may.
THEOREM DirImplementsContentStore == SafeSpec => ImplementsContentStore
  <1>1. Init => Store!Init
    BY DEF Init, Store!Init
  <1>2. TypeOK /\ DirInv /\ [Next]_vars => [Store!Next]_storeVars
    BY StepOfStore
  <1> QED
    BY <1>1, <1>2, DirInvariant, PTL DEF SafeSpec, ImplementsContentStore, Store!SafeSpec, storeVars

\* A content store never takes a blob away, and writes a manifest only beside its blobs.
LEMMA StoreKeepsBlobs ==
  ASSUME TypeOK, Store!ManifestsHaveBlobs, Store!Next \/ UNCHANGED storeVars
  PROVE  Store!ManifestsHaveBlobs'
  <1> SUFFICES ASSUME NEW i \in Image, manifest'[i] # "absent", NEW e \in BlobsOf[i]
               PROVE  blob'[e] # "absent"
    BY DEF Store!ManifestsHaveBlobs, BlobsOf
  <1>0. e \in Digest
    BY DirAssumption DEF BlobsOf
  <1>1. manifest[i] # "absent" => blob[e] # "absent"
    BY DEF Store!ManifestsHaveBlobs
  <1>2. ASSUME NEW d \in Digest, Store!BeginBlob(d) \/ Store!FinishBlob(d)
        PROVE  blob'[e] # "absent"
    BY <1>0, <1>1, <1>2 DEF Store!BeginBlob, Store!FinishBlob, TypeOK
  <1>3. ASSUME NEW j \in Image, Store!BeginManifest(j)
        PROVE  blob'[e] # "absent"
    BY <1>1, <1>3 DEF Store!BeginManifest, TypeOK
  <1>4. ASSUME NEW j \in Image, Store!FinishManifest(j) \/ Store!DropManifest(j)
        PROVE  blob'[e] # "absent"
    BY <1>1, <1>4 DEF Store!FinishManifest, Store!DropManifest, TypeOK
  <1>5. CASE UNCHANGED storeVars \/ UNCHANGED <<blob, manifest>>
    BY <1>1, <1>5 DEF storeVars
  <1> QED
    BY <1>2, <1>3, <1>4, <1>5 DEF Store!Next, Store!BeginList, Store!FinishList, Store!DropList

\* A manifest of an image in a Dir refers to blobs that are there: no crash, broken
\* transfer, full disk, concurrent writer or replaced tag leaves one without a blob.
THEOREM DirManifestsHaveBlobs == SafeSpec => []Store!ManifestsHaveBlobs
  <1>1. Init => Store!ManifestsHaveBlobs
    BY DEF Init, Store!ManifestsHaveBlobs
  <1>2. TypeOK /\ DirInv /\ Store!ManifestsHaveBlobs /\ [Next]_vars => Store!ManifestsHaveBlobs'
    BY StepOfStore, StoreKeepsBlobs
  <1> QED
    BY <1>1, <1>2, DirInvariant, PTL DEF SafeSpec
=============================================================================
