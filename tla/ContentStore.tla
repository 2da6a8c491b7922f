---------------------------- MODULE ContentStore ----------------------------
(* What OCI::Copy relies on when its destination is a Dir                    *)
(* (src/src/lib/OCI/Extensions/Dir.cpp): a blob that hasBlob has found stays *)
(* and is never changed once it is whole, a manifest appears only beside its *)
(* blobs, a manifest list only beside its manifests.  Temporary files,       *)
(* transfers, locks and the order of the steps are not visible.              *)
CONSTANTS
  Image, Digest, Version,
  BlobsOf,   \* BlobsOf[i]: the layers and the configuration of image i
  ImagesIn   \* ImagesIn[v]: the images of version v of the manifest list

VARIABLES
  blob,      \* blob[d]: what is found under digest d
  manifest,  \* manifest[i]: the ImageManifest.json of image i
  list,      \* the ManifestList.json
  listed     \* the version it was last written for

Init ==
  /\ blob = [d \in Digest |-> "absent"]
  /\ manifest = [i \in Image |-> "absent"]
  /\ list = "absent"
  /\ listed \in Version

\* A blob appears under its name before all of it is there.
BeginBlob(d) ==
  /\ blob[d] = "absent"
  /\ blob' = [blob EXCEPT ![d] = "short"]
  /\ UNCHANGED <<manifest, list, listed>>

FinishBlob(d) ==
  /\ blob[d] = "short"
  /\ blob' = [blob EXCEPT ![d] = "whole"]
  /\ UNCHANGED <<manifest, list, listed>>

BeginManifest(i) ==
  /\ manifest[i] = "absent"
  /\ \A d \in BlobsOf[i] : blob[d] # "absent"
  /\ manifest' = [manifest EXCEPT ![i] = "torn"]
  /\ UNCHANGED <<blob, list, listed>>

FinishManifest(i) ==
  /\ manifest[i] = "torn"
  /\ manifest' = [manifest EXCEPT ![i] = "whole"]
  /\ UNCHANGED <<blob, list, listed>>

DropManifest(i) ==
  /\ manifest' = [manifest EXCEPT ![i] = "absent"]
  /\ UNCHANGED <<blob, list, listed>>

BeginList(v) ==
  /\ list = "absent"
  /\ \A i \in ImagesIn[v] : manifest[i] # "absent"
  /\ list' = "torn" /\ listed' = v
  /\ UNCHANGED <<blob, manifest>>

FinishList ==
  /\ list = "torn"
  /\ list' = "whole"
  /\ UNCHANGED <<blob, manifest, listed>>

DropList == list' = "absent" /\ UNCHANGED <<blob, manifest, listed>>

Next ==
  \/ \E d \in Digest : BeginBlob(d) \/ FinishBlob(d)
  \/ \E i \in Image : BeginManifest(i) \/ FinishManifest(i) \/ DropManifest(i)
  \/ \E v \in Version : BeginList(v)
  \/ FinishList \/ DropList

SafeSpec == Init /\ [][Next]_<<blob, manifest, list, listed>>

\* A manifest refers to blobs that are there, whatever was removed meanwhile.
ManifestsHaveBlobs ==
  \A i \in Image : manifest[i] # "absent" => \A d \in BlobsOf[i] : blob[d] # "absent"
=============================================================================
