--------------------------- MODULE RegistryUpload ---------------------------
(* OCI::Registry::Client (src/src/lib/OCI/Registry/Client.cpp) as a          *)
(* destination: one blob that OCI::Copy wants there, downloaded from another *)
(* registry and uploaded part by part through putBlob, initiateUpload and    *)
(* uploadStatus, until hasBlob finds it.                                     *)
(*                                                                           *)
(* Each attempt is a function of its own with a fresh client (src_->copy(),  *)
(* dest_->copy()), which has no token and no upload session.  The server is  *)
(* external: it opens a session per upload, appends the parts it accepts and *)
(* stores the session's content under the digest if that is its hash.  A     *)
(* content is abstracted to its length and whether it is a prefix of the     *)
(* blob.  Which digests are being downloaded, and what happens when the two  *)
(* looks at the destination before a download disagree, is in Copy.          *)
EXTENDS Integers

CONSTANTS
  Sizes,       \* what total_size, in bytes, may be
  Parts,       \* the lengths of the parts in which a body may arrive
  MaxError,    \* bound: the length of the body of an error answer
  RangeStyles, \* how a server may write the end of what it has: as a count, or inclusive
  IntLimit,    \* INT_MAX + 1
  MaxFaults    \* bound: refused, lost or broken requests, and tokens that expire

ASSUME UploadAssumption ==
  /\ Sizes \subseteq Nat \ {0}
  /\ Parts \subseteq Nat \ {0}
  /\ MaxError \in Nat
  /\ RangeStyles \subseteq {"count", "inclusive"}
  /\ IntLimit \in Nat \ {0}
  /\ MaxFaults \in Nat

VARIABLES
  \* the server
  style,        \* one of RangeStyles
  session,      \* the upload session the client knows: patch_location_
  stored,       \* whether the blob is there
  \* the client
  at,           \* where the image, or its download, stands
  authorized,   \* whether the server accepts requests: ctr_ holds a valid token, or none is needed
  headers,      \* whether it accepts the headers that putBlob has made
  part,         \* the length of the part in hand
  last_offset,  \* last_offset of putBlob, an int
  \* the download
  size,         \* total_size
  body,         \* what the current Get delivers: the blob, or the text of an error answer
  sent,         \* how much of it has gone to putBlob
  gets,         \* the number of that Get
  faults

serverVars == <<style, session, stored>>
putVars    == <<part, last_offset>>
sourceVars == <<body, sent, gets>>

vars == <<serverVars, at, authorized, headers, putVars, size, sourceVars, faults>>

NoSession == [open |-> FALSE, received |-> 0, good |-> TRUE]

\* `while ( not res and ++retries != 3 )`: how often a blob is asked for.
Gets == 3

Location ==
  {"poll", "stream", "initiate", "status", "spin", "send", "manifest", "done", "failed"}

\* How much the current Get can deliver.
BodySize == IF body = "blob" THEN size ELSE MaxError

TypeOK ==
  /\ style \in RangeStyles
  /\ session \in [open : BOOLEAN, received : Nat, good : BOOLEAN]
  /\ stored \in BOOLEAN
  /\ at \in Location
  /\ authorized \in BOOLEAN /\ headers \in BOOLEAN
  /\ part \in Parts \cup {0}
  /\ last_offset \in Int
  /\ size \in Sizes
  /\ body \in {"blob", "error"}
  /\ sent \in 0 .. BodySize
  /\ gets \in 1 .. Gets
  /\ faults \in 0 .. MaxFaults

Init ==
  /\ style \in RangeStyles
  /\ session = NoSession
  /\ stored = FALSE
  /\ at = "poll"
  /\ authorized \in BOOLEAN /\ headers = FALSE
  /\ part = 0 /\ last_offset = 0
  /\ size \in Sizes
  /\ body = "blob" /\ sent = 0 /\ gets = 1
  /\ faults = 0

Fault == faults < MaxFaults /\ faults' = faults + 1

-----------------------------------------------------------------------------
(* The image polls the destination; its own client may have a token.         *)

HasBlob ==
  /\ at = "poll" /\ stored
  /\ at' = "manifest"
  /\ authorized' \in BOOLEAN
  /\ UNCHANGED <<serverVars, headers, putVars, size, sourceVars, faults>>

\* A download is submitted when the blob is not there, or an error status says so.
StartDownload ==
  /\ at = "poll"
  /\ \/ ~stored /\ UNCHANGED faults
     \/ stored /\ Fault
  /\ at' = "stream"
  /\ authorized' \in BOOLEAN
  /\ UNCHANGED <<serverVars, headers, putVars, size, sourceVars>>

\* The download is over, finished or by an exception that it logs.
DownloadOver ==
  /\ at' = "poll"
  /\ session' = NoSession
  /\ headers' = FALSE
  /\ part' = 0 /\ last_offset' = 0
  /\ body' = "blob" /\ sent' = 0 /\ gets' = 1
  /\ UNCHANGED <<authorized, size>>

-----------------------------------------------------------------------------
(* The stream from the source, Client::fetchBlob.                            *)

\* The next part arrives: putBlob makes its headers and opens a session, or asks where
\* its session is.
PartArrives ==
  /\ at = "stream"
  /\ \E k \in Parts : sent + k <= BodySize /\ part' = k
  /\ at' = IF session.open THEN "status" ELSE "initiate"
  /\ headers' = authorized
  /\ last_offset' = 0
  /\ UNCHANGED <<serverVars, authorized, size, sourceVars, faults>>

\* A Get is answered with an error status; its body goes to putBlob all the same.
ErrorAnswer ==
  /\ at = "stream" /\ body = "blob" /\ sent = 0
  /\ Fault
  /\ body' = "error"
  /\ UNCHANGED <<serverVars, at, authorized, headers, putVars, size, sent, gets>>

\* A mutant of GetAgain: one Get too many.
GetOnceMore ==
  /\ at = "stream" /\ gets <= Gets
  /\ Fault
  /\ gets' = gets + 1 /\ body' = "blob" /\ sent' = 0
  /\ UNCHANGED <<serverVars, at, authorized, headers, putVars, size>>

\* The connection breaks: the blob is asked for again, into the same callback.
GetAgain ==
  /\ at = "stream" /\ gets < Gets
  /\ Fault
  /\ gets' = gets + 1 /\ body' = "blob" /\ sent' = 0
  /\ UNCHANGED <<serverVars, at, authorized, headers, putVars, size>>

\* It breaks for the last time, or the source fails before the first Get: no answer to
\* HEAD, or no token.
GetGivenUp ==
  /\ at = "stream"
  /\ gets = Gets \/ (gets = 1 /\ body = "blob" /\ sent = 0)
  /\ Fault
  /\ DownloadOver
  /\ UNCHANGED <<style, stored>>

\* The body ends, that of an error answer anywhere.
EndOfBody ==
  /\ at = "stream" /\ (body = "error" \/ sent = size)
  /\ DownloadOver
  /\ UNCHANGED <<style, stored, faults>>

-----------------------------------------------------------------------------
(* Mutants: each is one of the operations below with a plausible bug in it.  *)

\* The range is inclusive.
FinalInclusive == last_offset + part + 1 = size \/ part = size

\* Only a blob of one part is finished.
FinalMonolithic == part = size

\* A part whose answer was lost is sent again.
PartSentAgain ==
  /\ at = "send"
  /\ Fault
  /\ session' = [session EXCEPT !.received = session.received + part,
                                !.good = session.good /\ body = "blob" /\ sent = session.received]
  /\ UNCHANGED <<style, stored, at, authorized, headers, putVars, size, sourceVars>>

-----------------------------------------------------------------------------
(* Requests to the destination.  Each of them may find the token missing or  *)
(* expired, and is made again after auth.                                    *)

\* PATCH and PUT carry the headers in hand, the others make their own.
Refused ==
  \/ at \in {"initiate", "status", "manifest"} /\ ~authorized
  \/ at = "send" /\ ~headers

\* 401, and auth returns with a token, ...
Authorize ==
  /\ Refused
  /\ authorized' = TRUE
  /\ headers' = (headers \/ at = "send")
  /\ UNCHANGED <<serverVars, at, putVars, size, sourceVars, faults>>

\* ... or without one ("auth Unauthorized", "auth status"), or after a 503: the request
\* is made again all the same.
AuthorizeInVain ==
  /\ Refused
  /\ Fault
  /\ headers' = (IF at = "send" THEN authorized ELSE headers)
  /\ UNCHANGED <<serverVars, at, authorized, putVars, size, sourceVars>>

\* The token comes to its end between two requests.
TokenExpires ==
  /\ authorized /\ at \notin {"spin", "done", "failed"}
  /\ Fault
  /\ authorized' = FALSE /\ headers' = FALSE
  /\ UNCHANGED <<serverVars, at, putVars, size, sourceVars>>

\* An int that is given n.
Narrowed(n) == ((n + IntLimit) % (2 * IntLimit)) - IntLimit

\* What the server writes as the end of its range.
RangeEnd == IF style = "count" \/ session.received = 0
            THEN session.received ELSE session.received - 1

InitiateUpload ==
  /\ at = "initiate" /\ authorized
  /\ session' = [NoSession EXCEPT !.open = TRUE]
  /\ at' = "send"
  /\ UNCHANGED <<style, stored, authorized, headers, putVars, size, sourceVars, faults>>

\* A range that ends in 0 is looked at again and again, without asking again.
UploadStatus ==
  /\ at = "status" /\ authorized
  /\ at' = IF RangeEnd = 0 THEN "spin" ELSE "send"
  /\ last_offset' = Narrowed(RangeEnd)
  /\ UNCHANGED <<serverVars, authorized, headers, part, size, sourceVars, faults>>

\* The request that is made again after a 401 is lost: the loop ends with 0, and putBlob
\* goes on with it.
StatusUnknown ==
  /\ at = "status" /\ ~authorized
  /\ Fault
  /\ at' = "send"
  /\ last_offset' = 0
  /\ authorized' \in BOOLEAN
  /\ UNCHANGED <<serverVars, headers, part, size, sourceVars>>

\* `( last_offset + blob_part_size ) == total_size or blob_part_size == total_size`.  The
\* sum is one of unsigned numbers: a negative last_offset is far beyond any size,
\* unless the part brings it back above zero.
Final == last_offset + part = size \/ part = size

\* The session with the part in hand appended.
Appended == [session EXCEPT !.received = session.received + part,
                            !.good = session.good /\ body = "blob" /\ sent = session.received]

PartTaken ==
  /\ sent' = sent + part
  /\ part' = 0
  /\ at' = "stream"

Patch ==
  /\ at = "send" /\ headers /\ ~Final
  /\ session' = Appended
  /\ PartTaken
  /\ UNCHANGED <<style, stored, authorized, headers, last_offset, size, body, gets, faults>>

Whole(s) == s.received = size /\ s.good

Put ==
  /\ at = "send" /\ headers /\ Final /\ Whole(Appended)
  /\ stored' = TRUE
  /\ session' = NoSession
  /\ PartTaken
  /\ UNCHANGED <<style, authorized, headers, last_offset, size, body, gets, faults>>

\* 400: what the session holds does not have the digest; putBlob throws.
PutRefused ==
  /\ at = "send" /\ headers /\ Final /\ ~Whole(Appended)
  /\ DownloadOver
  /\ UNCHANGED <<style, stored, faults>>

\* A request is lost, or its answer is after the server has acted on it, or the answer
\* is an error status, or auth has no answer: the client throws.
RequestFails ==
  /\ at \in {"initiate", "status", "send"}
  /\ Fault
  /\ stored' \in {stored, stored \/ (at = "send" /\ headers /\ Final /\ Whole(Appended))}
  /\ DownloadOver
  /\ UNCHANGED style

PutManifest ==
  /\ at = "manifest" /\ authorized
  /\ at' = "done"
  /\ UNCHANGED <<serverVars, authorized, headers, putVars, size, sourceVars, faults>>

\* No answer, or an error status: putManifest answers false; hasBlob without an answer,
\* or without one to its auth, ends the image as well.
ImageFails ==
  /\ at \in {"poll", "manifest"}
  /\ Fault
  /\ at' = "failed"
  /\ UNCHANGED <<serverVars, authorized, headers, putVars, size, sourceVars>>

-----------------------------------------------------------------------------
Terminated == at \in {"done", "failed", "spin"} /\ UNCHANGED vars

Download ==
  \/ HasBlob \/ StartDownload \/ PartArrives \/ EndOfBody
  \/ Authorize \/ InitiateUpload \/ UploadStatus \/ Patch \/ Put \/ PutRefused \/ PutManifest

Mishap ==
  \/ ErrorAnswer \/ GetAgain \/ GetGivenUp
  \/ AuthorizeInVain \/ TokenExpires \/ StatusUnknown \/ RequestFails \/ ImageFails

Next == Download \/ Mishap \/ Terminated

SafeSpec == Init /\ [][Next]_vars

Spec == SafeSpec /\ WF_vars(Download)

-----------------------------------------------------------------------------
(* Properties. *)

\* Unless the source was asked again, the session has exactly the bytes putBlob was
\* given, and those are the blob's if the source answers with the blob: tokens that
\* expire between or during requests, and requests made again after a 401 or lost,
\* neither lose a part nor send one twice (Client.cpp:549-625).
SessionHoldsWhatWasSent ==
  gets = 1 /\ session.open => session.received = sent /\ (body = "blob" => session.good)

\* The PUT that finishes an upload (Client.cpp:567) comes with the last part of a blob and,
\* if the server counts and an int can hold its counts, with every last part, unless
\* uploadStatus came back without an answer (Client.cpp:1039), or the source was asked again.
FinishedByItsLastPart ==
  at = "send" /\ gets = 1 /\ body = "blob" =>
    /\ Final => sent + part = size
    /\ /\ sent + part = size
       /\ style = "count" /\ size <= IntLimit
       /\ last_offset = 0 => sent = 0
       => Final

\* With a server that counts, a blob whose offsets an int can hold (Client.cpp:547) gets
\* there once faults stop, in whatever parts it comes, and though a source that is asked
\* again, an error answer or a lost offset spoils a session.
BlobArrives == style = "count" /\ size <= IntLimit => <>(at \in {"done", "failed"})

\* "yaml -> docker (unauthenticated)" works, says src/bin/oci-sync.cpp:26: with any server
\* and any size.
EveryServerServed == <>(at \in {"done", "failed"})

\* Why: a request about a part in hand comes with a session exactly if that part is not
\* the first, the offset is what the server has, or falls behind it, and without a
\* session, and without a source that is asked again, nothing was sent or everything.
UploadInv ==
  /\ at \in {"status", "send", "spin"} => session.open
  /\ at = "initiate" => ~session.open /\ last_offset = 0
  /\ at \in {"initiate", "status", "send"} => part \in Parts /\ sent + part <= BodySize
  /\ gets = 1 =>
       IF session.open
         THEN session.received = sent /\ (body = "blob" => session.good)
         ELSE sent = 0 \/ (body = "blob" /\ sent = size)
  /\ at = "send" /\ gets = 1 =>
       /\ last_offset <= sent
       /\ style = "count" /\ sent < IntLimit => last_offset \in {0, sent}
=============================================================================
