------------------------ MODULE RegistryUploadProofs ------------------------
(* What holds of an upload for every size, every way to cut a body into      *)
(* parts, either style of range, every width of int, error answers of any    *)
(* length, and any number of failures.                                       *)
EXTENDS RegistryUpload, TLAPS

-----------------------------------------------------------------------------
\* An int holds no more than it is given, and just that if it can.
LEMMA NarrowedFacts ==
  ASSUME NEW n \in Nat
  PROVE  /\ Narrowed(n) \in -IntLimit .. IntLimit - 1
         /\ Narrowed(n) <= n
         /\ n < IntLimit => Narrowed(n) = n
  <1> IntLimit \in Nat \ {0}
    BY UploadAssumption
  <1> DEFINE m == 2 * IntLimit
  <1>1. m \in Nat \ {0}
    OBVIOUS
  <1> HIDE DEF m
  <1>2. (n + IntLimit) % m \in 0 .. m - 1 /\ (n + IntLimit) % m <= n + IntLimit
    BY <1>1
  <1>3. n + IntLimit < m => (n + IntLimit) % m = n + IntLimit
    BY <1>1
  <1>4. n < IntLimit => n + IntLimit < m
    BY DEF m
  <1> QED
    BY <1>2, <1>3, <1>4 DEF Narrowed, m

\* What the client knows and the server holds has its type, a source is asked no more
\* often than `retries` allows, and no more is passed on than a body has.
LEMMA UploadTypeStep ==
  ASSUME TypeOK, UploadInv, [Next]_vars
  PROVE  TypeOK'
  <1> USE UploadAssumption
  <1> USE DEF TypeOK, Location, NoSession, Fault, Gets, BodySize, serverVars, putVars, sourceVars
  <1>1. CASE UNCHANGED vars
    BY <1>1 DEF vars
  <1>2. CASE HasBlob
    BY <1>2 DEF HasBlob
  <1>3. CASE StartDownload
    BY <1>3 DEF StartDownload
  <1>4. CASE PartArrives
    <2>1. headers' \in BOOLEAN
      BY <1>4, Zenon DEF PartArrives
    <2> QED
      BY <1>4, <2>1 DEF PartArrives
  <1>0. ASSUME DownloadOver
        PROVE  /\ session' \in [open : BOOLEAN, received : Nat, good : BOOLEAN]
               /\ at' \in Location
               /\ authorized' \in BOOLEAN /\ headers' \in BOOLEAN
               /\ part' \in Parts \cup {0} /\ last_offset' \in Int
               /\ size' \in Sizes
               /\ body' \in {"blob", "error"} /\ (sent \in 0 .. BodySize)' /\ gets' \in 1 .. Gets
    <2>1. authorized' \in BOOLEAN /\ headers' \in BOOLEAN
      BY <1>0, Zenon DEF DownloadOver
    <2>2. session' \in [open : BOOLEAN, received : Nat, good : BOOLEAN] /\ at' \in Location
      BY <1>0 DEF DownloadOver
    <2>3. part' \in Parts \cup {0} /\ last_offset' \in Int
      BY <1>0 DEF DownloadOver
    <2>4. size' \in Sizes /\ body' \in {"blob", "error"} /\ gets' \in 1 .. Gets
      BY <1>0 DEF DownloadOver
    <2>5. (sent \in 0 .. BodySize)'
      BY <1>0 DEF DownloadOver
    <2> QED
      BY <2>1, <2>2, <2>3, <2>4, <2>5
  <1>5. CASE EndOfBody
    <2>1. DownloadOver /\ UNCHANGED <<style, stored, faults>>
      BY <1>5 DEF EndOfBody
    <2> QED
      BY <1>0, <2>1
  <1>6. CASE Authorize
    <2>1. headers' \in BOOLEAN /\ authorized' \in BOOLEAN
      BY <1>6, Zenon DEF Authorize
    <2> QED
      BY <1>6, <2>1 DEF Authorize
  <1>7. CASE InitiateUpload
    BY <1>7 DEF InitiateUpload
  <1>8. CASE UploadStatus
    <2>1. RangeEnd \in Nat
      BY <1>8 DEF UploadStatus, RangeEnd
    <2>2. Narrowed(RangeEnd) \in Int
      BY <2>1, NarrowedFacts
    <2> QED
      BY <1>8, <2>2 DEF UploadStatus
  <1>9. ASSUME at = "send"
        PROVE  Appended \in [open : BOOLEAN, received : Nat, good : BOOLEAN] /\ sent + part \in 0 .. BodySize
    <2>1. part \in Nat /\ sent \in Nat /\ sent + part <= BodySize /\ session.received + part \in Nat
      BY <1>9 DEF UploadInv
    <2> DEFINE good == session.good /\ body = "blob" /\ sent = session.received
    <2>2. good \in BOOLEAN
      BY Zenon DEF good
    <2> HIDE DEF good
    <2>3. Appended = [session EXCEPT !.received = session.received + part, !.good = good]
      BY Zenon DEF Appended, good
    <2>4. [session EXCEPT !.received = session.received + part, !.good = good]
            \in [open : BOOLEAN, received : Nat, good : BOOLEAN]
      BY <2>1, <2>2
    <2> QED
      BY <2>1, <2>3, <2>4
  <1>10. CASE Patch
    BY <1>9, <1>10 DEF Patch, PartTaken
  <1>11. CASE Put
    BY <1>9, <1>11 DEF Put, PartTaken
  <1>12. CASE PutRefused
    <2>1. DownloadOver /\ UNCHANGED <<style, stored, faults>>
      BY <1>12 DEF PutRefused
    <2> QED
      BY <1>0, <2>1
  <1>13. CASE PutManifest
    BY <1>13 DEF PutManifest
  <1>14. CASE ErrorAnswer
    BY <1>14 DEF ErrorAnswer
  <1>15. CASE GetAgain
    BY <1>15 DEF GetAgain
  <1>16. CASE GetGivenUp
    <2>1. DownloadOver /\ UNCHANGED <<style, stored>> /\ faults' \in 0 .. MaxFaults
      BY <1>16 DEF GetGivenUp
    <2> QED
      BY <1>0, <2>1
  <1>17. CASE AuthorizeInVain
    <2>1. headers' \in BOOLEAN
      BY <1>17, Zenon DEF AuthorizeInVain
    <2> QED
      BY <1>17, <2>1 DEF AuthorizeInVain
  <1>18. CASE TokenExpires
    <2>1. /\ authorized' \in BOOLEAN /\ headers' \in BOOLEAN
          /\ UNCHANGED <<serverVars, at, putVars, size, sourceVars>>
      BY <1>18, Zenon DEF TokenExpires
    <2>2. faults' \in 0 .. MaxFaults
      BY <1>18 DEF TokenExpires
    <2> QED
      BY <2>1, <2>2
  <1>19. CASE StatusUnknown
    BY <1>19 DEF StatusUnknown
  <1>20. CASE RequestFails
    <2>1. stored' \in BOOLEAN
      BY <1>20 DEF RequestFails
    <2>2. DownloadOver /\ UNCHANGED style /\ faults' \in 0 .. MaxFaults
      BY <1>20 DEF RequestFails
    <2> QED
      BY <1>0, <2>1, <2>2
  <1>21. CASE ImageFails
    BY <1>21 DEF ImageFails
  <1> QED
    BY <1>1, <1>2, <1>3, <1>4, <1>5, <1>6, <1>7, <1>8, <1>10, <1>11, <1>12, <1>13, <1>14, <1>15,
       <1>16, <1>17, <1>18, <1>19, <1>20, <1>21 DEF Next, Download, Mishap, Terminated

\* An offset that completes a blob is that of its last part, ...
LEMMA FinalIsLast ==
  ASSUME TypeOK, UploadInv, at = "send", gets = 1, body = "blob", Final
  PROVE  sent + part = size
  <1> /\ part \in Nat /\ sent \in Nat /\ size \in Nat /\ last_offset \in Int
      /\ sent + part <= size /\ last_offset <= sent
    BY UploadAssumption DEF TypeOK, UploadInv, BodySize
  <1> QED
    BY DEF Final

\* ... and that of a last part completes it, if it was counted and fits.
LEMMA LastIsFinal ==
  ASSUME TypeOK, UploadInv, at = "send", gets = 1, body = "blob",
         sent + part = size, style = "count", size <= IntLimit, last_offset = 0 => sent = 0
  PROVE  Final
  <1>1. /\ part \in Nat \ {0} /\ sent \in Nat /\ size \in Nat /\ IntLimit \in Nat
    BY UploadAssumption DEF TypeOK, UploadInv
  <1>2. last_offset \in {0, sent}
    BY <1>1 DEF UploadInv
  <1> QED
    BY <1>1, <1>2 DEF Final

LEMMA UploadStep ==
  ASSUME TypeOK, UploadInv, [Next]_vars
  PROVE  UploadInv'
  <1> USE UploadAssumption
  <1> USE DEF TypeOK, Location, UploadInv, NoSession, Fault, Gets, BodySize, serverVars, putVars, sourceVars
  <1>1. CASE UNCHANGED vars
    BY <1>1 DEF vars
  <1>2. CASE HasBlob
    BY <1>2 DEF HasBlob
  <1>3. CASE StartDownload
    BY <1>3 DEF StartDownload
  <1>4. CASE PartArrives
    BY <1>4 DEF PartArrives
  <1>5. CASE EndOfBody
    BY <1>5 DEF EndOfBody, DownloadOver
  <1>6. CASE Authorize
    BY <1>6 DEF Authorize
  <1>7. CASE InitiateUpload
    BY <1>7 DEF InitiateUpload
  <1>8. CASE UploadStatus
    <2>1. /\ RangeEnd \in Nat /\ RangeEnd <= session.received
          /\ style = "count" => RangeEnd = session.received
      BY <1>8 DEF UploadStatus, RangeEnd
    <2>2. /\ Narrowed(RangeEnd) \in Int /\ Narrowed(RangeEnd) <= RangeEnd
          /\ RangeEnd < IntLimit => Narrowed(RangeEnd) = RangeEnd
      BY <2>1, NarrowedFacts
    <2> QED
      BY <1>8, <2>1, <2>2 DEF UploadStatus
  <1>9. CASE Patch
    <2>1. /\ session'.open = session.open
          /\ session'.received = session.received + part
          /\ session'.good = (session.good /\ body = "blob" /\ sent = session.received)
      BY <1>9 DEF Patch, Appended
    <2> QED
      BY <1>9, <2>1 DEF Patch, PartTaken
  <1>10. CASE Put
    <2>1. gets = 1 => body = "blob"
      BY <1>10 DEF Put, Whole, Appended
    <2>2. gets = 1 => sent' = size
      BY <1>10, <2>1, FinalIsLast DEF Put, PartTaken
    <2> QED
      BY <1>10, <2>1, <2>2 DEF Put, PartTaken
  <1>11. CASE PutRefused
    BY <1>11 DEF PutRefused, DownloadOver
  <1>12. CASE PutManifest
    BY <1>12 DEF PutManifest
  <1>13. CASE ErrorAnswer
    BY <1>13 DEF ErrorAnswer
  <1>14. CASE GetAgain
    BY <1>14 DEF GetAgain
  <1>15. CASE GetGivenUp
    BY <1>15 DEF GetGivenUp, DownloadOver
  <1>16. CASE AuthorizeInVain
    BY <1>16 DEF AuthorizeInVain
  <1>17. CASE TokenExpires
    BY <1>17 DEF TokenExpires
  <1>18. CASE StatusUnknown
    BY <1>18 DEF StatusUnknown
  <1>19. CASE RequestFails
    BY <1>19 DEF RequestFails, DownloadOver
  <1>20. CASE ImageFails
    BY <1>20 DEF ImageFails
  <1> QED
    BY <1>1, <1>2, <1>3, <1>4, <1>5, <1>6, <1>7, <1>8, <1>9, <1>10, <1>11, <1>12, <1>13, <1>14, <1>15,
       <1>16, <1>17, <1>18, <1>19, <1>20 DEF Next, Download, Mishap, Terminated

LEMMA UploadInit == Init => TypeOK /\ UploadInv
  <1> SUFFICES ASSUME Init PROVE TypeOK /\ UploadInv
    OBVIOUS
  <1>1. authorized \in BOOLEAN /\ stored \in BOOLEAN /\ headers \in BOOLEAN
    BY Zenon DEF Init
  <1>2. session = NoSession /\ session \in [open : BOOLEAN, received : Nat, good : BOOLEAN]
    BY DEF Init, NoSession
  <1>3. TypeOK
    BY <1>1, <1>2, UploadAssumption DEF Init, TypeOK, Location, Gets, BodySize
  <1>4. UploadInv
    BY <1>2, UploadAssumption DEF Init, UploadInv, NoSession
  <1> QED
    BY <1>3, <1>4

\* The inductive invariant.
LEMMA UploadInvariant == SafeSpec => [](TypeOK /\ UploadInv)
  <1>1. TypeOK /\ UploadInv /\ [Next]_vars => (TypeOK /\ UploadInv)'
    BY UploadTypeStep, UploadStep
  <1> QED
    BY UploadInit, <1>1, PTL DEF SafeSpec

-----------------------------------------------------------------------------
\* A source is asked for a blob at most three times in a download (Client.cpp:390-393),
\* putBlob is never given more than the body it comes from has, and everything else
\* has its type.
THEOREM UploadTypes == SafeSpec => []TypeOK
  BY UploadInvariant, PTL

\* Tokens that expire, requests made twice and answers that are lost neither lose a
\* part nor send one twice, and a source that answers with the blob is the only one to
\* fill the session, as long as it is asked once (Client.cpp:549-625).
THEOREM UploadSession == SafeSpec => []SessionHoldsWhatWasSent
  <1>1. TypeOK /\ UploadInv => SessionHoldsWhatWasSent
    BY DEF UploadInv, SessionHoldsWhatWasSent
  <1> QED
    BY UploadInvariant, <1>1, PTL

\* The finishing condition (Client.cpp:567) is never true of a part before the last,
\* whether the server counts or writes inclusive ranges, and for any width of int; and
\* with counts that an int can hold it is true of the last, whatever was retried.
THEOREM UploadFinish == SafeSpec => []FinishedByItsLastPart
  <1>1. TypeOK /\ UploadInv => FinishedByItsLastPart
    BY FinalIsLast, LastIsFinal DEF FinishedByItsLastPart
  <1> QED
    BY UploadInvariant, <1>1, PTL
=============================================================================
