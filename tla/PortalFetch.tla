----------------------------- MODULE PortalFetch -----------------------------
(***************************************************************************)
(* A call to the portals: progressiveFetch of libskynet and of libskynetnode, *)
(* the verify functions it is given, and the calls built on it: the read and *)
(* the write of secure-registry, secure-upload, secure-download, the kernel's *)
(* downloadSkylink, and the upload and registry calls of libskynetnode.      *)
(*                                                                         *)
(* The portals are tried one after the other.  What a portal does is chosen  *)
(* when it answers: the request fails, or a response comes, with any status *)
(* and any content a portal can have; its body may turn out to be unreadable *)
(* because the connection broke.  A promise that rejects where nothing      *)
(* catches it leaves the call hung: it is never answered.                  *)
(***************************************************************************)
EXTENDS Skyfile

CONSTANTS
    Portals,            \* defaultPortalList
    Calls,              \* the calls and their inputs
    Decoy,              \* a sector that portals may send instead of another
    Proofs,             \* the chains of proofs a portal may send
    MaxRevision,        \* MAX_UINT_64 ...
    Exact,              \* ... and up to where JSON numbers are exact, scaled down
    Null

ASSUME PortalsAssumption == Portals \in Seq(STRING)

ASSUME CallsAssumption == \A c \in Calls : "op" \in DOMAIN c /\ c.sector \in DOMAIN Layout

VARIABLES
    call,               \* the call, with its input
    step,               \* where it is
    remainingPortals,   \* the midstate of progressiveFetch ...
    portalsFailed,
    responsesFailed,
    messagesFailed,
    portal,             \* ... and of the current attempt
    response,
    fileDataPtr,        \* where verifyDownloadResponse leaves the file
    success,            \* the result: did a response pass the verify function,
    messages,           \* ... and its messagesFailed
    answer              \* what the caller of the call is told

failures == <<portalsFailed, responsesFailed, messagesFailed>>
attempt == <<portal, response>>
result == <<success, messages>>
vars == <<call, step, remainingPortals, failures, attempt, fileDataPtr, result, answer>>

Steps == {"start", "fetch", "verify", "text", "resolved", "answered", "hung"}

IsDownload(c) == c.op \in {"secureDownload", "downloadSkylink"}
IsUpload(c) == c.op \in {"secureUpload", "nodeUpload"}
IsRead(c) == c.op \in {"readEntry", "nodeRead", "overwriteRead"}
IsWrite(c) == c.op \in {"writeEntry", "overwriteWrite"}

\* The calls of libskynetnode.
Node(c) == c.op \in {"nodeUpload", "nodeRead", "overwriteRead", "overwriteWrite"}

NoData == [file |-> NoFile, err |-> FALSE]

Answer(kind, data) == [kind |-> kind, data |-> data]

----------------------------------------------------------------------------
(* What portals send.                                                      *)

\* All the bytes a link asks for, then a root for every subtree behind them.
FullLength(link) ==
    LET parsed == ParseSkylinkBitfield(link.bitfield)
    IN  parsed.fetchSize + 32 * TrailingSubtrees[parsed.fetchSize \div BlockSize]

Target(link, proofs) == IF proofs = <<>> THEN link ELSE proofs[Len(proofs)].data

\* Whole, without the proof, or one byte short; or all of another sector.
Bodies(c) ==
    LET size == ParseSkylinkBitfield(c.link.bitfield).fetchSize
    IN  [sector : {c.sector}, length : {FullLength(c.link), size, size - 1}]
            \cup {[sector |-> Decoy, length |-> FullLength(c.link)]}

Contents(c) ==
    CASE IsDownload(c) /\ c.link.bitfield # 1 ->
            [body : Bodies(c), proofs : {<<>>}]
      [] IsDownload(c) /\ c.link.bitfield = 1 ->
            {[body |-> [sector |-> c.sector, length |-> FullLength(Target(c.link, proofs))],
              proofs |-> proofs] : proofs \in Proofs}
      [] IsUpload(c) -> {UploadedLink(s) : s \in {c.sector, Decoy}}
      [] IsRead(c) -> [signed : BOOLEAN, revision : {0, Exact + 1, MaxRevision}]
      [] IsWrite(c) -> {}

\* The status of a response without one is 0.
Responses(c) ==
    [status : {200}, content : Contents(c), readable : {TRUE}]
        \cup [status : {200, 204, 404, 500}, content : {Null}, readable : {TRUE}]
        \cup [status : {0, 200, 500}, content : {Null}, readable : {FALSE}]

----------------------------------------------------------------------------
(* The verify functions.                                                   *)

\* The entry is complete and has the signature of its key.
VerifyRegistryReadResponse(r) ==
    r.readable /\ r.status = 200 /\ r.content # Null /\ r.content.signed

VerifyRegistryWrite(r) == r.status = 204

\* The portal names the link that was computed here.
VerifyUpload(c, r) == r.readable /\ r.content # Null /\ r.content = UploadedLink(c.sector)

\* The link to check a download against: a resolver link is replaced by the
\* one its proofs lead to.
ResolvedLink(c, r) ==
    IF ParseSkylinkBitfield(c.link.bitfield).version = 2
    THEN VerifyResolverLinkProofs(c.link, r.content.proofs)
    ELSE c.link

VerifyDownloadResponse(c, r) ==
    IF r.status # 200 \/ ~r.readable \/ r.content = Null
    THEN [file |-> NoFile, portalAtFault |-> TRUE, err |-> TRUE]
    ELSE LET link == ParseSkylinkBitfield(ResolvedLink(c, r).bitfield)
         IN  IF link.version # 1
             THEN [file |-> NoFile, portalAtFault |-> TRUE, err |-> TRUE]
             ELSE VerifyDownload(r.content.body, link.offset, link.fetchSize)

Verifies(c, r) ==
    \/ IsRead(c) /\ VerifyRegistryReadResponse(r)
    \/ IsWrite(c) /\ VerifyRegistryWrite(r)
    \/ IsUpload(c) /\ VerifyUpload(c, r)
    \/ IsDownload(c) /\ ~VerifyDownloadResponse(c, r).portalAtFault

\* A proof that is reached makes the function throw if it is null, or if its key
\* has only the characters of base64 and cannot be decoded.
VerifyThrows(c, r) ==
    /\ IsDownload(c) /\ c.link.bitfield = 1 /\ r.status = 200 /\ r.content # Null
    /\ \E i \in DOMAIN r.content.proofs :
        /\ r.content.proofs[i].key # "good"
        /\ LinkAfter(c.link, SubSeq(r.content.proofs, 1, i - 1)) # NoLink

----------------------------------------------------------------------------
(* progressiveFetch.                                                       *)

\* Mutant: the result is not resolved when the portals have run out.
ProgressiveFetchHelperSilent(portals) ==
    /\ portals # <<>>
    /\ step' = "fetch" /\ UNCHANGED result
    /\ portal' = Head(portals) /\ remainingPortals' = Tail(portals)

\* The next portal is asked, or the call has failed; then the result of
\* libskynetnode is without messages.
ProgressiveFetchHelper(portals) ==
    IF portals = <<>>
    THEN /\ step' = "resolved" /\ success' = FALSE
         /\ messages' = IF Node(call) THEN Null ELSE messagesFailed'
         /\ portal' = Null /\ UNCHANGED remainingPortals
    ELSE /\ step' = "fetch" /\ UNCHANGED result
         /\ portal' = Head(portals) /\ remainingPortals' = Tail(portals)

\* Mutant: a failed request leaves no message.
NextPortalNoMessage(r) ==
    /\ portalsFailed' = Append(portalsFailed, portal)
    /\ responsesFailed' = Append(responsesFailed, r)
    /\ messagesFailed' = IF r = Null THEN messagesFailed ELSE Append(messagesFailed, r.content)
    /\ ProgressiveFetchHelper(remainingPortals)
    /\ response' = Null
    /\ UNCHANGED <<call, fileDataPtr, answer>>

NextPortal(r) ==
    /\ portalsFailed' = Append(portalsFailed, portal)
    /\ responsesFailed' = Append(responsesFailed, r)
    /\ messagesFailed' = Append(messagesFailed, IF r = Null THEN Null ELSE r.content)
    /\ ProgressiveFetchHelper(remainingPortals)
    /\ response' = Null
    /\ UNCHANGED <<call, fileDataPtr, answer>>

FetchFails == step = "fetch" /\ NextPortal(Null)

Accepted(r) == r.status \in 200 .. 299

FetchAnswers(r) ==
    /\ step = "fetch"
    /\ response' = r
    /\ step' = IF Accepted(r) THEN "verify" ELSE "text"
    /\ UNCHANGED <<call, remainingPortals, portal, failures, fileDataPtr, result, answer>>

\* The text of a failed response is read before the next portal is tried.
TextRead == step = "text" /\ response.readable /\ NextPortal(response)

TextFails ==
    /\ step = "text" /\ ~response.readable
    /\ step' = "hung"
    /\ UNCHANGED <<call, remainingPortals, failures, attempt, fileDataPtr, result, answer>>

\* Mutant: the error of a portal at fault is left there too.
FileDataPtrAlways ==
    IF IsDownload(call)
    THEN LET verified == VerifyDownloadResponse(call, response)
         IN  [file |-> verified.file, err |-> verified.err]
    ELSE fileDataPtr

\* What verifyDownloadResponse leaves in fileDataPtr.
FileDataPtr ==
    IF IsDownload(call) /\ Verifies(call, response)
    THEN LET verified == VerifyDownloadResponse(call, response)
         IN  [file |-> verified.file, err |-> verified.err]
    ELSE fileDataPtr

VerifyResolves ==
    /\ step = "verify" /\ ~VerifyThrows(call, response)
    /\ fileDataPtr' = FileDataPtr
    /\ IF Verifies(call, response)
       THEN step' = "resolved" /\ success' = TRUE /\ messages' = messagesFailed
       ELSE step' = "text" /\ UNCHANGED result
    /\ UNCHANGED <<call, remainingPortals, failures, attempt, answer>>

VerifyRejects ==
    /\ step = "verify" /\ VerifyThrows(call, response)
    /\ step' = "hung"
    /\ UNCHANGED <<call, remainingPortals, failures, attempt, fileDataPtr, result, answer>>

\* libskynet and libskynetnode each have the function.
ProgressiveFetch ==
    \/ FetchFails
    \/ step = "fetch" /\ \E r \in Responses(call) : FetchAnswers(r)
    \/ TextRead
    \/ TextFails
    \/ VerifyResolves
    \/ VerifyRejects

----------------------------------------------------------------------------
(* The calls.                                                              *)

\* What is refused before any portal is asked.  The form of an input is "whole" if
\* its fields are there and have their types and lengths, and "none" if it is no
\* object at all.
SecureDownloadInput(c) == c.form = "whole" /\ ValidateSkylink(c.link)

DownloadSkylinkInput(c) == ValidateSkylink(c.link)

\* The module makes the metadata of an upload itself.
SecureUploadInput(c) == c.form = "whole" /\ UploadAccepted(c.sector, {"Filename", "Length"})

NodeUploadInput(c) == UploadAccepted(c.sector, Layout[c.sector].fields)

ReadEntryInput(c) == c.form = "whole"

MaxEntryLength == 86

\* encodeU64 takes what fits into 64 bits.
EncodesU64(n) == n \in 0 .. MaxRevision

WriteEntryInput(c) ==
    c.form = "whole" /\ c.entryLength <= MaxEntryLength /\ EncodesU64(c.revision)

OverwriteInput(c) == c.entryLength <= MaxEntryLength

InputValid(c) ==
    CASE c.op = "secureDownload" -> SecureDownloadInput(c)
      [] c.op = "downloadSkylink" -> DownloadSkylinkInput(c)
      [] c.op = "secureUpload" -> SecureUploadInput(c)
      [] c.op = "nodeUpload" -> NodeUploadInput(c)
      [] c.op = "readEntry" -> ReadEntryInput(c)
      [] c.op = "writeEntry" -> WriteEntryInput(c)
      [] c.op = "overwriteRead" -> OverwriteInput(c)
      [] OTHER -> TRUE

Begin ==
    /\ portalsFailed' = <<>> /\ responsesFailed' = <<>> /\ messagesFailed' = <<>>
    /\ response' = Null
    /\ ProgressiveFetchHelper(Portals)

Call ==
    /\ step = "start" /\ InputValid(call)
    /\ Begin
    /\ UNCHANGED <<call, fileDataPtr, answer>>

Reply(kind, data) ==
    /\ step' = "answered" /\ answer' = Answer(kind, data)
    /\ UNCHANGED <<call, remainingPortals, failures, attempt, fileDataPtr, result>>

Hang ==
    /\ step' = "hung"
    /\ UNCHANGED <<call, remainingPortals, failures, attempt, fileDataPtr, result, answer>>

\* The modules on libkmodule answer what their handler throws; secure-upload has
\* no try, and looks for a field in an input that may be no object.
CallRefused ==
    /\ step = "start" /\ ~InputValid(call)
    /\ IF call.op = "secureUpload" /\ call.form = "none" THEN Hang ELSE Reply("invalid", Null)

Said404(r) == r # Null /\ r.status = 404

Any404 == \E i \in DOMAIN responsesFailed : Said404(responsesFailed[i])

\* downloadSkylink tells a 404 from other failures, secureDownload does not.
DownloadEnds ==
    /\ step = "resolved" /\ IsDownload(call)
    /\ CASE success /\ ~fileDataPtr.err -> Reply("data", fileDataPtr.file)
         [] success /\ fileDataPtr.err -> Reply("corrupt", Null)
         [] ~success /\ call.op = "downloadSkylink" /\ Any404 -> Reply("404", Null)
         [] OTHER -> Reply("error", Null)

SecureUploadEnds ==
    /\ step = "resolved" /\ call.op = "secureUpload"
    /\ IF success THEN Reply("link", response.content) ELSE Reply("error", Null)

\* upload of libskynetnode does not look at success: it reads the response, which
\* is null.
NodeUploadEnds ==
    /\ step = "resolved" /\ call.op = "nodeUpload"
    /\ IF success THEN Reply("link", response.content) ELSE Hang

\* The search for a 404 reads the status of each response, also of null.
NullBefore404 ==
    \E i \in DOMAIN responsesFailed :
        /\ responsesFailed[i] = Null
        /\ \A j \in 1 .. i - 1 : ~Said404(responsesFailed[j])

\* Without an entry, whether there is none or none could be read.
NoEntry ==
    CASE NullBefore404 -> Hang
      [] ~NullBefore404 /\ Any404 -> Reply("404", Null)
      [] ~NullBefore404 /\ ~Any404 -> Reply("error", Null)

ReadEntryEnds ==
    /\ step = "resolved" /\ call.op = "readEntry"
    /\ IF success THEN Reply("entry", response.content) ELSE NoEntry

\* A number of JSON: above Exact only the even ones are left (of the 64 bits of a
\* revision a double keeps 53), and of two that are as near the rounder one.
AsNumber(n) ==
    CASE n <= Exact \/ n % 2 = 0 -> n
      [] n > Exact /\ n % 4 = 1 -> n - 1
      [] n > Exact /\ n % 4 = 3 -> n + 1

\* readRegistryEntry of libskynetnode reads the revision as a number.
NodeReadEnds ==
    /\ step = "resolved" /\ call.op = "nodeRead"
    /\ IF success
       THEN Reply("entry", [response.content EXCEPT !.revision = AsNumber(@)])
       ELSE NoEntry

NextRevision == IF success THEN AsNumber(response.content.revision) + 1 ELSE 0

\* overwriteRegistryEntry goes on from its read, to a revision that can be signed.
OverwriteGoesOn ==
    /\ step = "resolved" /\ call.op = "overwriteRead"
    /\ IF success \/ (~NullBefore404 /\ Any404)
       THEN IF EncodesU64(NextRevision)
            THEN /\ call' = [call EXCEPT !.op = "overwriteWrite", !.revision = NextRevision]
                 /\ Begin
                 /\ UNCHANGED <<fileDataPtr, answer>>
            ELSE Reply("error", Null)
       ELSE NoEntry

WriteEnds ==
    /\ step = "resolved" /\ IsWrite(call)
    /\ IF success THEN Reply("written", call.revision) ELSE Reply("error", Null)

----------------------------------------------------------------------------
Init ==
    /\ call \in Calls
    /\ step = "start"
    /\ remainingPortals = <<>>
    /\ portalsFailed = <<>> /\ responsesFailed = <<>> /\ messagesFailed = <<>>
    /\ portal = Null /\ response = Null
    /\ fileDataPtr = NoData
    /\ success = FALSE /\ messages = Null
    /\ answer = Answer("none", Null)

Next ==
    \/ Call
    \/ CallRefused
    \/ ProgressiveFetch
    \/ DownloadEnds
    \/ SecureUploadEnds
    \/ NodeUploadEnds
    \/ ReadEntryEnds
    \/ NodeReadEnds
    \/ OverwriteGoesOn
    \/ WriteEnds

Spec == Init /\ [][Next]_vars /\ WF_vars(Next)

----------------------------------------------------------------------------
(* Properties.                                                             *)

Trying == step \in {"fetch", "verify", "text"}

\* The three arrays of failures correspond one to one, whatever mixture of
\* failed requests and failed responses filled them, and with the portal being
\* tried and those that remain they are the list of portals, in its order
\* (apiprogressivefetch.ts:19-24).  A result of libskynet has all three; a failed
\* one of libskynetnode is the exception, see MessagesMatch.
FailuresInOrder ==
    /\ Len(responsesFailed) = Len(portalsFailed)
    /\ Len(messagesFailed) = Len(portalsFailed)
    /\ \A i \in 1 .. Len(portalsFailed) :
        /\ portalsFailed[i] = Portals[i]
        /\ messagesFailed[i] = IF responsesFailed[i] = Null THEN Null ELSE responsesFailed[i].content
    /\ step = "resolved" /\ (success \/ ~Node(call)) => messages = messagesFailed
    /\ Trying =>
        /\ Len(portalsFailed) + 1 + Len(remainingPortals) = Len(Portals)
        /\ portal = Portals[Len(portalsFailed) + 1]
        /\ \A i \in 1 .. Len(remainingPortals) :
            remainingPortals[i] = Portals[Len(portalsFailed) + 1 + i]

\* The first response that satisfies the verify function ends the search, and
\* nothing else does: none that would have was passed over, the one that was
\* taken did, and without one every portal was tried: a single portal cannot
\* hide what another has by saying 404 (apiprogressivefetch.ts:157-161).  What is
\* handed to the caller is of that response, never of one that failed before.
FirstVerifiedWins ==
    /\ \A i \in 1 .. Len(responsesFailed) :
        responsesFailed[i] # Null =>
            ~(Accepted(responsesFailed[i]) /\ Verifies(call, responsesFailed[i]))
    /\ step = "resolved" =>
        IF success
        THEN /\ Accepted(response) /\ Verifies(call, response)
             /\ IsDownload(call) => fileDataPtr = FileDataPtr
        ELSE Len(portalsFailed) = Len(Portals)
    /\ Trying => fileDataPtr = NoData

\* The link that an upload computes fetches enough of the sector, for every size
\* that a sector has room for: a portal that sends all of it with its proof is
\* believed, directly or at the end of a chain of resolver links, and exactly the
\* file is returned, the bytes that follow layout, fanout and metadata.  Uploads
\* have no fanout; one must be small enough for the blocks that are fetched.
UploadsReadable ==
    LET link == UploadedLink(call.sector)
        layout == Layout[call.sector]
        readable == /\ TotalSize(call.sector) <= SECTOR_SIZE
                    /\ \/ layout.fanout = 0
                       \/ FileRange(layout).to <= ParseSkylinkBitfield(link.bitfield).fetchSize
    IN  (/\ step = "verify" /\ IsDownload(call) /\ response.status = 200 /\ response.content # Null
         /\ readable /\ ResolvedLink(call, response) = link
         /\ response.content.body = [sector |-> call.sector, length |-> FullLength(link)])
        => VerifyDownloadResponse(call, response) =
            [file |-> [sector |-> call.sector,
                       from |-> TotalSize(call.sector) + layout.fanout - layout.size,
                       to |-> TotalSize(call.sector) + layout.fanout],
             portalAtFault |-> FALSE, err |-> FALSE]

\* What leaves a call without an answer: the body of a failed response that
\* breaks off; a null for a proof, or a proof whose key is no base64; a portal that
\* could not be reached before any said 404 to a read of the registry; a failed
\* upload of libskynetnode; and an upload whose input is no object.
Unanswerable ==
    \/ response # Null /\ step \in {"text", "hung"} /\ ~response.readable
    \/ response # Null /\ step \in {"verify", "hung"} /\ VerifyThrows(call, response)
    \/ IsRead(call) /\ NullBefore404
    \/ call.op = "nodeUpload" /\ Len(portalsFailed) = Len(Portals)
    \/ call.op = "secureUpload" /\ call.form = "none"

\* But for those six, every call is answered, whatever the portals send.
CallSettles == <>(answer.kind # "none" \/ Unanswerable)

\* Every call is answered: "The helper is responsible for calling the next
\* portal if the current attempt fails."  Not so: see Unanswerable.
EveryCallSettles == <>(answer.kind # "none")

\* "There is a 1:1 mapping between the 'portalsFailed', 'responsesFailed', and
\* 'messagesFailed' fields" (apiprogressivefetch.ts:19-20), in every result.
MessagesMatch == step = "resolved" => messages = messagesFailed

\* "In the event that no working 2XX response is found, the first 4XX response
\* will be returned" (apiprogressivefetch.ts:137-139).
First4XXReturned ==
    (step = "resolved" /\ ~success) =>
        \A i \in DOMAIN responsesFailed :
            (/\ responsesFailed[i] # Null /\ responsesFailed[i].status \in 400 .. 499
             /\ \A j \in 1 .. i - 1 :
                    responsesFailed[j] = Null \/ responsesFailed[j].status \notin 400 .. 499)
            => response = responsesFailed[i]

\* overwriteRegistryEntry "will obliterate an existing registry entry with a new
\* value": the revision that it signs is above the one it read.
OverwriteSurpasses ==
    (step = "resolved" /\ call.op = "overwriteRead" /\ success) =>
        NextRevision > response.content.revision

\* "The hash of the file is computed locally after the data is received to
\* ensure that the data matches the skylink" (secure-download/src/index.ts:1-3).
DownloadMatchesLink ==
    (answer.kind = "data" /\ call.link.bitfield # 1) => SectorRoot(answer.data.sector) = call.link.root

\* "As long as the Merkle proof matches the root, offset, and length that we
\* have as input, the portal is considered non-malicious", with any offset.
WholeAnswerAccepted ==
    (/\ step = "verify" /\ IsDownload(call) /\ response.status = 200 /\ response.content # Null
     /\ call.link.root = SectorRoot(call.sector)
     /\ response.content.body = [sector |-> call.sector, length |-> FullLength(call.link)])
    => Verifies(call, response)
=============================================================================
