--------------------------- MODULE ExtensionRelay ---------------------------
(***************************************************************************)
(* The queries of pages through the extension: libkernel in a document      *)
(* (libs/libkernel/src/queries.ts), the bridge (extension/src/bridge.ts),   *)
(* the background script (extension/src/background.ts) and the frame of     *)
(* kernel.skynet, where the handler of the bootloader (bootloader.ts) is    *)
(* replaced by that of the kernel (kernel/src/index.ts) once it is loaded.  *)
(*                                                                         *)
(* Replies and auth statuses share the channels, and a logout reloads the   *)
(* frame while queries are anywhere on the way: what a page hears of its    *)
(* query, and whether it hears anything, hangs on their order.  How the     *)
(* statuses come about is the module ExtensionAuth; here a session is a     *)
(* document of the frame, and pages use the extension.  The bridge passes   *)
(* messages on as they are: a channel goes through it.                      *)
(***************************************************************************)
EXTENDS Naturals, Sequences, FiniteSets, SequencesExt

CONSTANTS
    Docs,           \* documents that run libkernel; a reloaded page is another
    Calls,          \* nonces of libkernel: unique to a query of one document
    NoCall,         \* a nonce that no query of a page has
    Loads,          \* how loading a kernel may end
    MaxSessions,    \* bound: documents of the frame
    MaxUpdates      \* bound: updates of a query, in either direction

ASSUME ExtensionRelayAssumption ==
    /\ NoCall \notin Calls
    /\ Loads \subseteq {"success", "failed"}
    /\ MaxSessions \in Nat \ {0} /\ MaxUpdates \in Nat

VARIABLES
    frame,          \* absent (no script runs), running, or reloading
    session,        \* number of documents the frame has had
    kernelLoaded,   \* of the frame's document
    kernelNonces,   \* the kernel's counter of nonces
    kernelQueries,  \* the kernel's open queries
    up,             \* messages of the frame to the background
    down,           \* messages of the background to the frame
    authStatus,     \* background: the last status
    ports,          \* background, per document: none, open or closed
    bgQueries,      \* background: nonces of open queries
    toPage,         \* per document: messages to its window
    fromPage,       \* per document: messages to the background
    doc,            \* per document: new, live, reloading or gone
    told,           \* libkernel, per document: the session that kernelLoaded
                    \* was resolved for, or 0
    waiting,        \* libkernel, per document: queries that wait for kernelLoaded
    queries,        \* libkernel, per query
    asked,          \* per query: number of calls of sendUpdate
    heard,          \* per query: the replies libkernel took
    posted,         \* per query: number of updates its module sent
    delivered       \* per query: the queryUpdates its module was sent

frameVars == <<frame, session, kernelLoaded, kernelNonces, kernelQueries, posted, delivered>>
backVars == <<authStatus, ports, bgQueries>>
pageVars == <<doc, told, waiting, queries, asked, heard>>
vars == <<frameVars, backVars, pageVars, up, down, toPage, fromPage>>

----------------------------------------------------------------------------

\* from is no field of a message: it names the session that sent it.
Message(method, nonce, data) == [method |-> method, nonce |-> nonce, data |-> data, from |-> session]

\* Messages of a page.
Request(method, nonce, data) == [method |-> method, nonce |-> nonce, data |-> data]

\* An error message as the bootloader and the bridge make it, with no data field.
Error(nonce) == [method |-> "response", nonce |-> nonce, from |-> session]

Status(loaded, logout) == Message("kernelAuthStatus", NoCall, [loaded |-> loaded, logout |-> logout])

Unknown == [method |-> "unknown"]

NoQuery == [phase |-> "idle", owner |-> NoCall, sendUpdates |-> FALSE, kernelNonce |-> 0, held |-> <<>>]

Init ==
    /\ frame = "absent"
    /\ session = 0
    /\ kernelLoaded = "not yet"
    /\ kernelNonces = 0
    /\ kernelQueries = {}
    /\ up = <<>>
    /\ down = <<>>
    /\ authStatus = Unknown
    /\ ports = [d \in Docs |-> "none"]
    /\ bgQueries = {}
    /\ toPage = [d \in Docs |-> <<>>]
    /\ fromPage = [d \in Docs |-> <<>>]
    /\ doc = [d \in Docs |-> "new"]
    /\ told = [d \in Docs |-> 0]
    /\ waiting = [d \in Docs |-> <<>>]
    /\ queries = [q \in Calls |-> NoQuery]
    /\ asked = [q \in Calls |-> 0]
    /\ heard = [q \in Calls |-> <<>>]
    /\ posted = [q \in Calls |-> 0]
    /\ delivered = [q \in Calls |-> <<>>]

----------------------------------------------------------------------------
(* The frame: bootloader and kernel.                                       *)

FrameStarts ==
    /\ frame = "absent"
    /\ session < MaxSessions
    /\ frame' = "running"
    /\ session' = session + 1
    /\ up' = Append(up, [Status("not yet", FALSE) EXCEPT !.from = session'])
    /\ UNCHANGED <<kernelLoaded, kernelNonces, kernelQueries, posted, delivered, down,
                   backVars, pageVars, toPage, fromPage>>

\* loadKernel goes on in a document that is reloading, and reports the logout
\* once more.
FrameLoads(loaded) ==
    /\ frame # "absent"
    /\ kernelLoaded = "not yet"
    /\ kernelLoaded' = loaded
    /\ up' = Append(up, Status(loaded, frame = "reloading"))
    /\ UNCHANGED <<frame, session, kernelNonces, kernelQueries, posted, delivered, down,
                   backVars, pageVars, toPage, fromPage>>

LogOut ==
    /\ frame = "running"
    /\ session < MaxSessions
    /\ frame' = "reloading"
    /\ up' = Append(up, Status(kernelLoaded, TRUE))
    /\ UNCHANGED <<session, kernelLoaded, kernelNonces, kernelQueries, posted, delivered, down,
                   backVars, pageVars, toPage, fromPage>>

\* The document goes with what it was sent and has not handled; the kernel
\* nonces start again, from the same number.
Unload ==
    /\ frame = "reloading"
    /\ frame' = "absent"
    /\ kernelLoaded' = "not yet"
    /\ kernelNonces' = 0
    /\ kernelQueries' = {}
    /\ down' = <<>>
    /\ UNCHANGED <<session, posted, delivered, up, backVars, pageVars, toPage, fromPage>>

\* The frame takes the next message.
Take(handler) ==
    /\ frame # "absent"
    /\ kernelLoaded = "success" <=> handler = "kernel"
    /\ down # <<>>
    /\ down' = Tail(down)

\* handleIncomingMessage of the bootloader: an error without a data field.
BootloaderAnswers ==
    /\ Take("bootloader")
    /\ up' = Append(up, Error(IF Head(down).method = "moduleCall" THEN Head(down).nonce ELSE NoCall))
    /\ UNCHANGED <<frameVars, backVars, pageVars, toPage, fromPage>>

KernelRefuses ==
    LET m == Head(down)
    IN  /\ Take("kernel")
        /\ m.method = "moduleCall"
        /\ up' = Append(up, Message("response", m.nonce, 0))
        /\ UNCHANGED <<frameVars, backVars, pageVars, toPage, fromPage>>

\* Mutant: every query gets the first nonce.
KernelOpensAgain ==
    LET m == Head(down)
        k == 1
    IN  /\ Take("kernel")
        /\ m.method = "moduleCall"
        /\ kernelNonces' = k
        /\ kernelQueries' = kernelQueries \cup {[nonce |-> k, call |-> m.nonce]}
        /\ up' = IF m.data THEN Append(up, Message("responseNonce", m.nonce, k)) ELSE up
        /\ UNCHANGED <<frame, session, kernelLoaded, posted, delivered,
                       backVars, pageVars, toPage, fromPage>>

\* The module was loaded and its worker has the query.
KernelOpens ==
    LET m == Head(down)
        k == kernelNonces + 1
    IN  /\ Take("kernel")
        /\ m.method = "moduleCall"
        /\ kernelNonces' = k
        /\ kernelQueries' = kernelQueries \cup {[nonce |-> k, call |-> m.nonce]}
        /\ up' = IF m.data THEN Append(up, Message("responseNonce", m.nonce, k)) ELSE up
        /\ UNCHANGED <<frame, session, kernelLoaded, posted, delivered,
                       backVars, pageVars, toPage, fromPage>>

\* An update as the module gets it; session, like from, is no field of the message.
Delivery(u) == [of |-> u.of, number |-> u.number, session |-> session]

KernelRelaysUpdate ==
    LET m == Head(down)
    IN  /\ Take("kernel")
        /\ m.method = "queryUpdate"
        /\ delivered' = [q \in Calls |-> IF [nonce |-> m.nonce, call |-> q] \in kernelQueries
                                         THEN Append(delivered[q], Delivery(m.data))
                                         ELSE delivered[q]]
        /\ UNCHANGED <<frame, session, kernelLoaded, kernelNonces, kernelQueries, posted, up,
                       backVars, pageVars, toPage, fromPage>>

\* The worker that serves g sends an update, or its response.
ModuleUpdates(g) ==
    /\ g \in kernelQueries
    /\ posted[g.call] < MaxUpdates
    /\ posted' = [posted EXCEPT ![g.call] = @ + 1]
    /\ up' = Append(up, Message("responseUpdate", g.call, posted[g.call] + 1))
    /\ UNCHANGED <<frame, session, kernelLoaded, kernelNonces, kernelQueries, delivered, down,
                   backVars, pageVars, toPage, fromPage>>

ModuleResponds(g) ==
    /\ g \in kernelQueries
    /\ kernelQueries' = kernelQueries \ {g}
    /\ up' = Append(up, Message("response", g.call, posted[g.call]))
    /\ UNCHANGED <<frame, session, kernelLoaded, kernelNonces, posted, delivered, down,
                   backVars, pageVars, toPage, fromPage>>

----------------------------------------------------------------------------
(* background.ts                                                           *)

OpenPorts == {d \in Docs : ports[d] = "open"}

\* A document that is gone takes no messages.
SendTo(D, ms) ==
    toPage' = [d \in Docs |-> IF d \in D /\ doc[d] # "gone" THEN toPage[d] \o ms ELSE toPage[d]]

TakeUp(method) == up # <<>> /\ Head(up).method = method /\ up' = Tail(up)

\* A logout disconnects every port and forgets them.
ClosePorts ==
    IF Head(up).data.logout
    THEN ports' = [d \in Docs |-> IF d \in OpenPorts THEN "closed" ELSE ports[d]]
    ELSE UNCHANGED ports

\* The first status also answers the ports that blocked for the bootloader.
HandleAuthStatus ==
    /\ TakeUp("kernelAuthStatus")
    /\ authStatus' = Head(up)
    /\ SendTo(OpenPorts, IF authStatus = Unknown THEN <<Head(up), Head(up)>> ELSE <<Head(up)>>)
    /\ ClosePorts
    /\ UNCHANGED <<frameVars, bgQueries, pageVars, down, fromPage>>

\* Mutant: an update ends the query.
ForgetsAny(m) == bgQueries' = bgQueries \ {m.nonce}

Forgets(m) == bgQueries' = IF m.method = "response" THEN bgQueries \ {m.nonce} ELSE bgQueries

\* receiveResult: the reply goes to the port the query came from, if that port
\* is still open.
HandleReply ==
    LET m == Head(up)
    IN  /\ up # <<>>
        /\ TakeUp(m.method)
        /\ m.method # "kernelAuthStatus"
        /\ IF m.nonce \in bgQueries
           THEN /\ Forgets(m)
                /\ SendTo(OpenPorts \cap {queries[m.nonce].owner}, <<m>>)
           ELSE UNCHANGED <<bgQueries, toPage>>
        /\ UNCHANGED <<frameVars, authStatus, ports, pageVars, down, fromPage>>

\* bridgeListener: the bridge of a new document connects.
Connect(d) ==
    /\ doc[d] = "new"
    /\ doc' = [doc EXCEPT ![d] = "live"]
    /\ ports' = [ports EXCEPT ![d] = "open"]
    /\ toPage' = IF authStatus = Unknown
                 THEN toPage ELSE [toPage EXCEPT ![d] = Append(@, authStatus)]
    /\ UNCHANGED <<frameVars, authStatus, bgQueries, told, waiting, queries, asked, heard,
                   up, down, fromPage>>

Registers(m) == bgQueries' = IF m.method = "moduleCall" THEN bgQueries \cup {m.nonce} ELSE bgQueries

\* A message to a frame between two documents is lost; one from a port that was
\* disconnected is not heard.
HandleBridgeMessage(d) ==
    LET m == Head(fromPage[d])
    IN  /\ fromPage[d] # <<>>
        /\ fromPage' = [fromPage EXCEPT ![d] = Tail(@)]
        /\ IF ports[d] = "open"
           THEN /\ Registers(m)
                /\ down' = IF frame = "absent" THEN down ELSE Append(down, m)
           ELSE UNCHANGED <<bgQueries, down>>
        /\ UNCHANGED <<frameVars, authStatus, ports, pageVars, up, toPage>>

PortDisconnected(d) ==
    /\ doc[d] = "gone"
    /\ ports[d] = "open"
    /\ fromPage[d] = <<>>
    /\ ports' = [ports EXCEPT ![d] = "closed"]
    /\ UNCHANGED <<frameVars, authStatus, bgQueries, pageVars, up, down, toPage, fromPage>>

----------------------------------------------------------------------------
(* libkernel.  A document that is reloading goes on until it is unloaded.   *)

Runs(d) == doc[d] \in {"live", "reloading"}

Call(q) == Request("moduleCall", q, queries[q].sendUpdates)

Post(d, ms) == fromPage' = [fromPage EXCEPT ![d] = @ \o ms]

\* newKernelQuery: the query waits for kernelLoaded.  connectModule sends and
\* receives updates, callModule does neither.
NewKernelQuery(d, q, updates) ==
    LET new == [NoQuery EXCEPT !.owner = d, !.sendUpdates = updates]
    IN  /\ Runs(d)
        /\ queries[q].phase = "idle"
        /\ IF told[d] = 0
           THEN /\ queries' = [queries EXCEPT ![q] = [new EXCEPT !.phase = "waiting"]]
                /\ waiting' = [waiting EXCEPT ![d] = Append(@, q)]
                /\ UNCHANGED fromPage
           ELSE /\ queries' = [queries EXCEPT ![q] = [new EXCEPT !.phase = "open"]]
                /\ Post(d, <<Request("moduleCall", q, updates)>>)
                /\ UNCHANGED waiting
        /\ UNCHANGED <<frameVars, backVars, doc, told, asked, heard, up, down, toPage>>

QueryUpdate(q, k, i) == Request("queryUpdate", k, [of |-> q, number |-> i])

\* sendUpdate blocks for the kernel nonce, and does not look whether the query
\* is open.
SendUpdate(q) ==
    LET d == queries[q].owner
        u == asked[q] + 1
    IN  /\ queries[q].sendUpdates
        /\ Runs(d)
        /\ asked[q] < MaxUpdates
        /\ asked' = [asked EXCEPT ![q] = u]
        /\ IF queries[q].kernelNonce = 0
           THEN queries' = [queries EXCEPT ![q].held = Append(@, u)] /\ UNCHANGED fromPage
           ELSE Post(d, <<QueryUpdate(q, queries[q].kernelNonce, u)>>) /\ UNCHANGED queries
        /\ UNCHANGED <<frameVars, backVars, doc, told, waiting, heard, up, down, toPage>>

\* The document takes the next message.
TakePage(d, method) ==
    /\ Runs(d)
    /\ toPage[d] # <<>>
    /\ Head(toPage[d]).method = method
    /\ toPage' = [toPage EXCEPT ![d] = Tail(@)]

Resolves(d) == told[d] = 0 /\ Head(toPage[d]).data.loaded # "not yet"

\* Mutant: a status that resolves kernelLoaded is not looked at any further.
ObeyLogoutLater(d) ==
    doc' = IF Head(toPage[d]).data.logout /\ ~Resolves(d)
           THEN [doc EXCEPT ![d] = "reloading"] ELSE doc

ObeyLogout(d) == doc' = IF Head(toPage[d]).data.logout THEN [doc EXCEPT ![d] = "reloading"] ELSE doc

\* kernelLoaded resolves, whether the kernel loaded or failed to, and the
\* queries that waited are sent; after a logout the page reloads.
HandleStatus(d) ==
    /\ TakePage(d, "kernelAuthStatus")
    /\ IF Resolves(d)
       THEN /\ told' = [told EXCEPT ![d] = Head(toPage[d]).from]
            /\ waiting' = [waiting EXCEPT ![d] = <<>>]
            /\ queries' = [q \in Calls |-> IF Contains(waiting[d], q)
                                           THEN [queries[q] EXCEPT !.phase = "open"] ELSE queries[q]]
            /\ Post(d, [i \in DOMAIN waiting[d] |-> Call(waiting[d][i])])
       ELSE UNCHANGED <<told, waiting, queries, fromPage>>
    /\ ObeyLogout(d)
    /\ UNCHANGED <<frameVars, backVars, asked, heard, up, down>>

\* A message without a data field, or for a query that is not open, is dropped.
Takes(m) == "data" \in DOMAIN m /\ queries[m.nonce].phase = "open"

Hear(m) == heard' = [heard EXCEPT ![m.nonce] = Append(@, m)]

\* Mutant: the query stays in the map.
HandleResponseKeep(d) ==
    LET m == Head(toPage[d])
    IN  /\ TakePage(d, "response")
        /\ IF Takes(m) THEN Hear(m) ELSE UNCHANGED heard
        /\ UNCHANGED <<frameVars, backVars, doc, told, waiting, queries, asked, up, down, fromPage>>

HandleResponse(d) ==
    LET m == Head(toPage[d])
    IN  /\ TakePage(d, "response")
        /\ IF Takes(m)
           THEN Hear(m) /\ queries' = [queries EXCEPT ![m.nonce].phase = "closed"]
           ELSE UNCHANGED <<heard, queries>>
        /\ UNCHANGED <<frameVars, backVars, doc, told, waiting, asked, up, down, fromPage>>

HandleResponseUpdate(d) ==
    LET m == Head(toPage[d])
    IN  /\ TakePage(d, "responseUpdate")
        /\ IF Takes(m) /\ queries[m.nonce].sendUpdates THEN Hear(m) ELSE UNCHANGED heard
        /\ UNCHANGED <<frameVars, backVars, doc, told, waiting, queries, asked, up, down, fromPage>>

HandleResponseNonce(d) ==
    LET m == Head(toPage[d])
        q == m.nonce
    IN  /\ TakePage(d, "responseNonce")
        /\ IF Takes(m)
           THEN /\ Hear(m)
                /\ queries' = [queries EXCEPT ![q].kernelNonce = m.data, ![q].held = <<>>]
                /\ Post(d, [i \in DOMAIN queries[q].held |-> QueryUpdate(q, m.data, queries[q].held[i])])
           ELSE UNCHANGED <<heard, queries, fromPage>>
        /\ UNCHANGED <<frameVars, backVars, doc, told, waiting, asked, up, down>>

\* The document is unloaded, by a reload or by the user: the last messages it
\* posted may not have reached its port.
Leave(d) ==
    /\ doc' = [doc EXCEPT ![d] = "gone"]
    /\ toPage' = [toPage EXCEPT ![d] = <<>>]
    /\ \E n \in 0 .. Len(fromPage[d]) : fromPage' = [fromPage EXCEPT ![d] = SubSeq(@, 1, n)]
    /\ UNCHANGED <<frameVars, backVars, told, waiting, queries, asked, heard, up, down>>

Reloads(d) == doc[d] = "reloading" /\ Leave(d)

Closes(d) == doc[d] = "live" /\ Leave(d)

----------------------------------------------------------------------------

Frame ==
    \/ FrameStarts
    \/ \E loaded \in Loads : FrameLoads(loaded)
    \/ LogOut
    \/ Unload
    \/ BootloaderAnswers
    \/ KernelRefuses
    \/ KernelOpens
    \/ KernelRelaysUpdate
    \/ \E g \in kernelQueries : ModuleUpdates(g) \/ ModuleResponds(g)

Background ==
    \/ HandleAuthStatus
    \/ HandleReply
    \/ \E d \in Docs : Connect(d) \/ HandleBridgeMessage(d) \/ PortDisconnected(d)

Page ==
    \/ \E d \in Docs, q \in Calls, updates \in BOOLEAN : NewKernelQuery(d, q, updates)
    \/ \E q \in Calls : SendUpdate(q)
    \/ \E d \in Docs :
        \/ HandleStatus(d)
        \/ HandleResponse(d)
        \/ HandleResponseUpdate(d)
        \/ HandleResponseNonce(d)
        \/ Reloads(d)
        \/ Closes(d)

Next == Frame \/ Background \/ Page

Spec == Init /\ [][Next]_vars

----------------------------------------------------------------------------

HeardUpdates(q) == {i \in DOMAIN heard[q] : heard[q][i].method = "responseUpdate"}

\* "No settings or private data leaks between different user account logins":
\* a page that has not been told of a logout hears only the kernel of the
\* session it was told of, though its query may have reached a later one.
AnswersInSession ==
    \A q \in Calls : \A i \in DOMAIN heard[q] :
        doc[queries[q].owner] = "live" => heard[q][i].from = told[queries[q].owner]

OwnUpdates(q) == {i \in DOMAIN delivered[q] : delivered[q][i].of = q}

\* Updates are relayed faithfully in both directions.  What libkernel takes for
\* the answer of a query is the answer of its module: its updates come in
\* order, none is skipped or of another query, and none is missing when the
\* response is taken, whichever statuses and logouts are in between.  The
\* updates of a query reach the module that serves it in order, with none
\* skipped, and no other module in the session that gave out the nonce: the
\* nonces of a session are those of the one before, so an update that outlives
\* its session can, when the background is slower than the next login.
RelayFaithful ==
    \A q \in Calls :
        /\ \A i \in HeardUpdates(q) : heard[q][i].data = Cardinality({j \in HeardUpdates(q) : j <= i})
        /\ queries[q].phase = "closed" /\ queries[q].sendUpdates
               => Last(heard[q]).data = Cardinality(HeardUpdates(q))
        /\ \A i \in OwnUpdates(q) : delivered[q][i].number = Cardinality({j \in OwnUpdates(q) : j <= i})
        /\ \A i \in DOMAIN delivered[q] :
               LET u == delivered[q][i]
               IN  u.of # q => Head(heard[u.of]).from < u.session

\* Seen from a page, the extension is one query protocol per query: a query is
\* asked when newKernelQuery is called, even if it has to wait.
Protocol == INSTANCE QueryProtocol WITH
    Queries <- Calls,
    phase <- [q \in Calls |-> IF queries[q].phase = "waiting" THEN "open" ELSE queries[q].phase],
    heard <- [q \in Calls |-> [i \in DOMAIN heard[q] |-> heard[q][i].method]]

ImplementsProtocol == Protocol!Spec

AtRest ==
    /\ frame = "running" /\ kernelQueries = {}
    /\ up = <<>> /\ down = <<>>
    /\ \A d \in Docs : fromPage[d] = <<>>

\* background.ts: the reload of a logout is "to reset both the kernel and the
\* background state" and "guarantees that old items are cleaned up properly".
LogoutResets == AtRest => bgQueries = {}

----------------------------------------------------------------------------
(* Fairness: event loops go on, a reload unloads and starts a document, and *)
(* modules answer.  The user need not log in or close anything.            *)

FairSpec ==
    /\ Spec
    /\ WF_vars(FrameStarts)
    /\ WF_vars(Unload)
    /\ WF_vars(BootloaderAnswers \/ KernelRefuses \/ KernelOpens \/ KernelRelaysUpdate)
    /\ \A q \in Calls : WF_vars(\E g \in kernelQueries : g.call = q /\ ModuleResponds(g))
    /\ WF_vars(HandleAuthStatus \/ HandleReply)
    /\ \A d \in Docs :
           /\ WF_vars(HandleBridgeMessage(d))
           /\ WF_vars(HandleStatus(d) \/ HandleResponse(d) \/ HandleResponseUpdate(d)
                         \/ HandleResponseNonce(d))
           /\ WF_vars(Reloads(d))

PageGone(q) == queries[q].phase = "open" /\ doc[queries[q].owner] = "gone"

\* libkernel: the promise of a query "will resolve when the query receives a
\* response message".  A query that was sent is answered, or its page reloads or
\* is closed: wherever a logout finds it, it is not lost in silence.
QueriesAnswered ==
    \A q \in Calls :
        queries[q].phase = "open" ~> queries[q].phase = "closed" \/ PageGone(q)
=============================================================================
