---------------------------- MODULE KernelRequests ----------------------------
(***************************************************************************)
(* What the frame of kernel.skynet answers besides calls of modules: the     *)
(* files of kernel.skynet that the background script asks for when the       *)
(* browser requests them (extension/src/background.ts and bootloader.ts), and *)
(* the version, the errors and the module overrides that pages ask for       *)
(* (kernel/src/index.ts), among them the dashboard (webapps/                 *)
(* kernel-dev-dashboard).                                                  *)
(*                                                                         *)
(* A request of the browser waits for its server, for the bootloader, for the *)
(* frame to have loaded the file, and for the answer, in any order; a logout  *)
(* reloads the frame in between.  The bridges pass messages on as they are   *)
(* (ExtensionRelay); how a kernel is loaded is in Bootloader.               *)
(***************************************************************************)
EXTENDS Naturals, Sequences, FiniteSets, SequencesExt

CONSTANTS
    Requests,       \* requests of the browser, numbered by their requestId
    Asks,           \* bound: who asks what, as <<request, url, verb>>
    Hooks,          \* queries of pages, with the nonce libkernel gives them
    Methods,        \* bound: methods that pages use
    Lists,          \* lists of module overrides that pages send, by name
    Entries,        \* per list: its entries
    NoOverrides,    \* the empty list
    DownProxies,    \* proxies that do not answer
    MaxFrames       \* bound: documents of the frame

ASSUME KernelRequestsAssumption ==
    /\ Asks \subseteq Requests \X {"/favicon.ico", "/auth.html", "/", "elsewhere"} \X {"GET", "POST"}
    /\ Methods \subseteq {"version", "checkErrs", "getModuleOverrides", "setModuleOverrides", "unknown"}
    /\ \A g \in Hooks : g \notin Nat /\ g \notin Requests
    /\ NoOverrides \notin Lists
    /\ MaxFrames \in Nat \ {0}

VARIABLES
    requests,       \* per request of the browser: its filter and its promise
    hooks,          \* per query of a page: useKernelQuery's state
    status,         \* background: kernelLoaded of the last status, or none
    blocked,        \* background: requests behind blockForBootloader
    queriesNonce,   \* background
    queries,        \* background: who waits for the answer to a nonce
    down,           \* messages of the background to the frame
    up,             \* messages of the frame to the background
    frame,          \* absent, bootloader or kernel
    frames,         \* number of documents the frame has had
    leaving,        \* the frame's document is being reloaded
    assets,         \* frame: the files it fetches from the extension
    held,           \* frame: per file, override requests behind blockForFavicon, ..
    overrides,      \* kernel: moduleOverrideList
    sentTo          \* per request: the document it was posted to, or 0

browserVars == <<requests, sentTo>>
backVars == <<status, blocked, queriesNonce, queries>>
frameVars == <<frame, frames, leaving, assets, held, overrides>>
vars == <<browserVars, hooks, backVars, frameVars, down, up>>

Overridden == {"/favicon.ico", "/auth.html"}

Urls == Overridden \cup {"/", "elsewhere"}

NoBody == "nothing"

Failed == [phase |-> "failed", method |-> "unknown", body |-> NoBody]

Message(method, nonce, url, verb, list) ==
    [method |-> method, nonce |-> nonce, url |-> url, verb |-> verb, list |-> list]

Response(nonce, err, body) ==
    [method |-> "response", nonce |-> nonce, err |-> err, body |-> body]

Status(loaded) == [method |-> "kernelAuthStatus", loaded |-> loaded]

Init ==
    /\ requests = [r \in Requests |->
            [url |-> "elsewhere", verb |-> "GET", phase |-> "new", type |-> "none",
             result |-> NoBody, written |-> <<>>]]
    /\ hooks = [g \in Hooks |-> [Failed EXCEPT !.phase = "idle"]]
    /\ status = "none"
    /\ blocked = <<>>
    /\ queriesNonce = 0
    /\ queries = [n \in {} |-> NoBody]
    /\ down = <<>>
    /\ up = <<>>
    /\ frame = "absent"
    /\ frames = 0
    /\ leaving = FALSE
    /\ assets = [u \in Overridden |-> "loading"]
    /\ held = [u \in Overridden |-> <<>>]
    /\ overrides = NoOverrides
    /\ sentTo = [r \in Requests |-> 0]

----------------------------------------------------------------------------
(* The background script and the requests of the browser.                   *)

\* Mutant: the nonce is read before it is counted up by another query.
NonceSame(i) == queriesNonce

\* The nonce of the i-th of the queries that are sent now.
Nonce(i) == queriesNonce + i - 1

\* What is posted to a frame between two documents is lost.
Post(ms) == down' = IF frame = "absent" THEN down ELSE down \o ms

\* The map of queries with those that are added now.
Adding(new) ==
    [n \in DOMAIN new \cup DOMAIN queries |-> IF n \in DOMAIN new THEN new[n] ELSE queries[n]]

\* The end of queryKernel, once the bootloader has shown itself; requests are as
\* given.
Sends(rs, given) ==
    /\ queriesNonce' = queriesNonce + Len(rs)
    /\ queries' = Adding([n \in {Nonce(i) : i \in DOMAIN rs} |->
                            rs[CHOOSE i \in DOMAIN rs : /\ Nonce(i) = n
                                                        /\ \A j \in DOMAIN rs : Nonce(j) = n => j <= i]])
    /\ Post([i \in DOMAIN rs |->
            Message("requestOverride", Nonce(i), given[rs[i]].url, given[rs[i]].verb, NoOverrides)])
    /\ sentTo' = [r \in Requests |-> IF r \in ToSet(rs) THEN frames ELSE sentTo[r]]

QueryKernel(r, given) ==
    IF status = "none"
    THEN blocked' = Append(blocked, r) /\ UNCHANGED <<queriesNonce, queries, down, sentTo>>
    ELSE Sends(<<r>>, given) /\ UNCHANGED blocked

\* onBeforeRequestListener: for the favicon and the page for logging in the kernel
\* is asked, and what the server sends is swallowed.
OnBeforeRequest(r, url, verb) ==
    /\ requests[r].phase = "new"
    /\ requests' = [requests EXCEPT ![r].url = url, ![r].verb = verb, ![r].phase = "asked"]
    /\ IF url \in Overridden
       THEN QueryKernel(r, requests')
       ELSE UNCHANGED <<blocked, queriesNonce, queries, down, sentTo>>
    /\ UNCHANGED <<hooks, status, frameVars, up>>

\* The page of the kernel comes through one of five servers, the first that answers.
HandleProxyRequest(url) ==
    IF url = "elsewhere"
    THEN <<"direct">>
    ELSE <<"localhost", "skynetpro.net", "skynetfree.net", "siasky.net", "web3portal.com">>

ContentType(url) ==
    CASE url \in {"/", "/auth.html"} -> "text/html"
      [] url = "/favicon.ico"        -> "image/png"
      [] OTHER                       -> "as served"

\* filter.write and filter.close, when the server has ended and the kernel has
\* answered.
Closing(req) ==
    IF req.phase = "stopped" /\ req.result # NoBody
    THEN [req EXCEPT !.phase = "closed", !.written = Append(@, req.result)]
    ELSE req

\* Mutant: an answer of the kernel that was there first is not looked at.
OnHeadersReceivedDeaf(r) ==
    LET req == [requests[r] EXCEPT !.type = ContentType(requests[r].url)]
    IN  /\ req.phase = "asked"
        /\ requests' = [requests EXCEPT ![r] =
                [req EXCEPT !.phase = IF req.url \in Overridden THEN "stopped" ELSE "closed"]]
        /\ UNCHANGED <<hooks, sentTo, backVars, frameVars, down, up>>

\* The server's answer: its headers are replaced, then filter.onstop.  The filter of
\* the kernel's own page closes at once; where there is none the browser goes on.
OnHeadersReceived(r) ==
    LET req == [requests[r] EXCEPT !.type = ContentType(requests[r].url)]
    IN  /\ req.phase = "asked"
        /\ \E proxy \in ToSet(HandleProxyRequest(req.url)) : proxy \notin DownProxies
        /\ requests' = [requests EXCEPT ![r] =
                IF req.url \in Overridden THEN Closing([req EXCEPT !.phase = "stopped"])
                ELSE [req EXCEPT !.phase = "closed"]]
        /\ UNCHANGED <<hooks, sentTo, backVars, frameVars, down, up>>

TakeUp(method) == up # <<>> /\ Head(up).method = method /\ up' = Tail(up)

\* The first status lets go what was blocked.  A logout disconnects the ports of
\* the pages, which reload: nobody waits for their queries.
HandleAuthStatus ==
    /\ TakeUp("kernelAuthStatus")
    /\ status' = Head(up).loaded
    /\ blocked' = <<>>
    /\ Sends(blocked, requests)
    /\ hooks' = [g \in Hooks |->
            IF Head(up).loaded = "logged out" /\ hooks[g].phase = "pending"
            THEN Failed ELSE hooks[g]]
    /\ UNCHANGED <<requests, frameVars>>

\* The answer to a request resolves its promise; the answer to a page is the end
\* of initQuery.
HandleResponse ==
    LET m == Head(up)
        owner == queries[m.nonce]
    IN  /\ TakeUp("response")
        /\ queries' = [n \in DOMAIN queries \ {m.nonce} |-> queries[n]]
        /\ requests' = IF m.nonce \in DOMAIN queries /\ owner \in Requests
                       THEN [requests EXCEPT ![owner] = Closing([@ EXCEPT !.result = m.body])]
                       ELSE requests
        /\ hooks' = IF m.nonce \in DOMAIN queries /\ owner \in Hooks /\ hooks[owner].phase = "pending"
                    THEN [hooks EXCEPT ![owner] =
                            IF m.err = "none" THEN [@ EXCEPT !.phase = "done", !.body = m.body] ELSE Failed]
                    ELSE hooks
        /\ UNCHANGED <<status, blocked, queriesNonce, sentTo, frameVars, down>>

----------------------------------------------------------------------------
(* Pages: useKernelQuery and the dashboard.                                 *)

\* A page whose kernelLoaded is resolved asks.
InitQuery(g, method, list) ==
    /\ status = "success"
    /\ hooks[g].phase = "idle"
    /\ hooks' = [hooks EXCEPT ![g].phase = "pending", ![g].method = method]
    /\ queries' = Adding([n \in {g} |-> g])
    /\ Post(<<Message(method, g, "elsewhere", "GET", list)>>)
    /\ UNCHANGED <<browserVars, status, blocked, queriesNonce, frameVars, up>>

\* The dashboard gets the overrides when it is mounted and sets them from its form;
\* other pages ask anything.
PageAsks(g, method, list) ==
    /\ method = "setModuleOverrides" <=> list # NoOverrides
    /\ InitQuery(g, method, list)

----------------------------------------------------------------------------
(* The frame.                                                              *)

FrameStarts ==
    /\ frame = "absent"
    /\ frames < MaxFrames
    /\ frame' = "bootloader"
    /\ frames' = frames + 1
    /\ up' = Append(up, Status("not yet"))
    /\ UNCHANGED <<browserVars, hooks, backVars, leaving, assets, held, overrides, down>>

\* A kernel that cannot be loaded leaves the bootloader as it is.
KernelLoads ==
    /\ frame = "bootloader"
    /\ frame' = "kernel"
    /\ up' = Append(up, Status(IF leaving THEN "logged out" ELSE "success"))
    /\ UNCHANGED <<browserVars, hooks, backVars, frames, leaving, assets, held, overrides, down>>

LogOut ==
    /\ frame # "absent" /\ ~leaving
    /\ frames < MaxFrames
    /\ leaving' = TRUE
    /\ up' = Append(up, Status("logged out"))
    /\ UNCHANGED <<browserVars, hooks, backVars, frame, frames, assets, held, overrides, down>>

\* The document goes with its promises and with what it was sent.
Unload ==
    /\ leaving
    /\ frame' = "absent"
    /\ leaving' = FALSE
    /\ assets' = [u \in Overridden |-> "loading"]
    /\ held' = [u \in Overridden |-> <<>>]
    /\ overrides' = NoOverrides
    /\ down' = <<>>
    /\ UNCHANGED <<browserVars, hooks, backVars, frames, up>>

\* Every message is posted by the background script.
Origin == "moz-extension"

ExtensionDash == "http://kernel.skynet/dashboard.html"

SktDash == "https://skt.us/dashboard.html"

\* The frame of the extension is at kernel.skynet.
IsExtension == TRUE

\* An origin has no path, so this is false of every caller.
CallerIsDashboard(origin) == origin = ExtensionDash \/ (~IsExtension /\ origin = SktDash)

Asset(m) == Response(m.nonce, "none", m.url)

\* handleSkynetKernelRequestOverride: only a GET is answered.
RequestOverride(m) ==
    IF m.verb # "GET" \/ Origin # "moz-extension"
    THEN UNCHANGED <<held, up>>
    ELSE IF m.url \notin Overridden
         THEN up' = Append(up, Response(m.nonce, "none", NoBody)) /\ UNCHANGED held
    ELSE IF assets[m.url] = "loaded"
         THEN up' = Append(up, Asset(m)) /\ UNCHANGED held
         ELSE held' = [held EXCEPT ![m.url] = Append(@, m)] /\ UNCHANGED up

\* The promise resolves and everything that waited for it is answered.
AssetLoads(url) ==
    /\ frame # "absent"
    /\ assets[url] = "loading"
    /\ assets' = [assets EXCEPT ![url] = "loaded"]
    /\ up' = up \o [i \in DOMAIN held[url] |-> Asset(held[url][i])]
    /\ held' = [held EXCEPT ![url] = <<>>]
    /\ UNCHANGED <<browserVars, hooks, backVars, frame, frames, leaving, overrides, down>>

\* A rejected fetch is not caught by the try around it.
AssetFails(url) ==
    /\ frame # "absent"
    /\ assets[url] = "loading"
    /\ assets' = [assets EXCEPT ![url] = "failed"]
    /\ UNCHANGED <<browserVars, hooks, backVars, frame, frames, leaving, held, overrides, down, up>>

\* The key and the override are skylinks, the notes have at most 140 characters.
LegalOverride(entry) == entry.key /\ entry.override /\ entry.notes <= 140

\* Everything that makes handleSkynetKernelSetModuleOverrides return early.
OverridesErr(m) ==
    IF ~CallerIsDashboard(Origin) THEN "not allowed"
    ELSE IF \E entry \in Entries[m.list] : ~LegalOverride(entry) THEN "malformed"
    ELSE "none"

GetModuleOverrides(m) ==
    IF CallerIsDashboard(Origin)
    THEN Response(m.nonce, "none", overrides) ELSE Response(m.nonce, "not allowed", NoBody)

Answer(m) ==
    CASE m.method = "version"            -> Response(m.nonce, "none", "version")
      [] m.method = "checkErrs"          -> Response(m.nonce, "none", "errs")
      [] m.method = "getModuleOverrides" -> GetModuleOverrides(m)
      [] m.method = "setModuleOverrides" -> Response(m.nonce, OverridesErr(m), "success")
      [] OTHER                           -> Response(m.nonce, "unrecognized", NoBody)

\* The bootloader tells a page to log in; the kernel answers.  Both hand a request
\* for an override to the bootloader's handler.
FrameTakes ==
    LET m == Head(down)
    IN  /\ frame # "absent"
        /\ down # <<>>
        /\ down' = Tail(down)
        /\ IF m.method = "requestOverride"
           THEN RequestOverride(m)
           ELSE /\ up' = Append(up, IF frame = "kernel" THEN Answer(m)
                                    ELSE Response(m.nonce, "log in", NoBody))
                /\ UNCHANGED held
        /\ overrides' = IF frame = "kernel" /\ m.method = "setModuleOverrides" /\ OverridesErr(m) = "none"
                        THEN m.list ELSE overrides
        /\ UNCHANGED <<browserVars, hooks, backVars, frame, frames, leaving, assets>>

----------------------------------------------------------------------------

Next ==
    \/ \E a \in Asks : OnBeforeRequest(a[1], a[2], a[3])
    \/ \E r \in Requests : OnHeadersReceived(r)
    \/ HandleAuthStatus \/ HandleResponse
    \/ \E g \in Hooks, method \in Methods, list \in Lists \cup {NoOverrides} : PageAsks(g, method, list)
    \/ FrameStarts \/ KernelLoads \/ LogOut \/ Unload \/ FrameTakes
    \/ \E url \in Overridden : AssetLoads(url) \/ AssetFails(url)

Spec == Init /\ [][Next]_vars

----------------------------------------------------------------------------
(* Properties.                                                             *)

NonceOf(r) == {n \in DOMAIN queries : queries[n] = r}

\* What the browser shows for a file of kernel.skynet is that file, with the type
\* of that file, written once and closed, though the nonces of the requests and of
\* the pages share a map; a request that waits is waited for under one nonce, or
\* none while it is blocked; a page sees the answer to its own question, and no
\* page reads or replaces the module overrides.
AnswersMatch ==
    /\ \A r \in Requests : requests[r].written # <<>> =>
        requests[r].written = <<requests[r].url>> /\ requests[r].type = ContentType(requests[r].url)
    /\ \A r \in Requests : sentTo[r] # 0 /\ requests[r].result = NoBody =>
        Cardinality(NonceOf(r)) = 1 /\ NonceOf(r) \subseteq 0 .. queriesNonce - 1
    /\ \A g \in Hooks : hooks[g].phase = "done" =>
        \/ hooks[g].method = "version" /\ hooks[g].body = "version"
        \/ hooks[g].method = "checkErrs" /\ hooks[g].body = "errs"
    /\ overrides = NoOverrides

\* Messages, fetches and servers do not take forever; that a user logs out or
\* opens a page is not assumed.
FairSpec ==
    /\ Spec
    /\ WF_vars(HandleAuthStatus) /\ WF_vars(HandleResponse)
    /\ WF_vars(FrameStarts) /\ WF_vars(FrameTakes) /\ WF_vars(Unload)
    /\ \A url \in Overridden : WF_vars(AssetLoads(url) \/ AssetFails(url))
    /\ \A r \in Requests : WF_vars(OnHeadersReceived(r))

Asked(r) == requests[r].phase # "new"

\* A request for an overridden file that is no GET: the frame does not answer it.
Unheard(r) == requests[r].url \in Overridden /\ requests[r].verb # "GET"

\* The document that a request was posted to has gone, or could not get the file.
Forsaken(r) ==
    /\ sentTo[r] # 0
    /\ \/ sentTo[r] # frames \/ frame = "absent" \/ leaving
       \/ assets[requests[r].url] = "failed"

\* A request of the browser ends, also one made before there was a bootloader and
\* one that waits for a file, unless the frame is reloaded under it, the fetch of
\* the file fails, or it asks for the file with another verb than GET; and no page
\* waits forever for the frame.
RequestsServed ==
    /\ \A r \in Requests : Asked(r) ~> requests[r].phase = "closed" \/ Forsaken(r) \/ Unheard(r)
    /\ \A g \in Hooks : hooks[g].phase = "pending" ~> hooks[g].phase # "pending"

\* requestOverride is used "to vet all requests intercepted by onBeforeRequest and
\* determine whether the data should be replaced" (README.md:429-431); a request
\* for one of the two files that is no GET gets no verdict and its filter stays
\* open: every request of the browser ends.
EveryVerbServed ==
    \A r \in Requests : Asked(r) ~> requests[r].phase = "closed" \/ Forsaken(r)

\* callerIsDashboard "checks that the caller of a method is the secure dashboard of
\* the kernel" (index.ts:38-39): there is an origin that it is true of.
DashboardAllowed ==
    \E origin \in {"http://kernel.skynet", "https://skt.us", Origin} : CallerIsDashboard(origin)
=============================================================================
