--------------------------- MODULE ExtensionAuth ---------------------------
(***************************************************************************)
(* How a page learns the auth status: the bootloader reports to the         *)
(* background script (extension/src/background.ts), which keeps the last    *)
(* status and sends it over the port of each page to the bridge (bridge.ts, *)
(* a content script), which passes it on to the page, where libkernel       *)
(* (libs/libkernel/src/queries.ts) goes through the stages of auth.ts.      *)
(*                                                                         *)
(* A page connects, asks for the bridge, gives up on it after a timeout and *)
(* falls back to a kernel in an iframe of skt.us, and reloads on a logout,  *)
(* in any order with the bootloader's reloads.                              *)
(***************************************************************************)
EXTENDS Bootloader

CONSTANT Pages

VARIABLES
    authStatus,     \* background: the last status, once authStatusKnown
    port,           \* per page: none, open, or closed by the background
    toBridge,       \* per page: statuses on the port
    bridgeStatus,   \* bridge: the last status, once authStatusKnown
    question,       \* per page: libkernel's question for the bridge: none,
                    \* asked, or owed the status that is not known yet
    toPage,         \* per page: messages to its window
    page            \* libkernel

backVars == <<authStatus, port, toBridge>>
bridgeVars == <<bridgeStatus, question>>
vars == <<bootVars, backVars, bridgeVars, toPage, page>>

----------------------------------------------------------------------------

Unknown == [login |-> FALSE, loaded |-> "unknown", logout |-> FALSE, user |-> NoSeed]

BridgeResponse == [login |-> FALSE, loaded |-> "bridge version", logout |-> FALSE, user |-> NoSeed]

\* Stages of auth.ts: initResolved, loginResolved, kernelLoadedResolved, and the
\* source of the kernel.  user names the session of the login.
FreshPage == [called |-> FALSE, source |-> "unknown", init |-> FALSE, login |-> FALSE,
              loaded |-> "not yet", user |-> NoSeed, frameLoaded |-> FALSE]

Init ==
    /\ BootInit
    /\ authStatus = Unknown
    /\ port = [p \in Pages |-> "none"]
    /\ toBridge = [p \in Pages |-> <<>>]
    /\ bridgeStatus = [p \in Pages |-> Unknown]
    /\ question = [p \in Pages |-> "none"]
    /\ toPage = [p \in Pages |-> <<>>]
    /\ page = [p \in Pages |-> FreshPage]

Known(status) == status # Unknown

----------------------------------------------------------------------------
(* background.ts                                                           *)

OpenPorts == {p \in Pages : port[p] = "open"}

Broadcast(status) ==
    toBridge' = [p \in Pages |-> IF p \in OpenPorts
                                 THEN Append(toBridge[p], status) ELSE toBridge[p]]

\* The kernelAuthStatus case of handleKernelMessage.  The first one also runs
\* the listeners that blocked for the bootloader: they post the status again.
HandleAuthStatus ==
    LET status == Head(statuses)
    IN  /\ statuses # <<>>
        /\ statuses' = Tail(statuses)
        /\ authStatus' = status
        /\ IF Known(authStatus)
           THEN Broadcast(status)
           ELSE toBridge' = [p \in Pages |-> IF p \in OpenPorts
                                             THEN toBridge[p] \o <<status, status>>
                                             ELSE toBridge[p]]
        /\ port' = [p \in Pages |-> IF p \in OpenPorts /\ status.logout THEN "closed" ELSE port[p]]
        /\ UNCHANGED <<storageVars, events, frame, authVars, fetching, bridgeVars, toPage, page>>

\* Mutant: a new port is not told the status.
GreetNot(p) == UNCHANGED toBridge

\* Mutant: the port does not block for the bootloader.
GreetEarly(p) == toBridge' = [toBridge EXCEPT ![p] = Append(@, authStatus)]

\* A status that is known is posted to a new port.
Greet(p) ==
    toBridge' = IF Known(authStatus) THEN [toBridge EXCEPT ![p] = Append(@, authStatus)] ELSE toBridge

\* The bridge of a page connects: bridgeListener.
Connect(p) ==
    /\ port[p] = "none"
    /\ port' = [port EXCEPT ![p] = "open"]
    /\ Greet(p)
    /\ UNCHANGED <<bootVars, authStatus, bridgeVars, toPage, page>>

----------------------------------------------------------------------------
(* bridge.ts                                                               *)

\* handleBackgroundMessage.  The first status also settles what handleVersion
\* owes; without libkernel's listener the window drops what it is posted.
BridgePasses(p) ==
    LET status == Head(toBridge[p])
    IN  /\ toBridge[p] # <<>>
        /\ toBridge' = [toBridge EXCEPT ![p] = Tail(@)]
        /\ bridgeStatus' = [bridgeStatus EXCEPT ![p] = status]
        /\ question' = [question EXCEPT ![p] = IF @ = "owed" THEN "none" ELSE @]
        /\ toPage' = IF ~page[p].called
                     THEN toPage
                     ELSE [toPage EXCEPT ![p] =
                              @ \o (IF question[p] = "owed" THEN <<status, status>> ELSE <<status>>)]
        /\ UNCHANGED <<bootVars, authStatus, port, page>>

\* handleVersion: the response at once, and the status once it is known.
AnswerVersion(p) ==
    /\ question[p] = "asked"
    /\ IF Known(bridgeStatus[p])
       THEN /\ question' = [question EXCEPT ![p] = "none"]
            /\ toPage' = [toPage EXCEPT ![p] = @ \o <<BridgeResponse, bridgeStatus[p]>>]
       ELSE /\ question' = [question EXCEPT ![p] = "owed"]
            /\ toPage' = [toPage EXCEPT ![p] = Append(@, BridgeResponse)]
    /\ UNCHANGED <<bootVars, backVars, bridgeStatus, page>>

----------------------------------------------------------------------------
(* libkernel                                                               *)

\* init and messageBridge: a bridge that has not connected yet does not hear
\* the question.
CallInit(p) ==
    /\ ~page[p].called
    /\ page' = [page EXCEPT ![p].called = TRUE]
    /\ question' = IF port[p] = "none" THEN question ELSE [question EXCEPT ![p] = "asked"]
    /\ UNCHANGED <<bootVars, backVars, bridgeStatus, toPage>>

\* The frame becomes the page's source before it has loaded anything.
LaunchKernelFrame(pg) == [pg EXCEPT !.source = "skt.us"]

\* The 500 ms timer of messageBridge: a page without a bridge uses the frame.
Timeout(p) ==
    /\ page[p].called
    /\ page[p].source = "unknown"
    /\ page' = [page EXCEPT ![p] = LaunchKernelFrame(@)]
    /\ UNCHANGED <<bootVars, backVars, bridgeVars, toPage>>

\* The frame of skt.us does not report in time.
FrameTimeout(p) ==
    /\ page[p].source = "skt.us"
    /\ ~page[p].init
    /\ page' = [page EXCEPT ![p].init = TRUE]
    /\ UNCHANGED <<bootVars, backVars, bridgeVars, toPage>>

\* window.location.reload: a new document, a new bridge and later a new port.
Reload(p) ==
    /\ page' = [page EXCEPT ![p] = FreshPage]
    /\ port' = [port EXCEPT ![p] = "none"]
    /\ toBridge' = [toBridge EXCEPT ![p] = <<>>]
    /\ bridgeStatus' = [bridgeStatus EXCEPT ![p] = Unknown]
    /\ question' = [question EXCEPT ![p] = "none"]
    /\ toPage' = [toPage EXCEPT ![p] = <<>>]

\* The kernelAuthStatus case of handleMessage, whoever the status is from.
Advance(pg, status) ==
    [pg EXCEPT !.init = TRUE,
               !.login = @ \/ status.login,
               !.user = IF ~pg.login /\ status.login THEN status.user ELSE @,
               !.loaded = IF @ = "not yet" THEN status.loaded ELSE @]

\* Mutant: kernelLoaded resolves with the first status of a session.
HandleStatusEarly(p, status) ==
    /\ page' = [page EXCEPT ![p] = [Advance(@, status) EXCEPT !.loaded = "success"]]
    /\ toPage' = [toPage EXCEPT ![p] = Tail(@)]
    /\ UNCHANGED <<port, toBridge, bridgeVars>>

\* A logout resolves the stages as Advance does, and logoutComplete, and calls
\* reload; the document lives until it is unloaded, and may handle messages until
\* then.  Here the reload is one step: what a page that is told to reload still sees
\* is left out.
HandleStatus(p, status) ==
    IF status.logout
    THEN Reload(p)
    ELSE /\ page' = [page EXCEPT ![p] = Advance(@, status)]
         /\ toPage' = [toPage EXCEPT ![p] = Tail(@)]
         /\ UNCHANGED <<port, toBridge, bridgeVars>>

\* A response that comes after the timeout is logged and dropped.
HandleMessage(p) ==
    LET m == Head(toPage[p])
    IN  /\ toPage[p] # <<>>
        /\ IF m = BridgeResponse
           THEN /\ page' = [page EXCEPT ![p].source = IF @ = "unknown" THEN "extension" ELSE @]
                /\ toPage' = [toPage EXCEPT ![p] = Tail(@)]
                /\ UNCHANGED <<port, toBridge, bridgeVars>>
           ELSE HandleStatus(p, m)
        /\ UNCHANGED <<bootVars, authStatus>>

\* The bootloader in the frame of skt.us reports: it has a storage of its own,
\* where the user may be logged in or not.
FrameStatus(p, status) ==
    /\ page[p].source = "skt.us"
    /\ page' = [page EXCEPT ![p] = [Advance(page[p], status) EXCEPT
                                       !.frameLoaded = @ \/ status.loaded = "success"]]
    /\ UNCHANGED <<bootVars, backVars, bridgeVars, toPage>>

FrameStatuses ==
    {[login |-> FALSE, loaded |-> "not yet", logout |-> FALSE, user |-> NoSeed],
     [login |-> TRUE, loaded |-> "success", logout |-> FALSE, user |-> NoSeed]}

----------------------------------------------------------------------------

Elsewhere == UNCHANGED <<backVars, bridgeVars, toPage, page>>

PageStep ==
    \E p \in Pages :
        \/ Connect(p)
        \/ BridgePasses(p)
        \/ AnswerVersion(p)
        \/ CallInit(p)
        \/ Timeout(p)
        \/ FrameTimeout(p)
        \/ HandleMessage(p)
        \/ \E status \in FrameStatuses : FrameStatus(p, status)

Next ==
    \/ AuthPage /\ Elsewhere
    \/ Start /\ Elsewhere
    \/ HandleStorage /\ Elsewhere
    \/ \E loaded \in {"success", "failed"} : KernelLoads(loaded) /\ Elsewhere
    \/ Unload /\ Elsewhere
    \/ HandleAuthStatus
    \/ PageStep

Spec == Init /\ [][Next]_vars
----------------------------------------------------------------------------

Contains(s, P(_)) == \E i \in DOMAIN s : P(s[i])

IsLogout(status) == status.logout

Page == [called : BOOLEAN, source : {"unknown", "extension", "skt.us"}, init : BOOLEAN,
         login : BOOLEAN, loaded : {"not yet", "success", "failed"},
         user : Users \cup {NoSeed}, frameLoaded : BOOLEAN]

TypeOK ==
    /\ BootTypeOK
    /\ authStatus \in Status \cup {Unknown}
    /\ port \in [Pages -> {"none", "open", "closed"}]
    /\ toBridge \in [Pages -> Seq(Status)]
    /\ bridgeStatus \in [Pages -> Status \cup {Unknown}]
    /\ question \in [Pages -> {"none", "asked", "owed"}]
    /\ toPage \in [Pages -> Seq(Status \cup {BridgeResponse})]
    /\ page \in [Pages -> Page]

\* auth.ts: "kernelLoaded will not resolve until after loginComplete has
\* resolved", and a logout is reported only to be the end of a login, through
\* every relay, repeat and reload.
StageOrder ==
    \A p \in Pages :
        /\ page[p].loaded # "not yet" => page[p].login
        /\ \A i \in DOMAIN toPage[p] : toPage[p][i].logout => toPage[p][i].login

LogoutComing(p) ==
    \/ Contains(toPage[p], IsLogout)
    \/ Contains(toBridge[p], IsLogout)
    \/ port[p] = "open" /\ Contains(statuses, IsLogout)

\* "We want to ensure that no settings or private data leaks between different
\* user account logins": a page that was told of the login of a user is used
\* with the kernel of that user, or a logout is on its way to it.
PageInSession ==
    \A p \in Pages :
        page[p].login /\ page[p].source # "skt.us" =>
            \/ LogoutComing(p)
            \/ loginComplete /\ userSeed = page[p].user

\* libkernel: "If the auth status message says that the kernel loaded, it means
\* that the kernel is ready to receive messages" - the kernel a page sends to.
KernelReady ==
    \A p \in Pages :
        page[p].loaded = "success" /\ page[p].source = "skt.us" => page[p].frameLoaded

\* bootloader.ts: "The auth state has five stages".
FiveStages ==
    \A i \in DOMAIN statuses : statuses[i].logout => statuses[i].loaded = "success"

----------------------------------------------------------------------------
(* Fairness: event loops go on, downloads end, a reload unloads, timers     *)
(* fire.  The auth page, the user and the server of skt.us owe nothing.     *)

FairSpec ==
    /\ Spec
    /\ WF_vars(Boot /\ Elsewhere)
    /\ WF_vars(HandleAuthStatus)
    /\ \A p \in Pages :
           /\ WF_vars(Connect(p))
           /\ WF_vars(BridgePasses(p))
           /\ WF_vars(AnswerVersion(p))
           /\ WF_vars(CallInit(p))
           /\ WF_vars(Timeout(p))
           /\ WF_vars(FrameTimeout(p))
           /\ WF_vars(HandleMessage(p))

Settled(p) ==
    /\ page[p].init
    /\ page[p].source # "unknown"
    /\ page[p].source = "extension" =>
           /\ page[p].login <=> seed \in Users
           /\ page[p].login => page[p].user = seed /\ page[p].loaded # "not yet"

\* Once the user stops logging in and out, every page ends up initialised, and
\* one that uses the extension agrees with localStorage: no status is lost to
\* a late connection, a closed port or a reload, and the reloads end.
PagesSettle == <>[](\A p \in Pages : Settled(p))
=============================================================================
