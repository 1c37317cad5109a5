--------------------------- MODULE KernelQueries ---------------------------
(***************************************************************************)
(* The query router of the kernel (kernel/src/queries.ts, kernel/src/err.ts *)
(* and the dispatch of kernel/src/index.ts).  Pages and module workers call *)
(* modules; the kernel downloads a module once, launches its worker, gives  *)
(* every query a kernel nonce and relays updates and responses.             *)
(*                                                                         *)
(* The kernel is one JavaScript event loop: an action below is one handler  *)
(* run to completion.  postMessage is asynchronous and FIFO, and nothing a  *)
(* receiver does here depends on a message it has not been sent, so a       *)
(* message in flight is a receiver that has not reacted yet: no channel is  *)
(* kept.  What is kept is what the kernel has posted.                       *)
(***************************************************************************)
EXTENDS Naturals, Sequences, FiniteSets

CONSTANTS
    CallNonces,     \* nonces the callers pick; a caller never reuses one
    Pages,          \* sources of moduleCalls that are not workers
    Domains,        \* module domains
    Persistent,     \* DEFAULT_PERSISTENT_MODULES
    Shapes,         \* the shapes of response the workers send
    MaxReplies      \* bound: replies to one call after which no update is sent

ASSUME KernelQueriesAssumption ==
    /\ Persistent \subseteq Domains
    /\ Shapes \subseteq {"wellFormed", "malformed", "noData"}
    /\ MaxReplies \in Nat

VARIABLES
    calls,          \* the moduleCall messages handled so far
    queriesNonce,   \* counter the kernel nonces are derived from
    queries,        \* the open queries
    modules,        \* domains whose code is loaded
    modWorker,      \* Module.worker of the persistent modules
    modulesLoading, \* per domain: the loader's call, then those awaiting it
    settled,        \* microtasks of the load promise that was last resolved
    notableErrors,  \* number of load races the kernel noticed
    nextWorker,     \* number of workers launched
    live,           \* workers not terminated
    posted,         \* per call: methods the kernel has posted to its caller
    given,          \* the queries the kernel has posted to workers
    updated,        \* queryUpdates relayed to workers
    hung,           \* domains whose download will never return
    broken          \* nonces of the queries whose worker was terminated unanswered

vars == <<calls, queriesNonce, queries, modules, modWorker, modulesLoading, settled,
          notableErrors, nextWorker, live, posted, given, updated, hung, broken>>

----------------------------------------------------------------------------

Worker == [id : Nat, module : Domains]

NoWorker == [id |-> 0, module |-> "none"]

Source == Pages \cup Worker

Call == [nonce : CallNonces, source : Source, module : Domains, sendKernelNonce : BOOLEAN]

OpenQuery == [nonce : Nat, dest : Worker, call : Call]

Method == {"responseNonce", "responseUpdate", "response"}

Used == {c.nonce : c \in calls}

Alive(s) == s \in Pages \/ s \in live

\* A message to a terminated worker is lost.
Posted(c, m) ==
    IF Alive(c.source) THEN [posted EXCEPT ![c.nonce] = Append(@, m)] ELSE posted

----------------------------------------------------------------------------

Init ==
    /\ calls = {}
    /\ queriesNonce = 0
    /\ queries = {}
    /\ modules = {}
    /\ modWorker = [d \in Domains |-> NoWorker]
    /\ modulesLoading = [d \in Domains |-> <<>>]
    /\ settled = [waiters |-> <<>>, loaded |-> TRUE]
    /\ notableErrors = 0
    /\ nextWorker = 0
    /\ live = {}
    /\ posted = [n \in CallNonces |-> <<>>]
    /\ given = {}
    /\ updated = {}
    /\ hung = {}
    /\ broken = {}

\* No task runs while the microtasks of a resolved promise are pending.
NoMicrotask == settled.waiters = <<>>

RespondErr(c) ==
    /\ posted' = Posted(c, "response")
    /\ UNCHANGED <<queriesNonce, queries, nextWorker, live, given>>

NewWorker(d) == [id |-> nextWorker + 1, module |-> d]

LaunchWorker(d) ==
    /\ nextWorker' = nextWorker + 1
    /\ live' = live \cup {NewWorker(d)}

\* Mutant: the counter of the kernel nonces is not advanced.
PostQuerySameNonce(c, w) ==
    LET q == [nonce |-> queriesNonce, dest |-> w, call |-> c]
    IN  /\ UNCHANGED queriesNonce
        /\ queries' = queries \cup {q}
        /\ given' = given \cup {q}
        /\ posted' = IF c.sendKernelNonce THEN Posted(c, "responseNonce") ELSE posted

\* The tail of newModuleQuery: register the query, post it to w and, when the
\* caller asked for it, tell the caller the kernel nonce.
PostQuery(c, w) ==
    LET q == [nonce |-> queriesNonce, dest |-> w, call |-> c]
    IN  /\ queriesNonce' = queriesNonce + 1
        /\ queries' = queries \cup {q}
        /\ given' = given \cup {q}
        /\ posted' = IF c.sendKernelNonce THEN Posted(c, "responseNonce") ELSE posted

\* Mutant: isPersistent is not consulted.
NewModuleQueryReuse(c) ==
    /\ PostQuery(c, modWorker[c.module])
    /\ UNCHANGED <<nextWorker, live>>

\* The worker of a persistent module is reused; any other module gets a new
\* worker per query, and the browser may fail to create it.
NewModuleQuery(c) ==
    \/ /\ c.module \in Persistent
       /\ PostQuery(c, modWorker[c.module])
       /\ UNCHANGED <<nextWorker, live>>
    \/ /\ c.module \notin Persistent
       /\ LaunchWorker(c.module)
       /\ PostQuery(c, NewWorker(c.module))
    \/ /\ c.module \notin Persistent
       /\ RespondErr(c)

----------------------------------------------------------------------------
(* handleModuleCall, for a page or for a live worker.                      *)

NewCall(c) ==
    /\ NoMicrotask
    /\ c.nonce \notin Used
    /\ Alive(c.source)
    /\ calls' = calls \cup {c}

\* Refused: a field is missing or malformed, or the method is presentSeed.
ModuleCallRefused(c) ==
    /\ NewCall(c)
    /\ RespondErr(c)
    /\ UNCHANGED <<modules, modWorker, modulesLoading, settled, notableErrors, updated, hung, broken>>

ModuleCallLoaded(c) ==
    /\ NewCall(c)
    /\ c.module \in modules
    /\ NewModuleQuery(c)
    /\ UNCHANGED <<modules, modWorker, modulesLoading, settled, notableErrors, updated, hung, broken>>

\* Mutant: only modulesLoading is looked up.
ModuleCallDownload(c) ==
    /\ NewCall(c)
    /\ modulesLoading' = [modulesLoading EXCEPT ![c.module] = Append(@, c)]
    /\ UNCHANGED <<queriesNonce, queries, modules, modWorker, settled, notableErrors,
                   nextWorker, live, posted, given, updated, hung, broken>>

\* The module is not loaded: await the download in progress or start one.
ModuleCallMustLoad(c) ==
    /\ NewCall(c)
    /\ c.module \notin modules
    /\ modulesLoading' = [modulesLoading EXCEPT ![c.module] = Append(@, c)]
    /\ UNCHANGED <<queriesNonce, queries, modules, modWorker, settled, notableErrors,
                   nextWorker, live, posted, given, updated, hung, broken>>

----------------------------------------------------------------------------
(* The loader: what follows the await on downloadSkylink.                  *)

Loading(d) == NoMicrotask /\ modulesLoading[d] # <<>> /\ d \notin hung

Loader(d) == Head(modulesLoading[d])

\* Mutant: the promise is never resolved.
ResolveNot(d, ok) == UNCHANGED settled

Resolve(d, ok) == settled' = [waiters |-> Tail(modulesLoading[d]), loaded |-> ok]

StopLoading(d) == modulesLoading' = [modulesLoading EXCEPT ![d] = <<>>]

\* Mutant: the call that started the download is not answered.
LoadFailsSilently(d) ==
    /\ Resolve(d, FALSE)
    /\ StopLoading(d)
    /\ UNCHANGED <<calls, queriesNonce, queries, modules, modWorker, notableErrors,
                   nextWorker, live, posted, given, updated, hung, broken>>

\* The download fails, or the worker of a persistent module cannot be created.
LoadFails(d) ==
    /\ RespondErr(Loader(d))
    /\ Resolve(d, FALSE)
    /\ StopLoading(d)
    /\ UNCHANGED <<calls, modules, modWorker, notableErrors, updated, hung, broken>>

DownloadFails(d) == Loading(d) /\ LoadFails(d)

\* downloadSkylink rejects, or never settles.  The name of a module is only
\* checked for its length: atob throws on one that is no base64, and the await
\* throws in the async executor.  A proof the verification throws on leaves the
\* download waiting.  The promise in modulesLoading never resolves.
DownloadThrows(d) ==
    /\ Loading(d)
    /\ hung' = hung \cup {d}
    /\ UNCHANGED <<calls, queriesNonce, queries, modules, modWorker, modulesLoading, settled,
                   notableErrors, nextWorker, live, posted, given, updated, broken>>

CreateModuleFails(d) ==
    /\ Loading(d)
    /\ d \in Persistent \ modules
    /\ LoadFails(d)

\* The module turned up while it was being downloaded: the branch the code
\* holds to be impossible.  The entry of modulesLoading stays.
LoadRaced(d) ==
    /\ notableErrors' = notableErrors + 1
    /\ NewModuleQuery(Loader(d))
    /\ UNCHANGED <<modules, modWorker, modulesLoading>>

\* createModule launches the one worker of a persistent module.
InstallModule(d) ==
    /\ modules' = modules \cup {d}
    /\ IF d \in Persistent
       THEN /\ LaunchWorker(d)
            /\ modWorker' = [modWorker EXCEPT ![d] = NewWorker(d)]
            /\ PostQuery(Loader(d), NewWorker(d))
       ELSE /\ NewModuleQuery(Loader(d))
            /\ UNCHANGED modWorker
    /\ StopLoading(d)
    /\ UNCHANGED notableErrors

DownloadSucceeds(d) ==
    /\ Loading(d)
    /\ Resolve(d, TRUE)
    /\ IF d \in modules THEN LoadRaced(d) ELSE InstallModule(d)
    /\ UNCHANGED <<calls, updated, hung, broken>>

\* p.then of a call that awaited the load.
RunWaiter ==
    /\ ~NoMicrotask
    /\ LET c == Head(settled.waiters)
       IN  IF settled.loaded THEN NewModuleQuery(c) ELSE RespondErr(c)
    /\ settled' = [settled EXCEPT !.waiters = Tail(@)]
    /\ UNCHANGED <<calls, modules, modWorker, modulesLoading, notableErrors, updated, hung, broken>>

----------------------------------------------------------------------------
(* handleModuleResponse and handleQueryUpdate.  A worker answers queries it *)
(* was given, possibly late or more than once.                              *)

Open(n) == {q \in queries : q.nonce = n}

\* Mutant: the worker is terminated before the data field is looked for.
EndsWorkerUnread(g, shape) == Open(g.nonce) # {} /\ g.dest.module \notin Persistent

\* Any response with a data field to an open query ends a worker that is not
\* persistent.
EndsWorker(g, shape) ==
    shape # "noData" /\ Open(g.nonce) # {} /\ g.dest.module \notin Persistent

\* Mutant: the query is left in the map.
CloseQueryNot(n) == UNCHANGED queries

\* Mutant: a query is deleted only when its response can be delivered.
CloseQueryOfTheLiving(n) ==
    queries' = queries \ {q \in Open(n) : Alive(q.call.source)}

CloseQuery(n) == queries' = queries \ Open(n)

\* Mutant: a malformed response is dropped, but closes the query.
AnswerQueryLate(g, shape) ==
    IF Open(g.nonce) # {}
    THEN /\ CloseQuery(g.nonce)
         /\ \E q \in Open(g.nonce) :
                posted' = IF shape = "wellFormed" THEN Posted(q.call, "response") ELSE posted
    ELSE UNCHANGED <<queries, posted>>

\* Only a response where exactly one of err and data is null closes the query
\* and reaches the caller.
AnswerQuery(g, shape) ==
    IF shape = "wellFormed" /\ Open(g.nonce) # {}
    THEN /\ CloseQuery(g.nonce)
         /\ \E q \in Open(g.nonce) : posted' = Posted(q.call, "response")
    ELSE UNCHANGED <<queries, posted>>

WorkerResponse(g, shape) ==
    /\ NoMicrotask
    /\ g \in given
    /\ g.dest \in live
    /\ live' = IF EndsWorker(g, shape) THEN live \ {g.dest} ELSE live
    /\ AnswerQuery(g, shape)
    /\ broken' = IF EndsWorker(g, shape) /\ shape = "malformed"
                 THEN broken \cup {g.nonce}
                 ELSE broken
    /\ UNCHANGED <<calls, queriesNonce, modules, modWorker, modulesLoading, settled,
                   notableErrors, nextWorker, given, updated, hung>>

\* Mutant: the update is relayed without looking the query up.
RelayUpdateBlindly(g) == posted' = Posted(g.call, "responseUpdate")

RelayUpdate(g) ==
    IF Open(g.nonce) = {}
    THEN UNCHANGED posted
    ELSE \E q \in Open(g.nonce) : posted' = Posted(q.call, "responseUpdate")

WorkerResponseUpdate(g) ==
    /\ NoMicrotask
    /\ g \in given
    /\ g.dest \in live
    /\ Len(posted[g.call.nonce]) < MaxReplies
    /\ RelayUpdate(g)
    /\ UNCHANGED <<calls, queriesNonce, queries, modules, modWorker, modulesLoading, settled,
                   notableErrors, nextWorker, live, given, updated, hung, broken>>

\* A caller that was told the kernel nonce sends a queryUpdate, possibly late.
QueryUpdate(g) ==
    /\ NoMicrotask
    /\ g \in given
    /\ g.call.sendKernelNonce
    /\ Alive(g.call.source)
    /\ updated' = updated \cup {[nonce |-> q.nonce, dest |-> q.dest] : q \in Open(g.nonce)}
    /\ UNCHANGED <<calls, queriesNonce, queries, modules, modWorker, modulesLoading, settled,
                   notableErrors, nextWorker, live, posted, given, hung, broken>>

----------------------------------------------------------------------------

ModuleCall ==
    \E n \in CallNonces, s \in Pages \cup live, d \in Domains, k \in BOOLEAN :
        LET c == [nonce |-> n, source |-> s, module |-> d, sendKernelNonce |-> k]
        IN  \/ ModuleCallRefused(c)
            \/ ModuleCallLoaded(c)
            \/ ModuleCallMustLoad(c)

Load ==
    \E d \in Domains :
        \/ DownloadFails(d)
        \/ DownloadThrows(d)
        \/ CreateModuleFails(d)
        \/ DownloadSucceeds(d)

Relay ==
    \E g \in given :
        \/ \E shape \in Shapes : WorkerResponse(g, shape)
        \/ WorkerResponseUpdate(g)
        \/ QueryUpdate(g)

Next == ModuleCall \/ Load \/ RunWaiter \/ Relay

Spec == Init /\ [][Next]_vars
----------------------------------------------------------------------------
(* Where a call is.                                                        *)

Elements(s) == {s[i] : i \in DOMAIN s}

Opened(c) == \E q \in queries : q.call = c

Pending(c) ==
    \/ c \in Elements(modulesLoading[c.module])
    \/ c \in Elements(settled.waiters)
    \/ Opened(c)

Answered(c) == "response" \in Elements(posted[c.nonce])

TypeOK ==
    /\ calls \subseteq Call
    /\ queriesNonce \in Nat
    /\ queries \subseteq OpenQuery
    /\ modules \subseteq Domains
    /\ modWorker \in [Domains -> Worker \cup {NoWorker}]
    /\ modulesLoading \in [Domains -> Seq(Call)]
    /\ settled \in [waiters : Seq(Call), loaded : BOOLEAN]
    /\ notableErrors \in Nat
    /\ nextWorker \in Nat
    /\ live \subseteq Worker
    /\ posted \in [CallNonces -> Seq(Method)]
    /\ given \subseteq OpenQuery
    /\ updated \subseteq [nonce : Nat, dest : Worker]
    /\ hung \subseteq Domains
    /\ broken \subseteq Nat

\* Whatever the workers send, however late or often: what a caller receives
\* for one call is at most one kernel nonce, before anything else, then
\* updates, then at most one response, and nothing after it.
ReplyOrder ==
    \A n \in CallNonces : \A i \in DOMAIN posted[n] :
        /\ posted[n][i] = "response" => i = Len(posted[n])
        /\ posted[n][i] = "responseNonce" => i = 1

\* No call is lost and none is answered twice over: while its caller exists, a
\* call is answered exactly when it neither awaits a download, nor is queued
\* behind a resolved load, nor is an open query.
CallsAccounted ==
    \A c \in calls : Alive(c.source) => (Answered(c) <=> ~Pending(c))

\* queries.ts holds the load race to be impossible: modulesLoading keeps a
\* second download of a module from starting and is cleared only in the step
\* that sets modules.
NoLoadRace == notableErrors = 0

\* A worker and the queries it serves live and die together.  An open query has
\* a live worker of the module it calls, except in the one case that its worker,
\* not a persistent one, was terminated for a malformed response (no err field, or
\* err and data both null or both set), which leaves the query open.  Only
\* the worker of a persistent module serves several queries, and it is that module's
\* one worker and is never terminated; any other live worker has its open query.
WorkerLifetimes ==
    /\ \A q \in queries :
           /\ q.dest.module = q.call.module
           /\ q.dest \in live <=> q.nonce \notin broken
    /\ \A p, q \in queries : p.dest = q.dest => p = q \/ p.dest.module \in Persistent
    /\ \A d \in modules \cap Persistent : modWorker[d] \in live
    /\ \A w \in live :
           IF w.module \in Persistent
           THEN w.module \in modules /\ modWorker[w.module] = w
           ELSE \E q \in queries : q.dest = w

\* Updates travel both ways on one nonce.  A caller that asked for the kernel
\* nonce has it before the first update it may answer; the nonce names one query
\* for ever, so a queryUpdate, however late, is relayed to no worker but the
\* one that was given that query.
UpdatesRelayed ==
    /\ \A c \in calls :
           c.sendKernelNonce /\ "responseUpdate" \in Elements(posted[c.nonce])
               => posted[c.nonce][1] = "responseNonce"
    /\ \A g, h \in given : g.nonce = h.nonce => g = h
    /\ \A u \in updated : \E g \in given : g.nonce = u.nonce /\ g.dest = u.dest

\* "If the worker has sent a response, it means the query is over": a query in
\* the map has a worker that can still answer it.
OpenQueryServed == \A q \in queries : q.dest \in live

\* A query leaves the map only in the step that answers its caller.
ClosedByAnswer ==
    [][\A q \in queries \ queries' :
          Alive(q.call.source) => ~Answered(q.call) /\ Answered(q.call)']_vars

----------------------------------------------------------------------------
(* The kernel implements the protocol a caller relies on.                  *)

Phase(n) ==
    IF n \notin Used
    THEN "idle"
    ELSE IF "response" \in Elements(posted[n]) THEN "closed" ELSE "open"

Protocol == INSTANCE QueryProtocol WITH
    Queries <- CallNonces,
    phase <- [n \in CallNonces |-> Phase(n)],
    heard <- posted

\* Seen from each caller, the kernel is one query protocol per call: no message
\* of one query reaches another, none precedes the call, none follows the end.
ImplementsProtocol == Protocol!Spec

----------------------------------------------------------------------------
(* Fairness: a download that can still return does, one way or the other,   *)
(* the event loop drains its microtasks, and a worker sends a well-formed   *)
(* response to each open query while it lives (the kernel has no timeout,   *)
(* so this cannot be weakened).  Nothing keeps a download from hanging or a *)
(* worker from sending a malformed response first.                          *)

Answer(n) == \E g \in queries : g.call.nonce = n /\ WorkerResponse(g, "wellFormed")

FairSpec ==
    /\ Spec
    /\ \A d \in Domains : WF_vars(DownloadFails(d) \/ DownloadSucceeds(d))
    /\ WF_vars(RunWaiter)
    /\ \A n \in CallNonces : WF_vars(Answer(n))

\* The call waits for a download that never returns, as its loader or behind it.
Stranded(c) == c.module \in hung /\ c \in Elements(modulesLoading[c.module])

\* The worker of the call's query was terminated for a malformed response.
CutOff(c) == \E q \in queries : q.call = c /\ q.nonce \in broken

\* Every call is finished with: it leaves the queues and the query map, that of
\* a caller terminated meanwhile too, and a caller that is alive has its
\* response.  There are two ways to wait for ever, and no third: behind
\* a download that never returns, and on a query whose worker was terminated for
\* a malformed response.
CallsAnswered ==
    \A n \in CallNonces :
        n \in Used ~> \E c \in calls :
                           /\ c.nonce = n
                           /\ \/ ~Pending(c) /\ (Answered(c) \/ ~Alive(c.source))
                              \/ Stranded(c)
                              \/ CutOff(c)
=============================================================================
