--------------------------- MODULE ModuleQueries ---------------------------
(***************************************************************************)
(* libkmodule (libs/libkmodule/src/messages.ts and queries.ts) on both ends *)
(* of a query, with the kernel between them.  Every party is a persistent   *)
(* worker that runs libkmodule: as a caller it keeps the queries it made    *)
(* and the updates that wait for the kernel nonce; as a module it keeps the *)
(* queries it serves and the updates that wait for their handler.           *)
(*                                                                         *)
(* Workers and the kernel are threads that exchange messages over FIFO      *)
(* channels.  Each is an event loop: a message is handled to completion,    *)
(* then the microtasks it queued run.  A handler is arbitrary code: it may  *)
(* answer at once or later, send updates, answer twice, or throw.           *)
(***************************************************************************)
EXTENDS Naturals, Sequences, FiniteSets

CONSTANTS
    Parties,        \* module workers
    Callers,        \* the parties that make calls
    Modules,        \* the parties that are called
    MaxCalls,       \* bound: queries a caller makes
    MaxUpdates      \* bound: updates sent overall

ASSUME ModuleQueriesAssumption ==
    /\ Callers \subseteq Parties /\ Modules \subseteq Parties
    /\ IsFiniteSet(Callers)
    /\ MaxCalls \in Nat /\ MaxUpdates \in Nat

VARIABLES
    outbox,         \* per party: messages it posted to the kernel
    inbox,          \* per party: messages the kernel posted to it
    kernelNonces,   \* the kernel's counter of nonces
    open,           \* the kernel's map of open queries
    served,         \* every query the kernel ever opened
    queriesNonce,   \* per party: its counter of nonces
    queries,        \* per party: the queries it made
    asked,          \* per party and query: number of calls of sendUpdate
    heard,          \* per party and query: what the library made of the replies
    handlers,       \* per kernel nonce: the state the handler closes over
    incomingQueries,\* kernel nonces registered for queryUpdates
    running,        \* per party: the query whose handler is on the stack, or 0
    due,            \* per party: microtasks that hand an update to a handler
    said,           \* per kernel nonce: the messages its module posted
    got             \* per kernel nonce: the updates its handler received

callerVars == <<queriesNonce, queries, asked, heard>>
kernelVars == <<kernelNonces, open, served>>
moduleVars == <<handlers, incomingQueries, running, due, said, got>>
vars == <<outbox, inbox, callerVars, kernelVars, moduleVars>>

----------------------------------------------------------------------------

Queries == Callers \X (1 .. MaxCalls)

KernelNonces == 1 .. Cardinality(Callers) * MaxCalls

\* The router of a module knows handlers that take queryUpdates and others.
Methods == {"plain", "updating", "unknown"}

Message(method, nonce, data) == [method |-> method, nonce |-> nonce, data |-> data]

Update(q, i) == [of |-> q, number |-> i]

Post(p, m) == outbox' = [outbox EXCEPT ![p] = Append(@, m)]

\* Where in s the messages of a method are.
Of(s, method) == {i \in DOMAIN s : s[i].method = method}

Updates(k) == Of(said[k], "responseUpdate")

UpdatesSent ==
    Cardinality(UNION {{q} \X (1 .. asked[q]) : q \in Queries})
        + Cardinality(UNION {{k} \X Updates(k) : k \in KernelNonces})

NoQuery == [open |-> FALSE, wantsNonce |-> FALSE, kernelNonce |-> 0, held |-> <<>>]

NoHandler == [responded |-> FALSE, receiver |-> FALSE, waiting |-> <<>>, method |-> "unknown"]

Init ==
    /\ outbox = [p \in Parties |-> <<>>]
    /\ inbox = [p \in Parties |-> <<>>]
    /\ kernelNonces = 0
    /\ open = {}
    /\ served = {}
    /\ queriesNonce = [p \in Callers |-> 0]
    /\ queries = [q \in Queries |-> NoQuery]
    /\ asked = [q \in Queries |-> 0]
    /\ heard = [q \in Queries |-> <<>>]
    /\ handlers = [k \in KernelNonces |-> NoHandler]
    /\ incomingQueries = {}
    /\ running = [p \in Parties |-> 0]
    /\ due = [p \in Parties |-> <<>>]
    /\ said = [k \in KernelNonces |-> <<>>]
    /\ got = [k \in KernelNonces |-> <<>>]

----------------------------------------------------------------------------
(* The caller: newKernelQuery, the sendUpdate it returns and the handlers   *)
(* of the kernel's replies.                                                *)

NewKernelQuery(p, to, method, wants) ==
    LET n == queriesNonce[p] + 1
    IN  /\ n <= MaxCalls
        /\ queriesNonce' = [queriesNonce EXCEPT ![p] = n]
        /\ queries' = [queries EXCEPT ![<<p, n>>].open = TRUE, ![<<p, n>>].wantsNonce = wants]
        /\ Post(p, Message("moduleCall", n, [module |-> to, method |-> method, sendKernelNonce |-> wants]))
        /\ UNCHANGED <<inbox, asked, heard, kernelVars, moduleVars>>

\* Mutant: the updates that waited are taken from the end of their queue.
PostUpdatesReversed(q, k, us) ==
    outbox' = [outbox EXCEPT ![q[1]] =
                  @ \o [i \in DOMAIN us |-> Message("queryUpdate", k, us[Len(us) + 1 - i])]]

\* queryUpdates carry the kernel's nonce, not the caller's.
PostUpdates(q, k, us) ==
    outbox' = [outbox EXCEPT ![q[1]] =
                  @ \o [i \in DOMAIN us |-> Message("queryUpdate", k, us[i])]]

\* Mutant: an update does not wait for the kernel nonce.
SendQueryUpdateAtOnce(q) ==
    /\ queries[q].wantsNonce
    /\ queries[q].open
    /\ UpdatesSent < MaxUpdates
    /\ asked' = [asked EXCEPT ![q] = @ + 1]
    /\ PostUpdates(q, queries[q].kernelNonce, <<Update(q, asked[q] + 1)>>)
    /\ UNCHANGED <<inbox, queriesNonce, queries, heard, kernelVars, moduleVars>>

\* An update waits for the kernel nonce, and is dropped once the query closed.
SendQueryUpdate(q) ==
    LET u == Update(q, asked[q] + 1)
    IN  /\ queries[q].wantsNonce
        /\ UpdatesSent < MaxUpdates
        /\ asked' = [asked EXCEPT ![q] = @ + 1]
        /\ IF queries[q].kernelNonce = 0
           THEN queries' = [queries EXCEPT ![q].held = Append(@, u)] /\ UNCHANGED outbox
           ELSE /\ UNCHANGED queries
                /\ IF queries[q].open
                   THEN PostUpdates(q, queries[q].kernelNonce, <<u>>)
                   ELSE UNCHANGED outbox
        /\ UNCHANGED <<inbox, queriesNonce, heard, kernelVars, moduleVars>>

\* p takes the next message of the kernel: its stack and microtasks are empty.
Take(p, method) ==
    /\ running[p] = 0
    /\ due[p] = <<>>
    /\ inbox[p] # <<>>
    /\ Head(inbox[p]).method = method
    /\ inbox' = [inbox EXCEPT ![p] = Tail(@)]

Hear(q, m) == heard' = [heard EXCEPT ![q] = Append(@, [method |-> m.method, data |-> m.data])]

\* Mutant: the updates that wait are not posted.
HandleResponseNonceOnly(p) ==
    LET m == Head(inbox[p])
        q == <<p, m.nonce>>
    IN  /\ Take(p, "responseNonce")
        /\ queries' = [queries EXCEPT ![q].kernelNonce = m.data]
        /\ Hear(q, m)
        /\ UNCHANGED <<outbox, queriesNonce, asked, kernelVars, moduleVars>>

HandleResponseNonce(p) ==
    LET m == Head(inbox[p])
        q == <<p, m.nonce>>
    IN  /\ Take(p, "responseNonce")
        /\ IF queries[q].open /\ queries[q].wantsNonce /\ queries[q].kernelNonce = 0
           THEN /\ queries' = [queries EXCEPT ![q].kernelNonce = m.data, ![q].held = <<>>]
                /\ PostUpdates(q, m.data, queries[q].held)
                /\ Hear(q, m)
           ELSE UNCHANGED <<queries, outbox, heard>>
        /\ UNCHANGED <<queriesNonce, asked, kernelVars, moduleVars>>

\* Mutant: updates are taken only after the kernel nonce.
HandleResponseUpdateLate(p) ==
    LET m == Head(inbox[p])
        q == <<p, m.nonce>>
    IN  /\ Take(p, "responseUpdate")
        /\ IF queries[q].open /\ queries[q].kernelNonce # 0 THEN Hear(q, m) ELSE UNCHANGED heard
        /\ UNCHANGED <<outbox, queriesNonce, queries, asked, kernelVars, moduleVars>>

HandleResponseUpdate(p) ==
    LET m == Head(inbox[p])
        q == <<p, m.nonce>>
    IN  /\ Take(p, "responseUpdate")
        /\ IF queries[q].open THEN Hear(q, m) ELSE UNCHANGED heard
        /\ UNCHANGED <<outbox, queriesNonce, queries, asked, kernelVars, moduleVars>>

\* Mutant: the query is not deleted.
HandleResponseKeep(p) ==
    LET m == Head(inbox[p])
        q == <<p, m.nonce>>
    IN  /\ Take(p, "response")
        /\ Hear(q, m)
        /\ UNCHANGED <<outbox, queriesNonce, queries, asked, kernelVars, moduleVars>>

HandleResponse(p) ==
    LET m == Head(inbox[p])
        q == <<p, m.nonce>>
    IN  /\ Take(p, "response")
        /\ IF queries[q].open
           THEN Hear(q, m) /\ queries' = [queries EXCEPT ![q].open = FALSE]
           ELSE UNCHANGED <<queries, heard>>
        /\ UNCHANGED <<outbox, queriesNonce, asked, kernelVars, moduleVars>>

----------------------------------------------------------------------------
(* The module: handleMessage, and what its handlers may do.                *)

Say(p, k, m, d) ==
    /\ Post(p, Message(m, k, d))
    /\ said' = [said EXCEPT ![k] = Append(@, [method |-> m, data |-> d])]

ClearIncomingQuery(k) == incomingQueries' = incomingQueries \ {k}

RespondErr(p, k, err) == Say(p, k, "response", err) /\ ClearIncomingQuery(k)

HandleCall(p) ==
    LET m == Head(inbox[p])
        k == m.nonce
    IN  /\ Take(p, "moduleCall")
        /\ IF m.data = "unknown"
           THEN RespondErr(p, k, "err") /\ UNCHANGED <<handlers, running>>
           ELSE /\ handlers' = [handlers EXCEPT ![k].method = m.data]
                /\ incomingQueries' =
                       IF m.data = "updating" THEN incomingQueries \cup {k} ELSE incomingQueries
                /\ running' = [running EXCEPT ![p] = k]
                /\ UNCHANGED <<outbox, said>>
        /\ UNCHANGED <<due, got, callerVars, kernelVars>>

\* await incomingQueries[nonce]: at once if the handler gave its receiver.
HandleQueryUpdate(p) ==
    LET m == Head(inbox[p])
        k == m.nonce
    IN  /\ Take(p, "queryUpdate")
        /\ IF k \in incomingQueries
           THEN IF handlers[k].receiver
                THEN got' = [got EXCEPT ![k] = Append(@, m.data)] /\ UNCHANGED handlers
                ELSE handlers' = [handlers EXCEPT ![k].waiting = Append(@, m.data)] /\ UNCHANGED got
           ELSE UNCHANGED <<handlers, got>>
        /\ UNCHANGED <<outbox, incomingQueries, running, due, said, callerVars, kernelVars>>

RunMicrotask(p) ==
    /\ running[p] = 0
    /\ due[p] # <<>>
    /\ got' = [got EXCEPT ![Head(due[p]).nonce] = Append(@, Head(due[p]).data)]
    /\ due' = [due EXCEPT ![p] = Tail(@)]
    /\ UNCHANGED <<outbox, inbox, handlers, incomingQueries, running, said, callerVars, kernelVars>>

\* The code of the handler of k at p runs: on the stack, or later.
HandlerRuns(p, k) ==
    /\ \E g \in served : g.nonce = k /\ g.dest = p
    /\ handlers[k].method # "unknown"
    /\ running[p] \in {0, k}

Responded(k) == handlers' = [handlers EXCEPT ![k].responded = TRUE]

\* respond and reject differ in the field they fill; respond(null) fills none.
Respond(p, k, answer) ==
    /\ HandlerRuns(p, k)
    /\ ~handlers[k].responded
    /\ Responded(k)
    /\ Say(p, k, "response", answer)
    /\ ClearIncomingQuery(k)
    /\ UNCHANGED <<inbox, running, due, got, callerVars, kernelVars>>

SendResponseUpdate(p, k) ==
    /\ HandlerRuns(p, k)
    /\ ~handlers[k].responded
    /\ UpdatesSent < MaxUpdates
    /\ Say(p, k, "responseUpdate", Cardinality(Updates(k)) + 1)
    /\ UNCHANGED <<inbox, handlers, incomingQueries, running, due, got, callerVars, kernelVars>>

SetReceiveUpdate(p, k) ==
    /\ HandlerRuns(p, k)
    /\ handlers[k].method = "updating"
    /\ ~handlers[k].receiver
    /\ handlers' = [handlers EXCEPT ![k].receiver = TRUE, ![k].waiting = <<>>]
    /\ due' = [due EXCEPT ![p] = @ \o [i \in DOMAIN handlers[k].waiting |->
                                          [nonce |-> k, data |-> handlers[k].waiting[i]]]]
    /\ UNCHANGED <<outbox, inbox, incomingQueries, running, said, got, callerVars, kernelVars>>

HandlerReturns(p) ==
    /\ running[p] # 0
    /\ running' = [running EXCEPT ![p] = 0]
    /\ UNCHANGED <<outbox, inbox, handlers, incomingQueries, due, said, got, callerVars, kernelVars>>

\* The catch clause of handleMessage.  It does not set responded.
HandlerThrows(p) ==
    LET k == running[p]
    IN  /\ k # 0
        /\ running' = [running EXCEPT ![p] = 0]
        /\ IF handlers[k].responded
           THEN UNCHANGED <<outbox, said, incomingQueries>>
           ELSE RespondErr(p, k, "thrown")
        /\ UNCHANGED <<inbox, handlers, due, got, callerVars, kernelVars>>

----------------------------------------------------------------------------
(* The kernel between them, as far as persistent workers see it (the module *)
(* KernelQueries has the rest): one message of one worker at a time.        *)

TakeFrom(p, method) ==
    /\ outbox[p] # <<>>
    /\ Head(outbox[p]).method = method
    /\ outbox' = [outbox EXCEPT ![p] = Tail(@)]

Sent(boxes, p, m) == [boxes EXCEPT ![p] = Append(@, m)]

KernelRefuses(p) ==
    /\ TakeFrom(p, "moduleCall")
    /\ inbox' = Sent(inbox, p, Message("response", Head(outbox[p]).nonce, "refused"))
    /\ UNCHANGED <<callerVars, kernelVars, moduleVars>>

KernelOpens(p) ==
    LET m == Head(outbox[p])
        k == kernelNonces + 1
        g == [nonce |-> k, source |-> p, query |-> m.nonce, dest |-> m.data.module]
        called == Sent(inbox, g.dest, Message("moduleCall", k, m.data.method))
    IN  /\ TakeFrom(p, "moduleCall")
        /\ kernelNonces' = k
        /\ open' = open \cup {g}
        /\ served' = served \cup {g}
        /\ inbox' = IF m.data.sendKernelNonce
                    THEN Sent(called, p, Message("responseNonce", m.nonce, k))
                    ELSE called
        /\ UNCHANGED <<callerVars, moduleVars>>

Find(k) == {g \in open : g.nonce = k}

KernelRelaysDown(p) ==
    LET m == Head(outbox[p])
    IN  /\ TakeFrom(p, "queryUpdate")
        /\ IF Find(m.nonce) = {}
           THEN UNCHANGED inbox
           ELSE \E g \in Find(m.nonce) : inbox' = Sent(inbox, g.dest, m)
        /\ UNCHANGED <<callerVars, kernelVars, moduleVars>>

\* Neither err nor data of the response is set: the kernel logs it and returns.
BothNull(m) == m.method = "response" /\ m.data = "null"

KernelRelaysUp(p) ==
    LET m == Head(outbox[p])
    IN  /\ TakeFrom(p, m.method)
        /\ m.method \in {"response", "responseUpdate"}
        /\ IF Find(m.nonce) = {} \/ BothNull(m)
           THEN UNCHANGED <<inbox, open>>
           ELSE \E g \in Find(m.nonce) :
                    /\ inbox' = Sent(inbox, g.source, Message(m.method, g.query, m.data))
                    /\ open' = IF m.method = "response" THEN open \ {g} ELSE open
        /\ UNCHANGED <<kernelNonces, served, callerVars, moduleVars>>

----------------------------------------------------------------------------

Caller ==
    \/ \E p \in Callers, to \in Modules, method \in Methods, wants \in BOOLEAN :
           NewKernelQuery(p, to, method, wants)
    \/ \E q \in Queries : SendQueryUpdate(q)
    \/ \E p \in Callers : HandleResponseNonce(p) \/ HandleResponseUpdate(p) \/ HandleResponse(p)

Handler ==
    \E p \in Parties, k \in KernelNonces :
        \/ \E answer \in {"data", "err", "null"} : Respond(p, k, answer)
        \/ SendResponseUpdate(p, k)
        \/ SetReceiveUpdate(p, k)

Module ==
    \E p \in Parties :
        \/ HandleCall(p)
        \/ HandleQueryUpdate(p)
        \/ RunMicrotask(p)
        \/ HandlerReturns(p)
        \/ HandlerThrows(p)

Kernel ==
    \E p \in Parties :
        \/ KernelRefuses(p)
        \/ KernelOpens(p)
        \/ KernelRelaysDown(p)
        \/ KernelRelaysUp(p)

Next == Caller \/ Handler \/ Module \/ Kernel

Spec == Init /\ [][Next]_vars
----------------------------------------------------------------------------

Served == [nonce : KernelNonces, source : Callers, query : 1 .. MaxCalls, dest : Parties]

Waiting == [of : Queries, number : Nat]

\* What a response of a module and one of the kernel can be.
Answer == {"data", "err", "null", "thrown"}

Reply == {"data", "err", "thrown", "refused"}

\* What a message of a worker to the kernel can be.
Outgoing ==
    [method : {"moduleCall"}, nonce : 1 .. MaxCalls,
     data : [module : Parties, method : Methods, sendKernelNonce : BOOLEAN]]
        \cup [method : {"queryUpdate"}, nonce : KernelNonces, data : Waiting]
        \cup [method : {"responseUpdate"}, nonce : KernelNonces, data : Nat]
        \cup [method : {"response"}, nonce : KernelNonces, data : Answer]

\* What a message of the kernel to a worker can be.
Incoming ==
    [method : {"moduleCall"}, nonce : KernelNonces, data : Methods]
        \cup [method : {"queryUpdate"}, nonce : KernelNonces, data : Waiting]
        \cup [method : {"responseNonce"}, nonce : 1 .. MaxCalls, data : KernelNonces]
        \cup [method : {"responseUpdate"}, nonce : 1 .. MaxCalls, data : Nat]
        \cup [method : {"response"}, nonce : 1 .. MaxCalls, data : Reply]

AllIn(s, S) == \A i \in DOMAIN s : s[i] \in S

TypeOK ==
    /\ \A p \in Parties :
           /\ AllIn(outbox[p], Outgoing)
           /\ AllIn(inbox[p], Incoming)
           /\ AllIn(due[p], [nonce : KernelNonces, data : Waiting])
    /\ kernelNonces \in {0} \cup KernelNonces
    /\ open \subseteq served /\ served \subseteq Served
    /\ queriesNonce \in [Callers -> 0 .. MaxCalls]
    /\ asked \in [Queries -> 0 .. MaxUpdates]
    /\ \A q \in Queries :
           /\ queries[q].open \in BOOLEAN /\ queries[q].wantsNonce \in BOOLEAN
           /\ queries[q].kernelNonce \in {0} \cup KernelNonces
           /\ AllIn(queries[q].held, Waiting)
    /\ incomingQueries \subseteq KernelNonces
    /\ running \in [Parties -> {0} \cup KernelNonces]
    /\ \A k \in KernelNonces :
           /\ handlers[k].method \in Methods
           /\ AllIn(handlers[k].waiting, Waiting) /\ AllIn(got[k], Waiting)

Responses(k) == Of(said[k], "response")

\* The updates the module sent before its first response.
UpdatesBefore(k) == Cardinality({i \in Updates(k) : \A j \in Responses(k) : i < j})

HeardUpdates(q) == Of(heard[q], "responseUpdate")

HeardResponses(q) == Of(heard[q], "response")

\* What the application at q is told by the library is what the module that
\* serves it posted: its updates in order, and by the time the promise
\* resolves all those that preceded the response, which is the first one.
RepliesFaithful ==
    \A g \in served :
        LET q == <<g.source, g.query>>
            k == g.nonce
        IN  /\ \A i \in HeardUpdates(q) : heard[q][i].data = Cardinality({j \in HeardUpdates(q) : j <= i})
            /\ Cardinality(HeardUpdates(q)) <= UpdatesBefore(k)
            /\ \A i \in HeardResponses(q) :
                   /\ Cardinality(HeardUpdates(q)) = UpdatesBefore(k)
                   /\ \E first \in Responses(k) :
                          /\ \A j \in Responses(k) : first <= j
                          /\ heard[q][i].data = said[k][first].data

\* Whatever waits where, for the kernel nonce at the caller or for the receiver
\* at the module: a handler receives the updates of its own query, in the order
\* in which sendUpdate was called, and none is skipped.
QueryUpdatesInOrder ==
    \A g \in served :
        /\ \A i \in DOMAIN got[g.nonce] : got[g.nonce][i] = Update(<<g.source, g.query>>, i)
        /\ Len(got[g.nonce]) <= asked[g.source, g.query]

\* The module answered with respond(null), which the kernel drops.
Dropped(k) == Responses(k) # {} /\ \A i \in Responses(k) : said[k][i].data = "null"

AtRest ==
    /\ \A p \in Parties : outbox[p] = <<>> /\ inbox[p] = <<>>
    /\ \A g \in served : Responses(g.nonce) # {}

\* What is left: a query is no longer registered for updates once its response
\* was sent, on whichever path, and when every handler has answered and every
\* message was handled, the maps of the modules are empty, while the kernel and
\* the callers keep the queries that were answered with respond(null) and
\* no others.
NothingLeftAtRest ==
    /\ \A k \in incomingQueries : Responses(k) = {}
    /\ AtRest =>
           /\ open = {g \in served : Dropped(g.nonce)}
           /\ incomingQueries = {}
           /\ \A q \in Queries : queries[q].open <=> \E g \in open : q = <<g.source, g.query>>

\* messages.ts: the flag responded ensures "that only one response is ever sent".
OneResponse == \A k \in KernelNonces : Cardinality(Responses(k)) <= 1

----------------------------------------------------------------------------
(* Fairness: the event loops of the workers and of the kernel go on, and a  *)
(* handler leaves the stack and gives the receiver it registered for.  No   *)
(* handler has to answer.                                                  *)

FairSpec ==
    /\ Spec
    /\ \A p \in Callers :
           WF_vars(HandleResponseNonce(p) \/ HandleResponseUpdate(p) \/ HandleResponse(p))
    /\ \A p \in Parties :
           /\ WF_vars(HandleCall(p) \/ HandleQueryUpdate(p) \/ RunMicrotask(p))
           /\ WF_vars(HandlerReturns(p))
           /\ WF_vars(KernelRefuses(p) \/ KernelOpens(p) \/ KernelRelaysDown(p) \/ KernelRelaysUp(p))
    /\ \A p \in Parties, k \in KernelNonces : WF_vars(SetReceiveUpdate(p, k))

Resolved(q) == HeardResponses(q) # {}

Serves(k, q) == \E g \in served : g.nonce = k /\ q = <<g.source, g.query>>

\* messages.ts: respond "will send response messages that close out the query.
\* accept can take an arbitrary object as input".
RespondCloses == AtRest => open = {}

\* The promise of a query resolves once its handler answered, by a response, a
\* rejection or an exception, and whatever updates are in flight, unless the
\* answer is respond(null), which the kernel drops; and an update handed to
\* sendUpdate reaches the handler, however early it was sent, unless the call is
\* refused or answered, or its handler takes none.
AnswersAndUpdatesArrive ==
    \A q \in Queries :
        /\ \A k \in KernelNonces : (Serves(k, q) /\ Responses(k) # {}) ~> Resolved(q) \/ Dropped(k)
        /\ \A i \in 1 .. MaxUpdates :
               asked[q] >= i
                   ~> \/ Resolved(q)
                      \/ \E k \in KernelNonces :
                             /\ Serves(k, q)
                             /\ \/ Len(got[k]) >= i
                                \/ Responses(k) # {}
                                \/ handlers[k].method = "plain"
=============================================================================
