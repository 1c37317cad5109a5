------------------------ MODULE KernelQueries_proofs ------------------------
(***************************************************************************)
(* Proofs about KernelQueries for every set of callers, modules and calls:  *)
(* the loading of modules and the calls and nonces of queries, the workers  *)
(* and their updates, and the refinement of QueryProtocol.                  *)
(***************************************************************************)
EXTENDS KernelQueries, TLAPS

\* What loading maintains: a module is loaded or being downloaded, never both;
\* the calls that wait for a module are for that module; a loaded persistent
\* module has a live worker; and no race has been noticed.
LoadInv ==
    /\ \A d \in Domains : \A i \in DOMAIN modulesLoading[d] : modulesLoading[d][i].module = d
    /\ \A d \in modules : modulesLoading[d] = <<>>
    /\ settled.loaded => \A i \in DOMAIN settled.waiters : settled.waiters[i].module \in modules
    /\ \A d \in modules \cap Persistent : modWorker[d] \in live /\ modWorker[d].module = d
    /\ notableErrors = 0

----------------------------------------------------------------------------
(* The pieces of the handlers.                                             *)

\* Posting a reply keeps the replies a function of the callers' nonces.
LEMMA PostedType ==
    ASSUME posted \in [CallNonces -> Seq(Method)], NEW c \in Call, NEW m \in Method
    PROVE  Posted(c, m) \in [CallNonces -> Seq(Method)]
<1>1. c.nonce \in CallNonces
  BY DEF Call
<1>2. Append(posted[c.nonce], m) \in Seq(Method)
  BY <1>1
<1> QED
  BY <1>1, <1>2 DEF Posted

\* The waiters left behind the head of a queue are elements of the queue.
LEMMA TailElements ==
    ASSUME NEW S, NEW s \in Seq(S), s # <<>>
    PROVE  /\ Head(s) \in S
           /\ Head(s) = s[1]
           /\ 1 \in DOMAIN s
           /\ Tail(s) \in Seq(S)
           /\ \A i \in DOMAIN Tail(s) : i + 1 \in DOMAIN s /\ Tail(s)[i] = s[i + 1]
OBVIOUS

\* Opening a query on a worker of the right module keeps the types.
LEMMA PostQueryType ==
    ASSUME TypeOK, NEW c \in Call, NEW w \in Worker, PostQuery(c, w)
    PROVE  /\ queriesNonce' \in Nat
           /\ queries' \subseteq OpenQuery
           /\ given' \subseteq OpenQuery
           /\ posted' \in [CallNonces -> Seq(Method)]
<1> DEFINE q == [nonce |-> queriesNonce, dest |-> w, call |-> c]
<1>1. q \in OpenQuery
  BY DEF TypeOK, OpenQuery
<1>2. posted' \in [CallNonces -> Seq(Method)]
  BY PostedType DEF TypeOK, PostQuery, Method
<1> QED
  BY <1>1, <1>2 DEF TypeOK, PostQuery

\* A launched worker is a worker of its module.
LEMMA NewWorkerType ==
    ASSUME TypeOK, NEW d \in Domains
    PROVE  NewWorker(d) \in Worker /\ NewWorker(d).module = d
BY DEF TypeOK, NewWorker, Worker

\* newModuleQuery keeps the types, given that a persistent module has its
\* worker, and it terminates no worker.
LEMMA NewModuleQueryType ==
    ASSUME TypeOK, NEW c \in Call, NewModuleQuery(c),
           c.module \in Persistent => modWorker[c.module] \in Worker
    PROVE  /\ queriesNonce' \in Nat
           /\ queries' \subseteq OpenQuery
           /\ given' \subseteq OpenQuery
           /\ posted' \in [CallNonces -> Seq(Method)]
           /\ nextWorker' \in Nat
           /\ live' \subseteq Worker
           /\ live \subseteq live'
<1>0. c.module \in Domains
  BY DEF Call
<1>1. CASE /\ c.module \in Persistent
           /\ PostQuery(c, modWorker[c.module])
           /\ UNCHANGED <<nextWorker, live>>
  BY <1>1, PostQueryType DEF TypeOK
<1>2. CASE LaunchWorker(c.module) /\ PostQuery(c, NewWorker(c.module))
  BY <1>0, <1>2, PostQueryType, NewWorkerType DEF TypeOK, LaunchWorker
<1>3. CASE RespondErr(c)
  <2>1. posted' \in [CallNonces -> Seq(Method)]
    BY <1>3, PostedType DEF TypeOK, RespondErr, Method
  <2> QED
    BY <1>3, <2>1 DEF TypeOK, RespondErr
<1> QED
  BY <1>1, <1>2, <1>3 DEF NewModuleQuery

----------------------------------------------------------------------------
(* Type correctness and the absence of load races.                         *)

LEMMA LoadInit == Init => TypeOK /\ LoadInv
<1> SUFFICES ASSUME Init PROVE TypeOK /\ LoadInv
  OBVIOUS
<1>1. TypeOK
  BY KernelQueriesAssumption DEF Init, TypeOK, Worker, Method
<1>2. LoadInv
  BY DEF Init, LoadInv
<1> QED
  BY <1>1, <1>2

\* The loader of a download is a call for the module being downloaded.
LEMMA LoaderType ==
    ASSUME TypeOK, LoadInv, NEW d \in Domains, Loading(d)
    PROVE  /\ Loader(d) \in Call
           /\ Loader(d).module = d
           /\ Tail(modulesLoading[d]) \in Seq(Call)
           /\ \A i \in DOMAIN Tail(modulesLoading[d]) : Tail(modulesLoading[d])[i].module = d
           /\ d \notin modules
<1>1. modulesLoading[d] \in Seq(Call) /\ modulesLoading[d] # <<>>
  BY DEF TypeOK, Loading
<1>2. /\ Head(modulesLoading[d]) \in Call
      /\ Head(modulesLoading[d]) = modulesLoading[d][1]
      /\ 1 \in DOMAIN modulesLoading[d]
      /\ Tail(modulesLoading[d]) \in Seq(Call)
      /\ \A i \in DOMAIN Tail(modulesLoading[d]) :
            /\ i + 1 \in DOMAIN modulesLoading[d]
            /\ Tail(modulesLoading[d])[i] = modulesLoading[d][i + 1]
  BY <1>1, TailElements
<1> QED
  BY <1>1, <1>2 DEF LoadInv, Loader

\* The event loop holds the next waiter, and a loaded module is ready for it.
LEMMA WaiterType ==
    ASSUME TypeOK, LoadInv, ~NoMicrotask
    PROVE  /\ Head(settled.waiters) \in Call
           /\ settled.loaded => Head(settled.waiters).module \in modules
           /\ Tail(settled.waiters) \in Seq(Call)
           /\ \A i \in DOMAIN Tail(settled.waiters) :
                 settled.loaded => Tail(settled.waiters)[i].module \in modules
<1>1. settled.waiters \in Seq(Call) /\ settled.waiters # <<>>
  BY DEF TypeOK, NoMicrotask
<1>2. /\ Head(settled.waiters) \in Call
      /\ Head(settled.waiters) = settled.waiters[1]
      /\ 1 \in DOMAIN settled.waiters
      /\ Tail(settled.waiters) \in Seq(Call)
      /\ \A i \in DOMAIN Tail(settled.waiters) :
            /\ i + 1 \in DOMAIN settled.waiters
            /\ Tail(settled.waiters)[i] = settled.waiters[i + 1]
  BY <1>1, TailElements
<1> QED
  BY <1>2 DEF LoadInv

LEMMA RespondErrType ==
    ASSUME TypeOK, NEW c \in Call, RespondErr(c)
    PROVE  posted' \in [CallNonces -> Seq(Method)]
BY PostedType DEF TypeOK, RespondErr, Method

LEMMA RefusedStep ==
    ASSUME TypeOK, LoadInv, NEW c \in Call, ModuleCallRefused(c)
    PROVE  TypeOK' /\ LoadInv'
<1>1. posted' \in [CallNonces -> Seq(Method)]
  BY RespondErrType DEF ModuleCallRefused
<1> QED
  BY <1>1 DEF TypeOK, LoadInv, ModuleCallRefused, NewCall, RespondErr

LEMMA LoadedStep ==
    ASSUME TypeOK, LoadInv, NEW c \in Call, ModuleCallLoaded(c)
    PROVE  TypeOK' /\ LoadInv'
<1>1. c.module \in Persistent => modWorker[c.module] \in Worker
  BY DEF ModuleCallLoaded, LoadInv, TypeOK
<1>2. NewModuleQuery(c)
  BY DEF ModuleCallLoaded
<1>3. /\ queriesNonce' \in Nat
      /\ queries' \subseteq OpenQuery
      /\ given' \subseteq OpenQuery
      /\ posted' \in [CallNonces -> Seq(Method)]
      /\ nextWorker' \in Nat
      /\ live' \subseteq Worker
      /\ live \subseteq live'
  BY <1>1, <1>2, NewModuleQueryType
<1> QED
  BY <1>3 DEF TypeOK, LoadInv, ModuleCallLoaded, NewCall

LEMMA MustLoadStep ==
    ASSUME TypeOK, LoadInv, NEW c \in Call, ModuleCallMustLoad(c)
    PROVE  TypeOK' /\ LoadInv'
<1>1. c.module \in Domains
  BY DEF Call
<1>2. Append(modulesLoading[c.module], c) \in Seq(Call)
  BY <1>1 DEF TypeOK
<1>3. TypeOK'
  BY <1>1, <1>2 DEF TypeOK, ModuleCallMustLoad, NewCall
<1>4. \A i \in DOMAIN Append(modulesLoading[c.module], c) :
         Append(modulesLoading[c.module], c)[i].module = c.module
  BY <1>1 DEF TypeOK, LoadInv
<1>5. \A d \in Domains : \A i \in DOMAIN modulesLoading'[d] : modulesLoading'[d][i].module = d
  BY <1>1, <1>4 DEF TypeOK, LoadInv, ModuleCallMustLoad
<1>6. \A d \in modules : modulesLoading'[d] = <<>>
  BY <1>1 DEF TypeOK, LoadInv, ModuleCallMustLoad
<1> QED
  BY <1>3, <1>5, <1>6 DEF LoadInv, ModuleCallMustLoad, NewCall

LEMMA LoadFailsStep ==
    ASSUME TypeOK, LoadInv, NEW d \in Domains, Loading(d), LoadFails(d)
    PROVE  TypeOK' /\ LoadInv'
<1>1. Loader(d) \in Call /\ Tail(modulesLoading[d]) \in Seq(Call)
  BY LoaderType
<1>2. posted' \in [CallNonces -> Seq(Method)]
  BY <1>1, RespondErrType DEF LoadFails
<1>3. TypeOK'
  BY <1>1, <1>2 DEF TypeOK, LoadFails, RespondErr, Resolve, StopLoading
<1>4. LoadInv'
  BY <1>1 DEF TypeOK, LoadInv, LoadFails, RespondErr, Resolve, StopLoading
<1> QED
  BY <1>3, <1>4

LEMMA SucceedsStep ==
    ASSUME TypeOK, LoadInv, NEW d \in Domains, DownloadSucceeds(d)
    PROVE  TypeOK' /\ LoadInv'
<1>1. Loading(d)
  BY DEF DownloadSucceeds
<1>2. /\ Loader(d) \in Call
      /\ Loader(d).module = d
      /\ Tail(modulesLoading[d]) \in Seq(Call)
      /\ \A i \in DOMAIN Tail(modulesLoading[d]) : Tail(modulesLoading[d])[i].module = d
      /\ d \notin modules
  BY <1>1, LoaderType
<1>3. InstallModule(d)
  BY <1>2 DEF DownloadSucceeds
<1>4. /\ modules' = modules \cup {d}
      /\ StopLoading(d)
      /\ Resolve(d, TRUE)
      /\ UNCHANGED <<calls, updated, notableErrors, hung, broken>>
  BY <1>3 DEF DownloadSucceeds, InstallModule
<1>5. /\ queriesNonce' \in Nat
      /\ queries' \subseteq OpenQuery
      /\ given' \subseteq OpenQuery
      /\ posted' \in [CallNonces -> Seq(Method)]
      /\ nextWorker' \in Nat
      /\ live' \subseteq Worker
      /\ live \subseteq live'
      /\ modWorker' \in [Domains -> Worker \cup {NoWorker}]
      /\ \A e \in modules' \cap Persistent : modWorker'[e] \in live' /\ modWorker'[e].module = e
  <2>1. CASE d \in Persistent
    <3>1. NewWorker(d) \in Worker /\ NewWorker(d).module = d
      BY NewWorkerType
    <3>2. /\ LaunchWorker(d)
          /\ modWorker' = [modWorker EXCEPT ![d] = NewWorker(d)]
          /\ PostQuery(Loader(d), NewWorker(d))
      BY <1>3, <2>1 DEF InstallModule
    <3>3. /\ queriesNonce' \in Nat
          /\ queries' \subseteq OpenQuery
          /\ given' \subseteq OpenQuery
          /\ posted' \in [CallNonces -> Seq(Method)]
      BY <1>2, <3>1, <3>2, PostQueryType
    <3>4. /\ nextWorker' \in Nat
          /\ live' \subseteq Worker
          /\ live \subseteq live'
          /\ NewWorker(d) \in live'
      BY <3>1, <3>2 DEF LaunchWorker, TypeOK
    <3> QED
      BY <1>4, <3>1, <3>2, <3>3, <3>4 DEF TypeOK, LoadInv
  <2>2. CASE d \notin Persistent
    <3>1. NewModuleQuery(Loader(d)) /\ UNCHANGED modWorker
      BY <1>3, <2>2 DEF InstallModule
    <3>2. /\ queriesNonce' \in Nat
          /\ queries' \subseteq OpenQuery
          /\ given' \subseteq OpenQuery
          /\ posted' \in [CallNonces -> Seq(Method)]
          /\ nextWorker' \in Nat
          /\ live' \subseteq Worker
          /\ live \subseteq live'
      BY <1>2, <2>2, <3>1, NewModuleQueryType
    <3> QED
      BY <1>4, <2>2, <3>1, <3>2 DEF TypeOK, LoadInv
  <2> QED
    BY <2>1, <2>2
<1>6. TypeOK'
  <2>1. settled' \in [waiters : Seq(Call), loaded : BOOLEAN]
    BY <1>2, <1>4 DEF Resolve
  <2>2. modulesLoading' \in [Domains -> Seq(Call)]
    BY <1>4 DEF TypeOK, StopLoading
  <2>3. UNCHANGED <<calls, updated, notableErrors, hung, broken>>
    BY <1>4
  <2>4. modules' \subseteq Domains
    BY <1>4 DEF TypeOK
  <2> QED
    BY <1>5, <2>1, <2>2, <2>3, <2>4 DEF TypeOK
<1>7. LoadInv'
  <2>1. \A e \in Domains : \A i \in DOMAIN modulesLoading'[e] : modulesLoading'[e][i].module = e
    BY <1>4 DEF TypeOK, LoadInv, StopLoading
  <2>2. \A e \in modules' : modulesLoading'[e] = <<>>
    BY <1>4 DEF TypeOK, LoadInv, StopLoading
  <2>3. \A i \in DOMAIN settled'.waiters : settled'.waiters[i].module \in modules'
    BY <1>2, <1>4 DEF Resolve
  <2> QED
    BY <1>4, <1>5, <2>1, <2>2, <2>3 DEF LoadInv
<1> QED
  BY <1>6, <1>7

LEMMA WaiterStep ==
    ASSUME TypeOK, LoadInv, RunWaiter
    PROVE  TypeOK' /\ LoadInv'
<1> DEFINE c == Head(settled.waiters)
<1>1. /\ c \in Call
      /\ settled.loaded => c.module \in modules
      /\ Tail(settled.waiters) \in Seq(Call)
      /\ \A i \in DOMAIN Tail(settled.waiters) :
            settled.loaded => Tail(settled.waiters)[i].module \in modules
  BY WaiterType DEF RunWaiter
<1>2. /\ queriesNonce' \in Nat
      /\ queries' \subseteq OpenQuery
      /\ given' \subseteq OpenQuery
      /\ posted' \in [CallNonces -> Seq(Method)]
      /\ nextWorker' \in Nat
      /\ live' \subseteq Worker
      /\ live \subseteq live'
  <2>1. CASE settled.loaded
    <3>1. c.module \in Persistent => modWorker[c.module] \in Worker
      BY <1>1, <2>1 DEF LoadInv, TypeOK
    <3>2. NewModuleQuery(c)
      BY <2>1 DEF RunWaiter
    <3> QED
      BY <1>1, <3>1, <3>2, NewModuleQueryType
  <2>2. CASE ~settled.loaded
    <3>1. RespondErr(c)
      BY <2>2 DEF RunWaiter
    <3>2. posted' \in [CallNonces -> Seq(Method)]
      BY <1>1, <3>1, RespondErrType
    <3> QED
      BY <3>1, <3>2 DEF RespondErr, TypeOK
  <2> QED
    BY <2>1, <2>2
<1>3. /\ settled' = [settled EXCEPT !.waiters = Tail(@)]
      /\ UNCHANGED <<calls, modules, modWorker, modulesLoading, notableErrors, updated,
                     hung, broken>>
  BY DEF RunWaiter
<1>4. TypeOK'
  BY <1>1, <1>2, <1>3 DEF TypeOK
<1>5. settled'.loaded = settled.loaded /\ settled'.waiters = Tail(settled.waiters)
  BY <1>3 DEF TypeOK
<1>6. LoadInv'
  BY <1>1, <1>2, <1>3, <1>5 DEF LoadInv
<1> QED
  BY <1>4, <1>6
\* Relayed responses and updates keep the types and touch no module.
LEMMA RelayStep ==
    ASSUME TypeOK, LoadInv, NEW g \in given,
           \/ \E shape \in Shapes : WorkerResponse(g, shape)
           \/ WorkerResponseUpdate(g)
           \/ QueryUpdate(g)
    PROVE  TypeOK' /\ LoadInv'
<1>1. \A q \in Open(g.nonce) : q \in OpenQuery /\ q.call \in Call /\ q.nonce \in Nat /\ q.dest \in Worker
  BY DEF TypeOK, Open, OpenQuery
<1>2. ASSUME NEW shape \in Shapes, WorkerResponse(g, shape)
      PROVE  TypeOK' /\ LoadInv'
  <2>1. queries' \subseteq queries /\ posted' \in [CallNonces -> Seq(Method)]
    <3>1. CASE shape = "wellFormed" /\ Open(g.nonce) # {}
      <4>1. PICK q \in Open(g.nonce) : posted' = Posted(q.call, "response")
        BY <1>2, <3>1 DEF WorkerResponse, AnswerQuery
      <4>2. posted' \in [CallNonces -> Seq(Method)]
        BY <1>1, <4>1, PostedType DEF TypeOK, Method
      <4> QED
        BY <1>2, <3>1, <4>2 DEF WorkerResponse, AnswerQuery, CloseQuery
    <3>2. CASE ~(shape = "wellFormed" /\ Open(g.nonce) # {})
      BY <1>2, <3>2 DEF WorkerResponse, AnswerQuery, TypeOK
    <3> QED
      BY <3>1, <3>2
  <2>2. live' \subseteq live /\ \A w \in live : w.module \in Persistent => w \in live'
    BY <1>2 DEF WorkerResponse, EndsWorker
  <2>3. UNCHANGED <<calls, queriesNonce, modules, modWorker, modulesLoading, settled,
                    notableErrors, nextWorker, given, updated, hung>>
    BY <1>2 DEF WorkerResponse
  <2>4. TypeOK'
    <3>1. g.nonce \in Nat
      BY DEF TypeOK, OpenQuery
    <3>2. broken' \subseteq Nat
      BY <1>2, <3>1 DEF WorkerResponse, TypeOK
    <3> QED
      BY <2>1, <2>2, <2>3, <3>2 DEF TypeOK
  <2>5. LoadInv'
    BY <2>2, <2>3 DEF LoadInv
  <2> QED
    BY <2>4, <2>5
<1>3. CASE WorkerResponseUpdate(g)
  <2>1. posted' \in [CallNonces -> Seq(Method)]
    BY <1>1, <1>3, PostedType DEF TypeOK, WorkerResponseUpdate, RelayUpdate, Method
  <2> QED
    BY <1>3, <2>1 DEF TypeOK, LoadInv, WorkerResponseUpdate
<1>4. CASE QueryUpdate(g)
  BY <1>1, <1>4 DEF TypeOK, LoadInv, QueryUpdate
<1> QED
  BY <1>2, <1>3, <1>4

LEMMA LoadNext == TypeOK /\ LoadInv /\ [Next]_vars => TypeOK' /\ LoadInv'
<1> SUFFICES ASSUME TypeOK, LoadInv, [Next]_vars PROVE TypeOK' /\ LoadInv'
  OBVIOUS
<1>1. CASE ModuleCall
  <2>1. PICK n \in CallNonces, s \in Pages \cup live, d \in Domains, k \in BOOLEAN :
            LET c == [nonce |-> n, source |-> s, module |-> d, sendKernelNonce |-> k]
            IN  ModuleCallRefused(c) \/ ModuleCallLoaded(c) \/ ModuleCallMustLoad(c)
    BY <1>1 DEF ModuleCall
  <2> DEFINE c == [nonce |-> n, source |-> s, module |-> d, sendKernelNonce |-> k]
  <2>2. c \in Call
    BY DEF TypeOK, Call, Source
  <2>3. ModuleCallRefused(c) \/ ModuleCallLoaded(c) \/ ModuleCallMustLoad(c)
    BY <2>1
  <2> HIDE DEF c
  <2> QED
    BY <2>2, <2>3, RefusedStep, LoadedStep, MustLoadStep
<1>2. CASE Load
  <2>1. PICK d \in Domains : \/ DownloadFails(d) \/ DownloadThrows(d)
                             \/ CreateModuleFails(d) \/ DownloadSucceeds(d)
    BY <1>2 DEF Load
  <2>2. CASE DownloadThrows(d)
    BY <2>2 DEF DownloadThrows, TypeOK, LoadInv
  <2> QED
    BY <2>1, <2>2, LoadFailsStep, SucceedsStep DEF DownloadFails, CreateModuleFails
<1>3. CASE RunWaiter
  BY <1>3, WaiterStep
<1>4. CASE Relay
  BY <1>4, RelayStep DEF Relay
<1>5. CASE UNCHANGED vars
  BY <1>5 DEF TypeOK, LoadInv, vars
<1> QED
  BY <1>1, <1>2, <1>3, <1>4, <1>5 DEF Next

LEMMA LoadInvariant == Spec => [](TypeOK /\ LoadInv)
<1> QED
  BY LoadInit, LoadNext, PTL DEF Spec

\* Every behaviour of the kernel is well typed.
THEOREM TypeCorrect == Spec => []TypeOK
BY LoadInvariant, PTL

\* The branch for a load race is dead code: whatever modules are called, in
\* whatever order their downloads end, no module is loaded twice.
THEOREM LoadRaceImpossible == Spec => []NoLoadRace
<1>1. TypeOK /\ LoadInv => NoLoadRace
  BY DEF LoadInv, NoLoadRace
<1> QED
  BY <1>1, LoadInvariant, PTL
----------------------------------------------------------------------------
(* Every call is in one place, and hears what the protocol allows.         *)

InQueue(c) ==
    \/ c \in Elements(modulesLoading[c.module])
    \/ c \in Elements(settled.waiters)

\* Worker ids are never reused, so no terminated caller comes back.
SourceInv ==
    /\ \A w \in live : w.id <= nextWorker
    /\ \A c \in calls : c.source \in Pages \/ c.source.id <= nextWorker

\* Callers' nonces identify calls, kernel nonces identify queries, a call is
\* given to a worker once, and a call never made has heard nothing.
NonceInv ==
    /\ \A b, c \in calls : b.nonce = c.nonce => b = c
    /\ \A n \in CallNonces \ Used : posted[n] = <<>>
    /\ \A g \in given : g.nonce < queriesNonce /\ g.call \in calls
    /\ \A g, h \in given : g.nonce = h.nonce \/ g.call = h.call => g = h
    /\ queries \subseteq given

Distinct(s) == \A i, j \in DOMAIN s : s[i] = s[j] => i = j

\* A call waits at most once, in one queue.
QueueInv ==
    /\ \A d \in Domains :
          Distinct(modulesLoading[d]) /\ Elements(modulesLoading[d]) \subseteq calls
    /\ Distinct(settled.waiters) /\ Elements(settled.waiters) \subseteq calls
    /\ \A d \in Domains : Elements(modulesLoading[d]) \cap Elements(settled.waiters) = {}

\* A call that waits is untouched, an open query is unanswered, and whatever
\* neither waits nor is open is answered.
PlaceInv ==
    /\ \A c \in calls : InQueue(c) => posted[c.nonce] = <<>> /\ \A g \in given : g.call # c
    /\ \A q \in queries : ~Answered(q.call)
    /\ CallsAccounted

\* A caller that asked for the kernel nonce hears it when its query opens.
ToldInv ==
    \A g \in given : g.call.sendKernelNonce /\ Alive(g.call.source) =>
        posted[g.call.nonce] # <<>> /\ posted[g.call.nonce][1] = "responseNonce"

CallInv == SourceInv /\ NonceInv /\ QueueInv /\ PlaceInv /\ ReplyOrder /\ ToldInv

LEMMA CallInit == Init => CallInv
BY DEF Init, CallInv, SourceInv, NonceInv, QueueInv, PlaceInv, ReplyOrder, ToldInv,
       CallsAccounted, Distinct, Elements, Used

\* The elements of a queue after an append, and after its head is taken.
LEMMA AppendElements ==
    ASSUME NEW S, NEW s \in Seq(S), NEW e \in S
    PROVE  /\ Elements(Append(s, e)) = Elements(s) \cup {e}
           /\ Distinct(s) /\ e \notin Elements(s) => Distinct(Append(s, e))
BY DEF Elements, Distinct

LEMMA HeadTailElements ==
    ASSUME NEW S, NEW s \in Seq(S), s # <<>>, Distinct(s)
    PROVE  /\ Elements(Tail(s)) = Elements(s) \ {Head(s)}
           /\ Head(s) \in Elements(s)
           /\ Distinct(Tail(s))
<1>1. DOMAIN s = 1 .. Len(s) /\ Len(s) \in Nat \ {0} /\ Head(s) = s[1]
  OBVIOUS
<1>2. DOMAIN Tail(s) = 1 .. (Len(s) - 1) /\ \A i \in 1 .. (Len(s) - 1) : Tail(s)[i] = s[i + 1]
  BY <1>1
<1>3. Head(s) \in Elements(s)
  BY <1>1 DEF Elements
<1>4. Distinct(Tail(s))
  BY <1>1, <1>2 DEF Distinct
<1>5. Elements(Tail(s)) \subseteq Elements(s) \ {Head(s)}
  BY <1>1, <1>2 DEF Elements, Distinct
<1>6. ASSUME NEW i \in 1 .. Len(s), s[i] # Head(s)
      PROVE  s[i] \in Elements(Tail(s))
  <2>1. i - 1 \in 1 .. (Len(s) - 1) /\ Tail(s)[i - 1] = s[i]
    BY <1>1, <1>2, <1>6
  <2> QED
    BY <1>2, <2>1 DEF Elements
<1> QED
  BY <1>1, <1>3, <1>4, <1>5, <1>6 DEF Elements

\* One reply to one caller: the others hear nothing.
LEMMA PostedReply ==
    ASSUME posted \in [CallNonces -> Seq(Method)], NEW c \in Call, NEW m \in Method,
           posted' = Posted(c, m)
    PROVE  /\ \A n \in CallNonces : n # c.nonce => posted'[n] = posted[n]
           /\ Alive(c.source) => posted'[c.nonce] = Append(posted[c.nonce], m)
           /\ ~Alive(c.source) => posted' = posted
BY DEF Posted, Call
\* What a handler does with a call once its module is known: refuse it or open
\* a query for it.
Handed(c) ==
    \/ posted' = Posted(c, "response") /\ UNCHANGED <<queriesNonce, queries, given>>
    \/ \E w \in Worker : PostQuery(c, w)

\* An untouched call that leaves its queue is answered or becomes an open query.
LEMMA HandedStep ==
    ASSUME TypeOK, TypeOK', NonceInv, PlaceInv, ReplyOrder, ToldInv,
           NEW c \in Call,
           calls' = calls \cup {c},
           \A b \in calls : b.nonce = c.nonce => b = c,
           posted[c.nonce] = <<>>,
           \A g \in given : g.call # c,
           \A b \in calls' : Alive(b.source)' <=> Alive(b.source),
           \A b \in calls' : InQueue(b)' <=> InQueue(b) /\ b # c,
           Handed(c)
    PROVE  NonceInv' /\ PlaceInv' /\ ReplyOrder' /\ ToldInv'
<1> USE DEF TypeOK
<1>0. c.nonce \in CallNonces /\ calls \subseteq Call /\ c \in calls'
  BY DEF Call
<1>1. \A b \in calls : b.nonce \in CallNonces /\ (b # c => b.nonce # c.nonce)
  BY DEF Call
<1>2. Used' = Used \cup {c.nonce}
  BY DEF Used
<1>3. \A g \in given : g \in OpenQuery /\ g.nonce \in Nat /\ g.call \in calls
  BY DEF NonceInv, OpenQuery
<1>4. CASE posted' = Posted(c, "response") /\ UNCHANGED <<queriesNonce, queries, given>>
  <2>1. /\ \A n \in CallNonces : n # c.nonce => posted'[n] = posted[n]
        /\ Alive(c.source) => posted'[c.nonce] = <<"response">>
        /\ ~Alive(c.source) => posted' = posted
    BY <1>4, PostedReply DEF Method
  <2>2. NonceInv'
    BY <1>0, <1>1, <1>2, <1>4, <2>1 DEF NonceInv
  <2>3. ReplyOrder'
    <3> SUFFICES ASSUME NEW n \in CallNonces, NEW i \in DOMAIN posted'[n]
                 PROVE  /\ posted'[n][i] = "response" => i = Len(posted'[n])
                        /\ posted'[n][i] = "responseNonce" => i = 1
      BY DEF ReplyOrder
    <3>1. CASE posted'[n] = posted[n]
      BY <3>1 DEF ReplyOrder
    <3>2. CASE posted'[n] = <<"response">>
      BY <3>2
    <3> QED
      BY <1>0, <2>1, <3>1, <3>2
  <2>4. ToldInv'
    BY <1>0, <1>1, <1>3, <1>4, <2>1 DEF ToldInv
  <2>5. \A b \in calls' : b # c => posted'[b.nonce] = posted[b.nonce]
    BY <1>0, <1>1, <2>1
  <2>6. \A b \in calls' : InQueue(b)' => posted'[b.nonce] = <<>> /\ \A g \in given' : g.call # b
    BY <1>4, <2>5 DEF PlaceInv
  <2>7. \A q \in queries' : q.call \in calls /\ q.call # c /\ ~Answered(q.call)'
    BY <1>3, <1>4, <2>5 DEF PlaceInv, NonceInv, Answered
  <2>8. CallsAccounted'
    <3>1. \A b \in calls' : Opened(b)' <=> Opened(b)
      BY <1>4 DEF Opened
    <3>2. \A b \in calls' : Pending(b)' <=> InQueue(b)' \/ Opened(b)'
      BY DEF Pending, InQueue
    <3>3. \A b \in calls : Alive(b.source) => (Answered(b) <=> ~(InQueue(b) \/ Opened(b)))
      BY DEF PlaceInv, CallsAccounted, Pending, InQueue
    <3>4. \A b \in calls' : b # c => (Answered(b)' <=> Answered(b))
      BY <2>5 DEF Answered
    <3>5. Alive(c.source) => Answered(c)'
      <4>1. ASSUME NEW s, s = <<"response">> PROVE "response" \in Elements(s)
        <5>1. 1 \in DOMAIN s /\ s[1] = "response"
          BY <4>1
        <5> QED
          BY <5>1 DEF Elements
      <4> QED
        BY <2>1, <4>1 DEF Answered
    <3>6. ~InQueue(c)' /\ ~Opened(c)'
      BY <1>0, <3>1 , <2>7, <1>4 DEF Opened
    <3> QED
      BY <1>0, <3>1, <3>2, <3>3, <3>4, <3>5, <3>6 DEF CallsAccounted
  <2> QED
    BY <2>2, <2>3, <2>4, <2>6, <2>7, <2>8 DEF PlaceInv
<1>5. ASSUME NEW w \in Worker, PostQuery(c, w)
      PROVE  NonceInv' /\ PlaceInv' /\ ReplyOrder' /\ ToldInv'
  <2> DEFINE q == [nonce |-> queriesNonce, dest |-> w, call |-> c]
  <2>1. /\ queriesNonce' = queriesNonce + 1
        /\ queries' = queries \cup {q}
        /\ given' = given \cup {q}
        /\ posted' = IF c.sendKernelNonce THEN Posted(c, "responseNonce") ELSE posted
    BY <1>5 DEF PostQuery
  <2>2. q.nonce = queriesNonce /\ q.call = c
    OBVIOUS
  <2> HIDE DEF q
  <2>3. /\ \A n \in CallNonces : n # c.nonce => posted'[n] = posted[n]
        /\ c.sendKernelNonce /\ Alive(c.source) => posted'[c.nonce] = <<"responseNonce">>
        /\ ~(c.sendKernelNonce /\ Alive(c.source)) => posted' = posted
    BY <2>1, PostedReply DEF Method
  <2>4. NonceInv'
    <3>1. \A b, d \in calls' : b.nonce = d.nonce => b = d
      BY <1>1 DEF NonceInv
    <3>2. \A n \in CallNonces \ Used' : posted'[n] = <<>>
      BY <1>2, <2>3 DEF NonceInv
    <3>3. \A g \in given' : g.nonce < queriesNonce' /\ g.call \in calls'
      BY <1>0, <1>3, <2>1, <2>2 DEF NonceInv
    <3>4. \A g, h \in given' : g.nonce = h.nonce \/ g.call = h.call => g = h
      BY <1>3, <2>1, <2>2 DEF NonceInv
    <3> QED
      BY <2>1, <3>1, <3>2, <3>3, <3>4 DEF NonceInv
  <2>5. ReplyOrder'
    <3> SUFFICES ASSUME NEW n \in CallNonces, NEW i \in DOMAIN posted'[n]
                 PROVE  /\ posted'[n][i] = "response" => i = Len(posted'[n])
                        /\ posted'[n][i] = "responseNonce" => i = 1
      BY DEF ReplyOrder
    <3>1. CASE posted'[n] = posted[n]
      BY <3>1 DEF ReplyOrder
    <3>2. CASE posted'[n] = <<"responseNonce">>
      BY <3>2
    <3> QED
      BY <1>0, <2>3, <3>1, <3>2
  <2>6. \A b \in calls' : b # c => posted'[b.nonce] = posted[b.nonce]
    BY <1>0, <1>1, <2>3
  <2>7. ToldInv'
    <3>1. \A g \in given : Alive(g.call.source)' <=> Alive(g.call.source)
      BY <1>3
    <3>2. \A g \in given : posted'[g.call.nonce] = posted[g.call.nonce]
      BY <1>3, <2>6
    <3>3. c.sendKernelNonce /\ Alive(c.source)' => posted'[c.nonce] = <<"responseNonce">>
      BY <1>0, <2>3
    <3> SUFFICES ASSUME NEW g \in given', g.call.sendKernelNonce, Alive(g.call.source)'
                 PROVE  posted'[g.call.nonce] # <<>> /\ posted'[g.call.nonce][1] = "responseNonce"
      BY DEF ToldInv
    <3>4. CASE g \in given
      BY <3>1, <3>2, <3>4 DEF ToldInv
    <3>5. CASE g = q
      <4>1. posted'[g.call.nonce] = <<"responseNonce">>
        BY <2>2, <3>3, <3>5
      <4> QED
        BY <4>1
    <3> QED
      BY <2>1, <3>4, <3>5
  <2>8. \A b \in calls' : InQueue(b)' => posted'[b.nonce] = <<>> /\ \A g \in given' : g.call # b
    BY <2>1, <2>2, <2>6 DEF PlaceInv
  <2>9. ~Answered(c)'
    BY <1>0, <2>3 DEF Answered, Elements
  <2>10. \A p \in queries' : ~Answered(p.call)'
    BY <1>3, <2>1, <2>2, <2>6, <2>9 DEF PlaceInv, NonceInv, Answered
  <2>11. CallsAccounted'
    <3>1. \A b \in calls' : Opened(b)' <=> Opened(b) \/ b = c
      BY <2>1, <2>2 DEF Opened
    <3>2. \A b \in calls' : Pending(b)' <=> InQueue(b)' \/ Opened(b)'
      BY DEF Pending, InQueue
    <3>3. \A b \in calls : Alive(b.source) => (Answered(b) <=> ~(InQueue(b) \/ Opened(b)))
      BY DEF PlaceInv, CallsAccounted, Pending, InQueue
    <3>4. \A b \in calls' : b # c => (Answered(b)' <=> Answered(b))
      BY <2>6 DEF Answered
    <3> QED
      BY <2>9, <3>1, <3>2, <3>3, <3>4 DEF CallsAccounted
  <2> QED
    BY <2>4, <2>5, <2>7, <2>8, <2>10, <2>11 DEF PlaceInv
<1> QED
  BY <1>4, <1>5 DEF Handed
\* Launching a worker revives no caller.
LEMMA LaunchSource ==
    ASSUME TypeOK, SourceInv, NEW c \in Call,
           calls' = calls \cup {c},
           c.source \in Pages \/ c.source.id <= nextWorker,
           \/ UNCHANGED <<nextWorker, live>>
           \/ \E d \in Domains : LaunchWorker(d)
    PROVE  /\ SourceInv'
           /\ \A b \in calls' : Alive(b.source)' <=> Alive(b.source)
<1>1. CASE UNCHANGED <<nextWorker, live>>
  BY <1>1 DEF SourceInv, Alive
<1>2. ASSUME NEW d \in Domains, LaunchWorker(d)
      PROVE  /\ SourceInv'
             /\ \A b \in calls' : Alive(b.source)' <=> Alive(b.source)
  <2>1. /\ nextWorker' = nextWorker + 1
        /\ live' = live \cup {NewWorker(d)}
        /\ NewWorker(d).id = nextWorker + 1
        /\ nextWorker \in Nat
    BY <1>2 DEF LaunchWorker, NewWorker, TypeOK
  <2>2. \A w \in live : w.id \in Nat /\ w.id <= nextWorker
    BY DEF SourceInv, TypeOK, Worker
  <2>3. \A b \in calls' : b.source \in Pages \/ (b.source.id \in Nat /\ b.source.id <= nextWorker)
    BY DEF SourceInv, TypeOK, Call, Source, Worker
  <2>4. \A b \in calls' : b.source \in Pages \/ b.source # NewWorker(d)
    BY <2>1, <2>3
  <2>5. SourceInv'
    BY <2>1, <2>2, <2>3 DEF SourceInv
  <2> QED
    BY <2>1, <2>4, <2>5 DEF Alive
<1> QED
  BY <1>1, <1>2

\* newModuleQuery hands the call over and launches at most one worker.
LEMMA NewModuleQueryHands ==
    ASSUME TypeOK, NEW c \in Call, NewModuleQuery(c),
           c.module \in Persistent => modWorker[c.module] \in Worker
    PROVE  /\ Handed(c)
           /\ \/ UNCHANGED <<nextWorker, live>>
              \/ \E d \in Domains : LaunchWorker(d)
<1>1. c.module \in Domains
  BY DEF Call
<1>2. NewWorker(c.module) \in Worker
  BY <1>1, NewWorkerType
<1> QED
  BY <1>1, <1>2 DEF NewModuleQuery, Handed, RespondErr

\* A call that has just been made is untouched and in no queue.
LEMMA NewCallFresh ==
    ASSUME TypeOK, CallInv, NEW c \in Call, NewCall(c)
    PROVE  /\ \A b \in calls : b.nonce = c.nonce => b = c
           /\ c \notin calls
           /\ posted[c.nonce] = <<>>
           /\ \A g \in given : g.call # c
           /\ \A d \in Domains : c \notin Elements(modulesLoading[d])
           /\ c \notin Elements(settled.waiters)
           /\ c.source \in Pages \/ c.source.id <= nextWorker
           /\ calls' = calls \cup {c}
<1>1. c.nonce \in CallNonces \ Used
  BY DEF NewCall, Call
<1>2. c \notin calls /\ \A b \in calls : b.nonce # c.nonce
  BY <1>1 DEF Used
<1>3. c.source \in Pages \/ c.source.id <= nextWorker
  BY DEF NewCall, Alive, CallInv, SourceInv
<1> QED
  BY <1>1, <1>2, <1>3 DEF NewCall, CallInv, NonceInv, QueueInv

\* A call handed over on arrival leaves the queues alone.
LEMMA ArrivalStep ==
    ASSUME TypeOK, TypeOK', CallInv, NEW c \in Call, NewCall(c), Handed(c),
           \/ UNCHANGED <<nextWorker, live>>
           \/ \E d \in Domains : LaunchWorker(d),
           UNCHANGED <<modulesLoading, settled>>
    PROVE  CallInv'
<1>1. /\ \A b \in calls : b.nonce = c.nonce => b = c
      /\ posted[c.nonce] = <<>>
      /\ \A g \in given : g.call # c
      /\ \A d \in Domains : c \notin Elements(modulesLoading[d])
      /\ c \notin Elements(settled.waiters)
      /\ c.source \in Pages \/ c.source.id <= nextWorker
      /\ calls' = calls \cup {c}
  BY NewCallFresh
<1>2. SourceInv' /\ \A b \in calls' : Alive(b.source)' <=> Alive(b.source)
  BY <1>1, LaunchSource DEF CallInv
<1>3. c.module \in Domains
  BY DEF Call
<1>4. \A b \in calls' : InQueue(b)' <=> InQueue(b) /\ b # c
  BY <1>1, <1>3 DEF InQueue
<1>5. NonceInv' /\ PlaceInv' /\ ReplyOrder' /\ ToldInv'
  BY <1>1, <1>2, <1>4, HandedStep DEF CallInv
<1>6. QueueInv'
  BY <1>1 DEF CallInv, QueueInv
<1> QED
  BY <1>2, <1>5, <1>6 DEF CallInv

LEMMA RefusedCall ==
    ASSUME TypeOK, LoadInv, CallInv, NEW c \in Call, ModuleCallRefused(c)
    PROVE  CallInv'
<1>1. TypeOK'
  BY RefusedStep
<1>2. Handed(c) /\ UNCHANGED <<nextWorker, live>> /\ NewCall(c) /\ UNCHANGED <<modulesLoading, settled>>
  BY DEF ModuleCallRefused, RespondErr, Handed
<1> QED
  BY <1>1, <1>2, ArrivalStep

LEMMA LoadedCall ==
    ASSUME TypeOK, LoadInv, CallInv, NEW c \in Call, ModuleCallLoaded(c)
    PROVE  CallInv'
<1>1. TypeOK'
  BY LoadedStep
<1>2. NewModuleQuery(c) /\ NewCall(c) /\ UNCHANGED <<modulesLoading, settled>>
  BY DEF ModuleCallLoaded
<1>3. c.module \in Persistent => modWorker[c.module] \in Worker
  BY DEF ModuleCallLoaded, LoadInv, TypeOK
<1> QED
  BY <1>1, <1>2, <1>3, NewModuleQueryHands, ArrivalStep

LEMMA MustLoadCall ==
    ASSUME TypeOK, LoadInv, CallInv, NEW c \in Call, ModuleCallMustLoad(c)
    PROVE  CallInv'
<1> USE DEF CallInv
<1>1. TypeOK' /\ c.module \in Domains
  BY MustLoadStep DEF Call
<1>2. /\ \A b \in calls : b.nonce = c.nonce => b = c
      /\ c \notin calls
      /\ posted[c.nonce] = <<>>
      /\ \A g \in given : g.call # c
      /\ \A d \in Domains : c \notin Elements(modulesLoading[d])
      /\ c \notin Elements(settled.waiters)
      /\ c.source \in Pages \/ c.source.id <= nextWorker
      /\ calls' = calls \cup {c}
  BY NewCallFresh DEF ModuleCallMustLoad
<1>3. UNCHANGED <<queriesNonce, queries, settled, nextWorker, live, posted, given>>
  BY DEF ModuleCallMustLoad
<1>4. modulesLoading' = [modulesLoading EXCEPT ![c.module] = Append(@, c)]
  BY DEF ModuleCallMustLoad
<1>5. SourceInv' /\ \A b \in calls' : Alive(b.source)' <=> Alive(b.source)
  BY <1>2, <1>3, LaunchSource
<1>6. /\ Elements(modulesLoading'[c.module]) = Elements(modulesLoading[c.module]) \cup {c}
      /\ Distinct(modulesLoading'[c.module])
      /\ \A d \in Domains \ {c.module} : modulesLoading'[d] = modulesLoading[d]
  <2>1. modulesLoading[c.module] \in Seq(Call) /\ Distinct(modulesLoading[c.module])
    BY <1>1 DEF TypeOK, QueueInv
  <2>2. modulesLoading'[c.module] = Append(modulesLoading[c.module], c)
    BY <1>1, <1>4 DEF TypeOK
  <2> QED
    BY <1>1, <1>2, <1>4, <2>1, <2>2, AppendElements DEF TypeOK
<1>7. QueueInv'
  BY <1>1, <1>2, <1>3, <1>6 DEF QueueInv
<1>8. Used' = Used \cup {c.nonce} /\ c.nonce \in CallNonces
  BY <1>2 DEF Used, Call
<1>9. NonceInv'
  BY <1>2, <1>3, <1>8 DEF NonceInv
<1>10. \A b \in calls' : b.module \in Domains
  BY <1>1 DEF TypeOK, Call
<1>11. \A b \in calls' : InQueue(b)' <=> InQueue(b) \/ b = c
  BY <1>1, <1>3, <1>6, <1>10 DEF InQueue
<1>12. PlaceInv'
  <2>1. \A q \in queries : ~Answered(q.call)'
    BY <1>3 DEF PlaceInv, Answered
  <2>2. \A b \in calls' : (Opened(b)' <=> Opened(b)) /\ (Answered(b)' <=> Answered(b))
    BY <1>3 DEF Opened, Answered
  <2>3. ~Answered(c) /\ ~Opened(c)
    BY <1>2 DEF Answered, Elements, Opened, NonceInv
  <2>4. \A b \in calls' : Pending(b)' <=> InQueue(b)' \/ Opened(b)'
    BY DEF Pending, InQueue
  <2>5. \A b \in calls : Alive(b.source) => (Answered(b) <=> ~(InQueue(b) \/ Opened(b)))
    BY DEF PlaceInv, CallsAccounted, Pending, InQueue
  <2>6. CallsAccounted'
    BY <1>2, <1>5, <1>11, <2>2, <2>3, <2>4, <2>5 DEF CallsAccounted
  <2>7. \A b \in calls' : InQueue(b)' => posted'[b.nonce] = <<>> /\ \A g \in given' : g.call # b
    BY <1>2, <1>3, <1>11 DEF PlaceInv
  <2> QED
    BY <1>3, <2>1, <2>6, <2>7 DEF PlaceInv
<1>13. ReplyOrder' /\ ToldInv'
  <2>1. \A g \in given : g.call \in calls'
    BY <1>2 DEF NonceInv
  <2> QED
    BY <1>3, <1>5, <2>1 DEF ReplyOrder, ToldInv
<1> QED
  BY <1>5, <1>7, <1>9, <1>12, <1>13
\* A call taken from the head of a queue is untouched.
LEMMA DepartureStep ==
    ASSUME TypeOK, TypeOK', CallInv, NEW c \in Call,
           c \in calls, InQueue(c),
           UNCHANGED calls,
           Handed(c),
           \/ UNCHANGED <<nextWorker, live>>
           \/ \E d \in Domains : LaunchWorker(d),
           QueueInv',
           \A b \in calls : InQueue(b)' <=> InQueue(b) /\ b # c
    PROVE  CallInv'
<1>1. /\ calls' = calls \cup {c}
      /\ \A b \in calls : b.nonce = c.nonce => b = c
      /\ posted[c.nonce] = <<>>
      /\ \A g \in given : g.call # c
      /\ c.source \in Pages \/ c.source.id <= nextWorker
  BY DEF CallInv, NonceInv, PlaceInv, SourceInv
<1>2. SourceInv' /\ \A b \in calls' : Alive(b.source)' <=> Alive(b.source)
  BY <1>1, LaunchSource DEF CallInv
<1>3. NonceInv' /\ PlaceInv' /\ ReplyOrder' /\ ToldInv'
  BY <1>1, <1>2, HandedStep DEF CallInv
<1> QED
  BY <1>2, <1>3 DEF CallInv

\* Resolving the load of d turns the loader's call loose and queues the others.
LEMMA ResolveQueues ==
    ASSUME TypeOK, LoadInv, CallInv, NEW d \in Domains, NEW ok \in BOOLEAN,
           Loading(d), Resolve(d, ok), StopLoading(d), UNCHANGED calls
    PROVE  /\ Loader(d) \in calls
           /\ InQueue(Loader(d))
           /\ QueueInv'
           /\ \A b \in calls : InQueue(b)' <=> InQueue(b) /\ b # Loader(d)
<1> DEFINE s == modulesLoading[d]
<1>1. s \in Seq(Call) /\ s # <<>> /\ Distinct(s) /\ Elements(s) \subseteq calls
  BY DEF Loading, TypeOK, CallInv, QueueInv
<1>2. /\ Elements(Tail(s)) = Elements(s) \ {Head(s)}
      /\ Head(s) \in Elements(s)
      /\ Distinct(Tail(s))
  BY <1>1, HeadTailElements
<1>3. settled.waiters = <<>> /\ Elements(settled.waiters) = {}
  BY DEF Loading, NoMicrotask, Elements
<1>4. /\ settled'.waiters = Tail(s)
      /\ modulesLoading'[d] = <<>>
      /\ \A e \in Domains \ {d} : modulesLoading'[e] = modulesLoading[e]
  BY DEF Resolve, StopLoading, TypeOK
<1>5. Elements(modulesLoading'[d]) = {} /\ Distinct(modulesLoading'[d])
  BY <1>4 DEF Elements, Distinct
<1>6. \A e \in Domains : \A b \in Elements(modulesLoading[e]) : b.module = e
  BY DEF LoadInv, Elements
<1>7. Loader(d) = Head(s) /\ Loader(d) \in calls /\ InQueue(Loader(d))
  BY <1>1, <1>2, <1>6 DEF Loader, InQueue
<1>8. QueueInv'
  <2>1. \A e \in Domains : Distinct(modulesLoading'[e]) /\ Elements(modulesLoading'[e]) \subseteq calls
    BY <1>4, <1>5 DEF CallInv, QueueInv
  <2>2. Distinct(settled'.waiters) /\ Elements(settled'.waiters) \subseteq calls
    BY <1>1, <1>2, <1>4
  <2>3. \A e \in Domains : Elements(modulesLoading'[e]) \cap Elements(settled'.waiters) = {}
    BY <1>2, <1>4, <1>5, <1>6
  <2> QED
    BY <2>1, <2>2, <2>3 DEF QueueInv, Elements, Distinct
<1>9. \A b \in calls : InQueue(b)' <=> InQueue(b) /\ b # Loader(d)
  <2> SUFFICES ASSUME NEW b \in calls
               PROVE  InQueue(b)' <=> InQueue(b) /\ b # Loader(d)
    OBVIOUS
  <2>1. b.module \in Domains
    BY DEF TypeOK, Call
  <2>2. InQueue(b)' <=> \/ b \in Elements(modulesLoading'[b.module])
                        \/ b \in Elements(settled'.waiters)
    BY DEF InQueue, Elements
  <2>3. CASE b.module = d
    BY <1>2, <1>3, <1>4, <1>5, <1>7, <2>2, <2>3 DEF InQueue
  <2>4. CASE b.module # d
    BY <1>1, <1>2, <1>3, <1>4, <1>6, <1>7, <2>1, <2>2, <2>4 DEF InQueue
  <2> QED
    BY <2>3, <2>4
<1> QED
  BY <1>7, <1>8, <1>9

LEMMA LoadFailsCall ==
    ASSUME TypeOK, LoadInv, CallInv, NEW d \in Domains, Loading(d), LoadFails(d)
    PROVE  CallInv'
<1>1. TypeOK' /\ Loader(d) \in Call
  BY LoadFailsStep, LoaderType
<1>2. Handed(Loader(d)) /\ UNCHANGED <<nextWorker, live, calls>>
  BY DEF LoadFails, RespondErr, Handed
<1>3. /\ Loader(d) \in calls
      /\ InQueue(Loader(d))
      /\ QueueInv'
      /\ \A b \in calls : InQueue(b)' <=> InQueue(b) /\ b # Loader(d)
  BY <1>2, ResolveQueues DEF LoadFails
<1> QED
  BY <1>1, <1>2, <1>3, DepartureStep

LEMMA SucceedsCall ==
    ASSUME TypeOK, LoadInv, CallInv, NEW d \in Domains, DownloadSucceeds(d)
    PROVE  CallInv'
<1>1. /\ TypeOK'
      /\ Loading(d)
      /\ Loader(d) \in Call
      /\ Loader(d).module = d
      /\ d \notin modules
  BY SucceedsStep, LoaderType DEF DownloadSucceeds
<1>2. InstallModule(d) /\ Resolve(d, TRUE) /\ UNCHANGED calls
  BY <1>1 DEF DownloadSucceeds
<1>3. /\ Loader(d) \in calls
      /\ InQueue(Loader(d))
      /\ QueueInv'
      /\ \A b \in calls : InQueue(b)' <=> InQueue(b) /\ b # Loader(d)
  BY <1>1, <1>2, ResolveQueues DEF InstallModule
<1>4. /\ Handed(Loader(d))
      /\ \/ UNCHANGED <<nextWorker, live>>
         \/ \E e \in Domains : LaunchWorker(e)
  <2>1. CASE d \in Persistent
    <3>1. LaunchWorker(d) /\ PostQuery(Loader(d), NewWorker(d)) /\ NewWorker(d) \in Worker
      BY <1>2, <2>1, NewWorkerType DEF InstallModule
    <3> QED
      BY <3>1 DEF Handed
  <2>2. CASE d \notin Persistent
    <3>1. NewModuleQuery(Loader(d))
      BY <1>2, <2>2 DEF InstallModule
    <3> QED
      BY <1>1, <2>2, <3>1, NewModuleQueryHands
  <2> QED
    BY <2>1, <2>2
<1> QED
  BY <1>1, <1>2, <1>3, <1>4, DepartureStep

LEMMA WaiterCall ==
    ASSUME TypeOK, LoadInv, CallInv, RunWaiter
    PROVE  CallInv'
<1> DEFINE s == settled.waiters
           c == Head(settled.waiters)
<1>1. s \in Seq(Call) /\ s # <<>> /\ Distinct(s) /\ Elements(s) \subseteq calls
  BY DEF RunWaiter, NoMicrotask, TypeOK, CallInv, QueueInv
<1>2. /\ Elements(Tail(s)) = Elements(s) \ {c}
      /\ c \in Elements(s)
      /\ Distinct(Tail(s))
  BY <1>1, HeadTailElements
<1>3. c \in Call /\ c \in calls /\ TypeOK' /\ (settled.loaded => c.module \in modules)
  BY <1>1, <1>2, WaiterType, WaiterStep DEF RunWaiter
<1>4. settled'.waiters = Tail(s) /\ UNCHANGED <<calls, modulesLoading>>
  BY DEF RunWaiter, TypeOK
<1>5. InQueue(c)
  BY <1>2 DEF InQueue
<1>6. \A d \in Domains : c \notin Elements(modulesLoading[d])
  BY <1>2 DEF CallInv, QueueInv
<1>7. QueueInv'
  BY <1>1, <1>2, <1>4 DEF CallInv, QueueInv
<1>8. \A b \in calls : InQueue(b)' <=> InQueue(b) /\ b # c
  <2>1. \A b \in calls : b.module \in Domains
    BY DEF TypeOK, Call
  <2> QED
    BY <1>2, <1>4, <1>6, <2>1 DEF InQueue
<1>9. /\ Handed(c)
      /\ \/ UNCHANGED <<nextWorker, live>>
         \/ \E d \in Domains : LaunchWorker(d)
  <2>1. CASE settled.loaded
    <3>1. NewModuleQuery(c)
      BY <2>1 DEF RunWaiter
    <3>2. c.module \in Persistent => modWorker[c.module] \in Worker
      BY <1>3, <2>1 DEF LoadInv, TypeOK
    <3> QED
      BY <1>3, <3>1, <3>2, NewModuleQueryHands
  <2>2. CASE ~settled.loaded
    BY <2>2 DEF RunWaiter, RespondErr, Handed
  <2> QED
    BY <2>1, <2>2
<1> HIDE DEF c
<1> QED
  BY <1>3, <1>4, <1>5, <1>7, <1>8, <1>9, DepartureStep
\* A message to the caller of an unanswered call keeps the order of replies.
LEMMA AppendReply ==
    ASSUME posted \in [CallNonces -> Seq(Method)], ReplyOrder,
           NEW c \in Call, ~Answered(c),
           NEW m \in {"response", "responseUpdate"}, posted' = Posted(c, m)
    PROVE  /\ ReplyOrder'
           /\ \A n \in CallNonces : posted[n] # <<>> =>
                 posted'[n] # <<>> /\ posted'[n][1] = posted[n][1]
           /\ \A n \in CallNonces : n # c.nonce => posted'[n] = posted[n]
           /\ Alive(c.source) => Elements(posted'[c.nonce]) = Elements(posted[c.nonce]) \cup {m}
           /\ ~Alive(c.source) => posted' = posted
<1> DEFINE s == posted[c.nonce]
<1>1. c.nonce \in CallNonces /\ s \in Seq(Method) /\ m \in Method
  BY DEF Call, Method
<1>2. /\ \A n \in CallNonces : n # c.nonce => posted'[n] = posted[n]
      /\ Alive(c.source) => posted'[c.nonce] = Append(s, m)
      /\ ~Alive(c.source) => posted' = posted
  BY <1>1, PostedReply
<1>3. /\ DOMAIN Append(s, m) = 1 .. (Len(s) + 1)
      /\ Len(Append(s, m)) = Len(s) + 1
      /\ Len(s) \in Nat /\ DOMAIN s = 1 .. Len(s)
      /\ \A i \in 1 .. Len(s) : Append(s, m)[i] = s[i]
      /\ Append(s, m)[Len(s) + 1] = m
  BY <1>1
<1>4. \A i \in DOMAIN s : s[i] # "response" /\ (s[i] = "responseNonce" => i = 1)
  BY <1>1 DEF Answered, Elements, ReplyOrder
<1>5. \A i \in DOMAIN Append(s, m) :
         /\ Append(s, m)[i] = "response" => i = Len(Append(s, m))
         /\ Append(s, m)[i] = "responseNonce" => i = 1
  <2> SUFFICES ASSUME NEW i \in 1 .. (Len(s) + 1)
               PROVE  /\ Append(s, m)[i] = "response" => i = Len(s) + 1
                      /\ Append(s, m)[i] = "responseNonce" => i = 1
    BY <1>3
  <2>1. CASE i \in 1 .. Len(s)
    BY <1>3, <1>4, <2>1
  <2>2. CASE i = Len(s) + 1
    BY <1>3, <2>2
  <2> QED
    BY <1>3, <2>1, <2>2
<1>6. ReplyOrder'
  <2> SUFFICES ASSUME NEW n \in CallNonces
               PROVE  \A i \in DOMAIN posted'[n] :
                        /\ posted'[n][i] = "response" => i = Len(posted'[n])
                        /\ posted'[n][i] = "responseNonce" => i = 1
    BY DEF ReplyOrder
  <2>1. CASE posted'[n] = posted[n]
    BY <2>1 DEF ReplyOrder
  <2>2. CASE posted'[n] = Append(s, m)
    BY <1>5, <2>2
  <2> QED
    BY <1>2, <2>1, <2>2
<1>7. Append(s, m) # <<>> /\ (s # <<>> => Append(s, m)[1] = s[1])
  <2>1. Append(s, m) # <<>>
    BY <1>1
  <2>2. CASE s # <<>>
    <3>1. Len(s) \in Nat \ {0}
      BY <1>1, <2>2
    <3> QED
      BY <1>3, <2>1, <3>1
  <2> QED
    BY <2>1, <2>2
<1>8. Elements(Append(s, m)) = Elements(s) \cup {m}
  BY <1>1, <1>3 DEF Elements
<1> HIDE DEF s
<1> QED
  BY <1>1, <1>2, <1>6, <1>7, <1>8 DEF s

\* A kernel nonce names at most one open query.
LEMMA OpenUnique ==
    ASSUME NonceInv, NEW n, NEW q \in Open(n)
    PROVE  Open(n) = {q} /\ q \in queries /\ q \in given
BY DEF NonceInv, Open

\* Terminating workers revives no caller.
LEMMA ShrinkSource ==
    ASSUME SourceInv, UNCHANGED <<calls, nextWorker>>, live' \subseteq live
    PROVE  SourceInv' /\ \A b \in calls : Alive(b.source)' => Alive(b.source)
BY DEF SourceInv, Alive

LEMMA ResponseCall ==
    ASSUME TypeOK, CallInv, NEW g \in given, NEW shape \in Shapes, WorkerResponse(g, shape)
    PROVE  CallInv'
<1> USE DEF CallInv
<1>1. UNCHANGED <<calls, queriesNonce, modulesLoading, settled, nextWorker, given>>
      /\ live' \subseteq live
  BY DEF WorkerResponse
<1>2. SourceInv' /\ \A b \in calls : Alive(b.source)' => Alive(b.source)
  BY <1>1, ShrinkSource
<1>3. QueueInv' /\ (\A b \in calls : InQueue(b)' <=> InQueue(b)) /\ Used' = Used
  BY <1>1 DEF QueueInv, InQueue, Used
<1>4. CASE UNCHANGED <<queries, posted>>
  <2>1. NonceInv' /\ ReplyOrder' /\ ToldInv'
    BY <1>1, <1>2, <1>3, <1>4 DEF NonceInv, ReplyOrder, ToldInv
  <2>2. \A b : (Opened(b)' <=> Opened(b)) /\ (Answered(b)' <=> Answered(b))
    BY <1>4 DEF Opened, Answered
  <2>3. \A b \in calls : Pending(b)' <=> Pending(b)
    BY <1>3, <2>2 DEF Pending, InQueue
  <2>4. PlaceInv'
    BY <1>1, <1>2, <1>3, <1>4, <2>2, <2>3 DEF PlaceInv, CallsAccounted
  <2> QED
    BY <1>2, <1>3, <2>1, <2>4
<1>5. CASE shape = "wellFormed" /\ Open(g.nonce) # {}
  <2>1. /\ queries' = queries \ Open(g.nonce)
        /\ \E q \in Open(g.nonce) : posted' = Posted(q.call, "response")
    BY <1>5 DEF WorkerResponse, AnswerQuery, CloseQuery
  <2>2. PICK q \in Open(g.nonce) : posted' = Posted(q.call, "response")
    BY <2>1
  <2> DEFINE c == q.call
  <2>3. Open(g.nonce) = {q} /\ q \in queries /\ q \in given
    BY OpenUnique
  <2>4. c \in calls /\ c \in Call /\ ~Answered(c) /\ c.nonce \in CallNonces
    BY <2>3 DEF NonceInv, PlaceInv, TypeOK, Call
  <2>5. posted' = Posted(c, "response") /\ queries' = queries \ {q}
    BY <2>1, <2>2, <2>3
  <2> HIDE DEF c
  <2>6. /\ ReplyOrder'
        /\ \A n \in CallNonces : posted[n] # <<>> =>
              posted'[n] # <<>> /\ posted'[n][1] = posted[n][1]
        /\ \A n \in CallNonces : n # c.nonce => posted'[n] = posted[n]
        /\ Alive(c.source) => Elements(posted'[c.nonce]) = Elements(posted[c.nonce]) \cup {"response"}
    BY <2>4, <2>5, AppendReply DEF TypeOK
  <2>7. \A b \in calls : b.nonce \in CallNonces /\ (b # c => b.nonce # c.nonce)
    BY <2>4 DEF TypeOK, Call, NonceInv
  <2>8. NonceInv'
    <3>1. c.nonce \in Used
      BY <2>4 DEF Used
    <3> QED
      BY <1>1, <1>3, <2>5, <2>6, <3>1 DEF NonceInv
  <2>9. ToldInv'
    <3>1. \A h \in given : h.call \in calls /\ h.call.nonce \in CallNonces
      BY <2>7 DEF NonceInv
    <3> QED
      BY <1>1, <1>2, <2>6, <3>1 DEF ToldInv
  <2>10. \A b \in calls : b # c => (Answered(b)' <=> Answered(b))
    BY <2>6, <2>7 DEF Answered
  <2>11. \A p \in queries' : p.call # c /\ p.call \in calls
    BY <2>3, <2>5, <1>1 DEF NonceInv, c
  <2>12. \A b \in calls : b # c => (Opened(b)' <=> Opened(b))
    BY <2>5 DEF Opened, c
  <2>13. ~InQueue(c)
    BY <2>3, <2>4 DEF PlaceInv, c
  <2>14. Alive(c.source) => Answered(c)'
    BY <2>6 DEF Answered
  <2>15. ~Opened(c)'
    BY <2>11 DEF Opened
  <2>16. CallsAccounted'
    <3>1. \A b \in calls : Pending(b)' <=> InQueue(b)' \/ Opened(b)'
      BY DEF Pending, InQueue
    <3>2. \A b \in calls : Alive(b.source) => (Answered(b) <=> ~(InQueue(b) \/ Opened(b)))
      BY DEF PlaceInv, CallsAccounted, Pending, InQueue
    <3> QED
      BY <1>1, <1>2, <1>3, <2>10, <2>12, <2>13, <2>14, <2>15, <3>1, <3>2 DEF CallsAccounted
  <2>17. \A p \in queries' : ~Answered(p.call)'
    BY <2>5, <2>10, <2>11 DEF PlaceInv
  <2>18. \A b \in calls : InQueue(b) => posted'[b.nonce] = <<>>
    BY <2>6, <2>7, <2>13 DEF PlaceInv
  <2>19. PlaceInv'
    BY <1>1, <1>3, <2>16, <2>17, <2>18 DEF PlaceInv
  <2> QED
    BY <1>2, <1>3, <2>6, <2>8, <2>9, <2>19
<1> QED
  BY <1>4, <1>5 DEF WorkerResponse, AnswerQuery

LEMMA UpdateCall ==
    ASSUME TypeOK, CallInv, NEW g \in given, WorkerResponseUpdate(g)
    PROVE  CallInv'
<1> USE DEF CallInv
<1>1. UNCHANGED <<calls, queriesNonce, queries, modulesLoading, settled, nextWorker, live, given>>
  BY DEF WorkerResponseUpdate
<1>2. SourceInv' /\ QueueInv' /\ Used' = Used
      /\ \A b : /\ InQueue(b)' <=> InQueue(b)
                /\ Opened(b)' <=> Opened(b)
                /\ Alive(b.source)' <=> Alive(b.source)
  BY <1>1 DEF SourceInv, QueueInv, InQueue, Opened, Used, Alive
<1>3. CASE UNCHANGED posted
  <2>1. NonceInv' /\ ReplyOrder' /\ ToldInv'
    BY <1>1, <1>2, <1>3 DEF NonceInv, ReplyOrder, ToldInv
  <2>2. PlaceInv'
    BY <1>1, <1>2, <1>3 DEF PlaceInv, CallsAccounted, Pending, InQueue, Answered, Opened, Alive
  <2> QED
    BY <1>2, <2>1, <2>2
<1>4. ASSUME NEW q \in Open(g.nonce), posted' = Posted(q.call, "responseUpdate")
      PROVE  CallInv'
  <2> DEFINE c == q.call
  <2>1. q \in queries /\ q \in given
    BY OpenUnique
  <2>2. c \in calls /\ c \in Call /\ ~Answered(c) /\ c.nonce \in CallNonces /\ ~InQueue(c)
    BY <2>1 DEF NonceInv, PlaceInv, TypeOK, Call
  <2>3. posted' = Posted(c, "responseUpdate")
    BY <1>4
  <2> HIDE DEF c
  <2>4. /\ ReplyOrder'
        /\ \A n \in CallNonces : posted[n] # <<>> =>
              posted'[n] # <<>> /\ posted'[n][1] = posted[n][1]
        /\ \A n \in CallNonces : n # c.nonce => posted'[n] = posted[n]
        /\ Alive(c.source) => Elements(posted'[c.nonce]) = Elements(posted[c.nonce]) \cup {"responseUpdate"}
        /\ ~Alive(c.source) => posted' = posted
    BY <2>2, <2>3, AppendReply DEF TypeOK
  <2>5. \A b \in calls : b.nonce \in CallNonces /\ (b # c => b.nonce # c.nonce)
    BY <2>2 DEF TypeOK, Call, NonceInv
  <2>6. \A b \in calls : Answered(b)' <=> Answered(b)
    BY <2>4, <2>5 DEF Answered
  <2>7. NonceInv'
    <3>1. c.nonce \in Used
      BY <2>2 DEF Used
    <3> QED
      BY <1>1, <1>2, <2>4, <3>1 DEF NonceInv
  <2>8. ToldInv'
    <3>1. \A h \in given : h.call \in calls /\ h.call.nonce \in CallNonces
      BY <2>5 DEF NonceInv
    <3> QED
      BY <1>1, <1>2, <2>4, <3>1 DEF ToldInv
  <2>9. \A b \in calls : InQueue(b) => posted'[b.nonce] = <<>>
    BY <2>2, <2>4, <2>5 DEF PlaceInv
  <2>10. \A p \in queries : p.call \in calls
    BY DEF NonceInv
  <2>11. \A b \in calls : Pending(b)' <=> Pending(b)
    BY <1>1 DEF Pending, Opened
  <2>12. CallsAccounted'
    BY <1>1, <1>2, <2>6, <2>11 DEF PlaceInv, CallsAccounted
  <2>13. PlaceInv'
    BY <1>1, <1>2, <2>6, <2>9, <2>10, <2>12 DEF PlaceInv
  <2> QED
    BY <1>2, <2>4, <2>7, <2>8, <2>13
<1> QED
  BY <1>3, <1>4 DEF WorkerResponseUpdate, RelayUpdate
LEMMA CallNext == TypeOK /\ LoadInv /\ CallInv /\ [Next]_vars => CallInv'
<1> SUFFICES ASSUME TypeOK, LoadInv, CallInv, [Next]_vars PROVE CallInv'
  OBVIOUS
<1>1. CASE ModuleCall
  <2>1. PICK n \in CallNonces, s \in Pages \cup live, d \in Domains, k \in BOOLEAN :
            LET c == [nonce |-> n, source |-> s, module |-> d, sendKernelNonce |-> k]
            IN  ModuleCallRefused(c) \/ ModuleCallLoaded(c) \/ ModuleCallMustLoad(c)
    BY <1>1 DEF ModuleCall
  <2> DEFINE c == [nonce |-> n, source |-> s, module |-> d, sendKernelNonce |-> k]
  <2>2. c \in Call
    BY DEF TypeOK, Call, Source
  <2>3. ModuleCallRefused(c) \/ ModuleCallLoaded(c) \/ ModuleCallMustLoad(c)
    BY <2>1
  <2> HIDE DEF c
  <2> QED
    BY <2>2, <2>3, RefusedCall, LoadedCall, MustLoadCall
<1>2. CASE Load
  <2>1. PICK d \in Domains : \/ DownloadFails(d) \/ DownloadThrows(d)
                             \/ CreateModuleFails(d) \/ DownloadSucceeds(d)
    BY <1>2 DEF Load
  <2>2. CASE DownloadThrows(d)
    BY <2>2 DEF DownloadThrows, CallInv, SourceInv, NonceInv, Used, QueueInv, PlaceInv, ReplyOrder,
                ToldInv, CallsAccounted, InQueue, Pending, Opened, Answered, Alive
  <2> QED
    BY <2>1, <2>2, LoadFailsCall, SucceedsCall DEF DownloadFails, CreateModuleFails
<1>3. CASE RunWaiter
  BY <1>3, WaiterCall
<1>4. CASE Relay
  <2>1. PICK g \in given :
            \/ \E shape \in Shapes : WorkerResponse(g, shape)
            \/ WorkerResponseUpdate(g)
            \/ QueryUpdate(g)
    BY <1>4 DEF Relay
  <2>2. CASE QueryUpdate(g)
    BY <2>2 DEF QueryUpdate, CallInv, SourceInv, NonceInv, Used, QueueInv, PlaceInv, ReplyOrder,
                ToldInv, CallsAccounted, InQueue, Pending, Opened, Answered, Alive
  <2> QED
    BY <2>1, <2>2, ResponseCall, UpdateCall
<1>5. CASE UNCHANGED vars
  BY <1>5 DEF vars, CallInv, SourceInv, NonceInv, Used, QueueInv, PlaceInv, ReplyOrder,
              ToldInv, CallsAccounted, InQueue, Pending, Opened, Answered, Alive
<1> QED
  BY <1>1, <1>2, <1>3, <1>4, <1>5 DEF Next

LEMMA CallInvariant == Spec => []CallInv
<1> QED
  BY LoadInvariant, CallInit, CallNext, PTL DEF Spec

\* A caller hears at most one response per call and nothing after it, and the
\* kernel nonce, if it is sent, before anything else.
THEOREM RepliesInOrder == Spec => []ReplyOrder
<1>1. CallInv => ReplyOrder
  BY DEF CallInv
<1> QED
  BY <1>1, CallInvariant, PTL

\* No call is lost: while its caller exists it is answered, or waits for its
\* module, or is an open query.
THEOREM NoCallLost == Spec => []CallsAccounted
<1>1. CallInv => CallsAccounted
  BY DEF CallInv, PlaceInv
<1> QED
  BY <1>1, CallInvariant, PTL

----------------------------------------------------------------------------
(* Workers and their queries, and updates.                                 *)

\* An open query is served by a worker of its module that was launched, and
\* shares it only if the module is persistent.
DestInv ==
    /\ \A q \in queries : q.dest.module = q.call.module /\ q.dest.id <= nextWorker
    /\ \A p, q \in queries : p.dest = q.dest => p = q \/ p.dest.module \in Persistent

\* Who lives: the worker of a persistent module, or one with an open query.
LifeInv ==
    \A w \in live :
        IF w.module \in Persistent
        THEN w.module \in modules /\ modWorker[w.module] = w
        ELSE \E q \in queries : q.dest = w

\* A caller that asked for the kernel nonce has it before any update.
ToldFirst ==
    \A c \in calls :
        c.sendKernelNonce /\ "responseUpdate" \in Elements(posted[c.nonce])
            => posted[c.nonce][1] = "responseNonce"

UpdatesInv == \A u \in updated : \E g \in given : g.nonce = u.nonce /\ g.dest = u.dest

\* An open query has its worker, or was cut off from it by a malformed response;
\* the nonces of those that were are of the past.
ServedInv ==
    /\ \A q \in queries : q.dest \in live <=> q.nonce \notin broken
    /\ \A n \in broken : n < queriesNonce

WorkerInv == DestInv /\ LifeInv /\ ServedInv /\ ToldFirst /\ UpdatesInv

----------------------------------------------------------------------------
(* What a step says, and to whom.                                          *)

\* A reply to c that opens its query or refuses it, or none.
FirstReply(c) ==
    \/ posted' = posted
    \/ posted' = Posted(c, "responseNonce")
    \/ posted' = Posted(c, "response")

\* Nobody hears anything; or the caller of a new call does, or one that waited;
\* or one whose query is open.
SaysNothing == UNCHANGED <<calls, posted>>

Arrives(c) == NewCall(c) /\ FirstReply(c)

Departs(c) == c \in calls /\ UNCHANGED calls /\ InQueue(c) /\ FirstReply(c)

Relays(q) ==
    /\ UNCHANGED calls
    /\ posted' = Posted(q.call, "response") \/ posted' = Posted(q.call, "responseUpdate")

LEMMA HandedReplies ==
    ASSUME NEW c, Handed(c)
    PROVE  FirstReply(c)
BY DEF Handed, FirstReply, PostQuery

LEMMA StepKinds ==
    ASSUME TypeOK, LoadInv, CallInv, [Next]_vars
    PROVE  \/ SaysNothing
           \/ \E c \in Call : Arrives(c)
           \/ \E c \in Call : Departs(c)
           \/ \E q \in queries : Relays(q)
<1>1. CASE ModuleCall
  <2>1. PICK n \in CallNonces, s \in Pages \cup live, d \in Domains, k \in BOOLEAN :
            LET c == [nonce |-> n, source |-> s, module |-> d, sendKernelNonce |-> k]
            IN  ModuleCallRefused(c) \/ ModuleCallLoaded(c) \/ ModuleCallMustLoad(c)
    BY <1>1 DEF ModuleCall
  <2> DEFINE c == [nonce |-> n, source |-> s, module |-> d, sendKernelNonce |-> k]
  <2>2. c \in Call
    BY DEF TypeOK, Call, Source
  <2>3. ModuleCallRefused(c) \/ ModuleCallLoaded(c) \/ ModuleCallMustLoad(c)
    BY <2>1
  <2> HIDE DEF c
  <2>4. CASE ModuleCallRefused(c)
    BY <2>2, <2>4 DEF ModuleCallRefused, RespondErr, Arrives, FirstReply
  <2>5. CASE ModuleCallLoaded(c)
    <3>1. c.module \in Persistent => modWorker[c.module] \in Worker
      BY <2>5 DEF ModuleCallLoaded, LoadInv, TypeOK
    <3> QED
      BY <2>2, <2>5, <3>1, NewModuleQueryHands, HandedReplies DEF ModuleCallLoaded, Arrives
  <2>6. CASE ModuleCallMustLoad(c)
    BY <2>2, <2>6 DEF ModuleCallMustLoad, Arrives, FirstReply
  <2> QED
    BY <2>3, <2>4, <2>5, <2>6
<1>2. CASE Load
  <2>1. PICK d \in Domains : \/ DownloadFails(d) \/ DownloadThrows(d)
                             \/ CreateModuleFails(d) \/ DownloadSucceeds(d)
    BY <1>2 DEF Load
  <2>2. Loading(d)
    BY <2>1 DEF DownloadFails, DownloadThrows, CreateModuleFails, DownloadSucceeds
  <2>3. Loader(d) \in Call /\ Loader(d).module = d /\ d \notin modules
    BY <2>2, LoaderType
  <2>4. CASE LoadFails(d)
    <3>1. /\ Resolve(d, FALSE) /\ StopLoading(d) /\ UNCHANGED calls
          /\ posted' = Posted(Loader(d), "response")
      BY <2>4 DEF LoadFails, RespondErr
    <3>2. Loader(d) \in calls /\ InQueue(Loader(d))
      BY <2>2, <3>1, ResolveQueues
    <3> QED
      BY <2>3, <3>1, <3>2 DEF Departs, FirstReply
  <2>5. CASE DownloadSucceeds(d)
    <3>1. /\ Resolve(d, TRUE) /\ StopLoading(d) /\ UNCHANGED calls /\ InstallModule(d)
      BY <2>3, <2>5 DEF DownloadSucceeds, InstallModule
    <3>2. Loader(d) \in calls /\ InQueue(Loader(d))
      BY <2>2, <3>1, ResolveQueues
    <3>3. Handed(Loader(d))
      <4>1. CASE d \in Persistent
        BY <3>1, <4>1, NewWorkerType DEF InstallModule, Handed
      <4>2. CASE d \notin Persistent
        BY <2>3, <3>1, <4>2, NewModuleQueryHands DEF InstallModule
      <4> QED
        BY <4>1, <4>2
    <3> QED
      BY <2>3, <3>1, <3>2, <3>3, HandedReplies DEF Departs
  <2>6. CASE DownloadThrows(d)
    BY <2>6 DEF DownloadThrows, SaysNothing
  <2> QED
    BY <2>1, <2>4, <2>5, <2>6 DEF DownloadFails, CreateModuleFails
<1>3. CASE RunWaiter
  <2> DEFINE c == Head(settled.waiters)
  <2>1. c \in Call /\ (settled.loaded => c.module \in modules)
    BY <1>3, WaiterType DEF RunWaiter
  <2>2. settled.waiters \in Seq(Call) /\ settled.waiters # <<>>
    BY <1>3 DEF RunWaiter, NoMicrotask, TypeOK
  <2>3. c \in Elements(settled.waiters) /\ c \in calls
    BY <2>2, HeadTailElements DEF CallInv, QueueInv
  <2>4. UNCHANGED calls /\ IF settled.loaded THEN NewModuleQuery(c) ELSE RespondErr(c)
    BY <1>3 DEF RunWaiter
  <2> HIDE DEF c
  <2>5. Handed(c)
    <3>1. CASE settled.loaded
      <4>1. c.module \in Persistent => modWorker[c.module] \in Worker
        BY <2>1, <3>1 DEF LoadInv, TypeOK
      <4> QED
        BY <2>1, <2>4, <3>1, <4>1, NewModuleQueryHands
    <3>2. CASE ~settled.loaded
      BY <2>4, <3>2 DEF RespondErr, Handed
    <3> QED
      BY <3>1, <3>2
  <2> QED
    BY <2>1, <2>3, <2>4, <2>5, HandedReplies DEF Departs, InQueue
<1>4. CASE Relay
  <2>1. PICK g \in given :
            \/ \E shape \in Shapes : WorkerResponse(g, shape)
            \/ WorkerResponseUpdate(g)
            \/ QueryUpdate(g)
    BY <1>4 DEF Relay
  <2>2. \A q \in Open(g.nonce) : q \in queries
    BY DEF Open
  <2>3. ASSUME NEW shape \in Shapes, WorkerResponse(g, shape)
        PROVE  SaysNothing \/ \E q \in queries : Relays(q)
    BY <2>2, <2>3 DEF WorkerResponse, AnswerQuery, SaysNothing, Relays
  <2>4. CASE WorkerResponseUpdate(g)
    BY <2>2, <2>4 DEF WorkerResponseUpdate, RelayUpdate, SaysNothing, Relays
  <2>5. CASE QueryUpdate(g)
    BY <2>5 DEF QueryUpdate, SaysNothing
  <2> QED
    BY <2>1, <2>3, <2>4, <2>5
<1>5. CASE UNCHANGED vars
  BY <1>5 DEF vars, SaysNothing
<1> QED
  BY <1>1, <1>2, <1>3, <1>4, <1>5 DEF Next
----------------------------------------------------------------------------
(* Updates.                                                                *)

\* Nothing but an update comes between the first message and the end.
LEMMA ReplyFirst ==
    ASSUME TypeOK, NEW c \in Call, NEW m \in Method, posted' = Posted(c, m)
    PROVE  /\ \A n \in CallNonces : n # c.nonce => posted'[n] = posted[n]
           /\ posted[c.nonce] # <<>> => posted'[c.nonce][1] = posted[c.nonce][1]
           /\ "responseUpdate" \in Elements(posted'[c.nonce]) =>
                "responseUpdate" \in Elements(posted[c.nonce]) \/ (Alive(c.source) /\ m = "responseUpdate")
<1>1. c.nonce \in CallNonces /\ posted[c.nonce] \in Seq(Method)
  BY DEF Call, TypeOK
<1>2. /\ \A n \in CallNonces : n # c.nonce => posted'[n] = posted[n]
      /\ Alive(c.source) => posted'[c.nonce] = Append(posted[c.nonce], m)
      /\ ~Alive(c.source) => posted' = posted
  BY PostedReply DEF TypeOK
<1>3. /\ Elements(Append(posted[c.nonce], m)) = Elements(posted[c.nonce]) \cup {m}
      /\ posted[c.nonce] # <<>> => Append(posted[c.nonce], m)[1] = posted[c.nonce][1]
  <2> DEFINE s == posted[c.nonce]
  <2>1. s \in Seq(Method)
    BY <1>1
  <2>2. Elements(Append(s, m)) = Elements(s) \cup {m}
    BY <2>1, AppendElements
  <2>3. s # <<>> => Append(s, m)[1] = s[1]
    BY <2>1
  <2> QED
    BY <2>2, <2>3
<1> QED
  BY <1>2, <1>3

LEMMA ToldFirstStep ==
    ASSUME TypeOK, LoadInv, CallInv, CallInv', ToldFirst, [Next]_vars
    PROVE  ToldFirst'
<1>1. \A b \in calls : b \in Call /\ b.nonce \in CallNonces
  BY DEF TypeOK, Call
<1>2. CASE SaysNothing
  BY <1>2 DEF SaysNothing, ToldFirst
<1>3. ASSUME NEW c \in Call, FirstReply(c), posted[c.nonce] = <<>>, calls' \subseteq calls \cup {c}
      PROVE  ToldFirst'
  <2>1. /\ \A n \in CallNonces : n # c.nonce => posted'[n] = posted[n]
        /\ "responseUpdate" \notin Elements(posted'[c.nonce])
    <3>1. "responseUpdate" \notin Elements(posted[c.nonce])
      BY <1>3 DEF Elements
    <3>2. CASE posted' = posted
      BY <3>1, <3>2
    <3>3. CASE posted' = Posted(c, "responseNonce")
      BY <3>1, <3>3, ReplyFirst DEF Method
    <3>4. CASE posted' = Posted(c, "response")
      BY <3>1, <3>4, ReplyFirst DEF Method
    <3> QED
      BY <1>3, <3>2, <3>3, <3>4 DEF FirstReply
  <2> SUFFICES ASSUME NEW b \in calls', b.sendKernelNonce, "responseUpdate" \in Elements(posted'[b.nonce])
               PROVE  posted'[b.nonce][1] = "responseNonce"
    BY DEF ToldFirst
  <2>2. b.nonce # c.nonce /\ b \in calls
    BY <1>3, <2>1
  <2>3. posted'[b.nonce] = posted[b.nonce]
    BY <1>1, <2>1, <2>2
  <2> QED
    BY <2>2, <2>3 DEF ToldFirst
<1>4. ASSUME NEW c \in Call, Arrives(c) PROVE ToldFirst'
  <2>1. posted[c.nonce] = <<>> /\ calls' = calls \cup {c}
    BY <1>4, NewCallFresh DEF Arrives
  <2> QED
    BY <1>3, <1>4, <2>1 DEF Arrives
<1>5. ASSUME NEW c \in Call, Departs(c) PROVE ToldFirst'
  <2>1. posted[c.nonce] = <<>> /\ calls' = calls
    BY <1>5 DEF Departs, CallInv, PlaceInv
  <2> QED
    BY <1>3, <1>5, <2>1 DEF Departs
<1>6. ASSUME NEW q \in queries, Relays(q) PROVE ToldFirst'
  <2> DEFINE c == q.call
  <2>1. c \in calls /\ c \in Call /\ q \in given /\ c.nonce \in CallNonces
    BY <1>1 DEF CallInv, NonceInv
  <2>2. calls' = calls /\ (posted' = Posted(c, "response") \/ posted' = Posted(c, "responseUpdate"))
    BY <1>6 DEF Relays
  <2>3. c.sendKernelNonce /\ Alive(c.source) => posted[c.nonce] # <<>> /\ posted[c.nonce][1] = "responseNonce"
    BY <2>1 DEF CallInv, ToldInv
  <2> HIDE DEF c
  <2>4. /\ \A n \in CallNonces : n # c.nonce => posted'[n] = posted[n]
        /\ posted[c.nonce] # <<>> => posted'[c.nonce][1] = posted[c.nonce][1]
        /\ "responseUpdate" \in Elements(posted'[c.nonce]) =>
                "responseUpdate" \in Elements(posted[c.nonce]) \/ Alive(c.source)
    <3>1. CASE posted' = Posted(c, "response")
      BY <2>1, <3>1, ReplyFirst DEF Method
    <3>2. CASE posted' = Posted(c, "responseUpdate")
      BY <2>1, <3>2, ReplyFirst DEF Method
    <3> QED
      BY <2>2, <3>1, <3>2
  <2>5. ASSUME NEW b \in calls, b.sendKernelNonce, "responseUpdate" \in Elements(posted'[b.nonce])
        PROVE  posted'[b.nonce][1] = "responseNonce"
    <3>1. CASE b.nonce # c.nonce
      BY <1>1, <2>4, <2>5, <3>1 DEF ToldFirst
    <3>2. CASE b.nonce = c.nonce
      <4>1. b = c
        BY <2>1, <3>2 DEF CallInv, NonceInv
      <4>2. CASE "responseUpdate" \in Elements(posted[c.nonce])
        <5>1. posted[c.nonce] # <<>>
          BY <4>2 DEF Elements
        <5> QED
          BY <2>1, <2>4, <2>5, <4>1, <4>2, <5>1 DEF ToldFirst
      <4>3. CASE Alive(c.source)
        BY <2>3, <2>4, <2>5, <4>1, <4>3
      <4> QED
        BY <2>4, <2>5, <4>1, <4>2, <4>3
    <3> QED
      BY <3>1, <3>2
  <2> QED
    BY <2>2, <2>5 DEF ToldFirst
<1> QED
  BY <1>2, <1>4, <1>5, <1>6, StepKinds

LEMMA UpdatesStep ==
    ASSUME TypeOK, CallInv, UpdatesInv, [Next]_vars
    PROVE  UpdatesInv'
<1>1. ASSUME UNCHANGED updated, given \subseteq given' PROVE UpdatesInv'
  BY <1>1 DEF UpdatesInv
<1>2. \A c, w : PostQuery(c, w) => given \subseteq given'
  BY DEF PostQuery
<1>3. \A c : NewModuleQuery(c) \/ RespondErr(c) => given \subseteq given'
  BY <1>2 DEF NewModuleQuery, RespondErr
<1>4. ASSUME NEW g \in given, QueryUpdate(g) PROVE UpdatesInv'
  <2>1. given' = given /\ updated' = updated \cup {[nonce |-> q.nonce, dest |-> q.dest] : q \in Open(g.nonce)}
    BY <1>4 DEF QueryUpdate
  <2>2. \A q \in Open(g.nonce) : q \in given
    BY DEF Open, CallInv, NonceInv
  <2> QED
    BY <2>1, <2>2 DEF UpdatesInv
<1>5. CASE ModuleCall
  BY <1>1, <1>3, <1>5 DEF ModuleCall, ModuleCallRefused, ModuleCallLoaded, ModuleCallMustLoad
<1>6. CASE Load
  BY <1>1, <1>2, <1>3, <1>6 DEF Load, DownloadFails, DownloadThrows, CreateModuleFails, LoadFails,
                                    DownloadSucceeds, LoadRaced, InstallModule
<1>7. CASE RunWaiter
  BY <1>1, <1>3, <1>7 DEF RunWaiter
<1>8. CASE Relay
  BY <1>1, <1>4, <1>8 DEF Relay, WorkerResponse, WorkerResponseUpdate
<1>9. CASE UNCHANGED vars
  BY <1>1, <1>9 DEF vars
<1> QED
  BY <1>5, <1>6, <1>7, <1>8, <1>9 DEF Next
----------------------------------------------------------------------------
(* Workers.                                                                *)

\* What newModuleQuery may do to workers and queries: nothing; one more query for
\* a worker that is there and persistent; or a new worker and its query.
Serves(c) ==
    \/ UNCHANGED <<queriesNonce, queries, nextWorker, live>>
    \/ /\ c.module \in Persistent
       /\ PostQuery(c, modWorker[c.module])
       /\ UNCHANGED <<nextWorker, live>>
    \/ LaunchWorker(c.module) /\ PostQuery(c, NewWorker(c.module))

LEMMA NewModuleQueryServes ==
    ASSUME NEW c, NewModuleQuery(c) \/ RespondErr(c)
    PROVE  Serves(c) /\ (RespondErr(c) => UNCHANGED <<queriesNonce, queries, nextWorker, live>>)
BY DEF NewModuleQuery, RespondErr, Serves

\* The queries after a call was handed over.
LEMMA ServesDest ==
    ASSUME TypeOK, DestInv, NEW c \in Call, Serves(c),
           c.module \in Persistent /\ UNCHANGED live =>
                /\ modWorker[c.module] \in Worker
                /\ modWorker[c.module].module = c.module
                /\ modWorker[c.module].id <= nextWorker
    PROVE  DestInv'
<1>1. nextWorker \in Nat /\ \A q \in queries : q.dest \in Worker /\ q.dest.id \in Nat
  BY DEF TypeOK, OpenQuery, Worker
<1>2. CASE UNCHANGED <<queries, nextWorker, live>>
  BY <1>2 DEF DestInv
<1>3. ASSUME NEW w \in Worker, PostQuery(c, w), w.module = c.module, nextWorker' >= nextWorker,
             nextWorker' \in Nat, w.id <= nextWorker',
             w.module \notin Persistent => \A q \in queries : q.dest # w
      PROVE  DestInv'
  <2> DEFINE q == [nonce |-> queriesNonce, dest |-> w, call |-> c]
  <2>1. queries' = queries \cup {q}
    BY <1>3 DEF PostQuery
  <2>2. q.dest = w /\ q.call = c
    OBVIOUS
  <2> HIDE DEF q
  <2>3. \A p \in queries' : p.dest.module = p.call.module /\ p.dest.id <= nextWorker'
    BY <1>1, <1>3, <2>1, <2>2 DEF DestInv
  <2>4. \A p, r \in queries' : p.dest = r.dest => p = r \/ p.dest.module \in Persistent
    BY <1>3, <2>1, <2>2 DEF DestInv
  <2> QED
    BY <2>3, <2>4 DEF DestInv
<1>4. CASE /\ c.module \in Persistent
           /\ PostQuery(c, modWorker[c.module])
           /\ UNCHANGED <<nextWorker, live>>
  BY <1>1, <1>3, <1>4
<1>5. CASE LaunchWorker(c.module) /\ PostQuery(c, NewWorker(c.module))
  <2>1. c.module \in Domains
    BY DEF Call
  <2>2. NewWorker(c.module) \in Worker /\ NewWorker(c.module).module = c.module
    BY <2>1, NewWorkerType
  <2>3. NewWorker(c.module).id = nextWorker + 1 /\ nextWorker' = nextWorker + 1
    BY <1>5 DEF LaunchWorker, NewWorker
  <2>4. \A q \in queries : q.dest # NewWorker(c.module)
    BY <1>1, <2>3 DEF DestInv
  <2> QED
    BY <1>1, <1>3, <1>5, <2>2, <2>3, <2>4
<1> QED
  BY <1>2, <1>4, <1>5 DEF Serves

\* A worker that newModuleQuery launches for a module that is not persistent has
\* its query, and those that lived keep theirs.
LEMMA ServesLife ==
    ASSUME TypeOK, LifeInv, NEW c \in Call, Serves(c),
           c.module \in Persistent => UNCHANGED live,
           modules \subseteq modules',
           \A d \in modules \cap Persistent : modWorker'[d] = modWorker[d]
    PROVE  LifeInv'
<1>1. /\ queries \subseteq queries'
      /\ \A w \in live' : \/ w \in live
                          \/ w.module \notin Persistent /\ \E q \in queries' : q.dest = w
  <2>1. CASE UNCHANGED <<queries, nextWorker, live>>
    BY <2>1
  <2>2. CASE PostQuery(c, modWorker[c.module]) /\ UNCHANGED <<nextWorker, live>>
    BY <2>2 DEF PostQuery
  <2>3. CASE LaunchWorker(c.module) /\ PostQuery(c, NewWorker(c.module))
    <3> DEFINE w == NewWorker(c.module)
               q == [nonce |-> queriesNonce, dest |-> w, call |-> c]
    <3>1. queries' = queries \cup {q} /\ live' = live \cup {w}
      BY <2>3 DEF PostQuery, LaunchWorker
    <3>2. w.module = c.module /\ q.dest = w
      BY DEF NewWorker
    <3> HIDE DEF w, q
    <3> QED
      BY <3>1, <3>2
  <2> QED
    BY <2>1, <2>2, <2>3 DEF Serves
<1> QED
  BY <1>1 DEF LifeInv

\* The worker of a loaded persistent module was launched for it.
LEMMA ModWorkerKnown ==
    ASSUME TypeOK, LoadInv, CallInv, NEW d \in modules \cap Persistent
    PROVE  modWorker[d] \in Worker /\ modWorker[d].module = d /\ modWorker[d].id <= nextWorker
BY DEF TypeOK, LoadInv, CallInv, SourceInv

\* Loading the code of a persistent module launches its one worker.
LEMMA InstallLife ==
    ASSUME TypeOK, LoadInv, CallInv, DestInv, LifeInv, NEW d \in Domains, DownloadSucceeds(d)
    PROVE  DestInv' /\ LifeInv'
<1>1. Loader(d) \in Call /\ Loader(d).module = d /\ d \notin modules
  BY LoaderType DEF DownloadSucceeds
<1>2. InstallModule(d)
  BY <1>1 DEF DownloadSucceeds
<1>3. modules' = modules \cup {d}
  BY <1>2 DEF InstallModule
<1>4. CASE d \in Persistent
  <2>1. /\ LaunchWorker(d) /\ PostQuery(Loader(d), NewWorker(d))
        /\ modWorker' = [modWorker EXCEPT ![d] = NewWorker(d)]
    BY <1>2, <1>4 DEF InstallModule
  <2>2. NewWorker(d).id = nextWorker + 1 /\ nextWorker \in Nat
    BY DEF NewWorker, TypeOK
  <2>3. ~UNCHANGED live
    BY <2>1, <2>2 DEF LaunchWorker, CallInv, SourceInv
  <2>4. DestInv'
    <3>1. Serves(Loader(d))
      BY <1>1, <2>1 DEF Serves
    <3> QED
      BY <1>1, <2>3, <3>1, ServesDest
  <2>5. live' = live \cup {NewWorker(d)} /\ NewWorker(d).module = d /\ queries \subseteq queries'
    BY <2>1 DEF LaunchWorker, NewWorker, PostQuery
  <2>6. modWorker'[d] = NewWorker(d) /\ \A e \in modules : modWorker'[e] = modWorker[e]
    BY <1>1, <2>1 DEF TypeOK
  <2>7. LifeInv'
    <3>1. ASSUME NEW w \in live
          PROVE  IF w.module \in Persistent
                 THEN w.module \in modules' /\ modWorker'[w.module] = w
                 ELSE \E q \in queries' : q.dest = w
      BY <1>3, <2>5, <2>6 DEF LifeInv
    <3>2. NewWorker(d).module \in modules' /\ modWorker'[NewWorker(d).module] = NewWorker(d)
      BY <1>3, <2>5, <2>6
    <3> QED
      BY <1>4, <2>5, <3>1, <3>2 DEF LifeInv
  <2> QED
    BY <2>4, <2>7
<1>5. CASE d \notin Persistent
  <2>1. NewModuleQuery(Loader(d)) /\ modWorker' = modWorker
    BY <1>2, <1>5 DEF InstallModule
  <2>2. Serves(Loader(d))
    BY <2>1, NewModuleQueryServes
  <2> QED
    BY <1>1, <1>3, <1>5, <2>1, <2>2, ServesDest, ServesLife
<1> QED
  BY <1>4, <1>5

\* A response ends a worker only with its one query.
LEMMA ResponseLife ==
    ASSUME TypeOK, CallInv, DestInv, LifeInv, NEW g \in given, NEW shape \in Shapes,
           WorkerResponse(g, shape)
    PROVE  DestInv' /\ LifeInv'
<1>1. /\ live' = IF EndsWorker(g, shape) THEN live \ {g.dest} ELSE live
      /\ UNCHANGED <<modules, modWorker, nextWorker>>
      /\ AnswerQuery(g, shape)
  BY DEF WorkerResponse
<1>2. Open(g.nonce) \subseteq {g}
  BY DEF Open, CallInv, NonceInv
<1>3. queries' \subseteq queries
  BY <1>1 DEF AnswerQuery, CloseQuery
<1>4. DestInv'
  BY <1>1, <1>3 DEF DestInv
<1>5. \A q \in queries \ queries' : q = g /\ shape = "wellFormed" /\ Open(g.nonce) # {}
  BY <1>1, <1>2 DEF AnswerQuery, CloseQuery
<1>6. ASSUME NEW w \in live', w.module \notin Persistent
      PROVE  \E q \in queries' : q.dest = w
  <2>1. PICK q \in queries : q.dest = w
    BY <1>1, <1>6 DEF LifeInv
  <2>2. q \in queries'
    <3>1. SUFFICES ASSUME q \notin queries' PROVE FALSE
      OBVIOUS
    <3>2. q = g /\ EndsWorker(g, shape)
      BY <1>5, <1>6, <2>1, <3>1 DEF EndsWorker
    <3> QED
      BY <1>1, <2>1, <3>2
  <2> QED
    BY <2>1, <2>2
<1>7. LifeInv'
  BY <1>1, <1>6 DEF LifeInv
<1> QED
  BY <1>4, <1>7

LEMMA LifeStep ==
    ASSUME TypeOK, LoadInv, CallInv, DestInv, LifeInv, [Next]_vars
    PROVE  DestInv' /\ LifeInv'
<1>1. ASSUME UNCHANGED <<queries, nextWorker, live, modules, modWorker>>
      PROVE  DestInv' /\ LifeInv'
  BY <1>1 DEF DestInv, LifeInv
<1>2. ASSUME NEW c \in Call, NewModuleQuery(c) \/ RespondErr(c),
             RespondErr(c) \/ c.module \in modules, UNCHANGED <<modules, modWorker>>
      PROVE  DestInv' /\ LifeInv'
  <2>1. CASE RespondErr(c)
    BY <1>1, <1>2, <2>1 DEF RespondErr
  <2>2. CASE ~RespondErr(c)
    <3>1. Serves(c) /\ c.module \in modules /\ NewModuleQuery(c)
      BY <1>2, <2>2, NewModuleQueryServes
    <3>2. c.module \in Persistent => UNCHANGED live
      BY <3>1, <2>2 DEF NewModuleQuery
    <3> QED
      BY <1>2, <3>1, <3>2, ServesDest, ServesLife, ModWorkerKnown
  <2> QED
    BY <2>1, <2>2
<1>3. CASE ModuleCall
  <2>1. PICK n \in CallNonces, s \in Pages \cup live, d \in Domains, k \in BOOLEAN :
            LET c == [nonce |-> n, source |-> s, module |-> d, sendKernelNonce |-> k]
            IN  ModuleCallRefused(c) \/ ModuleCallLoaded(c) \/ ModuleCallMustLoad(c)
    BY <1>3 DEF ModuleCall
  <2> DEFINE c == [nonce |-> n, source |-> s, module |-> d, sendKernelNonce |-> k]
  <2>2. c \in Call
    BY DEF TypeOK, Call, Source
  <2>3. ModuleCallRefused(c) \/ ModuleCallLoaded(c) \/ ModuleCallMustLoad(c)
    BY <2>1
  <2> HIDE DEF c
  <2> QED
    BY <1>1, <1>2, <2>2, <2>3 DEF ModuleCallRefused, ModuleCallLoaded, ModuleCallMustLoad
<1>4. CASE Load
  <2>1. PICK d \in Domains : \/ DownloadFails(d) \/ DownloadThrows(d)
                             \/ CreateModuleFails(d) \/ DownloadSucceeds(d)
    BY <1>4 DEF Load
  <2>2. CASE LoadFails(d)
    BY <1>1, <2>2 DEF LoadFails, RespondErr
  <2> QED
    BY <1>1, <2>1, <2>2, InstallLife DEF DownloadFails, DownloadThrows, CreateModuleFails
<1>5. CASE RunWaiter
  <2> DEFINE c == Head(settled.waiters)
  <2>1. c \in Call /\ (settled.loaded => c.module \in modules)
    BY <1>5, WaiterType DEF RunWaiter
  <2>2. /\ IF settled.loaded THEN NewModuleQuery(c) ELSE RespondErr(c)
        /\ UNCHANGED <<modules, modWorker>>
    BY <1>5 DEF RunWaiter
  <2> HIDE DEF c
  <2> QED
    BY <1>2, <2>1, <2>2
<1>6. CASE Relay
  BY <1>1, <1>6, ResponseLife DEF Relay, WorkerResponseUpdate, QueryUpdate
<1>7. CASE UNCHANGED vars
  BY <1>1, <1>7 DEF vars
<1> QED
  BY <1>3, <1>4, <1>5, <1>6, <1>7 DEF Next

\* A query that is handed over has a worker: the one of its module, or a new one,
\* which no earlier query has.
LEMMA ServesServed ==
    ASSUME TypeOK, DestInv, ServedInv, NEW c \in Call, Serves(c), broken' = broken,
           c.module \in Persistent /\ UNCHANGED live => modWorker[c.module] \in live
    PROVE  ServedInv'
<1>1. /\ nextWorker \in Nat /\ queriesNonce \in Nat /\ broken \subseteq Nat
      /\ \A q \in queries : q.dest \in Worker /\ q.dest.id \in Nat
  BY DEF TypeOK, OpenQuery, Worker
<1>2. CASE UNCHANGED <<queriesNonce, queries, nextWorker, live>>
  BY <1>2 DEF ServedInv
<1>3. ASSUME NEW w, PostQuery(c, w), w \in live',
             \A q \in queries : q.dest \in live' <=> q.dest \in live
      PROVE  ServedInv'
  <2> DEFINE q == [nonce |-> queriesNonce, dest |-> w, call |-> c]
  <2>1. queries' = queries \cup {q} /\ queriesNonce' = queriesNonce + 1
    BY <1>3 DEF PostQuery
  <2>2. q.dest = w /\ q.nonce = queriesNonce
    OBVIOUS
  <2> HIDE DEF q
  <2>3. queriesNonce \notin broken /\ \A n \in broken : n < queriesNonce'
    BY <1>1, <2>1 DEF ServedInv
  <2>4. \A p \in queries' : p.dest \in live' <=> p.nonce \notin broken
    BY <1>3, <2>1, <2>2, <2>3 DEF ServedInv
  <2> QED
    BY <2>3, <2>4 DEF ServedInv
<1>4. CASE /\ c.module \in Persistent
           /\ PostQuery(c, modWorker[c.module])
           /\ UNCHANGED <<nextWorker, live>>
  BY <1>3, <1>4
<1>5. CASE LaunchWorker(c.module) /\ PostQuery(c, NewWorker(c.module))
  <2>1. NewWorker(c.module).id = nextWorker + 1 /\ live' = live \cup {NewWorker(c.module)}
    BY <1>5 DEF LaunchWorker, NewWorker
  <2>2. \A q \in queries : q.dest # NewWorker(c.module)
    BY <1>1, <2>1 DEF DestInv
  <2> QED
    BY <1>3, <1>5, <2>1, <2>2
<1> QED
  BY <1>2, <1>4, <1>5 DEF Serves

\* A response takes the worker from a query only if it closes the query, or cuts
\* it off.
LEMMA ResponseServed ==
    ASSUME TypeOK, CallInv, DestInv, ServedInv, NEW g \in given, NEW shape \in Shapes,
           WorkerResponse(g, shape)
    PROVE  ServedInv'
<1>1. /\ live' = IF EndsWorker(g, shape) THEN live \ {g.dest} ELSE live
      /\ broken' = IF EndsWorker(g, shape) /\ shape = "malformed"
                   THEN broken \cup {g.nonce}
                   ELSE broken
      /\ queriesNonce' = queriesNonce
      /\ AnswerQuery(g, shape)
  BY DEF WorkerResponse
<1>2. Open(g.nonce) \subseteq {g} /\ \A q \in queries : q.nonce = g.nonce => q = g
  BY DEF Open, CallInv, NonceInv
<1>3. \A n \in broken' : n < queriesNonce'
  BY <1>1 DEF ServedInv, CallInv, NonceInv
<1>4. queries' \subseteq queries
  BY <1>1 DEF AnswerQuery, CloseQuery
<1>5. CASE ~EndsWorker(g, shape)
  BY <1>1, <1>3, <1>4, <1>5 DEF ServedInv
<1>6. CASE EndsWorker(g, shape)
  <2>1. g \in queries /\ g.dest.module \notin Persistent /\ shape # "noData" /\ Open(g.nonce) = {g}
    BY <1>2, <1>6 DEF EndsWorker, Open
  <2>2. \A q \in queries \ {g} : q.dest # g.dest /\ q.nonce # g.nonce
    BY <1>2, <2>1 DEF DestInv
  <2>3. \A q \in queries' \ {g} : q.dest \in live' <=> q.nonce \notin broken'
    BY <1>1, <1>4, <2>2 DEF ServedInv
  <2>4. CASE shape = "malformed"
    BY <1>1, <1>3, <1>6, <2>3, <2>4 DEF ServedInv
  <2>5. CASE shape = "wellFormed"
    <3>1. g \notin queries'
      BY <1>1, <2>1, <2>5 DEF AnswerQuery, CloseQuery
    <3> QED
      BY <1>3, <2>3, <3>1 DEF ServedInv
  <2> QED
    BY <2>1, <2>4, <2>5, KernelQueriesAssumption
<1> QED
  BY <1>5, <1>6

LEMMA ServedStep ==
    ASSUME TypeOK, LoadInv, CallInv, DestInv, ServedInv, [Next]_vars
    PROVE  ServedInv'
<1>1. ASSUME UNCHANGED <<queriesNonce, queries, live, broken>>
      PROVE  ServedInv'
  BY <1>1 DEF ServedInv
<1>2. ASSUME NEW c \in Call, NewModuleQuery(c) \/ RespondErr(c),
             RespondErr(c) \/ c.module \in modules, broken' = broken
      PROVE  ServedInv'
  <2>1. CASE RespondErr(c)
    BY <1>1, <1>2, <2>1 DEF RespondErr
  <2>2. CASE ~RespondErr(c)
    <3>1. Serves(c) /\ c.module \in modules
      BY <1>2, <2>2, NewModuleQueryServes
    <3> QED
      BY <1>2, <3>1, ServesServed DEF LoadInv
  <2> QED
    BY <2>1, <2>2
<1>3. CASE ModuleCall
  <2>1. PICK n \in CallNonces, s \in Pages \cup live, d \in Domains, k \in BOOLEAN :
            LET c == [nonce |-> n, source |-> s, module |-> d, sendKernelNonce |-> k]
            IN  ModuleCallRefused(c) \/ ModuleCallLoaded(c) \/ ModuleCallMustLoad(c)
    BY <1>3 DEF ModuleCall
  <2> DEFINE c == [nonce |-> n, source |-> s, module |-> d, sendKernelNonce |-> k]
  <2>2. c \in Call
    BY DEF TypeOK, Call, Source
  <2>3. ModuleCallRefused(c) \/ ModuleCallLoaded(c) \/ ModuleCallMustLoad(c)
    BY <2>1
  <2> HIDE DEF c
  <2> QED
    BY <1>1, <1>2, <2>2, <2>3 DEF ModuleCallRefused, ModuleCallLoaded, ModuleCallMustLoad
<1>4. CASE Load
  <2>1. PICK d \in Domains : \/ DownloadFails(d) \/ DownloadThrows(d)
                             \/ CreateModuleFails(d) \/ DownloadSucceeds(d)
    BY <1>4 DEF Load
  <2>2. CASE LoadFails(d)
    BY <1>1, <2>2 DEF LoadFails, RespondErr
  <2>3. CASE DownloadSucceeds(d)
    <3>1. Loader(d) \in Call /\ Loader(d).module = d /\ d \notin modules
      BY <2>3, LoaderType DEF DownloadSucceeds
    <3>2. InstallModule(d) /\ broken' = broken
      BY <2>3, <3>1 DEF DownloadSucceeds
    <3>3. Serves(Loader(d)) /\ (d \in Persistent => ~UNCHANGED live)
      <4>1. CASE d \in Persistent
        <5>1. LaunchWorker(d) /\ PostQuery(Loader(d), NewWorker(d))
          BY <3>2, <4>1 DEF InstallModule
        <5>2. NewWorker(d).id = nextWorker + 1 /\ nextWorker \in Nat
          BY DEF NewWorker, TypeOK
        <5>3. ~UNCHANGED live
          BY <5>1, <5>2 DEF LaunchWorker, CallInv, SourceInv
        <5> QED
          BY <3>1, <5>1, <5>3 DEF Serves
      <4>2. CASE d \notin Persistent
        BY <3>2, <4>2, NewModuleQueryServes DEF InstallModule
      <4> QED
        BY <4>1, <4>2
    <3> QED
      BY <3>1, <3>2, <3>3, ServesServed
  <2> QED
    BY <1>1, <2>1, <2>2, <2>3 DEF DownloadFails, DownloadThrows, CreateModuleFails
<1>5. CASE RunWaiter
  <2> DEFINE c == Head(settled.waiters)
  <2>1. c \in Call /\ (settled.loaded => c.module \in modules)
    BY <1>5, WaiterType DEF RunWaiter
  <2>2. /\ IF settled.loaded THEN NewModuleQuery(c) ELSE RespondErr(c)
        /\ broken' = broken
    BY <1>5 DEF RunWaiter
  <2> HIDE DEF c
  <2> QED
    BY <1>2, <2>1, <2>2
<1>6. CASE Relay
  BY <1>1, <1>6, ResponseServed DEF Relay, WorkerResponseUpdate, QueryUpdate
<1>7. CASE UNCHANGED vars
  BY <1>1, <1>7 DEF vars
<1> QED
  BY <1>3, <1>4, <1>5, <1>6, <1>7 DEF Next

----------------------------------------------------------------------------
(* The theorems.                                                           *)

LEMMA WorkerInit == Init => WorkerInv
BY DEF Init, WorkerInv, DestInv, LifeInv, ServedInv, ToldFirst, UpdatesInv

LEMMA WorkerInvariant == Spec => [](TypeOK /\ LoadInv /\ CallInv /\ WorkerInv)
<1>1. TypeOK /\ LoadInv /\ CallInv /\ WorkerInv /\ [Next]_vars => WorkerInv'
  <2> SUFFICES ASSUME TypeOK, LoadInv, CallInv, WorkerInv, [Next]_vars PROVE WorkerInv'
    OBVIOUS
  <2>1. CallInv'
    BY CallNext
  <2>2. DestInv /\ LifeInv /\ ServedInv /\ ToldFirst /\ UpdatesInv
    BY DEF WorkerInv
  <2>3. ToldFirst'
    BY <2>1, <2>2, ToldFirstStep
  <2>4. UpdatesInv'
    BY <2>2, UpdatesStep
  <2>5. DestInv' /\ LifeInv'
    BY <2>2, LifeStep
  <2>6. ServedInv'
    BY <2>2, ServedStep
  <2> QED
    BY <2>3, <2>4, <2>5, <2>6 DEF WorkerInv
<1> QED
  BY <1>1, LoadInit, LoadNext, CallInit, CallNext, WorkerInit, PTL DEF Spec

\* Workers and queries live and die together, however many callers, modules and
\* late responses there are, and a malformed response is all that can leave an open
\* query without its worker.
THEOREM WorkersServeQueries == Spec => []WorkerLifetimes
<1>1. TypeOK /\ LoadInv /\ CallInv /\ WorkerInv => WorkerLifetimes
  BY DEF WorkerLifetimes, WorkerInv, DestInv, LifeInv, ServedInv, LoadInv
<1> QED
  BY <1>1, WorkerInvariant, PTL

\* An update never overtakes the kernel nonce and never leaves its query.
THEOREM UpdatesStayInQuery == Spec => []UpdatesRelayed
<1>1. TypeOK /\ LoadInv /\ CallInv /\ WorkerInv => UpdatesRelayed
  BY DEF UpdatesRelayed, WorkerInv, ToldFirst, UpdatesInv, CallInv, NonceInv
<1> QED
  BY <1>1, WorkerInvariant, PTL

----------------------------------------------------------------------------
(* The kernel implements QueryProtocol, and closes a query only by answering *)
(* it.                                                                     *)

\* The abstract variables.
phase == [n \in CallNonces |-> Phase(n)]

\* One message to the caller of a call, or none.
LEMMA HeardStep ==
    ASSUME TypeOK, NEW c \in Call, NEW m \in Method, posted' = Posted(c, m)
    PROVE  \/ Alive(c.source) /\ posted' = [posted EXCEPT ![c.nonce] = Append(@, m)]
           \/ ~Alive(c.source) /\ posted' = posted
BY DEF Posted

\* The phases after a step in which only the call with nonce n is concerned.
LEMMA PhaseStep ==
    ASSUME TypeOK, NEW n \in CallNonces, Used' = Used \cup {n},
           \A k \in CallNonces : k # n => posted'[k] = posted[k]
    PROVE  phase' = [phase EXCEPT ![n] =
                        IF "response" \in Elements(posted'[n]) THEN "closed" ELSE "open"]
<1>1. \A k \in CallNonces : k # n => Phase(k)' = Phase(k)
  BY DEF Phase
<1>2. Phase(n)' = IF "response" \in Elements(posted'[n]) THEN "closed" ELSE "open"
  BY DEF Phase
<1> QED
  BY <1>1, <1>2 DEF phase

LEMMA AppendResponse ==
    ASSUME NEW s \in Seq(Method), NEW m \in Method
    PROVE  "response" \in Elements(Append(s, m)) <=> "response" \in Elements(s) \/ m = "response"
BY AppendElements

\* A reply to an open call, or to one that is just asked, is a step of the protocol.
LEMMA AskStep ==
    ASSUME TypeOK, CallInv, NEW c \in Call, Arrives(c)
    PROVE  Protocol!Next
<1>1. /\ posted[c.nonce] = <<>> /\ c.nonce \in CallNonces \ Used /\ Alive(c.source)
      /\ Used' = Used \cup {c.nonce}
  BY NewCallFresh DEF Arrives, NewCall, Used, Call
<1>2. phase[c.nonce] = "idle"
  BY <1>1 DEF phase, Phase
<1>3. CASE posted' = posted
  <2>1. "response" \notin Elements(posted'[c.nonce])
    BY <1>1, <1>3 DEF Elements
  <2>2. phase' = [phase EXCEPT ![c.nonce] = "open"]
    BY <1>1, <1>3, <2>1, PhaseStep
  <2> QED
    BY <1>1, <1>2, <1>3, <2>2 DEF Protocol!Next, Protocol!Ask, Protocol!Become, phase
<1>4. ASSUME NEW m \in {"responseNonce", "response"}, posted' = Posted(c, m)
      PROVE  Protocol!Next
  <2>1. posted' = [posted EXCEPT ![c.nonce] = Append(@, m)] /\ m \in Method
    BY <1>1, <1>4, HeardStep DEF Method
  <2>2. posted[c.nonce] \in Seq(Method) /\ posted'[c.nonce] = Append(posted[c.nonce], m)
    BY <1>1, <2>1 DEF TypeOK
  <2>3. "response" \in Elements(posted'[c.nonce]) <=> m = "response"
    BY <1>1, <2>1, <2>2, AppendResponse DEF Elements
  <2>4. phase' = [phase EXCEPT ![c.nonce] = IF m = "response" THEN "closed" ELSE "open"]
    BY <1>1, <2>1, <2>3, PhaseStep DEF TypeOK
  <2> QED
    BY <1>1, <1>2, <1>4, <2>1, <2>4 DEF Protocol!Next, Protocol!Ask, Protocol!Become, Protocol!Hear, phase
<1> QED
  BY <1>3, <1>4 DEF Arrives, FirstReply

LEMMA ReplyStep ==
    ASSUME TypeOK, CallInv, NEW c \in Call, c \in calls, UNCHANGED calls, ~Answered(c),
           NEW m \in Method, posted' = Posted(c, m), m = "responseNonce" => posted[c.nonce] = <<>>
    PROVE  Protocol!Next \/ UNCHANGED <<phase, posted>>
<1>1. c.nonce \in CallNonces /\ c.nonce \in Used /\ Used' = Used \cup {c.nonce} /\ Used' = Used
  BY DEF Used, Call
<1>2. phase[c.nonce] = "open"
  BY <1>1 DEF phase, Phase, Answered
<1>3. CASE posted' = posted
  BY <1>1, <1>3 DEF phase, Phase
<1>4. CASE posted' = [posted EXCEPT ![c.nonce] = Append(@, m)]
  <2>1. posted[c.nonce] \in Seq(Method) /\ posted'[c.nonce] = Append(posted[c.nonce], m)
    BY <1>1, <1>4 DEF TypeOK
  <2>2. "response" \in Elements(posted'[c.nonce]) <=> m = "response"
    BY <2>1, AppendResponse DEF Answered
  <2>3. phase' = [phase EXCEPT ![c.nonce] = IF m = "response" THEN "closed" ELSE "open"]
    BY <1>1, <1>4, <2>2, PhaseStep DEF TypeOK
  <2>4. m # "response" => phase' = phase
    BY <1>1, <1>2, <2>3 DEF phase
  <2>5. CASE m = "responseNonce"
    BY <1>1, <1>2, <1>4, <2>4, <2>5 DEF Protocol!Next, Protocol!TellNonce, Protocol!Hear, phase
  <2>6. CASE m = "responseUpdate"
    BY <1>1, <1>2, <1>4, <2>4, <2>6 DEF Protocol!Next, Protocol!Update, Protocol!Hear, phase
  <2>7. CASE m = "response"
    BY <1>1, <1>2, <1>4, <2>3, <2>7 DEF Protocol!Next, Protocol!Respond, Protocol!Hear, Protocol!Become, phase
  <2> QED
    BY <2>5, <2>6, <2>7 DEF Method
<1> QED
  BY <1>3, <1>4, HeardStep
LEMMA ImplementsStep ==
    ASSUME TypeOK, LoadInv, CallInv, [Next]_vars
    PROVE  Protocol!Next \/ UNCHANGED <<phase, posted>>
<1>1. CASE SaysNothing
  BY <1>1 DEF SaysNothing, phase, Phase, Used
<1>2. ASSUME NEW c \in Call, Departs(c)
      PROVE  Protocol!Next \/ UNCHANGED <<phase, posted>>
  <2>1. c \in calls /\ UNCHANGED calls /\ posted[c.nonce] = <<>>
    BY <1>2 DEF Departs, CallInv, PlaceInv
  <2>2. ~Answered(c)
    BY <2>1 DEF Answered, Elements
  <2>3. CASE posted' = posted
    BY <2>1, <2>3 DEF phase, Phase, Used
  <2>4. CASE posted' = Posted(c, "responseNonce")
    BY <2>1, <2>2, <2>4, ReplyStep DEF Method
  <2>5. CASE posted' = Posted(c, "response")
    BY <2>1, <2>2, <2>5, ReplyStep DEF Method
  <2> QED
    BY <1>2, <2>3, <2>4, <2>5 DEF Departs, FirstReply
<1>3. ASSUME NEW q \in queries, Relays(q)
      PROVE  Protocol!Next \/ UNCHANGED <<phase, posted>>
  <2> DEFINE c == q.call
  <2>1. c \in calls /\ c \in Call /\ ~Answered(c)
    BY DEF CallInv, NonceInv, PlaceInv, TypeOK
  <2>2. UNCHANGED calls /\ (posted' = Posted(c, "response") \/ posted' = Posted(c, "responseUpdate"))
    BY <1>3 DEF Relays
  <2> HIDE DEF c
  <2> QED
    BY <2>1, <2>2, ReplyStep DEF Method
<1> QED
  BY <1>1, <1>2, <1>3, AskStep, StepKinds

\* From each caller's side, every behaviour of the kernel is one of QueryProtocol.
THEOREM KernelImplementsProtocol == Spec => ImplementsProtocol
<1>1. Init => Protocol!Init
  BY DEF Init, Protocol!Init, Phase, Used
<1>2. TypeOK /\ LoadInv /\ CallInv /\ [Next]_vars => [Protocol!Next]_<<phase, posted>>
  BY ImplementsStep
<1> QED
  BY <1>1, <1>2, LoadInvariant, CallInvariant, PTL DEF Spec, ImplementsProtocol, Protocol!Spec, phase

----------------------------------------------------------------------------
(* How queries close.                                                      *)

\* Only a response takes a query from the map.
LEMMA QueriesKept ==
    ASSUME [Next]_vars
    PROVE  \/ queries \subseteq queries'
           \/ \E g \in given : \E shape \in Shapes : WorkerResponse(g, shape)
<1>1. \A c, w : PostQuery(c, w) => queries \subseteq queries'
  BY DEF PostQuery
<1>2. \A c : NewModuleQuery(c) \/ RespondErr(c) => queries \subseteq queries'
  BY <1>1 DEF NewModuleQuery, RespondErr
<1>3. CASE ModuleCall
  BY <1>2, <1>3 DEF ModuleCall, ModuleCallRefused, ModuleCallLoaded, ModuleCallMustLoad
<1>4. CASE Load
  BY <1>1, <1>2, <1>4 DEF Load, DownloadFails, DownloadThrows, CreateModuleFails, LoadFails,
                                    DownloadSucceeds, LoadRaced, InstallModule
<1>5. CASE RunWaiter
  BY <1>2, <1>5 DEF RunWaiter
<1>6. CASE Relay
  BY <1>6 DEF Relay, WorkerResponseUpdate, QueryUpdate
<1>7. CASE UNCHANGED vars
  BY <1>7 DEF vars
<1> QED
  BY <1>3, <1>4, <1>5, <1>6, <1>7 DEF Next

LEMMA ClosedStep ==
    ASSUME TypeOK, CallInv, [Next]_vars, NEW q \in queries \ queries', Alive(q.call.source)
    PROVE  ~Answered(q.call) /\ Answered(q.call)'
<1>1. PICK g \in given, shape \in Shapes : WorkerResponse(g, shape)
  BY QueriesKept
<1>2. /\ queries' = queries \ Open(g.nonce)
      /\ \E p \in Open(g.nonce) : posted' = Posted(p.call, "response")
  BY <1>1 DEF WorkerResponse, AnswerQuery, CloseQuery
<1>3. Open(g.nonce) = {q}
  BY <1>2, OpenUnique DEF CallInv
<1>4. posted' = Posted(q.call, "response") /\ q.call \in Call /\ q.call.nonce \in CallNonces
  BY <1>2, <1>3 DEF TypeOK, OpenQuery, Call
<1>5. posted[q.call.nonce] \in Seq(Method) /\ posted'[q.call.nonce] = Append(posted[q.call.nonce], "response")
  BY <1>4 DEF TypeOK, Posted
<1>6. Answered(q.call)'
  BY <1>5, AppendResponse DEF Answered, Method
<1> QED
  BY <1>6 DEF CallInv, PlaceInv

\* A query is taken from the map only in the step that answers its caller.
THEOREM QueriesCloseByAnswer == Spec => ClosedByAnswer
<1>1. TypeOK /\ CallInv /\ [Next]_vars =>
        [\A q \in queries \ queries' :
            Alive(q.call.source) => ~Answered(q.call) /\ Answered(q.call)']_vars
  BY ClosedStep
<1> QED
  BY <1>1, LoadInvariant, CallInvariant, PTL DEF Spec, ClosedByAnswer
=============================================================================
