------------------------ MODULE ModuleQueries_proofs ------------------------
(***************************************************************************)
(* Proofs about ModuleQueries for every set of parties and every number of   *)
(* calls and updates.                                                       *)
(***************************************************************************)
EXTENDS ModuleQueries, FiniteSetTheorems, TLAPS

(***************************************************************************)
(* Types.  A module is given each call once, so the kernel never runs out of *)
(* nonces.                                                                  *)
(***************************************************************************)
Query == [open : BOOLEAN, wantsNonce : BOOLEAN, kernelNonce : {0} \cup KernelNonces, held : Seq(Waiting)]

HandlerState == [responded : BOOLEAN, receiver : BOOLEAN, waiting : Seq(Waiting), method : Methods]

Due == [nonce : KernelNonces, data : Waiting]

Said == [method : {"responseUpdate"}, data : Nat] \cup [method : {"response"}, data : Answer]

Told == [method : {"responseUpdate"}, data : Nat] \cup [method : {"response"}, data : Answer \cup Reply]

Heard == Told \cup [method : {"responseNonce"}, data : KernelNonces]

BoxTypes ==
    /\ outbox \in [Parties -> Seq(Outgoing)]
    /\ inbox \in [Parties -> Seq(Incoming)]

CallerTypes ==
    /\ queriesNonce \in [Callers -> 0 .. MaxCalls]
    /\ queries \in [Queries -> Query]
    /\ asked \in [Queries -> 0 .. MaxUpdates]
    /\ heard \in [Queries -> Seq(Heard)]

KernelTypes ==
    /\ kernelNonces \in {0} \cup KernelNonces
    /\ open \subseteq served
    /\ served \subseteq Served

ModuleTypes ==
    /\ handlers \in [KernelNonces -> HandlerState]
    /\ incomingQueries \subseteq KernelNonces
    /\ running \in [Parties -> {0} \cup KernelNonces]
    /\ due \in [Parties -> Seq(Due)]
    /\ said \in [KernelNonces -> Seq(Said)]
    /\ got \in [KernelNonces -> Seq(Waiting)]
    /\ \E n \in Nat : \A k \in KernelNonces : Len(said[k]) <= n

TypeInv == BoxTypes /\ CallerTypes /\ KernelTypes /\ ModuleTypes

AskedBy(g) == <<g.source, g.query>>

Opened == {AskedBy(g) : g \in served}

\* Where a call is on its way to the kernel.
Calls(p) == {i \in DOMAIN outbox[p] : outbox[p][i].method = "moduleCall"}

CallInv ==
    /\ Opened \subseteq Queries /\ Cardinality(Opened) = kernelNonces
    /\ \A g \in served : g.nonce <= kernelNonces /\ g.query <= queriesNonce[g.source]
    /\ \A g, h \in served : g.nonce = h.nonce \/ AskedBy(g) = AskedBy(h) => g = h
    /\ \A p \in Parties : \A i \in Calls(p) :
           /\ p \in Callers /\ outbox[p][i].nonce <= queriesNonce[p]
           /\ <<p, outbox[p][i].nonce>> \notin Opened
           /\ \A j \in Calls(p) : outbox[p][i].nonce = outbox[p][j].nonce => i = j

LEMMA Finite ==
  /\ IsFiniteSet(Queries) /\ IsFiniteSet(KernelNonces) /\ KernelNonces \subseteq Nat \ {0}
  /\ \A n \in Nat, T \in SUBSET Queries : Cardinality(T) = n /\ n # 0 => n \in KernelNonces
<1>1. MaxCalls \in Nat /\ IsFiniteSet(Callers) /\ IsFiniteSet(1 .. MaxCalls) /\ Cardinality(1 .. MaxCalls) = MaxCalls
  BY ModuleQueriesAssumption, FS_Interval DEF ModuleQueriesAssumption
<1>2. Cardinality(Callers) \in Nat
  BY <1>1, FS_CardinalityType
<1>3. IsFiniteSet(Queries) /\ Cardinality(Queries) = Cardinality(Callers) * MaxCalls
  BY <1>1, FS_Product DEF Queries
<1>4. Cardinality(Callers) * MaxCalls \in Nat
  BY <1>3, FS_CardinalityType
<1>5. IsFiniteSet(KernelNonces) /\ KernelNonces \subseteq Nat \ {0}
  <2> DEFINE N == Cardinality(Callers) * MaxCalls
  <2> HIDE DEF N
  <2>1. IsFiniteSet(1 .. N)
    BY <1>4, FS_Interval DEF N
  <2> QED
    BY <1>4, <2>1 DEF KernelNonces, N
<1>6. ASSUME NEW n \in Nat, NEW T \in SUBSET Queries, Cardinality(T) = n, n # 0 PROVE n \in KernelNonces
  <2>1. n <= Cardinality(Callers) * MaxCalls
    BY <1>3, <1>6, FS_Subset
  <2> QED
    BY <1>4, <1>6, <2>1 DEF KernelNonces
<1> QED
  BY <1>3, <1>5, <1>6

\* While an update may be sent, no query has used up the bound.
LEMMA AskedBound ==
  ASSUME TypeInv, UpdatesSent < MaxUpdates, NEW q \in Queries
  PROVE  asked[q] + 1 \in 0 .. MaxUpdates
<1> DEFINE U == UNION {{p} \X (1 .. asked[p]) : p \in Queries}
           V == UNION {{k} \X Updates(k) : k \in KernelNonces}
<1>1. MaxUpdates \in Nat /\ asked \in [Queries -> 0 .. MaxUpdates]
  BY ModuleQueriesAssumption DEF ModuleQueriesAssumption, TypeInv, CallerTypes
<1>2. IsFiniteSet(U)
  <2>1. U \subseteq Queries \X (1 .. MaxUpdates)
    BY <1>1
  <2>2. IsFiniteSet(Queries \X (1 .. MaxUpdates))
    <3>1. IsFiniteSet(Queries) /\ IsFiniteSet(1 .. MaxUpdates)
      BY <1>1, Finite, FS_Interval
    <3> QED
      BY <3>1, FS_Product
  <2> HIDE DEF U
  <2> QED
    BY <2>1, <2>2, FS_Subset
<1>3. IsFiniteSet(V)
  <2>1. PICK n \in Nat : \A k \in KernelNonces : Len(said[k]) <= n
    BY DEF TypeInv, ModuleTypes
  <2>2. \A k \in KernelNonces : Updates(k) \subseteq 1 .. n
    BY <2>1 DEF TypeInv, ModuleTypes, Updates, Of
  <2>3. V \subseteq KernelNonces \X (1 .. n)
    BY <2>2
  <2>4. IsFiniteSet(KernelNonces \X (1 .. n))
    <3>1. IsFiniteSet(KernelNonces) /\ IsFiniteSet(1 .. n)
      BY Finite, FS_Interval
    <3> QED
      BY <3>1, FS_Product
  <2> HIDE DEF V
  <2> QED
    BY <2>3, <2>4, FS_Subset
<1>4. Cardinality(U) \in Nat /\ Cardinality(V) \in Nat /\ UpdatesSent = Cardinality(U) + Cardinality(V)
  BY <1>2, <1>3, FS_CardinalityType DEF UpdatesSent
<1>5. asked[q] <= Cardinality(U)
  <2>1. {q} \X (1 .. asked[q]) \subseteq U
    OBVIOUS
  <2>2. asked[q] \in Nat /\ IsFiniteSet(1 .. asked[q]) /\ Cardinality(1 .. asked[q]) = asked[q]
    BY <1>1, FS_Interval
  <2>3. Cardinality({q} \X (1 .. asked[q])) = asked[q]
    <3>1. IsFiniteSet({q}) /\ Cardinality({q}) = 1
      BY FS_Singleton
    <3>2. Cardinality({q} \X (1 .. asked[q])) = 1 * asked[q]
      BY <2>2, <3>1, FS_Product
    <3> QED
      BY <2>2, <3>2
  <2> HIDE DEF U
  <2> QED
    BY <1>2, <2>1, <2>3, FS_Subset
<1> HIDE DEF U, V
<1> QED
  BY <1>1, <1>4, <1>5

(***************************************************************************)
(* What is at the head of a channel.                                        *)
(***************************************************************************)
LEMMA ConstantTypes ==
  /\ Callers \subseteq Parties /\ Modules \subseteq Parties /\ MaxCalls \in Nat /\ MaxUpdates \in Nat
  /\ KernelNonces \subseteq Nat \ {0}
  /\ \A q \in Queries : q[1] \in Callers /\ q[2] \in 1 .. MaxCalls /\ q = <<q[1], q[2]>>
BY ModuleQueriesAssumption, Finite DEF ModuleQueriesAssumption, Queries

LEMMA IncomingTypes ==
  ASSUME NEW m \in Incoming
  PROVE  /\ m.method = "moduleCall" => m.nonce \in KernelNonces /\ m.data \in Methods
         /\ m.method = "queryUpdate" => m.nonce \in KernelNonces /\ m.data \in Waiting
         /\ m.method = "responseNonce" => m.nonce \in 1 .. MaxCalls /\ m.data \in KernelNonces
         /\ m.method = "responseUpdate" => m.nonce \in 1 .. MaxCalls /\ m.data \in Nat
         /\ m.method = "response" => m.nonce \in 1 .. MaxCalls /\ m.data \in Reply
BY DEF Incoming

LEMMA OutgoingTypes ==
  ASSUME NEW m \in Outgoing
  PROVE  /\ m.method = "moduleCall" =>
                /\ m.nonce \in 1 .. MaxCalls
                /\ m.data.module \in Parties /\ m.data.method \in Methods /\ m.data.sendKernelNonce \in BOOLEAN
         /\ m.method = "queryUpdate" => m.nonce \in KernelNonces /\ m.data \in Waiting /\ m \in Incoming
         /\ m.method = "responseUpdate" => m.nonce \in KernelNonces /\ m.data \in Nat
         /\ m.method = "response" => m.nonce \in KernelNonces /\ m.data \in Answer
BY DEF Outgoing, Incoming

\* What the kernel relays to a caller.
LEMMA RelayedTypes ==
  ASSUME NEW m \in Outgoing, m.method \in {"response", "responseUpdate"}, ~BothNull(m), NEW n \in 1 .. MaxCalls
  PROVE  Message(m.method, n, m.data) \in Incoming
<1>1. CASE m.method = "responseUpdate"
  BY <1>1, OutgoingTypes DEF Message, Incoming
<1>2. CASE m.method = "response"
  <2>1. m.data \in Reply
    BY <1>2, OutgoingTypes DEF BothNull, Answer, Reply
  <2> QED
    BY <1>2, <2>1 DEF Message, Incoming
<1> QED
  BY <1>1, <1>2

\* What the kernel answers a call with that it refuses.
LEMMA RefusalTypes == ASSUME NEW n \in 1 .. MaxCalls PROVE Message("response", n, "refused") \in Incoming
<1>1. "refused" \in Reply
  BY DEF Reply
<1> QED
  BY <1>1 DEF Message, Incoming

LEMMA TakeTypes ==
  ASSUME TypeInv, NEW p \in Parties, NEW method, Take(p, method)
  PROVE  /\ inbox[p] \in Seq(Incoming) /\ inbox[p] # <<>>
         /\ Head(inbox[p]) \in Incoming /\ Head(inbox[p]).method = method
         /\ inbox' = [inbox EXCEPT ![p] = Tail(@)]
         /\ inbox' \in [Parties -> Seq(Incoming)]
BY DEF TypeInv, BoxTypes, Take

LEMMA TakeFromTypes ==
  ASSUME TypeInv, NEW p \in Parties, NEW method, TakeFrom(p, method)
  PROVE  /\ outbox[p] \in Seq(Outgoing) /\ outbox[p] # <<>>
         /\ Head(outbox[p]) \in Outgoing /\ Head(outbox[p]).method = method
         /\ outbox' = [outbox EXCEPT ![p] = Tail(@)]
         /\ outbox' \in [Parties -> Seq(Outgoing)]
BY DEF TypeInv, BoxTypes, TakeFrom

LEMMA PostTypes ==
  ASSUME TypeInv, NEW p \in Parties, NEW m \in Outgoing, Post(p, m)
  PROVE  outbox' \in [Parties -> Seq(Outgoing)]
BY DEF TypeInv, BoxTypes, Post

LEMMA PostUpdatesTypes ==
  ASSUME TypeInv, NEW q \in Queries, NEW k \in KernelNonces, NEW us \in Seq(Waiting), PostUpdates(q, k, us)
  PROVE  outbox' \in [Parties -> Seq(Outgoing)]
<1> DEFINE ms == [i \in DOMAIN us |-> Message("queryUpdate", k, us[i])]
<1>1. ms \in Seq(Outgoing)
  <2>1. \A i \in DOMAIN us : us[i] \in Waiting
    OBVIOUS
  <2>2. \A i \in DOMAIN us : Message("queryUpdate", k, us[i]) \in Outgoing
    BY <2>1 DEF Message, Outgoing
  <2>3. DOMAIN us = 1 .. Len(us) /\ Len(us) \in Nat
    OBVIOUS
  <2> QED
    BY <2>2, <2>3
<1>2. q[1] \in Parties
  BY ConstantTypes
<1>3. outbox' = [outbox EXCEPT ![q[1]] = @ \o ms]
  BY DEF PostUpdates
<1> HIDE DEF ms
<1> QED
  BY <1>1, <1>2, <1>3 DEF TypeInv, BoxTypes

\* What was said grows by one message at a time.
LEMMA SayTypes ==
  ASSUME TypeInv, NEW p \in Parties, NEW k \in KernelNonces, NEW m, NEW d,
         [method |-> m, data |-> d] \in Said, Say(p, k, m, d)
  PROVE  /\ outbox' \in [Parties -> Seq(Outgoing)]
         /\ said' \in [KernelNonces -> Seq(Said)]
         /\ \E n \in Nat : \A j \in KernelNonces : Len(said'[j]) <= n
<1>1. Message(m, k, d) \in Outgoing
  BY DEF Message, Said, Outgoing
<1>2. outbox' \in [Parties -> Seq(Outgoing)]
  BY <1>1, PostTypes DEF Say
<1>3. said' = [said EXCEPT ![k] = Append(@, [method |-> m, data |-> d])]
  BY DEF Say
<1>4. said \in [KernelNonces -> Seq(Said)]
  BY DEF TypeInv, ModuleTypes
<1>5. PICK n \in Nat : \A j \in KernelNonces : Len(said[j]) <= n
  BY DEF TypeInv, ModuleTypes
<1>6. \A j \in KernelNonces : Len(said'[j]) <= n + 1
  BY <1>3, <1>4, <1>5
<1> QED
  BY <1>2, <1>3, <1>4, <1>6

LEMMA TypeInit == Init => TypeInv
<1> SUFFICES ASSUME Init PROVE TypeInv
  OBVIOUS
<1> USE ConstantTypes
<1>1. BoxTypes
  BY DEF Init, BoxTypes
<1>2. CallerTypes
  <2>1. NoQuery \in Query
    BY DEF NoQuery, Query
  <2>2. queriesNonce \in [Callers -> 0 .. MaxCalls] /\ asked \in [Queries -> 0 .. MaxUpdates]
    BY DEF Init
  <2> QED
    BY <2>1, <2>2 DEF Init, CallerTypes
<1>3. KernelTypes
  BY DEF Init, KernelTypes
<1>4. ModuleTypes
  <2>1. NoHandler \in HandlerState
    BY DEF NoHandler, HandlerState, Methods
  <2>2. \A k \in KernelNonces : Len(said[k]) <= 0
    BY DEF Init
  <2>3. handlers \in [KernelNonces -> HandlerState]
    BY <2>1 DEF Init
  <2> QED
    BY <2>2, <2>3 DEF Init, ModuleTypes
<1> QED
  BY <1>1, <1>2, <1>3, <1>4 DEF TypeInv

LEMMA CallerStepTypes == ASSUME TypeInv, Caller PROVE TypeInv'
<1> USE ConstantTypes
<1>1. ASSUME NEW p \in Callers, NEW to \in Modules, NEW method \in Methods, NEW wants \in BOOLEAN,
             NewKernelQuery(p, to, method, wants)
      PROVE  TypeInv'
  <2> DEFINE n == queriesNonce[p] + 1
             m == Message("moduleCall", n, [module |-> to, method |-> method, sendKernelNonce |-> wants])
  <2>1. queriesNonce \in [Callers -> 0 .. MaxCalls] /\ n <= MaxCalls
    BY <1>1 DEF TypeInv, CallerTypes, NewKernelQuery
  <2>2. n \in 1 .. MaxCalls
    BY <2>1
  <2>3. Post(p, m) /\ queriesNonce' = [queriesNonce EXCEPT ![p] = n]
        /\ queries' = [queries EXCEPT ![<<p, n>>].open = TRUE, ![<<p, n>>].wantsNonce = wants]
        /\ UNCHANGED <<inbox, asked, heard, kernelVars, moduleVars>>
    BY <1>1 DEF NewKernelQuery
  <2>4. m \in Outgoing
    BY <2>2 DEF Message, Outgoing
  <2> HIDE DEF n, m
  <2>5. outbox' \in [Parties -> Seq(Outgoing)]
    BY <2>3, <2>4, PostTypes
  <2>6. queriesNonce' \in [Callers -> 0 .. MaxCalls]
    BY <2>1, <2>2, <2>3
  <2>7. queries' \in [Queries -> Query]
    BY <2>2, <2>3 DEF TypeInv, CallerTypes, Query
  <2> QED
    BY <2>3, <2>5, <2>6, <2>7 DEF TypeInv, BoxTypes, CallerTypes, KernelTypes, ModuleTypes, kernelVars, moduleVars
<1>2. ASSUME NEW q \in Queries, SendQueryUpdate(q) PROVE TypeInv'
  <2> DEFINE u == Update(q, asked[q] + 1)
  <2>1. asked[q] + 1 \in 0 .. MaxUpdates
    BY <1>2, AskedBound DEF SendQueryUpdate
  <2>2. u \in Waiting /\ asked' = [asked EXCEPT ![q] = @ + 1]
    BY <1>2, <2>1 DEF Update, Waiting, SendQueryUpdate
  <2>3. UNCHANGED <<inbox, queriesNonce, heard, kernelVars, moduleVars>>
    BY <1>2 DEF SendQueryUpdate
  <2>4. asked' \in [Queries -> 0 .. MaxUpdates]
    BY <2>1, <2>2 DEF TypeInv, CallerTypes
  <2>5. queries' \in [Queries -> Query] /\ outbox' \in [Parties -> Seq(Outgoing)]
    <3>1. CASE queries[q].kernelNonce = 0
      <4>1. queries' = [queries EXCEPT ![q].held = Append(@, u)] /\ outbox' = outbox
        BY <1>2, <3>1 DEF SendQueryUpdate
      <4> HIDE DEF u
      <4>2. queries[q] \in Query
        BY DEF TypeInv, CallerTypes
      <4>3. Append(queries[q].held, u) \in Seq(Waiting)
        BY <2>2, <4>2 DEF Query
      <4>4. [queries[q] EXCEPT !.held = Append(@, u)] \in Query
        BY <4>2, <4>3 DEF Query
      <4> QED
        BY <4>1, <4>2, <4>4 DEF TypeInv, CallerTypes, BoxTypes
    <3>2. CASE queries[q].kernelNonce # 0 /\ queries[q].open
      <4>1. queries' = queries /\ PostUpdates(q, queries[q].kernelNonce, <<u>>)
        BY <1>2, <3>2 DEF SendQueryUpdate
      <4>2. queries[q].kernelNonce \in KernelNonces
        BY <3>2 DEF TypeInv, CallerTypes, Query
      <4>3. <<u>> \in Seq(Waiting)
        BY <2>2
      <4> HIDE DEF u
      <4> QED
        BY <4>1, <4>2, <4>3, PostUpdatesTypes DEF TypeInv, CallerTypes
    <3>3. CASE queries[q].kernelNonce # 0 /\ ~queries[q].open
      BY <1>2, <3>3 DEF SendQueryUpdate, TypeInv, CallerTypes, BoxTypes
    <3> QED
      BY <3>1, <3>2, <3>3
  <2> QED
    BY <2>3, <2>4, <2>5 DEF TypeInv, BoxTypes, CallerTypes, KernelTypes, ModuleTypes, kernelVars, moduleVars
<1>3. ASSUME NEW p \in Callers, HandleResponseNonce(p) \/ HandleResponseUpdate(p) \/ HandleResponse(p) PROVE TypeInv'
  <2> DEFINE m == Head(inbox[p])
             q == <<p, m.nonce>>
  <2>1. PICK method \in {"responseNonce", "responseUpdate", "response"} : Take(p, method)
    BY <1>3 DEF HandleResponseNonce, HandleResponseUpdate, HandleResponse
  <2>2. m \in Incoming /\ m.method = method /\ inbox' \in [Parties -> Seq(Incoming)]
    BY <2>1, TakeTypes
  <2>3. q \in Queries
    BY <2>1, <2>2, IncomingTypes DEF Queries
  <2>4. [method |-> m.method, data |-> m.data] \in Heard
    BY <2>1, <2>2, IncomingTypes DEF Heard, Told
  <2>5. UNCHANGED <<queriesNonce, asked, kernelVars, moduleVars>>
    BY <1>3 DEF HandleResponseNonce, HandleResponseUpdate, HandleResponse
  <2>6. heard' \in [Queries -> Seq(Heard)]
    <3>1. Hear(q, m) => heard' \in [Queries -> Seq(Heard)]
      <4> HIDE DEF m, q
      <4> QED
        BY <2>3, <2>4 DEF Hear, TypeInv, CallerTypes
    <3>2. Hear(q, m) \/ heard' = heard
      BY <1>3 DEF HandleResponseNonce, HandleResponseUpdate, HandleResponse
    <3> QED
      BY <3>1, <3>2 DEF TypeInv, CallerTypes
  <2>7. queries' \in [Queries -> Query] /\ outbox' \in [Parties -> Seq(Outgoing)]
    <3>1. CASE queries' = queries /\ outbox' = outbox
      BY <3>1 DEF TypeInv, CallerTypes, BoxTypes
    <3>2. CASE queries' = [queries EXCEPT ![q].open = FALSE] /\ outbox' = outbox
      BY <2>3, <3>2 DEF TypeInv, CallerTypes, BoxTypes, Query
    <3>3. CASE /\ m.method = "responseNonce"
               /\ queries' = [queries EXCEPT ![q].kernelNonce = m.data, ![q].held = <<>>]
               /\ PostUpdates(q, m.data, queries[q].held)
      <4>1. m.data \in KernelNonces
        BY <2>2, <3>3, IncomingTypes
      <4>2. queries[q].held \in Seq(Waiting)
        BY <2>3 DEF TypeInv, CallerTypes, Query
      <4> HIDE DEF m, q
      <4>3. outbox' \in [Parties -> Seq(Outgoing)]
        BY <2>3, <3>3, <4>1, <4>2, PostUpdatesTypes
      <4>4. queries' \in [Queries -> Query]
        <5>1. [queries[q] EXCEPT !.kernelNonce = m.data, !.held = <<>>] \in Query
          <6>1. queries[q] \in Query /\ <<>> \in Seq(Waiting)
            BY <2>3 DEF TypeInv, CallerTypes
          <6> QED
            BY <4>1, <6>1 DEF Query
        <5>2. queries' = [queries EXCEPT ![q] = [queries[q] EXCEPT !.kernelNonce = m.data, !.held = <<>>]]
          BY <3>3
        <5> QED
          BY <2>3, <5>1, <5>2 DEF TypeInv, CallerTypes
      <4> QED
        BY <4>3, <4>4
    <3> QED
      <4>1. HandleResponseNonce(p) => Take(p, "responseNonce")
        BY DEF HandleResponseNonce
      <4>2. HandleResponseNonce(p) => m.method = "responseNonce"
        BY <4>1, TakeTypes
      <4> QED
        BY <1>3, <3>1, <3>2, <3>3, <4>2 DEF HandleResponseNonce, HandleResponseUpdate, HandleResponse
  <2> HIDE DEF m, q
  <2> QED
    BY <2>2, <2>5, <2>6, <2>7 DEF TypeInv, BoxTypes, CallerTypes, KernelTypes, ModuleTypes, kernelVars, moduleVars
<1> QED
  BY <1>1, <1>2, <1>3 DEF Caller

LEMMA UpdatesFinite == ASSUME TypeInv, NEW k \in KernelNonces PROVE IsFiniteSet(Updates(k))
<1>1. Updates(k) \subseteq 1 .. Len(said[k]) /\ Len(said[k]) \in Nat
  BY DEF Updates, Of, TypeInv, ModuleTypes
<1>2. IsFiniteSet(1 .. Len(said[k]))
  BY <1>1, FS_Interval
<1> QED
  BY <1>1, <1>2, FS_Subset

\* Handlers and what waits for them.
LEMMA HandlerStepTypes ==
  ASSUME TypeInv, NEW p \in Parties, NEW k \in KernelNonces,
         \/ \E answer \in {"data", "err", "null"} : Respond(p, k, answer)
         \/ SendResponseUpdate(p, k)
         \/ SetReceiveUpdate(p, k)
  PROVE  TypeInv'
<1> USE ConstantTypes
<1>1. ASSUME NEW answer \in {"data", "err", "null"}, Respond(p, k, answer) PROVE TypeInv'
  <2>1. [method |-> "response", data |-> answer] \in Said
    BY DEF Said, Answer
  <2>2. Say(p, k, "response", answer) /\ ClearIncomingQuery(k) /\ Responded(k)
        /\ UNCHANGED <<inbox, running, due, got, callerVars, kernelVars>>
    BY <1>1 DEF Respond
  <2>3. outbox' \in [Parties -> Seq(Outgoing)] /\ said' \in [KernelNonces -> Seq(Said)]
        /\ \E n \in Nat : \A j \in KernelNonces : Len(said'[j]) <= n
    BY <2>1, <2>2, SayTypes
  <2>4. handlers' \in [KernelNonces -> HandlerState] /\ incomingQueries' \subseteq KernelNonces
    BY <2>2 DEF Responded, ClearIncomingQuery, TypeInv, ModuleTypes, HandlerState
  <2> QED
    BY <2>2, <2>3, <2>4 DEF TypeInv, BoxTypes, CallerTypes, KernelTypes, ModuleTypes, callerVars, kernelVars
<1>2. ASSUME SendResponseUpdate(p, k) PROVE TypeInv'
  <2> DEFINE d == Cardinality(Updates(k)) + 1
  <2>1. d \in Nat
    BY UpdatesFinite, FS_CardinalityType
  <2>2. Say(p, k, "responseUpdate", d)
        /\ UNCHANGED <<inbox, handlers, incomingQueries, running, due, got, callerVars, kernelVars>>
    BY <1>2 DEF SendResponseUpdate
  <2> HIDE DEF d
  <2>3. [method |-> "responseUpdate", data |-> d] \in Said
    BY <2>1 DEF Said
  <2>4. outbox' \in [Parties -> Seq(Outgoing)] /\ said' \in [KernelNonces -> Seq(Said)]
        /\ \E n \in Nat : \A j \in KernelNonces : Len(said'[j]) <= n
    BY <2>2, <2>3, SayTypes
  <2> QED
    BY <2>2, <2>4 DEF TypeInv, BoxTypes, CallerTypes, KernelTypes, ModuleTypes, callerVars, kernelVars
<1>3. ASSUME SetReceiveUpdate(p, k) PROVE TypeInv'
  <2> DEFINE ds == [i \in DOMAIN handlers[k].waiting |-> [nonce |-> k, data |-> handlers[k].waiting[i]]]
  <2>1. handlers[k] \in HandlerState /\ handlers[k].waiting \in Seq(Waiting)
    BY DEF TypeInv, ModuleTypes, HandlerState
  <2>2. ds \in Seq(Due)
    <3>1. \A i \in DOMAIN handlers[k].waiting : [nonce |-> k, data |-> handlers[k].waiting[i]] \in Due
      BY <2>1 DEF Due
    <3>2. DOMAIN handlers[k].waiting = 1 .. Len(handlers[k].waiting) /\ Len(handlers[k].waiting) \in Nat
      BY <2>1
    <3> QED
      BY <3>1, <3>2
  <2>3. handlers' = [handlers EXCEPT ![k].receiver = TRUE, ![k].waiting = <<>>]
        /\ due' = [due EXCEPT ![p] = @ \o ds]
        /\ UNCHANGED <<outbox, inbox, incomingQueries, running, said, got, callerVars, kernelVars>>
    BY <1>3 DEF SetReceiveUpdate
  <2> HIDE DEF ds
  <2>4. due' \in [Parties -> Seq(Due)]
    BY <2>2, <2>3 DEF TypeInv, ModuleTypes
  <2>5. [handlers[k] EXCEPT !.receiver = TRUE, !.waiting = <<>>] \in HandlerState
    <3>1. <<>> \in Seq(Waiting)
      OBVIOUS
    <3> QED
      BY <2>1, <3>1 DEF HandlerState
  <2>6. handlers' = [handlers EXCEPT ![k] = [handlers[k] EXCEPT !.receiver = TRUE, !.waiting = <<>>]]
    BY <2>3
  <2>7. handlers' \in [KernelNonces -> HandlerState]
    BY <2>5, <2>6 DEF TypeInv, ModuleTypes
  <2> QED
    BY <2>3, <2>4, <2>7 DEF TypeInv, BoxTypes, CallerTypes, KernelTypes, ModuleTypes, callerVars, kernelVars
<1> QED
  BY <1>1, <1>2, <1>3

LEMMA ModuleStepTypes ==
  ASSUME TypeInv, NEW p \in Parties,
         HandleCall(p) \/ HandleQueryUpdate(p) \/ RunMicrotask(p) \/ HandlerReturns(p) \/ HandlerThrows(p)
  PROVE  TypeInv'
<1> USE ConstantTypes
<1>1. ASSUME HandleCall(p) PROVE TypeInv'
  <2> DEFINE m == Head(inbox[p])
             k == m.nonce
  <2>1. Take(p, "moduleCall") /\ UNCHANGED <<due, got, callerVars, kernelVars>>
    BY <1>1 DEF HandleCall
  <2>2. m \in Incoming /\ m.method = "moduleCall" /\ inbox' \in [Parties -> Seq(Incoming)]
    BY <2>1, TakeTypes
  <2>3. k \in KernelNonces /\ m.data \in Methods
    BY <2>2, IncomingTypes
  <2>4. CASE m.data = "unknown"
    <3>1. Say(p, k, "response", "err") /\ ClearIncomingQuery(k) /\ UNCHANGED <<handlers, running>>
      BY <1>1, <2>4 DEF HandleCall, RespondErr
    <3>2. [method |-> "response", data |-> "err"] \in Said
      BY DEF Said, Answer
    <3> HIDE DEF m, k
    <3>3. outbox' \in [Parties -> Seq(Outgoing)] /\ said' \in [KernelNonces -> Seq(Said)]
          /\ \E n \in Nat : \A j \in KernelNonces : Len(said'[j]) <= n
      BY <2>3, <3>1, <3>2, SayTypes
    <3> QED
      BY <2>1, <2>2, <3>1, <3>3
      DEF ClearIncomingQuery, TypeInv, BoxTypes, CallerTypes, KernelTypes, ModuleTypes, callerVars, kernelVars
  <2>5. CASE m.data # "unknown"
    <3>1. /\ handlers' = [handlers EXCEPT ![k].method = m.data]
          /\ incomingQueries' \subseteq incomingQueries \cup {k}
          /\ running' = [running EXCEPT ![p] = k]
          /\ UNCHANGED <<outbox, said>>
      BY <1>1, <2>5 DEF HandleCall
    <3> DEFINE d == m.data
    <3>2. handlers' = [handlers EXCEPT ![k].method = d] /\ d \in Methods
      BY <2>3, <3>1
    <3> HIDE DEF m, k, d
    <3>3. handlers' \in [KernelNonces -> HandlerState]
      BY <2>3, <3>2 DEF TypeInv, ModuleTypes, HandlerState
    <3> QED
      BY <2>1, <2>2, <2>3, <3>1, <3>3 DEF TypeInv, BoxTypes, CallerTypes, KernelTypes, ModuleTypes, callerVars, kernelVars
  <2> QED
    BY <2>4, <2>5
<1>2. ASSUME HandleQueryUpdate(p) PROVE TypeInv'
  <2> DEFINE m == Head(inbox[p])
             k == m.nonce
             u == m.data
  <2>1. Take(p, "queryUpdate") /\ UNCHANGED <<outbox, incomingQueries, running, due, said, callerVars, kernelVars>>
    BY <1>2 DEF HandleQueryUpdate
  <2>2. m \in Incoming /\ m.method = "queryUpdate" /\ inbox' \in [Parties -> Seq(Incoming)]
    BY <2>1, TakeTypes
  <2>3. k \in KernelNonces /\ u \in Waiting
    BY <2>2, IncomingTypes
  <2>4. \/ got' = [got EXCEPT ![k] = Append(@, u)] /\ handlers' = handlers
        \/ handlers' = [handlers EXCEPT ![k].waiting = Append(@, u)] /\ got' = got
        \/ handlers' = handlers /\ got' = got
    BY <1>2 DEF HandleQueryUpdate
  <2> HIDE DEF m, k, u
  <2>5. got' \in [KernelNonces -> Seq(Waiting)] /\ handlers' \in [KernelNonces -> HandlerState]
    <3>1. CASE got' = [got EXCEPT ![k] = Append(@, u)] /\ handlers' = handlers
      BY <2>3, <3>1 DEF TypeInv, ModuleTypes
    <3>2. CASE handlers' = [handlers EXCEPT ![k].waiting = Append(@, u)] /\ got' = got
      <4>1. handlers[k] \in HandlerState /\ Append(handlers[k].waiting, u) \in Seq(Waiting)
        BY <2>3 DEF TypeInv, ModuleTypes, HandlerState
      <4>2. [handlers[k] EXCEPT !.waiting = Append(@, u)] \in HandlerState
        BY <4>1 DEF HandlerState
      <4>3. handlers' = [handlers EXCEPT ![k] = [handlers[k] EXCEPT !.waiting = Append(@, u)]]
        BY <3>2
      <4> QED
        BY <2>3, <3>2, <4>2, <4>3 DEF TypeInv, ModuleTypes
    <3> QED
      BY <2>4, <3>1, <3>2 DEF TypeInv, ModuleTypes
  <2> QED
    BY <2>1, <2>2, <2>5 DEF TypeInv, BoxTypes, CallerTypes, KernelTypes, ModuleTypes, callerVars, kernelVars
<1>3. ASSUME RunMicrotask(p) PROVE TypeInv'
  <2> DEFINE d == Head(due[p])
  <2>1. /\ due[p] # <<>> /\ due' = [due EXCEPT ![p] = Tail(@)]
        /\ got' = [got EXCEPT ![d.nonce] = Append(@, d.data)]
        /\ UNCHANGED <<outbox, inbox, handlers, incomingQueries, running, said, callerVars, kernelVars>>
    BY <1>3 DEF RunMicrotask
  <2>2. d \in Due /\ due' \in [Parties -> Seq(Due)]
    BY <2>1 DEF TypeInv, ModuleTypes
  <2>3. d.nonce \in KernelNonces /\ d.data \in Waiting
    BY <2>2 DEF Due
  <2> HIDE DEF d
  <2>4. got' \in [KernelNonces -> Seq(Waiting)]
    BY <2>1, <2>3 DEF TypeInv, ModuleTypes
  <2> QED
    BY <2>1, <2>2, <2>4 DEF TypeInv, BoxTypes, CallerTypes, KernelTypes, ModuleTypes, callerVars, kernelVars
<1>4. ASSUME HandlerReturns(p) PROVE TypeInv'
  BY <1>4 DEF HandlerReturns, TypeInv, BoxTypes, CallerTypes, KernelTypes, ModuleTypes, callerVars, kernelVars
<1>5. ASSUME HandlerThrows(p) PROVE TypeInv'
  <2> DEFINE k == running[p]
  <2>1. k \in KernelNonces /\ running' \in [Parties -> {0} \cup KernelNonces]
        /\ UNCHANGED <<inbox, handlers, due, got, callerVars, kernelVars>>
    BY <1>5 DEF HandlerThrows, TypeInv, ModuleTypes
  <2>2. \/ UNCHANGED <<outbox, said, incomingQueries>>
        \/ Say(p, k, "response", "thrown") /\ ClearIncomingQuery(k)
    BY <1>5 DEF HandlerThrows, RespondErr
  <2>3. [method |-> "response", data |-> "thrown"] \in Said
    BY DEF Said, Answer
  <2>4. outbox' \in [Parties -> Seq(Outgoing)] /\ said' \in [KernelNonces -> Seq(Said)]
        /\ \E n \in Nat : \A j \in KernelNonces : Len(said'[j]) <= n
    BY <2>1, <2>2, <2>3, SayTypes DEF TypeInv, BoxTypes, ModuleTypes
  <2>5. incomingQueries' \subseteq KernelNonces
    BY <2>2 DEF ClearIncomingQuery, TypeInv, ModuleTypes
  <2> QED
    BY <2>1, <2>4, <2>5 DEF TypeInv, BoxTypes, CallerTypes, KernelTypes, ModuleTypes, callerVars, kernelVars
<1> QED
  BY <1>1, <1>2, <1>3, <1>4, <1>5

(***************************************************************************)
(* Calls reach the kernel once, so each opens one query.                    *)
(***************************************************************************)

LEMMA CallInit == Init => CallInv
<1> SUFFICES ASSUME Init PROVE CallInv
  OBVIOUS
<1>1. served = {} /\ kernelNonces = 0 /\ Opened = {}
  BY DEF Init, Opened
<1>2. Cardinality({}) = 0
  BY FS_EmptySet
<1>3. \A p \in Parties : Calls(p) = {}
  <2>1. DOMAIN (<<>>) = {}
    OBVIOUS
  <2> QED
    BY <2>1 DEF Init, Calls
<1> QED
  BY <1>1, <1>2, <1>3 DEF CallInv

\* No call is posted to the kernel.
NoNewCall ==
    \A p \in Parties :
        \/ outbox'[p] = outbox[p]
        \/ outbox[p] # <<>> /\ outbox'[p] = Tail(outbox[p])
        \/ \E t \in Seq(Outgoing) :
               /\ \A i \in DOMAIN t : t[i].method # "moduleCall"
               /\ outbox'[p] = outbox[p] \o t

LEMMA CallsFrame ==
  ASSUME TypeInv, NoNewCall, NEW p \in Parties
  PROVE  \/ /\ Calls(p)' \subseteq Calls(p)
            /\ \A i \in Calls(p)' : outbox'[p][i] = outbox[p][i]
         \/ \A i \in Calls(p)' : i + 1 \in Calls(p) /\ outbox'[p][i] = outbox[p][i + 1] /\ i \in Nat
<1>0. outbox[p] \in Seq(Outgoing)
  BY DEF TypeInv, BoxTypes
<1>1. CASE outbox'[p] = outbox[p]
  BY <1>1 DEF Calls
<1>2. CASE outbox[p] # <<>> /\ outbox'[p] = Tail(outbox[p])
  <2>1. \A i \in DOMAIN Tail(outbox[p]) : i \in Nat /\ i + 1 \in DOMAIN outbox[p] /\ Tail(outbox[p])[i] = outbox[p][i + 1]
    BY <1>0, <1>2
  <2> QED
    BY <1>2, <2>1 DEF Calls
<1>3. CASE \E t \in Seq(Outgoing) :
               /\ \A i \in DOMAIN t : t[i].method # "moduleCall"
               /\ outbox'[p] = outbox[p] \o t
  <2>1. PICK t \in Seq(Outgoing) :
               /\ \A i \in DOMAIN t : t[i].method # "moduleCall"
               /\ outbox'[p] = outbox[p] \o t
    BY <1>3
  <2> DEFINE s == outbox[p] \o t
             l == Len(outbox[p])
  <2>2. l \in Nat /\ DOMAIN outbox[p] = 1 .. l /\ DOMAIN t = 1 .. Len(t) /\ Len(t) \in Nat
    BY <1>0
  <2>3. \A i \in DOMAIN s :
            \/ i \in DOMAIN outbox[p] /\ s[i] = outbox[p][i]
            \/ i - l \in DOMAIN t /\ s[i] = t[i - l]
    BY <1>0, <2>2
  <2> HIDE DEF s, l
  <2>4. \A i \in DOMAIN s : s[i].method = "moduleCall" => i \in DOMAIN outbox[p] /\ s[i] = outbox[p][i]
    BY <2>1, <2>3
  <2> QED
    BY <2>1, <2>4 DEF Calls, s
<1> QED
  BY <1>1, <1>2, <1>3 DEF NoNewCall

LEMMA CallFrame ==
  ASSUME TypeInv, CallInv, NoNewCall, UNCHANGED <<served, kernelNonces, queriesNonce>>
  PROVE  CallInv'
<1>1. Opened' = Opened
  BY DEF Opened
<1>2. \A p \in Parties : \A i \in Calls(p)' :
          /\ p \in Callers /\ outbox'[p][i].nonce <= queriesNonce[p]
          /\ <<p, outbox'[p][i].nonce>> \notin Opened
          /\ \A j \in Calls(p)' : outbox'[p][i].nonce = outbox'[p][j].nonce => i = j
  <2> SUFFICES ASSUME NEW p \in Parties, NEW i \in Calls(p)'
               PROVE  /\ p \in Callers /\ outbox'[p][i].nonce <= queriesNonce[p]
                      /\ <<p, outbox'[p][i].nonce>> \notin Opened
                      /\ \A j \in Calls(p)' : outbox'[p][i].nonce = outbox'[p][j].nonce => i = j
    OBVIOUS
  <2>1. CASE /\ Calls(p)' \subseteq Calls(p)
             /\ \A j \in Calls(p)' : outbox'[p][j] = outbox[p][j]
    BY <2>1 DEF CallInv
  <2>2. CASE \A j \in Calls(p)' : j + 1 \in Calls(p) /\ outbox'[p][j] = outbox[p][j + 1] /\ j \in Nat
    <3>1. \A j \in Calls(p)' : outbox'[p][i].nonce = outbox'[p][j].nonce => i + 1 = j + 1
      BY <2>2 DEF CallInv
    <3>2. \A j \in Calls(p)' : i + 1 = j + 1 => i = j
      BY <2>2
    <3> QED
      BY <2>2, <3>1, <3>2 DEF CallInv
  <2> QED
    BY <2>1, <2>2, CallsFrame
<1> QED
  BY <1>1, <1>2 DEF CallInv, AskedBy

LEMMA QuietAppend ==
  ASSUME TypeInv, TypeInv', NEW p \in Parties,
         outbox' = outbox \/ \E e : e.method # "moduleCall" /\ outbox' = [outbox EXCEPT ![p] = Append(@, e)]
  PROVE  NoNewCall
<1>1. CASE outbox' = outbox
  BY <1>1 DEF NoNewCall
<1>2. CASE \E e : e.method # "moduleCall" /\ outbox' = [outbox EXCEPT ![p] = Append(@, e)]
  <2>1. PICK e : e.method # "moduleCall" /\ outbox' = [outbox EXCEPT ![p] = Append(@, e)]
    BY <1>2
  <2>2. outbox[p] \in Seq(Outgoing) /\ outbox'[p] \in Seq(Outgoing) /\ outbox'[p] = Append(outbox[p], e)
    BY <2>1 DEF TypeInv, BoxTypes
  <2>3. e \in Outgoing
    <3>1. Len(outbox[p]) + 1 \in DOMAIN outbox'[p] /\ outbox'[p][Len(outbox[p]) + 1] = e
      BY <2>2
    <3> QED
      BY <2>2, <3>1
  <2>4. <<e>> \in Seq(Outgoing) /\ \A i \in DOMAIN <<e>> : <<e>>[i].method # "moduleCall"
    BY <2>1, <2>3
  <2>5. Append(outbox[p], e) = outbox[p] \o <<e>>
    BY <2>2, <2>3
  <2> QED
    BY <2>1, <2>4, <2>5 DEF NoNewCall, TypeInv, BoxTypes
<1> QED
  BY <1>1, <1>2

LEMMA PostUpdatesNoCall ==
  ASSUME TypeInv, NEW q \in Queries, NEW k \in KernelNonces, NEW us \in Seq(Waiting), PostUpdates(q, k, us)
  PROVE  NoNewCall
<1> DEFINE ms == [i \in DOMAIN us |-> Message("queryUpdate", k, us[i])]
<1>1. ms \in Seq(Outgoing) /\ \A i \in DOMAIN ms : ms[i].method # "moduleCall"
  <2>1. \A i \in DOMAIN us : us[i] \in Waiting
    OBVIOUS
  <2>2. \A i \in DOMAIN us : Message("queryUpdate", k, us[i]) \in Outgoing
    BY <2>1 DEF Message, Outgoing
  <2>3. DOMAIN us = 1 .. Len(us) /\ Len(us) \in Nat
    OBVIOUS
  <2>4. \A i \in DOMAIN us : Message("queryUpdate", k, us[i]).method # "moduleCall"
    BY DEF Message
  <2> QED
    BY <2>2, <2>3, <2>4
<1>2. outbox' = [outbox EXCEPT ![q[1]] = @ \o ms]
  BY DEF PostUpdates
<1> HIDE DEF ms
<1> QED
  BY <1>1, <1>2, ConstantTypes DEF NoNewCall, TypeInv, BoxTypes

LEMMA TakeFromNoCall ==
  ASSUME TypeInv, NEW p \in Parties, NEW method, TakeFrom(p, method)
  PROVE  NoNewCall
BY TakeFromTypes DEF NoNewCall, TypeInv, BoxTypes

LEMMA NewCall ==
  ASSUME TypeInv, CallInv, NEW p \in Callers, NEW to \in Modules, NEW method \in Methods, NEW wants \in BOOLEAN,
         NewKernelQuery(p, to, method, wants)
  PROVE  CallInv'
<1> DEFINE n == queriesNonce[p] + 1
           m == Message("moduleCall", n, [module |-> to, method |-> method, sendKernelNonce |-> wants])
<1>1. /\ n <= MaxCalls /\ queriesNonce' = [queriesNonce EXCEPT ![p] = n]
      /\ outbox' = [outbox EXCEPT ![p] = Append(@, m)]
      /\ UNCHANGED <<served, kernelNonces>>
  BY DEF NewKernelQuery, Post, kernelVars
<1>2. m.nonce = n
  BY DEF Message
<1>3. n \in Nat /\ n > queriesNonce[p] /\ queriesNonce \in [Callers -> 0 .. MaxCalls]
  BY DEF TypeInv, CallerTypes
<1>4. Opened' = Opened /\ p \in Parties
  BY <1>1, ConstantTypes DEF Opened
<1> HIDE DEF m
<1>5. \A g \in served : g.source \in Callers /\ g.nonce <= kernelNonces /\ g.query <= queriesNonce[g.source] /\ g.query \in Nat
  BY DEF CallInv, TypeInv, KernelTypes, Served
<1>6. \A g \in served : g.query <= queriesNonce'[g.source]
  BY <1>1, <1>3, <1>5
<1>7. <<p, n>> \notin Opened
  BY <1>3, <1>5 DEF Opened, AskedBy
<1> HIDE DEF n
<1>8. outbox \in [Parties -> Seq(Outgoing)]
  BY DEF TypeInv, BoxTypes
<1>9. \A i \in Calls(p)' : \/ i \in Calls(p) /\ outbox'[p][i] = outbox[p][i]
                           \/ i = Len(outbox[p]) + 1 /\ outbox'[p][i] = m
  BY <1>1, <1>4, <1>8 DEF Calls
<1>10. \A r \in Parties : r # p => Calls(r)' = Calls(r) /\ outbox'[r] = outbox[r]
  BY <1>1, <1>8 DEF Calls
<1>11. \A i \in Calls(p) : outbox[p][i].nonce <= queriesNonce[p] /\ outbox[p][i].nonce \in Nat
  <2>1. \A i \in Calls(p) : outbox[p][i] \in Outgoing /\ outbox[p][i].method = "moduleCall"
    BY <1>4, <1>8 DEF Calls
  <2>2. \A i \in Calls(p) : outbox[p][i].nonce \in 1 .. MaxCalls
    BY <2>1, OutgoingTypes
  <2>3. \A i \in Calls(p) : outbox[p][i].nonce <= queriesNonce[p]
    BY <1>4 DEF CallInv
  <2> QED
    BY <2>2, <2>3
<1>12. ASSUME NEW r \in Parties, NEW i \in Calls(r)'
       PROVE  /\ r \in Callers /\ outbox'[r][i].nonce <= queriesNonce'[r]
              /\ <<r, outbox'[r][i].nonce>> \notin Opened
              /\ \A j \in Calls(r)' : outbox'[r][i].nonce = outbox'[r][j].nonce => i = j
  <2>1. CASE r # p
    BY <1>1, <1>3, <1>10, <2>1 DEF CallInv
  <2>2. CASE r = p
    <3>1. \A j \in Calls(p) : outbox[p][j].nonce < n /\ outbox[p][j].nonce <= n
      BY <1>3, <1>11
    <3>2. queriesNonce'[p] = n
      BY <1>1, <1>3
    <3>3. \A j, h \in Calls(p) : outbox[p][h].nonce = outbox[p][j].nonce => h = j
      BY <1>4 DEF CallInv
    <3>4. n <= n /\ \A j \in Calls(p) : outbox[p][j].nonce # n
      BY <1>3, <1>11
    <3>5. outbox'[r][i].nonce <= queriesNonce'[r]
      BY <1>2, <1>9, <2>2, <3>1, <3>2, <3>4
    <3>6. <<r, outbox'[r][i].nonce>> \notin Opened
      BY <1>2, <1>4, <1>7, <1>9, <2>2 DEF CallInv
    <3>7. ASSUME NEW j \in Calls(r)', outbox'[r][i].nonce = outbox'[r][j].nonce PROVE i = j
      BY <1>2, <1>9, <2>2, <3>3, <3>4, <3>7
    <3> QED
      BY <2>2, <3>5, <3>6, <3>7
  <2> QED
    BY <2>1, <2>2
<1>13. Opened \subseteq Queries /\ Cardinality(Opened) = kernelNonces
       /\ \A g, h \in served : g.nonce = h.nonce \/ AskedBy(g) = AskedBy(h) => g = h
  BY DEF CallInv
<1>14. served' = served /\ kernelNonces' = kernelNonces /\ \A g : AskedBy(g)' = AskedBy(g)
  BY <1>1 DEF AskedBy
<1> HIDE <1>1
<1> QED
  BY <1>4, <1>5, <1>6, <1>12, <1>13, <1>14 DEF CallInv

\* The kernel opens a query: its nonce is new, and within the bound.
LEMMA OpenStep ==
  ASSUME TypeInv, CallInv, NEW p \in Parties, KernelOpens(p)
  PROVE  TypeInv' /\ CallInv'
<1> USE ConstantTypes
<1> DEFINE m == Head(outbox[p])
           k == kernelNonces + 1
           g == [nonce |-> k, source |-> p, query |-> m.nonce, dest |-> m.data.module]
           called == Sent(inbox, g.dest, Message("moduleCall", k, m.data.method))
           told == Message("responseNonce", m.nonce, k)
<1>1. /\ TakeFrom(p, "moduleCall") /\ kernelNonces' = k
      /\ open' = open \cup {g} /\ served' = served \cup {g}
      /\ inbox' = IF m.data.sendKernelNonce THEN Sent(called, p, told) ELSE called
      /\ UNCHANGED <<callerVars, moduleVars>>
  BY DEF KernelOpens
<1>2. m \in Outgoing /\ m.method = "moduleCall" /\ outbox' \in [Parties -> Seq(Outgoing)]
      /\ outbox' = [outbox EXCEPT ![p] = Tail(@)] /\ outbox[p] \in Seq(Outgoing) /\ outbox[p] # <<>>
  BY <1>1, TakeFromTypes
<1>3. m.nonce \in 1 .. MaxCalls /\ m.data.module \in Parties /\ m.data.method \in Methods
  BY <1>2, OutgoingTypes
<1>4. 1 \in Calls(p) /\ outbox[p][1] = m
  BY <1>2 DEF Calls
<1>5. p \in Callers /\ m.nonce <= queriesNonce[p] /\ <<p, m.nonce>> \notin Opened /\ <<p, m.nonce>> \in Queries
  BY <1>3, <1>4 DEF CallInv, Queries
<1>6. kernelNonces \in Nat /\ k \in Nat
  BY DEF TypeInv, KernelTypes
<1>7. Opened' = Opened \cup {<<p, m.nonce>>}
  <2>1. AskedBy(g) = <<p, m.nonce>> /\ served' = served \cup {g}
    BY <1>1 DEF AskedBy
  <2> HIDE DEF g, m, k
  <2>2. Opened' = {AskedBy(h) : h \in served'}
    BY DEF Opened, AskedBy
  <2> QED
    BY <2>1, <2>2 DEF Opened
<1>8. IsFiniteSet(Opened) /\ Opened \subseteq Queries /\ Cardinality(Opened) = kernelNonces
  BY Finite, FS_Subset DEF CallInv
<1>9. Cardinality(Opened \cup {<<p, m.nonce>>}) = kernelNonces + 1
  BY <1>5, <1>8, FS_AddElement
<1>10. Opened' \subseteq Queries /\ Cardinality(Opened') = k
  BY <1>5, <1>7, <1>8, <1>9
<1>11. k \in KernelNonces
  <2> HIDE DEF m, k
  <2>1. PICK T \in SUBSET Queries : T = Opened \cup {<<p, m.nonce>>}
    BY <1>5, <1>8
  <2>2. Cardinality(T) = k /\ k # 0
    BY <1>6, <1>9, <2>1 DEF k
  <2> QED
    BY <1>6, <2>2, Finite
<1>12. g \in Served
  BY <1>3, <1>5, <1>11 DEF Served
<1>13. inbox' \in [Parties -> Seq(Incoming)]
  <2>1. Message("moduleCall", k, m.data.method) \in Incoming /\ told \in Incoming
    BY <1>3, <1>11 DEF Message, Incoming
  <2> DEFINE c == Message("moduleCall", k, m.data.method)
  <2>2. called = [inbox EXCEPT ![m.data.module] = Append(@, c)]
    BY DEF Sent
  <2>3. Sent(called, p, told) = [called EXCEPT ![p] = Append(@, told)]
    BY DEF Sent
  <2> HIDE DEF c, told, called, m, k
  <2>4. called \in [Parties -> Seq(Incoming)]
    BY <1>3, <2>1, <2>2 DEF TypeInv, BoxTypes, c
  <2>5. Sent(called, p, told) \in [Parties -> Seq(Incoming)]
    BY <2>1, <2>3, <2>4
  <2> QED
    BY <1>1, <2>4, <2>5
<1>14. TypeInv'
  <2> HIDE DEF m, k, g
  <2>1. kernelNonces' \in KernelNonces /\ open' \subseteq served' /\ served' \subseteq Served
    BY <1>1, <1>11, <1>12 DEF TypeInv, KernelTypes
  <2> QED
    BY <1>1, <1>2, <1>13, <2>1 DEF TypeInv, BoxTypes, CallerTypes, KernelTypes, ModuleTypes, callerVars, moduleVars
<1>15. g.nonce = k /\ AskedBy(g) = <<p, m.nonce>> /\ g.source = p /\ g.query = m.nonce
  BY DEF AskedBy
<1>16. \A h \in served : h.nonce <= kernelNonces /\ h.nonce < k /\ AskedBy(h) \in Opened
  BY <1>6, ConstantTypes DEF CallInv, Opened, TypeInv, KernelTypes, Served
<1> DEFINE n == m.nonce
<1>17. \A h \in served' : h.nonce <= k /\ h.query <= queriesNonce[h.source]
  <2> HIDE DEF g, k
  <2>1. \A h \in served : h.nonce <= k /\ h.query <= queriesNonce[h.source]
    BY <1>6, <1>16, ConstantTypes DEF CallInv, TypeInv, KernelTypes, Served, k
  <2>2. k <= k
    BY <1>6
  <2> QED
    BY <1>1, <1>5, <1>15, <2>1, <2>2
<1>18. \A h, o \in served' : h.nonce = o.nonce \/ AskedBy(h) = AskedBy(o) => h = o
  <2> HIDE DEF g, k, m
  <2>1. \A h, o \in served : h.nonce = o.nonce \/ AskedBy(h) = AskedBy(o) => h = o
    BY DEF CallInv
  <2>2. \A h \in served : h.nonce # k /\ AskedBy(h) # <<p, m.nonce>>
    BY <1>5, <1>6, <1>16, ConstantTypes DEF TypeInv, KernelTypes, Served
  <2> QED
    BY <1>1, <1>15, <2>1, <2>2
<1>19. \A r \in Parties : \A i \in Calls(r)' :
           /\ r \in Callers /\ outbox'[r][i].nonce <= queriesNonce[r]
           /\ <<r, outbox'[r][i].nonce>> \notin Opened'
           /\ \A j \in Calls(r)' : outbox'[r][i].nonce = outbox'[r][j].nonce => i = j
  <2> SUFFICES ASSUME NEW r \in Parties, NEW i \in Calls(r)'
               PROVE  /\ r \in Callers /\ outbox'[r][i].nonce <= queriesNonce[r]
                      /\ <<r, outbox'[r][i].nonce>> \notin Opened'
                      /\ \A j \in Calls(r)' : outbox'[r][i].nonce = outbox'[r][j].nonce => i = j
    OBVIOUS
  <2>1. CASE r # p
    <3>1. outbox'[r] = outbox[r] /\ Calls(r)' = Calls(r)
      BY <1>2, <2>1 DEF Calls, TypeInv, BoxTypes
    <3> QED
      BY <1>7, <2>1, <3>1 DEF CallInv
  <2>2. CASE r = p
    <3>1. \A j \in Calls(p)' : j \in Nat \ {0} /\ j + 1 \in Calls(p) /\ outbox'[p][j] = outbox[p][j + 1]
      <4>1. outbox'[p] = Tail(outbox[p])
        BY <1>2 DEF TypeInv, BoxTypes
      <4>2. \A j \in DOMAIN Tail(outbox[p]) : j \in Nat \ {0} /\ j + 1 \in DOMAIN outbox[p] /\ Tail(outbox[p])[j] = outbox[p][j + 1]
        BY <1>2
      <4> QED
        BY <4>1, <4>2 DEF Calls
    <3>2. \A j \in Calls(p) : j # 1 => outbox[p][j].nonce # m.nonce
      BY <1>4 DEF CallInv
    <3>3. i + 1 # 1
      BY <2>2, <3>1
    <3>4. outbox'[r][i].nonce # m.nonce
      BY <2>2, <3>1, <3>2, <3>3
    <3>5. ASSUME NEW j \in Calls(p)', outbox'[p][i].nonce = outbox'[p][j].nonce PROVE i + 1 = j + 1
      <4>1. i + 1 \in Calls(p) /\ j + 1 \in Calls(p) /\ outbox[p][i + 1].nonce = outbox[p][j + 1].nonce
        BY <2>2, <3>1, <3>5
      <4> QED
        BY <4>1 DEF CallInv
    <3>6. \A j \in Calls(p)' : i + 1 = j + 1 => i = j
      BY <2>2, <3>1
    <3>7. outbox'[r][i].nonce <= queriesNonce[r] /\ <<r, outbox'[r][i].nonce>> \notin Opened
      BY <2>2, <3>1 DEF CallInv
    <3> QED
      BY <1>5, <1>7, <2>2, <3>4, <3>5, <3>6, <3>7
  <2> QED
    BY <2>1, <2>2
<1>20. queriesNonce' = queriesNonce /\ kernelNonces' = k
  BY <1>1 DEF callerVars
<1> HIDE DEF k, m, g
<1>21. CallInv'
  BY <1>10, <1>17, <1>18, <1>19, <1>20 DEF CallInv, AskedBy
<1> QED
  BY <1>14, <1>21

LEMMA KernelStepTypes ==
  ASSUME TypeInv, CallInv, NEW p \in Parties,
         KernelRefuses(p) \/ KernelRelaysDown(p) \/ KernelRelaysUp(p)
  PROVE  TypeInv'
<1> USE ConstantTypes
<1> DEFINE m == Head(outbox[p])
<1>1. PICK method : TakeFrom(p, method)
  BY DEF KernelRefuses, KernelRelaysDown, KernelRelaysUp
<1>2. m \in Outgoing /\ m.method = method /\ outbox' \in [Parties -> Seq(Outgoing)]
      /\ outbox[p] \in Seq(Outgoing) /\ outbox[p] # <<>>
  BY <1>1, TakeFromTypes
<1>3. UNCHANGED <<callerVars, moduleVars, kernelNonces, served>>
  BY DEF KernelRefuses, KernelRelaysDown, KernelRelaysUp, kernelVars
<1>4. open' \subseteq open
  BY DEF KernelRefuses, KernelRelaysDown, KernelRelaysUp, kernelVars
<1>5. \A g \in open : g.source \in Parties /\ g.dest \in Parties /\ g.query \in 1 .. MaxCalls
  BY DEF TypeInv, KernelTypes, Served
<1>6. \A e \in Incoming, r \in Parties : Sent(inbox, r, e) \in [Parties -> Seq(Incoming)]
  BY DEF Sent, TypeInv, BoxTypes
<1>7. CASE KernelRefuses(p)
  <2>1. m.method = "moduleCall" /\ inbox' = Sent(inbox, p, Message("response", m.nonce, "refused"))
    BY <1>7 DEF KernelRefuses, TakeFrom
  <2>2. Message("response", m.nonce, "refused") \in Incoming
    BY <1>2, <2>1, OutgoingTypes, RefusalTypes DEF Message
  <2>3. inbox' \in [Parties -> Seq(Incoming)]
    BY <1>6, <2>1, <2>2
  <2> HIDE DEF m
  <2> QED
    BY <1>2, <1>3, <1>4, <2>3 DEF TypeInv, BoxTypes, CallerTypes, KernelTypes, ModuleTypes, callerVars, moduleVars
<1>8. CASE KernelRelaysDown(p)
  <2>1. m.method = "queryUpdate" /\ (inbox' = inbox \/ \E g \in open : inbox' = Sent(inbox, g.dest, m))
    BY <1>8 DEF KernelRelaysDown, TakeFrom, Find
  <2>2. m \in Incoming
    BY <1>2, <2>1, OutgoingTypes
  <2> HIDE DEF m
  <2>3. inbox' \in [Parties -> Seq(Incoming)]
    BY <1>5, <1>6, <2>1, <2>2 DEF TypeInv, BoxTypes
  <2> QED
    BY <1>2, <1>3, <1>4, <2>3 DEF TypeInv, BoxTypes, CallerTypes, KernelTypes, ModuleTypes, callerVars, moduleVars
<1>9. CASE KernelRelaysUp(p)
  <2>1. m.method \in {"response", "responseUpdate"}
        /\ (inbox' = inbox \/ (~BothNull(m) /\ \E g \in open : inbox' = Sent(inbox, g.source, Message(m.method, g.query, m.data))))
    BY <1>9 DEF KernelRelaysUp, Find
  <2>2. ~BothNull(m) => \A g \in open : Message(m.method, g.query, m.data) \in Incoming
    BY <1>2, <1>5, <2>1, RelayedTypes
  <2> HIDE DEF m
  <2>3. inbox' \in [Parties -> Seq(Incoming)]
    BY <1>5, <1>6, <2>1, <2>2 DEF TypeInv, BoxTypes
  <2> QED
    BY <1>2, <1>3, <1>4, <2>3 DEF TypeInv, BoxTypes, CallerTypes, KernelTypes, ModuleTypes, callerVars, moduleVars
<1> QED
  BY <1>7, <1>8, <1>9

\* Only newKernelQuery posts a call.
LEMMA QuietStep ==
  ASSUME TypeInv, TypeInv', [Next]_vars,
         \A p \in Callers, to \in Modules, method \in Methods, wants \in BOOLEAN : ~NewKernelQuery(p, to, method, wants)
  PROVE  NoNewCall
<1> USE ConstantTypes
<1>1. CASE outbox' = outbox
  BY <1>1 DEF NoNewCall
<1>2. ASSUME NEW q \in Queries, SendQueryUpdate(q) PROVE NoNewCall
  <2> DEFINE us == <<Update(q, asked[q] + 1)>>
             k == queries[q].kernelNonce
  <2>1. outbox' = outbox \/ (k # 0 /\ PostUpdates(q, k, us))
    BY <1>2 DEF SendQueryUpdate
  <2>2. us \in Seq(Waiting) /\ k \in {0} \cup KernelNonces
    BY DEF Update, Waiting, TypeInv, CallerTypes, Query
  <2> HIDE DEF us, k
  <2> QED
    BY <2>1, <2>2, PostUpdatesNoCall DEF NoNewCall
<1>3. ASSUME NEW p \in Callers, HandleResponseNonce(p) PROVE NoNewCall
  <2> DEFINE m == Head(inbox[p])
             q == <<p, m.nonce>>
             k == m.data
             us == queries[q].held
  <2>1. Take(p, "responseNonce") /\ (outbox' = outbox \/ PostUpdates(q, k, us))
    BY <1>3 DEF HandleResponseNonce
  <2>2. m \in Incoming /\ m.method = "responseNonce"
    BY <2>1, TakeTypes
  <2>3. q \in Queries /\ k \in KernelNonces
    BY <2>2, IncomingTypes DEF Queries
  <2>4. us \in Seq(Waiting)
    BY <2>3 DEF TypeInv, CallerTypes, Query
  <2> HIDE DEF m, q, k, us
  <2> QED
    BY <2>1, <2>3, <2>4, PostUpdatesNoCall DEF NoNewCall
<1>4. ASSUME NEW p \in Parties,
             outbox' = outbox \/ \E e : e.method # "moduleCall" /\ outbox' = [outbox EXCEPT ![p] = Append(@, e)]
      PROVE  NoNewCall
  BY <1>4, QuietAppend
<1>5. CASE Handler
  <2>1. \E p \in Parties : outbox' = outbox \/ \E e : e.method # "moduleCall" /\ outbox' = [outbox EXCEPT ![p] = Append(@, e)]
    BY <1>5 DEF Handler, Respond, SendResponseUpdate, SetReceiveUpdate, Say, Post, Message
  <2> QED
    BY <1>4, <2>1
<1>6. CASE Module
  <2>1. \E p \in Parties : outbox' = outbox \/ \E e : e.method # "moduleCall" /\ outbox' = [outbox EXCEPT ![p] = Append(@, e)]
    BY <1>6 DEF Module, HandleCall, HandleQueryUpdate, RunMicrotask, HandlerReturns, HandlerThrows, RespondErr, Say, Post,
                Message
  <2> QED
    BY <1>4, <2>1
<1>7. CASE Kernel
  BY <1>7, TakeFromNoCall DEF Kernel, KernelRefuses, KernelOpens, KernelRelaysDown, KernelRelaysUp
<1> QED
  BY <1>1, <1>2, <1>3, <1>5, <1>6, <1>7 DEF Next, vars, Caller, HandleResponseUpdate, HandleResponse

LEMMA TypeStep ==
  ASSUME TypeInv, CallInv, [Next]_vars
  PROVE  TypeInv'
<1>1. CASE UNCHANGED vars
  <2>1. UNCHANGED <<outbox, inbox, kernelNonces, open, served, queriesNonce, queries, asked, heard, handlers,
                    incomingQueries, running, due, said, got>>
    BY <1>1 DEF vars, callerVars, kernelVars, moduleVars
  <2> QED
    BY <2>1 DEF TypeInv, BoxTypes, CallerTypes, KernelTypes, ModuleTypes
<1> QED
  BY <1>1, CallerStepTypes, HandlerStepTypes, ModuleStepTypes, KernelStepTypes, OpenStep DEF Next, Handler, Module, Kernel

LEMMA CallStep ==
  ASSUME TypeInv, TypeInv', CallInv, [Next]_vars
  PROVE  CallInv'
<1>1. CASE \E p \in Callers, to \in Modules, method \in Methods, wants \in BOOLEAN : NewKernelQuery(p, to, method, wants)
  BY <1>1, NewCall
<1>2. CASE \E p \in Parties : KernelOpens(p)
  BY <1>2, OpenStep
<1>3. CASE /\ \A p \in Callers, to \in Modules, method \in Methods, wants \in BOOLEAN : ~NewKernelQuery(p, to, method, wants)
           /\ \A p \in Parties : ~KernelOpens(p)
  <2>1. UNCHANGED <<served, kernelNonces, queriesNonce>>
    BY <1>3 DEF Next, vars, callerVars, kernelVars, Caller, Handler, Module, Kernel, SendQueryUpdate, HandleResponseNonce,
         HandleResponseUpdate, HandleResponse, Respond, SendResponseUpdate, SetReceiveUpdate, HandleCall, HandleQueryUpdate,
         RunMicrotask, HandlerReturns, HandlerThrows, KernelRefuses, KernelRelaysDown, KernelRelaysUp
  <2>2. NoNewCall
    BY <1>3, QuietStep
  <2> QED
    BY <2>1, <2>2, CallFrame
<1> QED
  BY <1>1, <1>2, <1>3

(***************************************************************************)
(* TypeOK: every message, update and map entry has the form its reader      *)
(* expects, and the kernel never runs out of nonces.                        *)
(***************************************************************************)
THEOREM QueriesTyped == Spec => []TypeOK
<1>1. Init => TypeInv /\ CallInv
  BY TypeInit, CallInit
<1>2. TypeInv /\ CallInv /\ [Next]_vars => (TypeInv /\ CallInv)'
  BY TypeStep, CallStep
<1>3. TypeInv => TypeOK
  <2> SUFFICES ASSUME TypeInv PROVE TypeOK
    OBVIOUS
  <2>1. \A p \in Parties : AllIn(outbox[p], Outgoing) /\ AllIn(inbox[p], Incoming)
    BY DEF TypeInv, BoxTypes, AllIn
  <2>2. \A p \in Parties : AllIn(due[p], Due)
    BY DEF TypeInv, ModuleTypes, AllIn
  <2>3. \A q \in Queries : /\ queries[q].open \in BOOLEAN /\ queries[q].wantsNonce \in BOOLEAN
                           /\ queries[q].kernelNonce \in {0} \cup KernelNonces
                           /\ AllIn(queries[q].held, Waiting)
    BY DEF TypeInv, CallerTypes, Query, AllIn
  <2>4. \A k \in KernelNonces : /\ handlers[k].method \in Methods
                                /\ AllIn(handlers[k].waiting, Waiting) /\ AllIn(got[k], Waiting)
    BY DEF TypeInv, ModuleTypes, HandlerState, AllIn
  <2> QED
    BY <2>1, <2>2, <2>3, <2>4 DEF TypeInv, CallerTypes, KernelTypes, ModuleTypes, TypeOK, Due
<1> QED
  BY <1>1, <1>2, <1>3, PTL DEF Spec

(***************************************************************************)
(* What messages mention.  InMail, OutMail and DueMail are what is in the    *)
(* channels and microtask queue of a party, in no order.                    *)
(***************************************************************************)
InMail(p) == {inbox[p][i] : i \in DOMAIN inbox[p]}

OutMail(p) == {outbox[p][i] : i \in DOMAIN outbox[p]}

DueMail(p) == {due[p][i] : i \in DOMAIN due[p]}

ServedBy(k, p) == \E g \in served : g.nonce = k /\ g.dest = p

\* What a party posts to the kernel is about a query it made or serves.
OutMention(p, m) ==
    /\ m.method = "queryUpdate" => \E g \in served : g.nonce = m.nonce /\ g.source = p
    /\ m.method \in {"response", "responseUpdate"} => ServedBy(m.nonce, p)

OutInv == \A p \in Parties : \A m \in OutMail(p) : OutMention(p, m)

\* And so is what the kernel posts to a party, when S are the queries it served.
InMention(S, p, m) ==
    /\ m.method \in {"moduleCall", "queryUpdate"} => \E g \in S : g.nonce = m.nonce /\ g.dest = p
    /\ m.method = "responseNonce" => \E g \in S : g.nonce = m.data /\ AskedBy(g) = <<p, m.nonce>>
    /\ m.method = "responseUpdate" => \E g \in S : AskedBy(g) = <<p, m.nonce>>

InInv == \A p \in Parties : \A m \in InMail(p) : InMention(served, p, m)

\* And whatever a party keeps.
PlaceInv ==
    /\ \A p \in Parties :
           /\ \A d \in DueMail(p) : ServedBy(d.nonce, p)
           /\ running[p] # 0 => ServedBy(running[p], p)
    /\ \A q \in Queries :
           queries[q].kernelNonce # 0 => \E g \in served : AskedBy(g) = q /\ g.nonce = queries[q].kernelNonce

\* Nothing is known of queries that were not made, or not opened yet.
FreshInv ==
    /\ \A k \in KernelNonces : k > kernelNonces =>
           /\ handlers[k] = NoHandler /\ k \notin incomingQueries
           /\ said[k] = <<>> /\ got[k] = <<>>
    /\ \A q \in Queries : q[2] > queriesNonce[q[1]] => queries[q] = NoQuery /\ asked[q] = 0

\* The call of q neither waits for the kernel nor is it open.
Settled(q) ==
    /\ q[2] <= queriesNonce[q[1]]
    /\ \A i \in Calls(q[1]) : outbox[q[1]][i].nonce # q[2]
    /\ \A g \in open : AskedBy(g) # q

\* A response is the last the caller hears of the kernel.
SettledInv ==
    /\ \A p \in Parties : \A m \in InMail(p) :
           m.method = "response" => p \in Callers /\ Settled(<<p, m.nonce>>)
    /\ \A q \in Queries : q[2] <= queriesNonce[q[1]] /\ ~queries[q].open => Settled(q)

MentionInv == OutInv /\ InInv /\ PlaceInv /\ FreshInv /\ SettledInv

\* Where a call is in s, and where anything is that its module has to handle.
CallAt(s, k) == {i \in DOMAIN s : s[i].method = "moduleCall" /\ s[i].nonce = k}

PartAt(s, k) == {i \in DOMAIN s : s[i].method \in {"moduleCall", "queryUpdate"} /\ s[i].nonce = k}

\* The call comes first, and once.
CallFirst(s, k) == \A i \in CallAt(s, k), j \in PartAt(s, k) : i <= j

\* The module of g was not given the call yet.
Coming(g) == CallAt(inbox[g.dest], g.nonce) # {}

Untold(g) ==
    /\ handlers[g.nonce] = NoHandler /\ g.nonce \notin incomingQueries
    /\ said[g.nonce] = <<>> /\ got[g.nonce] = <<>> /\ running[g.dest] # g.nonce
    /\ \A d \in DueMail(g.dest) : d.nonce # g.nonce

\* A call comes once, before the updates of its query, and finds no handler.
ComingInv == \A g \in served : CallFirst(inbox[g.dest], g.nonce) /\ (Coming(g) => Untold(g))

\* While q is open, its call, the query of the kernel or its response is somewhere.
Pending(q) ==
    \/ \E m \in OutMail(q[1]) : m.method = "moduleCall" /\ m.nonce = q[2]
    \/ \E g \in open : AskedBy(g) = q
    \/ \E m \in InMail(q[1]) : m.method = "response" /\ m.nonce = q[2]

AnswerInv ==
    /\ \A k \in incomingQueries : Responses(k) = {} /\ \E g \in served : g.nonce = k
    /\ \A q \in Queries : queries[q].open => Pending(q)

\* The entries of s that are in E are F[a+1] .. F[b], in this order.
At(s, E) == {i \in DOMAIN s : s[i] \in E}

Run(s, E, F, a, b) ==
    /\ a <= b
    /\ \E f \in [a + 1 .. b -> Nat] :
           /\ At(s, E) = {f[n] : n \in a + 1 .. b}
           /\ \A n \in a + 1 .. b : s[f[n]] = F[n]
           /\ \A m, n \in a + 1 .. b : m < n => f[m] < f[n]

\* The updates of q on their way, and as they wait in a queue of microtasks.
Carries(k) == [method : {"queryUpdate"}, nonce : {k}, data : Waiting]

CarriedAs(k, q) == [n \in Nat |-> Message("queryUpdate", k, Update(q, n))]

Handed(k) == [nonce : {k}, data : Waiting]

HandedAs(k, q) == [n \in Nat |-> [nonce |-> k, data |-> Update(q, n)]]

\* s holds the updates of q that follow a, and nothing else.
From(s, q, a) == \A i \in DOMAIN s : s[i] = Update(q, a + i)

\* No update of q is on its way before the kernel opened the query.
Early(q) ==
    /\ queries[q].kernelNonce = 0
    /\ From(queries[q].held, q, 0)
    /\ Len(queries[q].held) = asked[q]

HeldInv ==
    /\ \A q \in Queries : queries[q].kernelNonce # 0 => queries[q].held = <<>>
    /\ \A p \in Parties : \A m \in OutMail(p) : m.method = "moduleCall" => Early(<<p, m.nonce>>)

\* An update that arrives may still be handled.
Flowing(g) == g.nonce \in incomingQueries \/ Coming(g)

\* The updates up to a were given to the queue of microtasks or the handler, up
\* to b those were posted by the kernel that do not wait for the receiver, and
\* up to c those were posted by the caller that do not wait for the nonce.
Flow(g, a, b, c) ==
    LET k == g.nonce
        q == AskedBy(g)
    IN  /\ Run(due[g.dest], Handed(k), HandedAs(k, q), Len(got[k]), a)
        /\ From(handlers[k].waiting, q, a)
        /\ a + Len(handlers[k].waiting) <= asked[q]
        /\ Flowing(g) =>
               /\ b <= asked[q]
               /\ Run(inbox[g.dest], Carries(k), CarriedAs(k, q), a + Len(handlers[k].waiting), b)
        /\ Flowing(g) /\ g \in open =>
               /\ Run(outbox[g.source], Carries(k), CarriedAs(k, q), b, c)
               /\ From(queries[q].held, q, c)
               /\ asked[q] = c + Len(queries[q].held)

Flows(g) ==
    /\ From(got[g.nonce], AskedBy(g), 0)
    /\ handlers[g.nonce].receiver => handlers[g.nonce].waiting = <<>>
    /\ \E a, b, c \in Nat : Flow(g, a, b, c)

FlowInv == \A g \in served : Flows(g)

(***************************************************************************)
(* How channels change.                                                     *)
(***************************************************************************)
LEMMA PostMail ==
  ASSUME TypeInv, NEW p \in Parties, NEW m \in Outgoing, Post(p, m)
  PROVE  \A r \in Parties : OutMail(r)' = IF r = p THEN OutMail(r) \cup {m} ELSE OutMail(r)
<1>1. outbox \in [Parties -> Seq(Outgoing)] /\ outbox' = [outbox EXCEPT ![p] = Append(@, m)]
  BY DEF TypeInv, BoxTypes, Post
<1>2. \A r \in Parties : r # p => OutMail(r)' = OutMail(r)
  BY <1>1 DEF OutMail
<1>3. OutMail(p)' = OutMail(p) \cup {m}
  <2> DEFINE s == outbox[p]
             t == Append(s, m)
  <2>1. s \in Seq(Outgoing) /\ outbox'[p] = t
    BY <1>1
  <2>2. {t[i] : i \in DOMAIN t} = {s[i] : i \in DOMAIN s} \cup {m}
    <3> HIDE DEF s
    <3>1. DOMAIN t = DOMAIN s \cup {Len(s) + 1} /\ t[Len(s) + 1] = m /\ \A i \in DOMAIN s : t[i] = s[i]
      BY <2>1
    <3> HIDE DEF t
    <3> QED
      BY <3>1
  <2> QED
    BY <2>1, <2>2 DEF OutMail
<1> QED
  BY <1>2, <1>3

LEMMA SentMail ==
  ASSUME TypeInv, NEW p \in Parties, NEW m \in Incoming, inbox' = Sent(inbox, p, m)
  PROVE  \A r \in Parties : InMail(r)' = IF r = p THEN InMail(r) \cup {m} ELSE InMail(r)
<1>1. inbox \in [Parties -> Seq(Incoming)] /\ inbox' = [inbox EXCEPT ![p] = Append(@, m)]
  BY DEF TypeInv, BoxTypes, Sent
<1>2. \A r \in Parties : r # p => InMail(r)' = InMail(r)
  BY <1>1 DEF InMail
<1>3. InMail(p)' = InMail(p) \cup {m}
  <2> DEFINE s == inbox[p]
             t == Append(s, m)
  <2>1. s \in Seq(Incoming) /\ inbox'[p] = t
    BY <1>1
  <2>2. {t[i] : i \in DOMAIN t} = {s[i] : i \in DOMAIN s} \cup {m}
    <3> HIDE DEF s
    <3>1. DOMAIN t = DOMAIN s \cup {Len(s) + 1} /\ t[Len(s) + 1] = m /\ \A i \in DOMAIN s : t[i] = s[i]
      BY <2>1
    <3> HIDE DEF t
    <3> QED
      BY <3>1
  <2> QED
    BY <2>1, <2>2 DEF InMail
<1> QED
  BY <1>2, <1>3

\* What is taken from a sequence is all that it loses.
LEMMA TailContents ==
  ASSUME NEW S, NEW s \in Seq(S), s # <<>>
  PROVE  {s[i] : i \in DOMAIN s} = {Tail(s)[i] : i \in DOMAIN Tail(s)} \cup {Head(s)}
<1> DEFINE t == Tail(s)
<1>1. /\ DOMAIN s = 1 .. Len(s) /\ Len(s) \in Nat /\ Len(s) >= 1 /\ Head(s) = s[1]
      /\ DOMAIN t = 1 .. (Len(s) - 1) /\ \A i \in DOMAIN t : t[i] = s[i + 1]
  OBVIOUS
<1> HIDE DEF t
<1>2. \A i \in DOMAIN s : i = 1 \/ (i - 1 \in DOMAIN t /\ t[i - 1] = s[i])
  BY <1>1
<1>3. \A i \in DOMAIN t : i + 1 \in DOMAIN s /\ t[i] = s[i + 1]
  BY <1>1
<1>4. 1 \in DOMAIN s /\ Head(s) = s[1]
  BY <1>1
<1>5. \A i \in DOMAIN s : s[i] = Head(s) \/ \E j \in DOMAIN t : t[j] = s[i]
  BY <1>2, <1>4
<1>6. \A j \in DOMAIN t : \E i \in DOMAIN s : t[j] = s[i]
  BY <1>3
<1>7. {s[i] : i \in DOMAIN s} = {t[i] : i \in DOMAIN t} \cup {Head(s)}
  BY <1>4, <1>5, <1>6
<1> QED
  BY <1>7 DEF t

LEMMA TakeMail ==
  ASSUME TypeInv, NEW p \in Parties, NEW method, Take(p, method)
  PROVE  /\ InMail(p) = InMail(p)' \cup {Head(inbox[p])}
         /\ \A r \in Parties : r # p => InMail(r)' = InMail(r)
<1>1. inbox \in [Parties -> Seq(Incoming)] /\ inbox[p] # <<>> /\ inbox' = [inbox EXCEPT ![p] = Tail(@)]
  BY DEF TypeInv, BoxTypes, Take
<1>2. \A r \in Parties : r # p => InMail(r)' = InMail(r)
  BY <1>1 DEF InMail
<1>3. {inbox[p][i] : i \in DOMAIN inbox[p]}
          = {Tail(inbox[p])[i] : i \in DOMAIN Tail(inbox[p])} \cup {Head(inbox[p])}
  BY <1>1, TailContents
<1>4. inbox'[p] = Tail(inbox[p])
  BY <1>1
<1> QED
  BY <1>2, <1>3, <1>4 DEF InMail

LEMMA TakeFromMail ==
  ASSUME TypeInv, NEW p \in Parties, NEW method, TakeFrom(p, method)
  PROVE  /\ OutMail(p) = OutMail(p)' \cup {Head(outbox[p])}
         /\ \A r \in Parties : r # p => OutMail(r)' = OutMail(r)
<1>1. outbox \in [Parties -> Seq(Outgoing)] /\ outbox[p] # <<>> /\ outbox' = [outbox EXCEPT ![p] = Tail(@)]
  BY DEF TypeInv, BoxTypes, TakeFrom
<1>2. \A r \in Parties : r # p => OutMail(r)' = OutMail(r)
  BY <1>1 DEF OutMail
<1>3. {outbox[p][i] : i \in DOMAIN outbox[p]}
          = {Tail(outbox[p])[i] : i \in DOMAIN Tail(outbox[p])} \cup {Head(outbox[p])}
  BY <1>1, TailContents
<1>4. outbox'[p] = Tail(outbox[p])
  BY <1>1
<1> QED
  BY <1>2, <1>3, <1>4 DEF OutMail

LEMMA PostUpdatesMail ==
  ASSUME TypeInv, NEW q \in Queries, NEW k \in KernelNonces, NEW us \in Seq(Waiting), PostUpdates(q, k, us)
  PROVE  \A r \in Parties :
             /\ OutMail(r) \subseteq OutMail(r)'
             /\ \A m \in OutMail(r)' : m \in OutMail(r) \/ (r = q[1] /\ m.method = "queryUpdate" /\ m.nonce = k)
<1> DEFINE ms == [i \in DOMAIN us |-> Message("queryUpdate", k, us[i])]
           p == q[1]
<1>1. p \in Parties /\ outbox \in [Parties -> Seq(Outgoing)] /\ outbox' = [outbox EXCEPT ![p] = @ \o ms]
  BY ConstantTypes DEF TypeInv, BoxTypes, PostUpdates
<1>2. ms \in Seq(Outgoing) /\ \A i \in DOMAIN ms : ms[i].method = "queryUpdate" /\ ms[i].nonce = k
  <2>1. \A i \in DOMAIN us : us[i] \in Waiting
    OBVIOUS
  <2>2. \A i \in DOMAIN us : Message("queryUpdate", k, us[i]) \in Outgoing
    BY <2>1 DEF Message, Outgoing
  <2>3. DOMAIN us = 1 .. Len(us) /\ Len(us) \in Nat
    OBVIOUS
  <2>4. \A i \in DOMAIN us : /\ Message("queryUpdate", k, us[i]).method = "queryUpdate"
                             /\ Message("queryUpdate", k, us[i]).nonce = k
    BY DEF Message
  <2> QED
    BY <2>2, <2>3, <2>4
<1> HIDE DEF ms
<1> DEFINE s == outbox[p]
           t == s \o ms
<1>3. s \in Seq(Outgoing) /\ outbox'[p] = t
  BY <1>1
<1>4. (\A i \in DOMAIN s : i \in DOMAIN t /\ t[i] = s[i])
      /\ \A i \in DOMAIN t : (i \in DOMAIN s /\ t[i] = s[i]) \/ (i - Len(s) \in DOMAIN ms /\ t[i] = ms[i - Len(s)])
  <2> HIDE DEF s
  <2>1. Len(s) \in Nat /\ DOMAIN s = 1 .. Len(s) /\ DOMAIN ms = 1 .. Len(ms) /\ Len(ms) \in Nat
    BY <1>2, <1>3
  <2> QED
    BY <1>2, <1>3, <2>1
<1> HIDE DEF t
<1>5. OutMail(p) \subseteq OutMail(p)'
      /\ \A m \in OutMail(p)' : m \in OutMail(p) \/ (m.method = "queryUpdate" /\ m.nonce = k)
  BY <1>2, <1>3, <1>4 DEF OutMail
<1>6. \A r \in Parties : r # p => OutMail(r)' = OutMail(r)
  BY <1>1 DEF OutMail
<1> HIDE DEF p
<1> QED
  BY <1>5, <1>6 DEF p

LEMMA ServedGrows == [Next]_vars => served \subseteq served'
BY DEF Next, Caller, Handler, Module, Kernel, vars, callerVars, kernelVars, moduleVars, NewKernelQuery, SendQueryUpdate,
       HandleResponseNonce, HandleResponseUpdate, HandleResponse, Respond, SendResponseUpdate, SetReceiveUpdate,
       HandleCall, HandleQueryUpdate, RunMicrotask, HandlerReturns, HandlerThrows, KernelRefuses, KernelOpens,
       KernelRelaysDown, KernelRelaysUp

LEMMA MentionsLast ==
  ASSUME served \subseteq served', NEW p, NEW m
  PROVE  /\ OutMention(p, m) => OutMention(p, m)'
         /\ InMention(served, p, m) => InMention(served', p, m)
         /\ \A k : ServedBy(k, p) => ServedBy(k, p)'
BY DEF OutMention, InMention, ServedBy, Opened, AskedBy

(***************************************************************************)
(* What messages mention has been served.                                   *)
(***************************************************************************)
LEMMA HeadMention ==
  ASSUME TypeInv, InInv, NEW p \in Parties, NEW method, Take(p, method)
  PROVE  Head(inbox[p]) \in InMail(p) /\ InMention(served, p, Head(inbox[p]))
BY TakeMail DEF InInv

LEMMA OutboxMention ==
  ASSUME TypeInv, OutInv, NEW p \in Parties, NEW method, TakeFrom(p, method)
  PROVE  Head(outbox[p]) \in OutMail(p) /\ OutMention(p, Head(outbox[p]))
BY TakeFromMail DEF OutInv

LEMMA SayMention ==
  ASSUME TypeInv, OutInv, NEW p \in Parties, NEW k \in KernelNonces, NEW m, NEW d,
         [method |-> m, data |-> d] \in Said, Say(p, k, m, d), ServedBy(k, p)
  PROVE  \A r \in Parties : \A e \in OutMail(r)' : OutMention(r, e)
<1> DEFINE e == Message(m, k, d)
<1>1. e \in Outgoing /\ OutMention(p, e) /\ Post(p, e)
  BY DEF Message, Said, Outgoing, Say, OutMention
<1> HIDE DEF e
<1> QED
  BY <1>1, PostMail DEF OutInv

LEMMA OutStep ==
  ASSUME TypeInv, CallInv, OutInv, InInv, PlaceInv, [Next]_vars
  PROVE  OutInv'
<1> USE ConstantTypes
<1> DEFINE Fine == \A r \in Parties : \A m \in OutMail(r)' : OutMention(r, m)
<1>0. SUFFICES Fine
  BY ServedGrows, MentionsLast DEF OutInv
<1>1. ASSUME outbox' = outbox PROVE Fine
  BY <1>1 DEF OutInv, OutMail
<1>2. ASSUME NEW p \in Parties, NEW method, TakeFrom(p, method) PROVE Fine
  BY <1>2, TakeFromMail DEF OutInv
<1>3. ASSUME NEW q \in Queries, NEW k \in KernelNonces, NEW us \in Seq(Waiting), PostUpdates(q, k, us),
             \E g \in served : g.nonce = k /\ g.source = q[1]
      PROVE  Fine
  BY <1>3, PostUpdatesMail DEF OutInv, OutMention
<1>4. ASSUME NEW p \in Parties, NEW k \in KernelNonces, NEW m, NEW d,
             [method |-> m, data |-> d] \in Said, Say(p, k, m, d), ServedBy(k, p)
      PROVE  Fine
  BY <1>4, SayMention
<1>5. \A a \in Answer : [method |-> "response", data |-> a] \in Said
  BY DEF Said
<1> HIDE DEF Fine
<1>6. CASE UNCHANGED vars
  BY <1>1, <1>6 DEF vars
<1>7. CASE Caller
  <2>1. ASSUME NEW p \in Callers, NEW to \in Modules, NEW method \in Methods, NEW wants \in BOOLEAN,
               NewKernelQuery(p, to, method, wants)
        PROVE  Fine
    <3> DEFINE n == queriesNonce[p] + 1
               m == Message("moduleCall", n, [module |-> to, method |-> method, sendKernelNonce |-> wants])
    <3>1. Post(p, m) /\ n \in 1 .. MaxCalls
      BY <2>1 DEF NewKernelQuery, TypeInv, CallerTypes
    <3>2. m \in Outgoing /\ OutMention(p, m)
      BY <3>1 DEF Message, Outgoing, OutMention
    <3> HIDE DEF m
    <3> QED
      BY <3>1, <3>2, PostMail DEF OutInv, Fine
  <2>2. ASSUME NEW q \in Queries, SendQueryUpdate(q) PROVE Fine
    <3> DEFINE us == <<Update(q, asked[q] + 1)>>
               k == queries[q].kernelNonce
    <3>1. outbox' = outbox \/ (k # 0 /\ PostUpdates(q, k, us))
      BY <2>2 DEF SendQueryUpdate
    <3>2. us \in Seq(Waiting) /\ k \in {0} \cup KernelNonces
      BY DEF Update, Waiting, TypeInv, CallerTypes, Query
    <3>3. k # 0 => \E g \in served : g.nonce = k /\ g.source = q[1]
      BY DEF PlaceInv, AskedBy
    <3> HIDE DEF us, k
    <3> QED
      BY <1>1, <1>3, <3>1, <3>2, <3>3
  <2>3. ASSUME NEW p \in Callers, HandleResponseNonce(p) PROVE Fine
    <3> DEFINE m == Head(inbox[p])
               q == <<p, m.nonce>>
               k == m.data
               us == queries[q].held
    <3>1. Take(p, "responseNonce") /\ (outbox' = outbox \/ PostUpdates(q, k, us))
      BY <2>3 DEF HandleResponseNonce
    <3>2. m \in Incoming /\ m.method = "responseNonce" /\ InMention(served, p, m)
      BY <3>1, TakeTypes, HeadMention
    <3>3. q \in Queries /\ k \in KernelNonces /\ q[1] = p
      BY <3>2, IncomingTypes DEF Queries
    <3>4. us \in Seq(Waiting)
      BY <3>3 DEF TypeInv, CallerTypes, Query
    <3>5. \E g \in served : g.nonce = k /\ g.source = p
      BY <3>2 DEF InMention, AskedBy
    <3> HIDE DEF m, q, k, us
    <3> QED
      BY <1>1, <1>3, <3>1, <3>3, <3>4, <3>5
  <2> QED
    BY <1>1, <1>7, <2>1, <2>2, <2>3 DEF Caller, HandleResponseUpdate, HandleResponse
<1>8. CASE Handler
  <2> SUFFICES ASSUME NEW p \in Parties, NEW k \in KernelNonces,
                      \/ \E answer \in {"data", "err", "null"} : Respond(p, k, answer)
                      \/ SendResponseUpdate(p, k)
                      \/ SetReceiveUpdate(p, k)
               PROVE  Fine
    BY <1>8 DEF Handler
  <2>1. ServedBy(k, p)
    BY DEF Respond, SendResponseUpdate, SetReceiveUpdate, HandlerRuns, ServedBy
  <2>2. ASSUME NEW answer \in {"data", "err", "null"}, Respond(p, k, answer) PROVE Fine
    BY <1>4, <1>5, <2>1, <2>2 DEF Respond, Answer
  <2>3. ASSUME SendResponseUpdate(p, k) PROVE Fine
    <3> DEFINE d == Cardinality(Updates(k)) + 1
    <3>1. Say(p, k, "responseUpdate", d)
      BY <2>3 DEF SendResponseUpdate
    <3>2. d \in Nat
      BY UpdatesFinite, FS_CardinalityType
    <3> HIDE DEF d
    <3>3. [method |-> "responseUpdate", data |-> d] \in Said
      BY <3>2 DEF Said
    <3> QED
      BY <1>4, <2>1, <3>1, <3>3
  <2> QED
    BY <1>1, <2>2, <2>3 DEF SetReceiveUpdate
<1>9. CASE Module
  <2> SUFFICES ASSUME NEW p \in Parties,
                      HandleCall(p) \/ HandleQueryUpdate(p) \/ RunMicrotask(p) \/ HandlerReturns(p) \/ HandlerThrows(p)
               PROVE  Fine
    BY <1>9 DEF Module
  <2>1. ASSUME HandleCall(p) PROVE Fine
    <3> DEFINE m == Head(inbox[p])
               k == m.nonce
    <3>1. Take(p, "moduleCall") /\ (outbox' = outbox \/ Say(p, k, "response", "err"))
      BY <2>1 DEF HandleCall, RespondErr
    <3>2. m \in Incoming /\ m.method = "moduleCall" /\ InMention(served, p, m)
      BY <3>1, TakeTypes, HeadMention
    <3>3. k \in KernelNonces /\ ServedBy(k, p)
      BY <3>2, IncomingTypes DEF InMention, ServedBy
    <3> HIDE DEF m, k
    <3> QED
      BY <1>1, <1>4, <1>5, <3>1, <3>3 DEF Answer
  <2>2. ASSUME HandlerThrows(p) PROVE Fine
    <3> DEFINE k == running[p]
    <3>1. k # 0 /\ (outbox' = outbox \/ Say(p, k, "response", "thrown"))
      BY <2>2 DEF HandlerThrows, RespondErr
    <3>2. k \in KernelNonces /\ ServedBy(k, p)
      BY <3>1 DEF TypeInv, ModuleTypes, PlaceInv
    <3> HIDE DEF k
    <3> QED
      BY <1>1, <1>4, <1>5, <3>1, <3>2 DEF Answer
  <2> QED
    BY <1>1, <2>1, <2>2 DEF HandleQueryUpdate, RunMicrotask, HandlerReturns
<1>10. CASE Kernel
  BY <1>2, <1>10 DEF Kernel, KernelRefuses, KernelOpens, KernelRelaysDown, KernelRelaysUp
<1> QED
  BY <1>6, <1>7, <1>8, <1>9, <1>10 DEF Next

\* What the kernel tells when it opens a query.
LEMMA OpensMail ==
  ASSUME TypeInv, TypeInv', NEW p \in Parties, KernelOpens(p)
  PROVE  \E g \in served', e \in Incoming, t \in Incoming :
             /\ g.nonce = kernelNonces' /\ g.source = p /\ g.query = Head(outbox[p]).nonce
             /\ g.dest \in Parties /\ served' = served \cup {g} /\ open' = open \cup {g}
             /\ e.method = "moduleCall" /\ e.nonce = g.nonce
             /\ t.method = "responseNonce" /\ t.nonce = g.query /\ t.data = g.nonce
             /\ \/ inbox' = Sent(inbox, g.dest, e)
                \/ inbox' = Sent(Sent(inbox, g.dest, e), p, t)
<1> DEFINE m == Head(outbox[p])
           k == kernelNonces + 1
           g == [nonce |-> k, source |-> p, query |-> m.nonce, dest |-> m.data.module]
           e == Message("moduleCall", k, m.data.method)
           t == Message("responseNonce", m.nonce, k)
<1>1. /\ TakeFrom(p, "moduleCall") /\ kernelNonces' = k
      /\ open' = open \cup {g} /\ served' = served \cup {g}
      /\ inbox' = IF m.data.sendKernelNonce THEN Sent(Sent(inbox, g.dest, e), p, t) ELSE Sent(inbox, g.dest, e)
  BY DEF KernelOpens
<1>2. m \in Outgoing /\ m.method = "moduleCall"
  BY <1>1, TakeFromTypes
<1>3. k \in KernelNonces /\ m.nonce \in 1 .. MaxCalls /\ m.data.module \in Parties /\ m.data.method \in Methods
  <2>1. k # 0 /\ kernelNonces' \in {0} \cup KernelNonces
    BY ConstantTypes DEF TypeInv, KernelTypes
  <2> QED
    BY <1>1, <1>2, <2>1, OutgoingTypes, ConstantTypes DEF TypeInv, KernelTypes
<1>4. e \in Incoming /\ t \in Incoming
  BY <1>3 DEF Message, Incoming
<1>5. e.method = "moduleCall" /\ e.nonce = g.nonce /\ t.method = "responseNonce" /\ t.nonce = g.query /\ t.data = g.nonce
  BY DEF Message
<1>6. g.nonce = k /\ g.source = p /\ g.query = m.nonce /\ g.dest \in Parties
  BY <1>3
<1> HIDE DEF k, m, g, e, t
<1> QED
  BY <1>1, <1>4, <1>5, <1>6 DEF m

LEMMA TwiceMail ==
  ASSUME TypeInv, NEW d \in Parties, NEW e \in Incoming, NEW p \in Parties, NEW t \in Incoming,
         inbox' = Sent(Sent(inbox, d, e), p, t)
  PROVE  \A r \in Parties :
             /\ InMail(r) \subseteq InMail(r)'
             /\ \A m \in InMail(r)' : m \in InMail(r) \/ (r = d /\ m = e) \/ (r = p /\ m = t)
<1> DEFINE b == [inbox EXCEPT ![d] = Append(@, e)]
<1>1. inbox \in [Parties -> Seq(Incoming)] /\ inbox' = [b EXCEPT ![p] = Append(@, t)]
  BY DEF TypeInv, BoxTypes, Sent
<1>2. b \in [Parties -> Seq(Incoming)]
  BY <1>1
<1>3. \A s \in Seq(Incoming), x \in Incoming :
          /\ DOMAIN Append(s, x) = DOMAIN s \cup {Len(s) + 1} /\ Append(s, x)[Len(s) + 1] = x
          /\ \A i \in DOMAIN s : Append(s, x)[i] = s[i]
  OBVIOUS
<1>4. \A r \in Parties : /\ \A i \in DOMAIN inbox[r] : i \in DOMAIN b[r] /\ b[r][i] = inbox[r][i]
                         /\ \A i \in DOMAIN b[r] : (i \in DOMAIN inbox[r] /\ b[r][i] = inbox[r][i]) \/ (r = d /\ b[r][i] = e)
  BY <1>1, <1>3
<1> HIDE DEF b
<1>5. \A r \in Parties : /\ \A i \in DOMAIN b[r] : i \in DOMAIN inbox'[r] /\ inbox'[r][i] = b[r][i]
                         /\ \A i \in DOMAIN inbox'[r] : (i \in DOMAIN b[r] /\ inbox'[r][i] = b[r][i]) \/ (r = p /\ inbox'[r][i] = t)
  BY <1>1, <1>2, <1>3
<1> QED
  BY <1>4, <1>5 DEF InMail

LEMMA InStep ==
  ASSUME TypeInv, TypeInv', CallInv, OutInv, InInv, PlaceInv, [Next]_vars
  PROVE  InInv'
<1> USE ConstantTypes
<1>0. served \subseteq served'
  BY ServedGrows
<1>1. ASSUME inbox' = inbox PROVE InInv'
  <2>1. \A p \in Parties : InMail(p)' = InMail(p)
    BY <1>1 DEF InMail
  <2> QED
    BY <1>0, <2>1, MentionsLast DEF InInv
<1>2. ASSUME NEW p \in Parties, NEW method, Take(p, method) PROVE InInv'
  <2>1. \A r \in Parties : InMail(r)' \subseteq InMail(r)
    BY <1>2, TakeMail
  <2> QED
    BY <1>0, <2>1, MentionsLast DEF InInv
<1>3. ASSUME NEW p \in Parties, NEW m \in Incoming, inbox' = Sent(inbox, p, m), InMention(served', p, m) PROVE InInv'
  <2>1. \A r \in Parties : \A e \in InMail(r)' : e \in InMail(r) \/ (r = p /\ e = m)
    BY <1>3, SentMail
  <2> QED
    BY <1>0, <1>3, <2>1, MentionsLast DEF InInv
<1>4. CASE UNCHANGED vars
  BY <1>1, <1>4 DEF vars
<1>5. CASE Caller
  BY <1>1, <1>2, <1>5 DEF Caller, NewKernelQuery, SendQueryUpdate, HandleResponseNonce, HandleResponseUpdate, HandleResponse
<1>6. CASE Handler
  BY <1>1, <1>6 DEF Handler, Respond, SendResponseUpdate, SetReceiveUpdate
<1>7. CASE Module
  BY <1>1, <1>2, <1>7 DEF Module, HandleCall, HandleQueryUpdate, RunMicrotask, HandlerReturns, HandlerThrows
<1>8. ASSUME NEW p \in Parties, KernelRefuses(p) PROVE InInv'
  <2> DEFINE m == Message("response", Head(outbox[p]).nonce, "refused")
  <2>1. TakeFrom(p, "moduleCall") /\ inbox' = Sent(inbox, p, m)
    BY <1>8 DEF KernelRefuses
  <2>2. m \in Incoming /\ m.method = "response"
    BY <2>1, TakeFromTypes, OutgoingTypes, RefusalTypes DEF Message
  <2>3. InMention(served', p, m)
    BY <2>2 DEF InMention
  <2> HIDE DEF m
  <2> QED
    BY <1>3, <2>1, <2>2, <2>3
<1>9. ASSUME NEW p \in Parties, KernelOpens(p) PROVE InInv'
  <2>1. PICK g \in served', e \in Incoming, t \in Incoming :
             /\ g.nonce = kernelNonces' /\ g.source = p /\ g.query = Head(outbox[p]).nonce
             /\ g.dest \in Parties /\ served' = served \cup {g} /\ open' = open \cup {g}
             /\ e.method = "moduleCall" /\ e.nonce = g.nonce
             /\ t.method = "responseNonce" /\ t.nonce = g.query /\ t.data = g.nonce
             /\ \/ inbox' = Sent(inbox, g.dest, e)
                \/ inbox' = Sent(Sent(inbox, g.dest, e), p, t)
    BY <1>9, OpensMail
  <2>2. InMention(served', g.dest, e) /\ InMention(served', p, t)
    BY <2>1 DEF InMention, AskedBy
  <2>3. CASE inbox' = Sent(inbox, g.dest, e)
    BY <1>3, <2>1, <2>2, <2>3
  <2>4. CASE inbox' = Sent(Sent(inbox, g.dest, e), p, t)
    <3>1. \A r \in Parties : \A m \in InMail(r)' : m \in InMail(r) \/ (r = g.dest /\ m = e) \/ (r = p /\ m = t)
      BY <2>1, <2>4, TwiceMail
    <3> QED
      BY <1>0, <2>2, <3>1, MentionsLast DEF InInv
  <2> QED
    BY <2>1, <2>3, <2>4
<1>10. ASSUME NEW p \in Parties, KernelRelaysDown(p) PROVE InInv'
  <2> DEFINE m == Head(outbox[p])
  <2>1. TakeFrom(p, "queryUpdate")
        /\ (inbox' = inbox \/ \E g \in open : g.nonce = m.nonce /\ inbox' = Sent(inbox, g.dest, m))
    BY <1>10 DEF KernelRelaysDown, Find
  <2>2. m \in Incoming /\ m.method = "queryUpdate"
    BY <2>1, TakeFromTypes, OutgoingTypes
  <2> HIDE DEF m
  <2>3. CASE \E g \in open : g.nonce = m.nonce /\ inbox' = Sent(inbox, g.dest, m)
    <3>1. PICK g \in open : g.nonce = m.nonce /\ inbox' = Sent(inbox, g.dest, m)
      BY <2>3
    <3>2. g \in served' /\ g.dest \in Parties
      BY <1>0 DEF TypeInv, KernelTypes, Served
    <3>3. InMention(served', g.dest, m)
      BY <2>2, <3>1, <3>2 DEF InMention
    <3> QED
      BY <1>3, <2>2, <3>1, <3>2, <3>3
  <2> QED
    BY <1>1, <2>1, <2>3
<1>11. ASSUME NEW p \in Parties, KernelRelaysUp(p) PROVE InInv'
  <2> DEFINE m == Head(outbox[p])
  <2>1. TakeFrom(p, m.method) /\ m.method \in {"response", "responseUpdate"}
        /\ (inbox' = inbox \/ (~BothNull(m) /\ \E g \in open : inbox' = Sent(inbox, g.source, Message(m.method, g.query, m.data))))
    BY <1>11 DEF KernelRelaysUp, Find
  <2>2. CASE ~BothNull(m) /\ \E g \in open : inbox' = Sent(inbox, g.source, Message(m.method, g.query, m.data))
    <3>1. PICK g \in open : inbox' = Sent(inbox, g.source, Message(m.method, g.query, m.data))
      BY <2>2
    <3>2. g \in served' /\ g \in served /\ g.source \in Parties /\ g.query \in 1 .. MaxCalls
      BY <1>0 DEF TypeInv, KernelTypes, Served
    <3> DEFINE e == Message(m.method, g.query, m.data)
    <3>3. e \in Incoming
      <4>1. m \in Outgoing
        BY <2>1, TakeFromTypes
      <4> QED
        BY <2>1, <2>2, <3>2, <4>1, RelayedTypes
    <3>4. e.nonce = g.query /\ e.method \in {"response", "responseUpdate"}
      BY <2>1 DEF Message
    <3> HIDE DEF e
    <3>5. \E h \in served' : AskedBy(h) = <<g.source, g.query>>
      BY <3>2 DEF AskedBy
    <3>6. InMention(served', g.source, e)
      BY <3>4, <3>5 DEF InMention
    <3> QED
      BY <1>3, <3>1, <3>2, <3>3, <3>6 DEF e
  <2> QED
    BY <1>1, <2>1, <2>2
<1> QED
  BY <1>4, <1>5, <1>6, <1>7, <1>8, <1>9, <1>10, <1>11 DEF Next, Kernel

(***************************************************************************)
(* What parties keep has been served.                                       *)
(***************************************************************************)

\* Microtasks are added by a handler and run in order.
LEMMA DueSteps ==
  ASSUME TypeInv, [Next]_vars
  PROVE  \A p \in Parties : \A d \in DueMail(p)' : d \in DueMail(p) \/ SetReceiveUpdate(p, d.nonce)
<1> DEFINE Fine == \A p \in Parties : \A d \in DueMail(p)' : d \in DueMail(p) \/ SetReceiveUpdate(p, d.nonce)
<1>0. due \in [Parties -> Seq(Due)]
  BY DEF TypeInv, ModuleTypes
<1>1. ASSUME due' = due PROVE Fine
  BY <1>1 DEF DueMail
<1>2. ASSUME NEW p \in Parties, RunMicrotask(p) PROVE Fine
  <2>1. due[p] # <<>> /\ due' = [due EXCEPT ![p] = Tail(@)]
    BY <1>2 DEF RunMicrotask
  <2>2. {due[p][i] : i \in DOMAIN due[p]} = {Tail(due[p])[i] : i \in DOMAIN Tail(due[p])} \cup {Head(due[p])}
    BY <1>0, <2>1, TailContents
  <2>3. due'[p] = Tail(due[p]) /\ \A r \in Parties : r # p => due'[r] = due[r]
    BY <1>0, <2>1
  <2>4. \A r \in Parties : DueMail(r)' \subseteq DueMail(r)
    BY <2>2, <2>3 DEF DueMail
  <2> QED
    BY <2>4
<1>3. ASSUME NEW p \in Parties, NEW k \in KernelNonces, SetReceiveUpdate(p, k) PROVE Fine
  <2> DEFINE w == handlers[k].waiting
             ds == [i \in DOMAIN w |-> [nonce |-> k, data |-> w[i]]]
             s == due[p] \o ds
  <2>1. due' = [due EXCEPT ![p] = @ \o ds]
    BY <1>3 DEF SetReceiveUpdate
  <2>2. w \in Seq(Waiting)
    BY DEF TypeInv, ModuleTypes, HandlerState
  <2>3. ds \in Seq(Due) /\ \A i \in DOMAIN ds : ds[i].nonce = k
    <3> HIDE DEF w
    <3>1. \A i \in DOMAIN w : [nonce |-> k, data |-> w[i]] \in Due
      BY <2>2 DEF Due
    <3>2. DOMAIN w = 1 .. Len(w) /\ Len(w) \in Nat
      BY <2>2
    <3> QED
      BY <3>1, <3>2
  <2> HIDE DEF ds
  <2>4. \A i \in DOMAIN s : (i \in DOMAIN due[p] /\ s[i] = due[p][i]) \/ (i - Len(due[p]) \in DOMAIN ds /\ s[i] = ds[i - Len(due[p])])
    <3>1. due[p] \in Seq(Due) /\ Len(due[p]) \in Nat /\ DOMAIN due[p] = 1 .. Len(due[p])
          /\ DOMAIN ds = 1 .. Len(ds) /\ Len(ds) \in Nat
      BY <1>0, <2>3
    <3> QED
      BY <2>3, <3>1
  <2>5. due'[p] = s /\ \A r \in Parties : r # p => due'[r] = due[r]
    BY <1>0, <2>1
  <2> HIDE DEF s
  <2>6. \A d \in DueMail(p)' : d \in DueMail(p) \/ d.nonce = k
    BY <2>3, <2>4, <2>5 DEF DueMail
  <2>7. \A r \in Parties : r # p => DueMail(r)' = DueMail(r)
    BY <2>5 DEF DueMail
  <2> QED
    BY <1>3, <2>6, <2>7
<1> HIDE DEF Fine
<1>4. Fine
  BY <1>1, <1>2, <1>3 DEF Next, vars, moduleVars, Caller, Handler, Module, Kernel, NewKernelQuery, SendQueryUpdate,
       HandleResponseNonce, HandleResponseUpdate, HandleResponse, Respond, SendResponseUpdate,
       HandleCall, HandleQueryUpdate, HandlerReturns, HandlerThrows, KernelRefuses, KernelOpens,
       KernelRelaysDown, KernelRelaysUp
<1> QED
  BY <1>4 DEF Fine

LEMMA RunningSteps ==
  ASSUME TypeInv, [Next]_vars, NEW p \in Parties
  PROVE  running'[p] \in {0, running[p]} \/ (HandleCall(p) /\ running'[p] = Head(inbox[p]).nonce)
<1>1. running \in [Parties -> {0} \cup KernelNonces]
  BY DEF TypeInv, ModuleTypes
<1>2. UNCHANGED running \/ \E r \in Parties : HandleCall(r) \/ HandlerReturns(r) \/ HandlerThrows(r)
  BY DEF Next, vars, moduleVars, Caller, Handler, Module, Kernel, NewKernelQuery, SendQueryUpdate,
   HandleResponseNonce, HandleResponseUpdate, HandleResponse, Respond, SendResponseUpdate, SetReceiveUpdate,
   HandleQueryUpdate, RunMicrotask, KernelRefuses, KernelOpens, KernelRelaysDown, KernelRelaysUp
<1> QED
  BY <1>1, <1>2 DEF HandleCall, HandlerReturns, HandlerThrows

LEMMA PlaceStep ==
  ASSUME TypeInv, TypeInv', InInv, PlaceInv, [Next]_vars
  PROVE  PlaceInv'
<1> USE ConstantTypes
<1>0. served \subseteq served'
  BY ServedGrows
<1>1. \A p \in Parties : \A d \in DueMail(p)' : ServedBy(d.nonce, p)'
  <2>1. \A p \in Parties : \A d \in DueMail(p)' : ServedBy(d.nonce, p)
    <3>1. \A p \in Parties : \A k : SetReceiveUpdate(p, k) => ServedBy(k, p)
      BY DEF SetReceiveUpdate, HandlerRuns, ServedBy
    <3> QED
      BY <3>1, DueSteps DEF PlaceInv
  <2> QED
    BY <1>0, <2>1, MentionsLast
<1>2. ASSUME NEW p \in Parties, running'[p] # 0 PROVE \E g \in served' : g.nonce = running'[p] /\ g.dest = p
  <2>1. running'[p] = running[p] \/ (HandleCall(p) /\ running'[p] = Head(inbox[p]).nonce)
    BY <1>2, RunningSteps
  <2>2. CASE running'[p] = running[p]
    BY <1>0, <1>2, <2>2 DEF PlaceInv, ServedBy
  <2>3. CASE HandleCall(p) /\ running'[p] = Head(inbox[p]).nonce
    <3>1. Take(p, "moduleCall")
      BY <2>3 DEF HandleCall
    <3>2. Head(inbox[p]).method = "moduleCall" /\ InMention(served, p, Head(inbox[p]))
      BY <3>1, TakeTypes, HeadMention
    <3> QED
      BY <1>0, <2>3, <3>2 DEF InMention
  <2> QED
    BY <2>1, <2>2, <2>3
<1>3. ASSUME NEW q \in Queries, queries'[q].kernelNonce # 0
      PROVE  \E g \in served' : AskedBy(g) = q /\ g.nonce = queries'[q].kernelNonce
  <2>0. queries \in [Queries -> Query]
    BY DEF TypeInv, CallerTypes
  <2>1. \/ UNCHANGED queries
        \/ \E p \in Callers : \/ \E to \in Modules, method \in Methods, wants \in BOOLEAN : NewKernelQuery(p, to, method, wants)
                              \/ HandleResponseNonce(p) \/ HandleResponse(p)
        \/ \E r \in Queries : SendQueryUpdate(r)
    BY DEF Next, vars, callerVars, Caller, Handler, Module, Kernel, HandleResponseUpdate, Respond, SendResponseUpdate,
       SetReceiveUpdate, HandleCall, HandleQueryUpdate, RunMicrotask, HandlerReturns, HandlerThrows, KernelRefuses,
       KernelOpens, KernelRelaysDown, KernelRelaysUp
  <2>2. CASE queries'[q].kernelNonce = queries[q].kernelNonce
    BY <1>0, <1>3, <2>2 DEF PlaceInv, AskedBy
  <2>3. ASSUME NEW p \in Callers, HandleResponseNonce(p), queries'[q].kernelNonce # queries[q].kernelNonce
        PROVE  \E g \in served' : AskedBy(g) = q /\ g.nonce = queries'[q].kernelNonce
    <3> DEFINE m == Head(inbox[p])
               o == <<p, m.nonce>>
    <3>1. Take(p, "responseNonce")
          /\ (queries' = queries \/ queries' = [queries EXCEPT ![o].kernelNonce = m.data, ![o].held = <<>>])
      BY <2>3 DEF HandleResponseNonce
    <3>2. m.method = "responseNonce" /\ InMention(served, p, m)
      BY <3>1, TakeTypes, HeadMention
    <3>3. q = o /\ queries'[q].kernelNonce = m.data
      BY <2>0, <2>3, <3>1 DEF Query
    <3>4. \E g \in served : AskedBy(g) = o /\ g.nonce = m.data
      BY <3>2 DEF InMention
    <3> HIDE DEF m, o
    <3> QED
      BY <1>0, <3>3, <3>4
  <2>4. ASSUME NEW p \in Callers, NEW n, NEW wants, queries' = [queries EXCEPT ![<<p, n>>].open = TRUE, ![<<p, n>>].wantsNonce = wants]
        PROVE  queries'[q].kernelNonce = queries[q].kernelNonce
    BY <2>0, <2>4 DEF Query
  <2>5. ASSUME NEW o, queries' = [queries EXCEPT ![o].open = FALSE]
        PROVE  queries'[q].kernelNonce = queries[q].kernelNonce
    BY <2>0, <2>5 DEF Query
  <2>6. ASSUME NEW o, NEW h, queries' = [queries EXCEPT ![o].held = h]
        PROVE  queries'[q].kernelNonce = queries[q].kernelNonce
    BY <2>0, <2>6 DEF Query
  <2>7. ASSUME NEW p \in Callers, NEW to, NEW method, NEW wants, NewKernelQuery(p, to, method, wants)
        PROVE  queries'[q].kernelNonce = queries[q].kernelNonce
    BY <2>4, <2>7 DEF NewKernelQuery
  <2>8. ASSUME NEW p \in Callers, HandleResponse(p) PROVE queries'[q].kernelNonce = queries[q].kernelNonce
    BY <2>5, <2>8 DEF HandleResponse
  <2>9. ASSUME NEW r \in Queries, SendQueryUpdate(r) PROVE queries'[q].kernelNonce = queries[q].kernelNonce
    BY <2>0, <2>6, <2>9 DEF SendQueryUpdate
  <2> QED
    BY <2>1, <2>2, <2>3, <2>7, <2>8, <2>9
<1> QED
  BY <1>1, <1>2, <1>3 DEF PlaceInv, AskedBy, ServedBy

(***************************************************************************)
(* Who changes what is kept of a query: at most one module, and one caller.  *)
(***************************************************************************)
Touches(p, k) ==
    \/ \E answer \in {"data", "err", "null"} : Respond(p, k, answer)
    \/ SendResponseUpdate(p, k)
    \/ SetReceiveUpdate(p, k)
    \/ HandleCall(p) /\ Head(inbox[p]).nonce = k
    \/ HandleQueryUpdate(p) /\ Head(inbox[p]).nonce = k
    \/ RunMicrotask(p) /\ Head(due[p]).nonce = k
    \/ HandlerThrows(p) /\ running[p] = k

Kept(k) ==
    /\ handlers'[k] = handlers[k] /\ said'[k] = said[k] /\ got'[k] = got[k]
    /\ k \in incomingQueries' <=> k \in incomingQueries

LEMMA TouchServed ==
  ASSUME TypeInv, InInv, PlaceInv, NEW p \in Parties, NEW k, Touches(p, k)
  PROVE  ServedBy(k, p)
<1>1. CASE (\E answer \in {"data", "err", "null"} : Respond(p, k, answer)) \/ SendResponseUpdate(p, k) \/ SetReceiveUpdate(p, k)
  BY <1>1 DEF Respond, SendResponseUpdate, SetReceiveUpdate, HandlerRuns, ServedBy
<1>2. CASE (HandleCall(p) \/ HandleQueryUpdate(p)) /\ Head(inbox[p]).nonce = k
  <2>1. PICK method \in {"moduleCall", "queryUpdate"} : Take(p, method)
    BY <1>2 DEF HandleCall, HandleQueryUpdate
  <2>2. InMention(served, p, Head(inbox[p])) /\ Head(inbox[p]).method \in {"moduleCall", "queryUpdate"}
    BY <2>1, HeadMention, TakeTypes
  <2> QED
    BY <1>2, <2>2 DEF InMention, ServedBy
<1>3. CASE RunMicrotask(p) /\ Head(due[p]).nonce = k
  <2>1. due[p] \in Seq(Due) /\ due[p] # <<>>
    BY <1>3 DEF RunMicrotask, TypeInv, ModuleTypes
  <2>2. Head(due[p]) \in DueMail(p)
    <3>1. 1 \in DOMAIN due[p] /\ Head(due[p]) = due[p][1]
      BY <2>1
    <3> QED
      BY <3>1 DEF DueMail
  <2>3. ServedBy(Head(due[p]).nonce, p)
    BY <2>2 DEF PlaceInv
  <2> QED
    BY <1>3, <2>3
<1>4. CASE HandlerThrows(p) /\ running[p] = k
  BY <1>4 DEF HandlerThrows, PlaceInv
<1> QED
  BY <1>1, <1>2, <1>3, <1>4 DEF Touches

LEMMA Untouched ==
  ASSUME TypeInv, [Next]_vars, NEW j \in KernelNonces, \A p \in Parties : ~Touches(p, j)
  PROVE  Kept(j)
<1>0. /\ handlers \in [KernelNonces -> HandlerState]
      /\ said \in [KernelNonces -> Seq(Said)] /\ got \in [KernelNonces -> Seq(Waiting)]
  BY DEF TypeInv, ModuleTypes
<1>1. ASSUME UNCHANGED <<handlers, incomingQueries, said, got>> PROVE Kept(j)
  BY <1>1 DEF Kept
<1>2. ASSUME NEW p, NEW k, NEW m, NEW d, Say(p, k, m, d), k # j PROVE said'[j] = said[j]
  BY <1>0, <1>2 DEF Say
<1>3. ASSUME NEW p \in Parties, NEW k \in KernelNonces,
             \/ \E answer \in {"data", "err", "null"} : Respond(p, k, answer)
             \/ SendResponseUpdate(p, k)
             \/ SetReceiveUpdate(p, k)
      PROVE  Kept(j)
  <2>1. k # j
    BY <1>3 DEF Touches
  <2>2. CASE \E answer \in {"data", "err", "null"} : Respond(p, k, answer)
    BY <1>0, <1>2, <2>1, <2>2 DEF Respond, Responded, ClearIncomingQuery, Kept
  <2>3. CASE SendResponseUpdate(p, k)
    BY <1>0, <1>2, <2>1, <2>3 DEF SendResponseUpdate, Kept
  <2>4. CASE SetReceiveUpdate(p, k)
    BY <1>0, <2>1, <2>4 DEF SetReceiveUpdate, Kept
  <2> QED
    BY <1>3, <2>2, <2>3, <2>4
<1>4. ASSUME NEW p \in Parties, HandleCall(p) PROVE Kept(j)
  <2> DEFINE k == Head(inbox[p]).nonce
             d == Head(inbox[p]).data
  <2>1. k # j
    BY <1>4 DEF Touches
  <2>2. \/ Say(p, k, "response", "err") /\ ClearIncomingQuery(k) /\ handlers' = handlers /\ got' = got
        \/ /\ handlers' = [handlers EXCEPT ![k].method = d]
           /\ incomingQueries' = incomingQueries \/ incomingQueries' = incomingQueries \cup {k}
           /\ said' = said /\ got' = got
    BY <1>4 DEF HandleCall, RespondErr
  <2> HIDE DEF k, d
  <2> QED
    BY <1>0, <1>2, <2>1, <2>2 DEF ClearIncomingQuery, Kept
<1>5. ASSUME NEW p \in Parties, HandleQueryUpdate(p) PROVE Kept(j)
  <2> DEFINE k == Head(inbox[p]).nonce
             d == Head(inbox[p]).data
  <2>1. k # j
    BY <1>5 DEF Touches
  <2>2. /\ \/ got' = [got EXCEPT ![k] = Append(@, d)] /\ handlers' = handlers
           \/ handlers' = [handlers EXCEPT ![k].waiting = Append(@, d)] /\ got' = got
           \/ handlers' = handlers /\ got' = got
        /\ UNCHANGED <<said, incomingQueries>>
    BY <1>5 DEF HandleQueryUpdate
  <2> HIDE DEF k, d
  <2> QED
    BY <1>0, <2>1, <2>2 DEF Kept
<1>6. ASSUME NEW p \in Parties, RunMicrotask(p) PROVE Kept(j)
  <2> DEFINE k == Head(due[p]).nonce
             d == Head(due[p]).data
  <2>1. k # j
    BY <1>6 DEF Touches
  <2>2. got' = [got EXCEPT ![k] = Append(@, d)] /\ UNCHANGED <<handlers, said, incomingQueries>>
    BY <1>6 DEF RunMicrotask
  <2> HIDE DEF k, d
  <2> QED
    BY <1>0, <2>1, <2>2 DEF Kept
<1>7. ASSUME NEW p \in Parties, HandlerThrows(p) PROVE Kept(j)
  <2> DEFINE k == running[p]
  <2>1. k # j
    BY <1>7 DEF Touches
  <2>2. /\ UNCHANGED <<handlers, got>>
        /\ UNCHANGED <<said, incomingQueries>> \/ (Say(p, k, "response", "thrown") /\ ClearIncomingQuery(k))
    BY <1>7 DEF HandlerThrows, RespondErr
  <2> HIDE DEF k
  <2> QED
    BY <1>0, <1>2, <2>1, <2>2 DEF ClearIncomingQuery, Kept
<1> QED
  BY <1>1, <1>3, <1>4, <1>5, <1>6, <1>7
  DEF Next, vars, moduleVars, Caller, Handler, Module, Kernel, NewKernelQuery, SendQueryUpdate, HandleResponseNonce,
      HandleResponseUpdate, HandleResponse, HandlerReturns, KernelRefuses, KernelOpens, KernelRelaysDown, KernelRelaysUp

\* What a step of the caller does to what it keeps of q.
Makes(q) ==
    \E to \in Modules, method \in Methods, wants \in BOOLEAN :
        /\ NewKernelQuery(q[1], to, method, wants) /\ q[2] = queriesNonce[q[1]] + 1
        /\ queries'[q] = [queries[q] EXCEPT !.open = TRUE, !.wantsNonce = wants]
        /\ asked'[q] = asked[q]

Hears(q) ==
    /\ Head(inbox[q[1]]).nonce = q[2]
    /\ HandleResponseNonce(q[1]) \/ HandleResponse(q[1])
    /\ asked'[q] = asked[q]

LEMMA CallerSteps ==
  ASSUME TypeInv, [Next]_vars, NEW q \in Queries
  PROVE  \/ queries'[q] = queries[q] /\ asked'[q] = asked[q]
         \/ Makes(q)
         \/ SendQueryUpdate(q)
         \/ Hears(q)
<1> USE ConstantTypes
<1>0. queries \in [Queries -> Query] /\ asked \in [Queries -> 0 .. MaxUpdates]
  BY DEF TypeInv, CallerTypes
<1>1. ASSUME UNCHANGED <<queries, asked>> PROVE queries'[q] = queries[q] /\ asked'[q] = asked[q]
  BY <1>1
<1>2. ASSUME NEW p \in Callers, NEW to \in Modules, NEW method \in Methods, NEW wants \in BOOLEAN,
             NewKernelQuery(p, to, method, wants)
      PROVE  (queries'[q] = queries[q] /\ asked'[q] = asked[q]) \/ Makes(q)
  <2> DEFINE n == queriesNonce[p] + 1
  <2>1. queries' = [queries EXCEPT ![<<p, n>>].open = TRUE, ![<<p, n>>].wantsNonce = wants] /\ asked' = asked
    BY <1>2 DEF NewKernelQuery
  <2> HIDE DEF n
  <2>2. CASE q # <<p, n>>
    BY <1>0, <2>1, <2>2
  <2>3. CASE q = <<p, n>>
    <3>1. queries'[q] = [queries[q] EXCEPT !.open = TRUE, !.wantsNonce = wants] /\ asked'[q] = asked[q]
      BY <1>0, <2>1, <2>3
    <3>2. q[1] = p /\ q[2] = n
      BY <2>3
    <3> QED
      BY <1>2, <3>1, <3>2 DEF Makes, n
  <2> QED
    BY <2>2, <2>3
<1>3. ASSUME NEW o \in Queries, SendQueryUpdate(o), o # q PROVE queries'[q] = queries[q] /\ asked'[q] = asked[q]
  BY <1>0, <1>3 DEF SendQueryUpdate
<1>4. ASSUME NEW p \in Callers, HandleResponseNonce(p) PROVE (queries'[q] = queries[q] /\ asked'[q] = asked[q]) \/ Hears(q)
  <2> DEFINE m == Head(inbox[p])
             o == <<p, m.nonce>>
  <2>1. asked' = asked /\ (queries' = queries \/ queries' = [queries EXCEPT ![o].kernelNonce = m.data, ![o].held = <<>>])
    BY <1>4 DEF HandleResponseNonce
  <2>2. CASE q = o
    <3>1. q[1] = p /\ q[2] = Head(inbox[q[1]]).nonce
      BY <2>2
    <3> QED
      BY <1>4, <2>1, <3>1 DEF Hears
  <2>3. CASE q # o
    <3> DEFINE d == m.data
    <3>1. queries' = queries \/ queries' = [queries EXCEPT ![o].kernelNonce = d, ![o].held = <<>>]
      BY <2>1
    <3> HIDE DEF o, d
    <3> QED
      BY <1>0, <2>1, <2>3, <3>1
  <2> QED
    BY <2>2, <2>3
<1>5. ASSUME NEW p \in Callers, HandleResponse(p) PROVE (queries'[q] = queries[q] /\ asked'[q] = asked[q]) \/ Hears(q)
  <2> DEFINE m == Head(inbox[p])
             o == <<p, m.nonce>>
  <2>1. asked' = asked /\ (queries' = queries \/ queries' = [queries EXCEPT ![o].open = FALSE])
    BY <1>5 DEF HandleResponse
  <2>2. CASE q = o
    <3>1. q[1] = p /\ q[2] = Head(inbox[q[1]]).nonce
      BY <2>2
    <3> QED
      BY <1>5, <2>1, <3>1 DEF Hears
  <2>3. CASE q # o
    <3> HIDE DEF o
    <3> QED
      BY <1>0, <2>1, <2>3
  <2> QED
    BY <2>2, <2>3
<1>6. CASE Caller
  <2>1. CASE \E p \in Callers : HandleResponseUpdate(p)
    BY <1>1, <2>1 DEF HandleResponseUpdate
  <2> QED
    BY <1>2, <1>3, <1>4, <1>5, <1>6, <2>1 DEF Caller
<1>7. CASE UNCHANGED vars \/ Handler \/ Module \/ Kernel
  BY <1>1, <1>7 DEF vars, callerVars, Handler, Module, Kernel, Respond, SendResponseUpdate,
       SetReceiveUpdate, HandleCall, HandleQueryUpdate, RunMicrotask, HandlerReturns, HandlerThrows, KernelRefuses,
       KernelOpens, KernelRelaysDown, KernelRelaysUp
<1> QED
  BY <1>6, <1>7 DEF Next

LEMMA KernelSteps ==
  [Next]_vars =>
      \/ UNCHANGED <<kernelNonces, served>> /\ open' \subseteq open
      \/ \E p \in Parties : KernelOpens(p)
BY DEF Next, vars, callerVars, kernelVars, Caller, Handler, Module, Kernel, NewKernelQuery, SendQueryUpdate, HandleResponseNonce,
       HandleResponseUpdate, HandleResponse, Respond, SendResponseUpdate, SetReceiveUpdate, HandleCall, HandleQueryUpdate,
       RunMicrotask, HandlerReturns, HandlerThrows, KernelRefuses, KernelRelaysDown, KernelRelaysUp

LEMMA NonceSteps ==
  [Next]_vars =>
      \/ UNCHANGED queriesNonce
      \/ \E p \in Callers, to \in Modules, method \in Methods, wants \in BOOLEAN : NewKernelQuery(p, to, method, wants)
BY DEF Next, vars, callerVars, kernelVars, Caller, Handler, Module, Kernel, SendQueryUpdate, HandleResponseNonce,
       HandleResponseUpdate, HandleResponse, Respond, SendResponseUpdate, SetReceiveUpdate, HandleCall, HandleQueryUpdate,
       RunMicrotask, HandlerReturns, HandlerThrows, KernelRefuses, KernelOpens, KernelRelaysDown, KernelRelaysUp

LEMMA NoncesGrow ==
  ASSUME TypeInv, TypeInv', [Next]_vars
  PROVE  /\ kernelNonces \in Nat /\ kernelNonces' \in Nat /\ kernelNonces <= kernelNonces'
         /\ \A p \in Callers : queriesNonce[p] \in Nat /\ queriesNonce'[p] \in Nat /\ queriesNonce[p] <= queriesNonce'[p]
<1> USE ConstantTypes
<1>1. kernelNonces \in Nat /\ kernelNonces' \in Nat /\ queriesNonce \in [Callers -> 0 .. MaxCalls]
      /\ queriesNonce' \in [Callers -> 0 .. MaxCalls]
  BY DEF TypeInv, KernelTypes, CallerTypes
<1>2. kernelNonces' = kernelNonces \/ kernelNonces' = kernelNonces + 1
  BY KernelSteps DEF KernelOpens
<1>3. queriesNonce' = queriesNonce \/ \E p \in Callers : queriesNonce' = [queriesNonce EXCEPT ![p] = queriesNonce[p] + 1]
  BY NonceSteps DEF NewKernelQuery
<1>4. \A p \in Callers : queriesNonce[p] <= queriesNonce'[p]
  BY <1>1, <1>3
<1> QED
  BY <1>1, <1>2, <1>4

(***************************************************************************)
(* Nothing is known of queries that were not made, or not opened yet.        *)
(***************************************************************************)
LEMMA FreshStep ==
  ASSUME TypeInv, TypeInv', CallInv, InInv, PlaceInv, FreshInv, [Next]_vars
  PROVE  FreshInv'
<1> USE ConstantTypes
<1>1. ASSUME NEW k \in KernelNonces, k > kernelNonces'
      PROVE  /\ handlers'[k] = NoHandler /\ k \notin incomingQueries'
             /\ said'[k] = <<>> /\ got'[k] = <<>>
  <2>1. k > kernelNonces
    BY <1>1, NoncesGrow
  <2>2. \A p \in Parties : ~ServedBy(k, p)
    <3>1. \A g \in served : g.nonce <= kernelNonces
      BY DEF CallInv
    <3>2. \A g \in served : g.nonce # k
      BY <2>1, <3>1, NoncesGrow
    <3> QED
      BY <3>2 DEF ServedBy
  <2>3. Kept(k)
    BY <2>2, TouchServed, Untouched
  <2> QED
    BY <2>1, <2>3 DEF FreshInv, Kept
<1>2. ASSUME NEW q \in Queries, q[2] > queriesNonce'[q[1]] PROVE queries'[q] = NoQuery /\ asked'[q] = 0
  <2>1. q[2] > queriesNonce[q[1]]
    BY <1>2, NoncesGrow
  <2>2. queries[q] = NoQuery /\ asked[q] = 0
    BY <2>1 DEF FreshInv
  <2>3. ~Makes(q)
    <3> SUFFICES ASSUME Makes(q) PROVE FALSE
      OBVIOUS
    <3>1. queriesNonce' = [queriesNonce EXCEPT ![q[1]] = queriesNonce[q[1]] + 1] /\ q[2] = queriesNonce[q[1]] + 1
      BY DEF Makes, NewKernelQuery
    <3>2. queriesNonce'[q[1]] = q[2]
      BY <3>1 DEF TypeInv, CallerTypes
    <3> QED
      BY <1>2, <3>2
  <2>4. ~queries[q].open /\ ~queries[q].wantsNonce
    BY <2>2 DEF NoQuery
  <2>5. ~SendQueryUpdate(q)
    BY <2>4 DEF SendQueryUpdate
  <2>6. Hears(q) => queries' = queries /\ asked'[q] = asked[q]
    <3>1. q = <<q[1], Head(inbox[q[1]]).nonce>> \/ ~Hears(q)
      BY DEF Hears
    <3> QED
      BY <2>4, <3>1 DEF Hears, HandleResponseNonce, HandleResponse
  <2> QED
    BY <2>2, <2>3, <2>5, <2>6, CallerSteps
<1> QED
  BY <1>1, <1>2 DEF FreshInv

\* A call that was settled stays so.
LEMMA SettledStays ==
  ASSUME TypeInv, TypeInv', CallInv, [Next]_vars, NEW q \in Queries, Settled(q)
  PROVE  Settled(q)'
<1> USE ConstantTypes
<1>1. q[1] \in Callers /\ q[1] \in Parties /\ q[2] \in Nat
  OBVIOUS
<1>2. q[2] <= queriesNonce'[q[1]]
  BY <1>1, NoncesGrow DEF Settled
<1>3. \A i \in Calls(q[1])' : outbox'[q[1]][i].nonce # q[2]
  <2>1. CASE \E p \in Callers, to \in Modules, method \in Methods, wants \in BOOLEAN : NewKernelQuery(p, to, method, wants)
    <3>1. PICK p \in Callers, to \in Modules, method \in Methods, wants \in BOOLEAN : NewKernelQuery(p, to, method, wants)
      BY <2>1
    <3> DEFINE n == queriesNonce[p] + 1
               m == Message("moduleCall", n, [module |-> to, method |-> method, sendKernelNonce |-> wants])
    <3>2. outbox' = [outbox EXCEPT ![p] = Append(@, m)] /\ m.nonce = n
      BY <3>1 DEF NewKernelQuery, Post, Message
    <3>3. p = q[1] => q[2] # n
      BY <1>1, NoncesGrow DEF Settled
    <3> HIDE DEF n, m
    <3>4. \A i \in Calls(q[1])' : (i \in Calls(q[1]) /\ outbox'[q[1]][i] = outbox[q[1]][i]) \/ (q[1] = p /\ outbox'[q[1]][i] = m)
      BY <1>1, <3>2 DEF Calls, TypeInv, BoxTypes
    <3> QED
      BY <3>2, <3>3, <3>4 DEF Settled
  <2>2. CASE \A p \in Callers, to \in Modules, method \in Methods, wants \in BOOLEAN : ~NewKernelQuery(p, to, method, wants)
    <3>1. NoNewCall
      BY <2>2, QuietStep
    <3> QED
      BY <1>1, <3>1, CallsFrame DEF Settled
  <2> QED
    BY <2>1, <2>2
<1>4. \A g \in open' : AskedBy(g) # q
  <2>1. CASE open' \subseteq open
    BY <2>1 DEF Settled
  <2>2. CASE \E p \in Parties : KernelOpens(p)
    <3>1. PICK p \in Parties : KernelOpens(p)
      BY <2>2
    <3> DEFINE m == Head(outbox[p])
    <3>2. TakeFrom(p, "moduleCall")
      BY <3>1 DEF KernelOpens
    <3>3. outbox[p] \in Seq(Outgoing) /\ outbox[p] # <<>> /\ m.method = "moduleCall"
      BY <3>2, TakeFromTypes
    <3>4. 1 \in Calls(p) /\ outbox[p][1] = m
      BY <3>3 DEF Calls
    <3>5. q # <<p, m.nonce>>
      BY <3>4 DEF Settled
    <3>6. \A g \in open' : g \in open \/ (g.source = p /\ g.query = m.nonce)
      BY <3>1 DEF KernelOpens
    <3> HIDE DEF m
    <3> QED
      BY <3>5, <3>6 DEF Settled, AskedBy
  <2> QED
    BY <2>1, <2>2, KernelSteps
<1> QED
  BY <1>2, <1>3, <1>4 DEF Settled, AskedBy

(***************************************************************************)
(* A response comes when the query is settled.                              *)
(***************************************************************************)
Relays(p, g) ==
    /\ g \in open /\ g.nonce = Head(outbox[p]).nonce
    /\ TakeFrom(p, Head(outbox[p]).method)
    /\ Head(outbox[p]).method \in {"response", "responseUpdate"} /\ ~BothNull(Head(outbox[p]))
    /\ inbox' = Sent(inbox, g.source, Message(Head(outbox[p]).method, g.query, Head(outbox[p]).data))
    /\ open' = IF Head(outbox[p]).method = "response" THEN open \ {g} ELSE open

\* Where a message comes from that the kernel posts to a worker.
LEMMA InSteps ==
  ASSUME TypeInv, TypeInv', [Next]_vars
  PROVE  \/ \A p \in Parties : InMail(p)' \subseteq InMail(p)
         \/ \E p \in Parties : KernelRefuses(p) \/ KernelOpens(p)
         \/ \E p \in Parties : KernelRelaysDown(p) /\ \E g \in Find(Head(outbox[p]).nonce) : inbox' = Sent(inbox, g.dest, Head(outbox[p]))
         \/ \E p \in Parties, g \in served : Relays(p, g)
<1>1. CASE inbox' = inbox
  BY <1>1 DEF InMail
<1>2. ASSUME NEW p \in Parties, NEW method, Take(p, method) PROVE \A r \in Parties : InMail(r)' \subseteq InMail(r)
  BY <1>2, TakeMail
<1>3. CASE Caller
  BY <1>1, <1>2, <1>3, ConstantTypes DEF Caller, NewKernelQuery, SendQueryUpdate, HandleResponseNonce, HandleResponseUpdate,
     HandleResponse
<1>4. CASE Handler
  BY <1>1, <1>4 DEF Handler, Respond, SendResponseUpdate, SetReceiveUpdate
<1>5. CASE Module
  BY <1>1, <1>2, <1>5 DEF Module, HandleCall, HandleQueryUpdate, RunMicrotask, HandlerReturns, HandlerThrows
<1>6. ASSUME NEW p \in Parties, KernelRelaysDown(p)
      PROVE  inbox' = inbox \/ \E g \in Find(Head(outbox[p]).nonce) : inbox' = Sent(inbox, g.dest, Head(outbox[p]))
  BY <1>6 DEF KernelRelaysDown
<1>7. ASSUME NEW p \in Parties, KernelRelaysUp(p) PROVE inbox' = inbox \/ \E g \in served : Relays(p, g)
  <2>1. CASE Find(Head(outbox[p]).nonce) = {} \/ BothNull(Head(outbox[p]))
    BY <1>7, <2>1 DEF KernelRelaysUp
  <2>2. CASE Find(Head(outbox[p]).nonce) # {} /\ ~BothNull(Head(outbox[p]))
    <3>1. PICK g \in Find(Head(outbox[p]).nonce) :
                    /\ inbox' = Sent(inbox, g.source, Message(Head(outbox[p]).method, g.query, Head(outbox[p]).data))
                    /\ open' = IF Head(outbox[p]).method = "response" THEN open \ {g} ELSE open
      BY <1>7, <2>2 DEF KernelRelaysUp
    <3>2. g \in open /\ g \in served /\ g.nonce = Head(outbox[p]).nonce
      BY <3>1 DEF Find, TypeInv, KernelTypes
    <3>3. Relays(p, g)
      BY <1>7, <2>2, <3>1, <3>2 DEF Relays, KernelRelaysUp
    <3> QED
      BY <3>2, <3>3
  <2> QED
    BY <2>1, <2>2
<1> QED
  BY <1>1, <1>3, <1>4, <1>5, <1>6, <1>7 DEF Next, Kernel, vars

LEMMA RelayTypes ==
  ASSUME TypeInv, NEW p \in Parties, NEW g, Relays(p, g)
  PROVE  /\ g \in served /\ g.source \in Callers /\ g.source \in Parties /\ g.query \in 1 .. MaxCalls /\ AskedBy(g) \in Queries
         /\ g.nonce \in KernelNonces
         /\ \E e \in Incoming : /\ e = Message(Head(outbox[p]).method, g.query, Head(outbox[p]).data)
                                /\ e.method = Head(outbox[p]).method /\ e.nonce = g.query /\ e.data = Head(outbox[p]).data
                                /\ inbox' = Sent(inbox, g.source, e)
<1> DEFINE m == Head(outbox[p])
<1>1. TakeFrom(p, m.method) /\ m.method \in {"response", "responseUpdate"} /\ ~BothNull(m) /\ g \in open
      /\ inbox' = Sent(inbox, g.source, Message(m.method, g.query, m.data))
  BY DEF Relays
<1>2. m \in Outgoing
  BY <1>1, TakeFromTypes
<1>3. g \in served /\ g.source \in Callers /\ g.source \in Parties /\ g.query \in 1 .. MaxCalls /\ g.nonce \in KernelNonces
  BY <1>1, ConstantTypes DEF TypeInv, KernelTypes, Served
<1>4. AskedBy(g) \in Queries
  BY <1>3 DEF AskedBy, Queries
<1> DEFINE e == Message(m.method, g.query, m.data)
<1>5. e \in Incoming /\ e.method = m.method /\ e.nonce = g.query /\ e.data = m.data
  BY <1>1, <1>2, <1>3, RelayedTypes DEF Message
<1> HIDE DEF e
<1>6. inbox' = Sent(inbox, g.source, e)
  BY <1>1 DEF e
<1> QED
  BY <1>3, <1>4, <1>5, <1>6 DEF e

LEMMA ResponseSettles ==
  ASSUME TypeInv, TypeInv', CallInv, [Next]_vars, SettledInv,
         NEW p \in Parties, NEW m \in InMail(p)', m.method = "response"
  PROVE  p \in Callers /\ <<p, m.nonce>> \in Queries /\ Settled(<<p, m.nonce>>)'
<1> USE ConstantTypes
<1>0. m.nonce \in 1 .. MaxCalls
  <2>1. m \in Incoming
    BY DEF InMail, TypeInv, BoxTypes
  <2> QED
    BY <2>1, IncomingTypes
<1>1. CASE m \in InMail(p)
  <2>1. p \in Callers /\ Settled(<<p, m.nonce>>)
    BY <1>1 DEF SettledInv
  <2>2. <<p, m.nonce>> \in Queries
    BY <1>0, <2>1 DEF Queries
  <2> QED
    BY <2>1, <2>2, SettledStays
<1>2. ASSUME NEW r \in Parties, KernelRefuses(r), m \notin InMail(p)
      PROVE  p \in Callers /\ <<p, m.nonce>> \in Queries /\ Settled(<<p, m.nonce>>)'
  <2> DEFINE h == Head(outbox[r])
             e == Message("response", h.nonce, "refused")
  <2>1. TakeFrom(r, "moduleCall") /\ inbox' = Sent(inbox, r, e)
        /\ UNCHANGED <<queriesNonce, open>>
    BY <1>2 DEF KernelRefuses, callerVars, kernelVars
  <2>2. h \in Outgoing /\ h.method = "moduleCall" /\ outbox[r] \in Seq(Outgoing) /\ outbox[r] # <<>>
    BY <2>1, TakeFromTypes
  <2>3. e \in Incoming /\ e.nonce = h.nonce
    BY <2>2, OutgoingTypes, RefusalTypes DEF Message
  <2> HIDE DEF e
  <2>4. p = r /\ m = e
    BY <1>2, <2>1, <2>3, SentMail
  <2>5. 1 \in Calls(r) /\ outbox[r][1] = h
    BY <2>2 DEF Calls
  <2>6. p \in Callers /\ m.nonce <= queriesNonce[p] /\ <<p, m.nonce>> \notin Opened
    BY <2>3, <2>4, <2>5 DEF CallInv
  <2>7. <<p, m.nonce>> \in Queries
    BY <1>0, <2>6 DEF Queries
  <2>8. \A g \in open' : AskedBy(g) # <<p, m.nonce>>
    BY <2>1, <2>6 DEF Opened, TypeInv, KernelTypes
  <2>9. \A i \in Calls(p)' : outbox'[p][i].nonce # m.nonce
    <3>1. outbox'[r] = Tail(outbox[r])
      BY <2>1, TakeFromTypes DEF TypeInv, BoxTypes
    <3>2. \A i \in DOMAIN Tail(outbox[r]) : i + 1 \in DOMAIN outbox[r] /\ Tail(outbox[r])[i] = outbox[r][i + 1] /\ i + 1 # 1
      BY <2>2
    <3>3. \A i \in Calls(r) : i # 1 => outbox[r][i].nonce # outbox[r][1].nonce
      BY <2>5 DEF CallInv
    <3>4. \A i \in Calls(r)' : i + 1 \in Calls(r) /\ i + 1 # 1 /\ outbox'[r][i] = outbox[r][i + 1]
      BY <3>1, <3>2 DEF Calls
    <3> QED
      BY <2>3, <2>4, <2>5, <3>3, <3>4
  <2>10. m.nonce <= queriesNonce'[p]
    BY <2>1, <2>6
  <2> QED
    BY <2>6, <2>7, <2>8, <2>9, <2>10 DEF Settled, AskedBy
<1>3. ASSUME NEW r \in Parties, NEW g \in served, Relays(r, g), m \notin InMail(p)
      PROVE  p \in Callers /\ <<p, m.nonce>> \in Queries /\ Settled(<<p, m.nonce>>)'
  <2>1. PICK e \in Incoming : e.method = Head(outbox[r]).method /\ e.nonce = g.query /\ inbox' = Sent(inbox, g.source, e)
    BY <1>3, RelayTypes
  <2>2. p = g.source /\ m = e /\ p \in Callers /\ AskedBy(g) \in Queries
    BY <1>3, <2>1, RelayTypes, SentMail
  <2>3. AskedBy(g) = <<p, m.nonce>>
    BY <2>1, <2>2 DEF AskedBy
  <2>4. m.nonce <= queriesNonce[p]
    BY <2>1, <2>2 DEF CallInv
  <2>5. m.nonce <= queriesNonce'[p]
    <3>1. m.nonce \in Nat /\ queriesNonce[p] \in Nat /\ queriesNonce'[p] \in Nat /\ queriesNonce[p] <= queriesNonce'[p]
      BY <1>0, <2>2, NoncesGrow
    <3> QED
      BY <2>4, <3>1
  <2>6. \A h \in open' : AskedBy(h) # <<p, m.nonce>>
    <3>1. open' = open \ {g}
      BY <1>3, <2>1, <2>2 DEF Relays
    <3>2. \A h \in open : AskedBy(h) = AskedBy(g) => h = g
      BY DEF CallInv, TypeInv, KernelTypes
    <3> QED
      BY <2>3, <3>1, <3>2
  <2>7. CallInv'
    BY CallStep
  <2>8. <<p, m.nonce>> \in Opened'
    BY <2>3, ServedGrows DEF Opened, AskedBy
  <2>9. \A i \in Calls(p)' : outbox'[p][i].nonce # m.nonce
    BY <2>7, <2>8 DEF CallInv
  <2> QED
    BY <2>2, <2>3, <2>5, <2>6, <2>9 DEF Settled, AskedBy
<1>4. ASSUME NEW r \in Parties, KernelOpens(r) PROVE m \in InMail(p)
  <2>1. PICK g \in served', e \in Incoming, t \in Incoming :
             /\ g.dest \in Parties /\ e.method = "moduleCall" /\ t.method = "responseNonce"
             /\ \/ inbox' = Sent(inbox, g.dest, e)
                \/ inbox' = Sent(Sent(inbox, g.dest, e), r, t)
    BY <1>4, OpensMail
  <2>2. m \in InMail(p) \/ m = e \/ m = t
    <3>1. CASE inbox' = Sent(inbox, g.dest, e)
      BY <2>1, <3>1, SentMail
    <3>2. CASE inbox' = Sent(Sent(inbox, g.dest, e), r, t)
      BY <2>1, <3>2, TwiceMail
    <3> QED
      BY <2>1, <3>1, <3>2
  <2> QED
    BY <2>1, <2>2
<1>5. ASSUME NEW r \in Parties, NEW g \in Find(Head(outbox[r]).nonce), KernelRelaysDown(r), inbox' = Sent(inbox, g.dest, Head(outbox[r]))
      PROVE  m \in InMail(p)
  <2> DEFINE h == Head(outbox[r])
  <2>1. h \in Incoming /\ h.method = "queryUpdate"
    BY <1>5, TakeFromTypes, OutgoingTypes DEF KernelRelaysDown
  <2>2. g.dest \in Parties
    BY DEF Find, TypeInv, KernelTypes, Served
  <2>3. PICK e \in Incoming : e = h
    BY <2>1
  <2>4. inbox' = Sent(inbox, g.dest, e)
    BY <1>5, <2>3
  <2> HIDE DEF h
  <2> QED
    BY <2>1, <2>2, <2>3, <2>4, SentMail
<1> QED
  BY <1>1, <1>2, <1>3, <1>4, <1>5, InSteps

\* What the handlers of the caller find at the head of its channel.
LEMMA HearsWhat ==
  ASSUME TypeInv, NEW q \in Queries, Hears(q)
  PROVE  \E m \in InMail(q[1]) :
             /\ m = Head(inbox[q[1]]) /\ m.nonce = q[2] /\ q = <<q[1], m.nonce>>
             /\ \/ m.method = "responseNonce" /\ HandleResponseNonce(q[1])
                \/ m.method = "response" /\ HandleResponse(q[1])
<1> USE ConstantTypes
<1>1. HandleResponseNonce(q[1]) => Take(q[1], "responseNonce")
  BY DEF HandleResponseNonce
<1>2. HandleResponse(q[1]) => Take(q[1], "response")
  BY DEF HandleResponse
<1>3. PICK method : Take(q[1], method)
  BY <1>1, <1>2 DEF Hears
<1>4. Head(inbox[q[1]]) \in InMail(q[1])
  BY <1>3, TakeMail
<1> QED
  BY <1>1, <1>2, <1>4, TakeTypes DEF Hears

LEMMA SettledStep ==
  ASSUME TypeInv, TypeInv', CallInv, FreshInv, SettledInv, [Next]_vars
  PROVE  SettledInv'
<1> USE ConstantTypes
<1>1. ASSUME NEW q \in Queries, q[2] <= queriesNonce'[q[1]], ~queries'[q].open PROVE Settled(q)'
  <2>0. q[2] \in Nat /\ queriesNonce[q[1]] \in Nat /\ queries[q] \in Query
    BY NoncesGrow DEF TypeInv, CallerTypes
  <2>1. CASE Settled(q)
    BY <2>1, SettledStays
  <2>2. CASE ~Settled(q)
    <3>1. queries[q].open \/ q[2] > queriesNonce[q[1]]
      BY <2>0, <2>2 DEF SettledInv
    <3>2. ~Makes(q)
      BY <1>1, <2>0 DEF Makes, Query
    <3>3. CASE q[2] > queriesNonce[q[1]]
      <4>1. queriesNonce' # queriesNonce
        BY <1>1, <2>0, <3>3
      <4>2. PICK p \in Callers, to \in Modules, method \in Methods, wants \in BOOLEAN : NewKernelQuery(p, to, method, wants)
        BY <4>1, NonceSteps
      <4> DEFINE n == queriesNonce[p] + 1
      <4>3. queriesNonce' = [queriesNonce EXCEPT ![p] = n] /\ asked' = asked
            /\ queries' = [queries EXCEPT ![<<p, n>>].open = TRUE, ![<<p, n>>].wantsNonce = wants]
        BY <4>2 DEF NewKernelQuery
      <4>4. q[1] = p /\ q[2] <= n
        BY <1>1, <2>0, <3>3, <4>3 DEF TypeInv, CallerTypes
      <4>5. q[2] = n
        BY <2>0, <3>3, <4>4
      <4> HIDE DEF n
      <4>6. q = <<p, n>>
        BY <4>4, <4>5
      <4>7. queries'[q].open
        BY <2>0, <4>3, <4>6 DEF Query, TypeInv, CallerTypes
      <4> QED
        BY <1>1, <4>7
    <3>4. CASE queries[q].open
      <4>1. CASE Hears(q)
        <5>1. PICK m \in InMail(q[1]) :
                   /\ m = Head(inbox[q[1]]) /\ m.nonce = q[2] /\ q = <<q[1], m.nonce>>
                   /\ \/ m.method = "responseNonce" /\ HandleResponseNonce(q[1])
                      \/ m.method = "response" /\ HandleResponse(q[1])
          BY <4>1, HearsWhat
        <5>2. CASE m.method = "response"
          BY <2>2, <5>1, <5>2 DEF SettledInv
        <5>3. CASE HandleResponseNonce(q[1])
          <6> DEFINE h == Head(inbox[q[1]])
                     o == <<q[1], h.nonce>>
          <6>1. queries' = queries \/ queries' = [queries EXCEPT ![o].kernelNonce = h.data, ![o].held = <<>>]
            BY <5>3 DEF HandleResponseNonce
          <6> DEFINE d == h.data
          <6>2. queries' = queries \/ queries' = [queries EXCEPT ![o].kernelNonce = d, ![o].held = <<>>]
            BY <6>1
          <6>3. o = q
            BY <5>1
          <6> HIDE DEF o, d
          <6>4. queries' = queries \/ queries'[q] = [queries[q] EXCEPT !.kernelNonce = d, !.held = <<>>]
            BY <6>2, <6>3 DEF TypeInv, CallerTypes
          <6>5. queries'[q].open = queries[q].open
            BY <2>0, <6>4 DEF Query
          <6> QED
            BY <1>1, <3>4, <6>5
        <5> QED
          BY <5>1, <5>2, <5>3
      <4>2. CASE SendQueryUpdate(q)
        <5> DEFINE u == Append(queries[q].held, Update(q, asked[q] + 1))
        <5>1. queries' = queries \/ queries' = [queries EXCEPT ![q].held = u]
          BY <4>2 DEF SendQueryUpdate
        <5> HIDE DEF u
        <5> QED
          BY <1>1, <2>0, <3>4, <5>1 DEF Query, TypeInv, CallerTypes
      <4> QED
        BY <1>1, <3>2, <3>4, <4>1, <4>2, CallerSteps
    <3> QED
      BY <3>1, <3>3, <3>4
  <2> QED
    BY <2>1, <2>2
<1>2. \A p \in Parties : \A m \in InMail(p)' : m.method = "response" => p \in Callers /\ Settled(<<p, m.nonce>>)'
  BY ResponseSettles
<1> QED
  BY <1>1, <1>2 DEF SettledInv

LEMMA MentionStep ==
  ASSUME TypeInv, TypeInv', CallInv, MentionInv, [Next]_vars
  PROVE  MentionInv'
BY OutStep, InStep, PlaceStep, FreshStep, SettledStep DEF MentionInv

LEMMA MentionInit == Init => MentionInv
<1> SUFFICES ASSUME Init PROVE MentionInv
  OBVIOUS
<1> USE ConstantTypes
<1>1. DOMAIN (<<>>) = {}
  OBVIOUS
<1>2. \A p \in Parties : OutMail(p) = {} /\ InMail(p) = {} /\ DueMail(p) = {} /\ running[p] = 0
  BY <1>1 DEF Init, OutMail, InMail, DueMail
<1>3. \A q \in Queries : /\ queries[q] = NoQuery /\ asked[q] = 0 /\ queries[q].kernelNonce = 0
                         /\ ~(q[2] <= queriesNonce[q[1]])
  BY DEF Init, NoQuery
<1>4. FreshInv
  BY <1>3 DEF Init, FreshInv
<1> QED
  BY <1>2, <1>3, <1>4 DEF MentionInv, OutInv, InInv, PlaceInv, SettledInv

(***************************************************************************)
(* The channel to a worker, in order.                                       *)
(***************************************************************************)
Came(r, e) ==
    \/ e.method \in {"response", "responseUpdate"}
    \/ /\ e.method = "queryUpdate"
       /\ \E p \in Parties :
              /\ KernelRelaysDown(p) /\ outbox[p] # <<>> /\ e = Head(outbox[p])
              /\ \E g \in open : g.nonce = e.nonce /\ g.dest = r

Opens(p, g) ==
    /\ KernelOpens(p)
    /\ g.nonce = kernelNonces' /\ g.source = p /\ g.query = Head(outbox[p]).nonce /\ g.dest \in Parties
    /\ g.nonce = kernelNonces + 1 /\ g.nonce \in KernelNonces /\ AskedBy(g) \in Queries
    /\ served' = served \cup {g} /\ open' = open \cup {g}
    /\ \E i \in Calls(p) : outbox[p][i].nonce = g.query

\* The boxes when the kernel opens g: the call, then perhaps its nonce.
Called(p, g, r) ==
    \E e, t \in Incoming :
        /\ e.method = "moduleCall" /\ e.nonce = g.nonce
        /\ t.method = "responseNonce"
        /\ \/ r \notin {g.dest, p} /\ inbox'[r] = inbox[r]
           \/ r = g.dest /\ inbox'[r] = Append(inbox[r], e)
           \/ r = p /\ r # g.dest /\ (inbox'[r] = inbox[r] \/ inbox'[r] = Append(inbox[r], t))
           \/ r = g.dest /\ r = p /\ inbox'[r] = Append(Append(inbox[r], e), t)

LEMMA OpensWhat ==
  ASSUME TypeInv, TypeInv', CallInv, NEW p \in Parties, KernelOpens(p)
  PROVE  \E g \in served' : Opens(p, g) /\ \A r \in Parties : Called(p, g, r)
<1> USE ConstantTypes
<1>1. PICK g \in served', e \in Incoming, t \in Incoming :
             /\ g.nonce = kernelNonces' /\ g.source = p /\ g.query = Head(outbox[p]).nonce
             /\ g.dest \in Parties /\ served' = served \cup {g} /\ open' = open \cup {g}
             /\ e.method = "moduleCall" /\ e.nonce = g.nonce
             /\ t.method = "responseNonce" /\ t.nonce = g.query /\ t.data = g.nonce
             /\ \/ inbox' = Sent(inbox, g.dest, e)
                \/ inbox' = Sent(Sent(inbox, g.dest, e), p, t)
  BY OpensMail
<1>2. TakeFrom(p, "moduleCall") /\ kernelNonces' = kernelNonces + 1
  BY DEF KernelOpens
<1>3. outbox[p] \in Seq(Outgoing) /\ outbox[p] # <<>> /\ Head(outbox[p]).method = "moduleCall"
  BY <1>2, TakeFromTypes
<1>4. 1 \in Calls(p) /\ outbox[p][1].nonce = g.query
  BY <1>1, <1>3 DEF Calls
<1>5. g.nonce \in KernelNonces /\ AskedBy(g) \in Queries
  BY <1>1 DEF TypeInv, KernelTypes, Served, AskedBy, Queries
<1>6. Opens(p, g)
  BY <1>1, <1>2, <1>4, <1>5 DEF Opens
<1>7. ASSUME NEW r \in Parties PROVE Called(p, g, r)
  <2>1. inbox \in [Parties -> Seq(Incoming)]
    BY DEF TypeInv, BoxTypes
  <2>2. CASE inbox' = Sent(inbox, g.dest, e)
    BY <1>1, <2>1, <2>2 DEF Called, Sent
  <2>3. CASE inbox' = Sent(Sent(inbox, g.dest, e), p, t)
    <3> DEFINE b == [inbox EXCEPT ![g.dest] = Append(@, e)]
    <3>1. inbox' = [b EXCEPT ![p] = Append(@, t)]
      BY <2>3 DEF Sent
    <3>2. b \in [Parties -> Seq(Incoming)] /\ b[g.dest] = Append(inbox[g.dest], e) /\ \A s \in Parties : s # g.dest => b[s] = inbox[s]
      BY <1>1, <2>1
    <3> HIDE DEF b
    <3>3. inbox'[p] = Append(b[p], t) /\ \A s \in Parties : s # p => inbox'[s] = b[s]
      BY <3>1, <3>2
    <3>4. CASE r = p
      <4>1. r = g.dest => inbox'[r] = Append(Append(inbox[r], e), t)
        BY <3>2, <3>3, <3>4
      <4>2. r # g.dest => inbox'[r] = Append(inbox[r], t)
        BY <3>2, <3>3, <3>4
      <4> QED
        BY <1>1, <3>4, <4>1, <4>2 DEF Called
    <3>5. CASE r # p
      <4>1. r = g.dest => inbox'[r] = Append(inbox[r], e)
        BY <3>2, <3>3, <3>5
      <4>2. r # g.dest => inbox'[r] = inbox[r]
        BY <3>2, <3>3, <3>5
      <4> QED
        BY <1>1, <3>5, <4>1, <4>2 DEF Called
    <3> QED
      BY <3>4, <3>5
  <2> QED
    BY <1>1, <2>2, <2>3
<1> QED
  BY <1>1, <1>6, <1>7

LEMMA InboxSteps ==
  ASSUME TypeInv, TypeInv', CallInv, [Next]_vars, NEW r \in Parties
  PROVE  \/ inbox'[r] = inbox[r]
         \/ \E method : Take(r, method)
         \/ \E e \in Incoming : inbox'[r] = Append(inbox[r], e) /\ Came(r, e)
         \/ \E p \in Parties, g \in served' : Opens(p, g) /\ Called(p, g, r)
<1> USE ConstantTypes
<1>0. inbox \in [Parties -> Seq(Incoming)]
  BY DEF TypeInv, BoxTypes
<1>1. CASE inbox' = inbox
  BY <1>1
<1>2. ASSUME NEW p \in Parties, NEW method, Take(p, method) PROVE inbox'[r] = inbox[r] \/ \E m : Take(r, m)
  BY <1>0, <1>2 DEF Take
<1>3. ASSUME NEW p \in Parties, NEW e \in Incoming, inbox' = Sent(inbox, p, e), Came(p, e)
      PROVE  inbox'[r] = inbox[r] \/ (inbox'[r] = Append(inbox[r], e) /\ Came(r, e))
  BY <1>0, <1>3 DEF Sent
<1>4. CASE Caller
  BY <1>1, <1>2, <1>4 DEF Caller, NewKernelQuery, SendQueryUpdate, HandleResponseNonce, HandleResponseUpdate, HandleResponse
<1>5. CASE Handler
  BY <1>1, <1>5 DEF Handler, Respond, SendResponseUpdate, SetReceiveUpdate
<1>6. CASE Module
  BY <1>1, <1>2, <1>6 DEF Module, HandleCall, HandleQueryUpdate, RunMicrotask, HandlerReturns, HandlerThrows
<1> DEFINE Goal == \/ inbox'[r] = inbox[r]
                   \/ \E e \in Incoming : inbox'[r] = Append(inbox[r], e) /\ Came(r, e)
<1>7. ASSUME NEW p \in Parties, KernelRefuses(p) PROVE Goal
  <2>1. TakeFrom(p, "moduleCall") /\ inbox' = Sent(inbox, p, Message("response", Head(outbox[p]).nonce, "refused"))
    BY <1>7 DEF KernelRefuses
  <2>2. Message("response", Head(outbox[p]).nonce, "refused") \in Incoming
    BY <2>1, TakeFromTypes, OutgoingTypes, RefusalTypes DEF Message
  <2>3. PICK e \in Incoming : e = Message("response", Head(outbox[p]).nonce, "refused")
    BY <2>2
  <2>4. Came(p, e)
    BY <2>3 DEF Came, Message
  <2>5. inbox' = Sent(inbox, p, e)
    BY <2>1, <2>3
  <2> QED
    BY <1>3, <2>4, <2>5
<1>8. ASSUME NEW p \in Parties, KernelRelaysDown(p) PROVE Goal
  <2>1. CASE inbox' = inbox
    BY <2>1
  <2>2. CASE inbox' # inbox
    <3>1. PICK g \in open : g.nonce = Head(outbox[p]).nonce /\ inbox' = Sent(inbox, g.dest, Head(outbox[p]))
      BY <1>8, <2>2 DEF KernelRelaysDown, Find
    <3>2. Head(outbox[p]) \in Incoming /\ Head(outbox[p]).method = "queryUpdate" /\ g.dest \in Parties /\ outbox[p] # <<>>
      BY <1>8, TakeFromTypes, OutgoingTypes DEF KernelRelaysDown, TypeInv, KernelTypes, Served
    <3>3. PICK e \in Incoming, d \in Parties : e = Head(outbox[p]) /\ d = g.dest
      BY <3>2
    <3>4. Came(d, e) /\ inbox' = Sent(inbox, d, e)
      BY <1>8, <3>1, <3>2, <3>3 DEF Came
    <3> QED
      BY <1>3, <3>4
  <2> QED
    BY <2>1, <2>2
<1>9. ASSUME NEW p \in Parties, KernelRelaysUp(p) PROVE Goal
  <2>1. CASE inbox' = inbox
    BY <2>1
  <2>2. CASE inbox' # inbox
    <3> DEFINE m == Head(outbox[p])
    <3>1. PICK g \in open : inbox' = Sent(inbox, g.source, Message(m.method, g.query, m.data))
      BY <1>9, <2>2 DEF KernelRelaysUp, Find
    <3>2. TakeFrom(p, m.method) /\ m.method \in {"response", "responseUpdate"} /\ ~BothNull(m)
      BY <1>9, <2>2 DEF KernelRelaysUp
    <3>3. Message(m.method, g.query, m.data) \in Incoming /\ g.source \in Parties
      <4>1. m \in Outgoing /\ g.source \in Parties /\ g.query \in 1 .. MaxCalls
        BY <3>2, TakeFromTypes, ConstantTypes DEF TypeInv, KernelTypes, Served
      <4> QED
        BY <3>2, <4>1, RelayedTypes
    <3>4. PICK e \in Incoming, d \in Parties : e = Message(m.method, g.query, m.data) /\ d = g.source
      BY <3>3
    <3>5. Came(d, e) /\ inbox' = Sent(inbox, d, e)
      BY <3>1, <3>2, <3>4 DEF Came, Message
    <3> QED
      BY <1>3, <3>5
  <2> QED
    BY <2>1, <2>2
<1>10. ASSUME NEW p \in Parties, KernelOpens(p) PROVE \E s \in Parties, g \in served' : Opens(s, g) /\ Called(s, g, r)
  BY <1>10, OpensWhat
<1> HIDE DEF Goal
<1> QED
  BY <1>1, <1>4, <1>5, <1>6, <1>7, <1>8, <1>9, <1>10 DEF Next, Kernel, vars, Goal

LEMMA TailFacts ==
  ASSUME NEW S, NEW s \in Seq(S), s # <<>>
  PROVE  /\ Len(s) \in Nat /\ Len(s) >= 1 /\ 1 \in DOMAIN s /\ Head(s) = s[1] /\ DOMAIN s = 1 .. Len(s)
         /\ \A i \in DOMAIN Tail(s) : i \in Nat \ {0} /\ i + 1 \in DOMAIN s /\ Tail(s)[i] = s[i + 1]
         /\ \A i \in DOMAIN s : i # 1 => i - 1 \in DOMAIN Tail(s) /\ Tail(s)[i - 1] = s[i]
OBVIOUS

LEMMA AppendFacts ==
  ASSUME NEW S, NEW s \in Seq(S), NEW e \in S
  PROVE  /\ Append(s, e) \in Seq(S) /\ Len(s) \in Nat
         /\ DOMAIN Append(s, e) = DOMAIN s \cup {Len(s) + 1} /\ Append(s, e)[Len(s) + 1] = e
         /\ \A i \in DOMAIN s : i \in Nat \ {0} /\ i < Len(s) + 1 /\ Append(s, e)[i] = s[i]
OBVIOUS

LEMMA FirstTail ==
  ASSUME NEW s \in Seq(Incoming), s # <<>>, NEW k, CallFirst(s, k)
  PROVE  /\ CallFirst(Tail(s), k)
         /\ CallAt(Tail(s), k) # {} => CallAt(s, k) # {} /\ ~(Head(s).method \in {"moduleCall", "queryUpdate"} /\ Head(s).nonce = k)
<1>1. /\ 1 \in DOMAIN s /\ Head(s) = s[1]
      /\ \A i \in DOMAIN Tail(s) : i \in Nat \ {0} /\ i + 1 \in DOMAIN s /\ Tail(s)[i] = s[i + 1]
  BY TailFacts
<1>2. \A i \in CallAt(Tail(s), k) : i \in Nat \ {0} /\ i + 1 \in CallAt(s, k)
  BY <1>1 DEF CallAt
<1>3. \A i \in PartAt(Tail(s), k) : i \in Nat \ {0} /\ i + 1 \in PartAt(s, k)
  BY <1>1 DEF PartAt
<1>4. \A i \in CallAt(Tail(s), k), j \in PartAt(Tail(s), k) : i + 1 <= j + 1 /\ i \in Nat /\ j \in Nat
  BY <1>2, <1>3 DEF CallFirst
<1>5. \A i \in CallAt(Tail(s), k), j \in PartAt(Tail(s), k) : i <= j
  BY <1>4
<1>6. CallFirst(Tail(s), k)
  BY <1>5 DEF CallFirst
<1>7. ASSUME NEW i \in CallAt(Tail(s), k) PROVE 1 \notin PartAt(s, k)
  <2>1. 1 \in PartAt(s, k) => i + 1 <= 1
    BY <1>2 DEF CallFirst
  <2> QED
    BY <1>2, <2>1
<1>8. 1 \notin PartAt(s, k) => ~(Head(s).method \in {"moduleCall", "queryUpdate"} /\ Head(s).nonce = k)
  BY <1>1 DEF PartAt
<1> QED
  BY <1>2, <1>6, <1>7, <1>8

LEMMA FirstAppend ==
  ASSUME NEW s \in Seq(Incoming), NEW e \in Incoming, NEW k, CallFirst(s, k), ~(e.method = "moduleCall" /\ e.nonce = k)
  PROVE  CallFirst(Append(s, e), k) /\ CallAt(Append(s, e), k) = CallAt(s, k)
<1>1. /\ Len(s) \in Nat
      /\ DOMAIN Append(s, e) = DOMAIN s \cup {Len(s) + 1} /\ Append(s, e)[Len(s) + 1] = e
      /\ \A i \in DOMAIN s : i \in Nat \ {0} /\ i < Len(s) + 1 /\ Append(s, e)[i] = s[i]
  BY AppendFacts
<1>2. CallAt(Append(s, e), k) = CallAt(s, k)
  BY <1>1 DEF CallAt
<1>3. \A i \in PartAt(Append(s, e), k) : i \in PartAt(s, k) \/ i = Len(s) + 1
  BY <1>1 DEF PartAt
<1>4. \A i \in CallAt(s, k) : i <= Len(s) + 1
  BY <1>1 DEF CallAt
<1> QED
  BY <1>2, <1>3, <1>4 DEF CallFirst

LEMMA FirstCall ==
  ASSUME NEW s \in Seq(Incoming), NEW e \in Incoming, NEW k, PartAt(s, k) = {}
  PROVE  CallFirst(Append(s, e), k)
<1>1. /\ Len(s) \in Nat
      /\ DOMAIN Append(s, e) = DOMAIN s \cup {Len(s) + 1} /\ Append(s, e)[Len(s) + 1] = e
      /\ \A i \in DOMAIN s : i \in Nat \ {0} /\ i < Len(s) + 1 /\ Append(s, e)[i] = s[i]
  BY AppendFacts
<1>2. \A i \in PartAt(Append(s, e), k) : i = Len(s) + 1
  BY <1>1 DEF PartAt
<1>3. CallAt(Append(s, e), k) \subseteq PartAt(Append(s, e), k)
  BY DEF CallAt, PartAt
<1>4. Len(s) + 1 <= Len(s) + 1
  BY <1>1
<1> QED
  BY <1>2, <1>3, <1>4 DEF CallFirst

\* The nonces of what is served and of what is opened now differ.
LEMMA NewNonce ==
  ASSUME TypeInv, CallInv, NEW p, NEW g, Opens(p, g)
  PROVE  /\ \A h \in served : h.nonce # g.nonce
         /\ \A r : ~ServedBy(g.nonce, r)
         /\ g.nonce > kernelNonces
<1>1. kernelNonces \in Nat /\ g.nonce = kernelNonces + 1
  BY ConstantTypes DEF Opens, TypeInv, KernelTypes
<1>2. \A h \in served : h.nonce <= kernelNonces
  BY DEF CallInv
<1>3. \A h \in served : h.nonce # g.nonce
  BY <1>1, <1>2
<1> QED
  BY <1>1, <1>3 DEF ServedBy

\* What the call of a served query finds does not change while it comes.
LEMMA FirstStays ==
  ASSUME TypeInv, TypeInv', CallInv, ComingInv, [Next]_vars, NEW g \in served
  PROVE  CallFirst(inbox'[g.dest], g.nonce) /\ (CallAt(inbox'[g.dest], g.nonce) # {} => CallAt(inbox[g.dest], g.nonce) # {})
<1> USE ConstantTypes
<1> DEFINE r == g.dest
           k == g.nonce
<1>1. r \in Parties /\ k \in KernelNonces /\ inbox[r] \in Seq(Incoming) /\ CallFirst(inbox[r], k)
  BY DEF TypeInv, KernelTypes, Served, BoxTypes, ComingInv
<1>2. PICK c \in Parties, n \in KernelNonces : c = r /\ n = k
  BY <1>1
<1> HIDE DEF r, k
<1>3. CASE inbox'[c] = inbox[c]
  BY <1>1, <1>2, <1>3 DEF r, k
<1>4. CASE \E method : Take(c, method)
  <2>1. inbox[c] # <<>> /\ inbox'[c] = Tail(inbox[c])
    BY <1>4 DEF Take, TypeInv, BoxTypes
  <2>2. CallFirst(Tail(inbox[c]), n) /\ (CallAt(Tail(inbox[c]), n) # {} => CallAt(inbox[c], n) # {})
    BY <1>1, <1>2, <2>1, FirstTail
  <2> QED
    BY <1>2, <2>1, <2>2 DEF r, k
<1>5. ASSUME NEW s \in Seq(Incoming), NEW e \in Incoming, CallFirst(s, n), ~(e.method = "moduleCall" /\ e.nonce = n)
      PROVE  CallFirst(Append(s, e), n) /\ CallAt(Append(s, e), n) = CallAt(s, n) /\ Append(s, e) \in Seq(Incoming)
  BY <1>5, FirstAppend
<1>6. CASE \E e \in Incoming : inbox'[c] = Append(inbox[c], e) /\ Came(c, e)
  <2>1. PICK e \in Incoming : inbox'[c] = Append(inbox[c], e) /\ Came(c, e)
    BY <1>6
  <2>2. e.method # "moduleCall"
    BY <2>1 DEF Came
  <2>3. CallFirst(Append(inbox[c], e), n) /\ CallAt(Append(inbox[c], e), n) = CallAt(inbox[c], n)
    BY <1>1, <1>2, <1>5, <2>2
  <2> QED
    BY <1>2, <2>1, <2>3 DEF r, k
<1>7. CASE \E p \in Parties, o \in served' : Opens(p, o) /\ Called(p, o, c)
  <2>1. PICK p \in Parties, o \in served' : Opens(p, o) /\ Called(p, o, c)
    BY <1>7
  <2>2. o.nonce # n
    BY <1>2, <2>1, NewNonce DEF k
  <2>3. PICK e \in Incoming, t \in Incoming :
             /\ e.method = "moduleCall" /\ e.nonce = o.nonce /\ t.method = "responseNonce"
             /\ inbox'[c] \in {inbox[c], Append(inbox[c], e), Append(inbox[c], t), Append(Append(inbox[c], e), t)}
    BY <2>1 DEF Called
  <2>4. CallFirst(Append(inbox[c], e), n) /\ CallAt(Append(inbox[c], e), n) = CallAt(inbox[c], n)
        /\ Append(inbox[c], e) \in Seq(Incoming)
    BY <1>1, <1>2, <1>5, <2>2, <2>3
  <2>5. CallFirst(Append(inbox[c], t), n) /\ CallAt(Append(inbox[c], t), n) = CallAt(inbox[c], n)
    BY <1>1, <1>2, <1>5, <2>3
  <2>6. CallFirst(Append(Append(inbox[c], e), t), n) /\ CallAt(Append(Append(inbox[c], e), t), n) = CallAt(inbox[c], n)
    BY <1>5, <2>3, <2>4
  <2>7. CallFirst(inbox[c], n)
    BY <1>1, <1>2
  <2> HIDE DEF CallFirst, CallAt
  <2>8. CallFirst(inbox'[c], n) /\ CallAt(inbox'[c], n) = CallAt(inbox[c], n)
    BY <2>3, <2>4, <2>5, <2>6, <2>7
  <2> QED
    BY <1>2, <2>8 DEF r, k
<1> QED
  BY <1>2, <1>3, <1>4, <1>6, <1>7, InboxSteps

\* A call is given to its module once: while it comes, nobody touches its query.
LEMMA ComingUntouched ==
  ASSUME TypeInv, TypeInv', CallInv, MentionInv, ComingInv, [Next]_vars, NEW g \in served, Coming(g)'
  PROVE  Coming(g) /\ Untold(g) /\ \A p \in Parties : ~Touches(p, g.nonce)
<1> USE ConstantTypes
<1>1. PICK c \in Parties, n \in KernelNonces : c = g.dest /\ n = g.nonce
  BY DEF TypeInv, KernelTypes, Served
<1>2. CallAt(inbox'[c], n) # {} /\ inbox[c] \in Seq(Incoming) /\ CallFirst(inbox[c], n)
  BY <1>1 DEF Coming, TypeInv, BoxTypes, ComingInv
<1>3. Coming(g) /\ Untold(g)
  BY <1>1, <1>2, FirstStays DEF Coming, ComingInv
<1>4. \A p \in Parties : ServedBy(n, p) => p = c
  BY <1>1 DEF ServedBy, CallInv
<1>5. SUFFICES ASSUME Touches(c, n) PROVE FALSE
  BY <1>1, <1>3, <1>4, TouchServed DEF MentionInv
<1>6. handlers[n] = NoHandler /\ handlers[n].method = "unknown" /\ running[c] # n /\ \A d \in DueMail(c) : d.nonce # n
  BY <1>1, <1>3 DEF Untold, NoHandler
<1>7. CASE (\E answer \in {"data", "err", "null"} : Respond(c, n, answer)) \/ SendResponseUpdate(c, n) \/ SetReceiveUpdate(c, n)
  BY <1>6, <1>7 DEF Respond, SendResponseUpdate, SetReceiveUpdate, HandlerRuns
<1>8. CASE (HandleCall(c) \/ HandleQueryUpdate(c)) /\ Head(inbox[c]).nonce = n
  <2>1. PICK method \in {"moduleCall", "queryUpdate"} : Take(c, method)
    BY <1>8 DEF HandleCall, HandleQueryUpdate
  <2>2. inbox[c] # <<>> /\ inbox'[c] = Tail(inbox[c]) /\ Head(inbox[c]).method = method
    BY <2>1 DEF Take, TypeInv, BoxTypes
  <2>3. CallAt(Tail(inbox[c]), n) # {}
    BY <1>2, <2>2
  <2>4. ~(Head(inbox[c]).method \in {"moduleCall", "queryUpdate"} /\ Head(inbox[c]).nonce = n)
    BY <1>2, <2>2, <2>3, FirstTail
  <2> QED
    BY <1>8, <2>2, <2>4
<1>9. CASE RunMicrotask(c) /\ Head(due[c]).nonce = n
  <2>1. due[c] \in Seq(Due) /\ due[c] # <<>>
    BY <1>9 DEF RunMicrotask, TypeInv, ModuleTypes
  <2>2. Head(due[c]) \in DueMail(c)
    BY <2>1, TailFacts DEF DueMail
  <2> QED
    BY <1>6, <1>9, <2>2
<1>10. CASE HandlerThrows(c) /\ running[c] = n
  BY <1>6, <1>10
<1> QED
  BY <1>5, <1>7, <1>8, <1>9, <1>10 DEF Touches

LEMMA ComingStep ==
  ASSUME TypeInv, TypeInv', CallInv, MentionInv, ComingInv, [Next]_vars
  PROVE  ComingInv'
<1> USE ConstantTypes
<1>1. ASSUME NEW g \in served PROVE CallFirst(inbox'[g.dest], g.nonce) /\ (Coming(g)' => Untold(g)')
  <2>1. ASSUME Coming(g)' PROVE Untold(g)'
    <3>1. PICK c \in Parties, n \in KernelNonces : c = g.dest /\ n = g.nonce
      BY DEF TypeInv, KernelTypes, Served
    <3>2. Untold(g) /\ \A p \in Parties : ~Touches(p, n)
      BY <2>1, <3>1, ComingUntouched
    <3>3. Kept(n)
      BY <3>2, Untouched
    <3>4. running'[c] # n
      BY <3>1, <3>2, RunningSteps DEF Untold, Touches
    <3>5. \A d \in DueMail(c)' : d.nonce # n
      BY <3>1, <3>2, DueSteps DEF Untold, Touches
    <3> QED
      BY <3>1, <3>2, <3>3, <3>4, <3>5 DEF Untold, Kept
  <2> QED
    BY <2>1, FirstStays
<1>2. ASSUME NEW p \in Parties, NEW g, Opens(p, g) PROVE CallFirst(inbox'[g.dest], g.nonce) /\ Untold(g)'
  <2>1. PICK o \in served' : Opens(p, o) /\ \A r \in Parties : Called(p, o, r)
    BY <1>2, OpensWhat DEF Opens
  <2>2. o = g
    BY <1>2, <2>1, NewNonce DEF Opens
  <2>3. PICK c \in Parties, n \in KernelNonces : c = g.dest /\ n = g.nonce
    BY <1>2 DEF Opens
  <2>4. \A r : ~ServedBy(n, r) /\ n > kernelNonces
    BY <1>2, <2>3, NewNonce
  <2>5. PartAt(inbox[c], n) = {}
    BY <2>4 DEF PartAt, MentionInv, InInv, InMail, InMention, ServedBy
  <2>6. inbox[c] \in Seq(Incoming)
    BY DEF TypeInv, BoxTypes
  <2>7. PICK e \in Incoming, t \in Incoming :
             /\ t.method = "responseNonce"
             /\ inbox'[c] \in {Append(inbox[c], e), Append(Append(inbox[c], e), t)}
    <3>1. Called(p, g, c) /\ c = g.dest
      BY <2>1, <2>2, <2>3
    <3> QED
      BY <3>1 DEF Called
  <2>8. CallFirst(Append(inbox[c], e), n) /\ Append(inbox[c], e) \in Seq(Incoming)
    BY <2>5, <2>6, FirstCall
  <2>9. CallFirst(Append(Append(inbox[c], e), t), n)
    BY <2>7, <2>8, FirstAppend
  <2>10. CallFirst(inbox'[c], n)
    BY <2>7, <2>8, <2>9
  <2>11. handlers[n] = NoHandler /\ n \notin incomingQueries /\ said[n] = <<>> /\ got[n] = <<>>
    BY <2>4 DEF MentionInv, FreshInv
  <2>12. UNCHANGED <<handlers, incomingQueries, said, got, running, due>>
    BY <1>2 DEF Opens, KernelOpens, moduleVars
  <2>13. running[c] # n /\ \A d \in DueMail(c) : d.nonce # n
    BY <2>4 DEF MentionInv, PlaceInv
  <2>14. DueMail(c)' = DueMail(c)
    BY <2>12 DEF DueMail
  <2> QED
    BY <2>3, <2>10, <2>11, <2>12, <2>13, <2>14 DEF Untold
<1>3. CASE UNCHANGED <<kernelNonces, served>> /\ open' \subseteq open
  BY <1>1, <1>3 DEF ComingInv
<1>4. CASE \E p \in Parties : KernelOpens(p)
  <2>1. PICK p \in Parties, g \in served' : Opens(p, g)
    BY <1>4, OpensWhat
  <2>2. served' = served \cup {g}
    BY <2>1 DEF Opens
  <2> QED
    BY <1>1, <1>2, <2>1, <2>2 DEF ComingInv
<1> QED
  BY <1>3, <1>4, KernelSteps

(***************************************************************************)
(* Answers: a query that is open will be answered, or was.                   *)
(***************************************************************************)

LEMMA SaidResponses ==
  ASSUME TypeInv, NEW p, NEW k \in KernelNonces, NEW m, NEW d, [method |-> m, data |-> d] \in Said, Say(p, k, m, d)
  PROVE  Responses(k)' # {} => Responses(k) # {} \/ m = "response"
<1> DEFINE e == [method |-> m, data |-> d]
<1>1. said[k] \in Seq(Said) /\ said'[k] = Append(said[k], e) /\ e \in Said /\ e.method = m
  BY DEF TypeInv, ModuleTypes, Say
<1> HIDE DEF e
<1>2. \A i \in DOMAIN Append(said[k], e) : (i \in DOMAIN said[k] /\ Append(said[k], e)[i] = said[k][i]) \/ Append(said[k], e)[i] = e
  BY <1>1
<1> QED
  BY <1>1, <1>2 DEF Responses, Of

\* Only the kernel takes messages of a worker.
LEMMA OutGrows ==
  ASSUME TypeInv, TypeInv', [Next]_vars, NEW r \in Parties,
         ~(KernelRefuses(r) \/ KernelOpens(r) \/ KernelRelaysDown(r) \/ KernelRelaysUp(r))
  PROVE  OutMail(r) \subseteq OutMail(r)'
<1> USE ConstantTypes
<1>0. outbox \in [Parties -> Seq(Outgoing)]
  BY DEF TypeInv, BoxTypes
<1>1. ASSUME outbox'[r] = outbox[r] PROVE OutMail(r) \subseteq OutMail(r)'
  BY <1>1 DEF OutMail
<1>2. ASSUME NEW p \in Parties, NEW e, outbox' = [outbox EXCEPT ![p] = Append(@, e)]
      PROVE  OutMail(r) \subseteq OutMail(r)'
  <2>1. \A i \in DOMAIN outbox[r] : i \in DOMAIN outbox'[r] /\ outbox'[r][i] = outbox[r][i]
    BY <1>0, <1>2
  <2> QED
    BY <2>1 DEF OutMail
<1>3. ASSUME NEW q \in Queries, NEW k \in KernelNonces, NEW us \in Seq(Waiting), PostUpdates(q, k, us)
      PROVE  OutMail(r) \subseteq OutMail(r)'
  BY <1>3, PostUpdatesMail
<1>4. CASE Caller
  <2>1. ASSUME NEW q \in Queries, SendQueryUpdate(q) PROVE OutMail(r) \subseteq OutMail(r)'
    <3> DEFINE us == <<Update(q, asked[q] + 1)>>
               k == queries[q].kernelNonce
    <3>1. outbox' = outbox \/ (k # 0 /\ PostUpdates(q, k, us))
      BY <2>1 DEF SendQueryUpdate
    <3>2. us \in Seq(Waiting) /\ k \in {0} \cup KernelNonces
      BY DEF Update, Waiting, TypeInv, CallerTypes, Query
    <3> HIDE DEF us, k
    <3> QED
      BY <1>1, <1>3, <3>1, <3>2
  <2>2. ASSUME NEW p \in Callers, HandleResponseNonce(p) PROVE OutMail(r) \subseteq OutMail(r)'
    <3> DEFINE m == Head(inbox[p])
               q == <<p, m.nonce>>
               k == m.data
               us == queries[q].held
    <3>1. Take(p, "responseNonce") /\ (outbox' = outbox \/ PostUpdates(q, k, us))
      BY <2>2 DEF HandleResponseNonce
    <3>2. m \in Incoming /\ m.method = "responseNonce"
      BY <3>1, TakeTypes
    <3>3. q \in Queries /\ k \in KernelNonces
      BY <3>2, IncomingTypes DEF Queries
    <3>4. us \in Seq(Waiting)
      BY <3>3 DEF TypeInv, CallerTypes, Query
    <3> HIDE DEF m, q, k, us
    <3> QED
      BY <1>1, <1>3, <3>1, <3>3, <3>4
  <2>3. ASSUME NEW p \in Callers, NEW to \in Modules, NEW method \in Methods, NEW wants \in BOOLEAN, NewKernelQuery(p, to, method, wants)
        PROVE  OutMail(r) \subseteq OutMail(r)'
    BY <1>2, <2>3 DEF NewKernelQuery, Post
  <2> QED
    BY <1>1, <1>4, <2>1, <2>2, <2>3 DEF Caller, HandleResponseUpdate, HandleResponse
<1>5. CASE Handler
  BY <1>1, <1>2, <1>5 DEF Handler, Respond, SendResponseUpdate, SetReceiveUpdate, Say, Post
<1>6. CASE Module
  BY <1>1, <1>2, <1>6 DEF Module, HandleCall, HandleQueryUpdate, RunMicrotask, HandlerReturns, HandlerThrows, RespondErr, Say, Post
<1>7. ASSUME NEW p \in Parties, NEW method, TakeFrom(p, method), p # r PROVE outbox'[r] = outbox[r]
  BY <1>0, <1>7 DEF TakeFrom
<1>8. CASE Kernel
  <2>1. PICK p \in Parties : KernelRefuses(p) \/ KernelOpens(p) \/ KernelRelaysDown(p) \/ KernelRelaysUp(p)
    BY <1>8 DEF Kernel
  <2>2. p # r
    BY <2>1
  <2>3. PICK method : TakeFrom(p, method)
    BY <2>1 DEF KernelRefuses, KernelOpens, KernelRelaysDown, KernelRelaysUp
  <2> QED
    BY <1>1, <1>7, <2>2, <2>3
<1> QED
  BY <1>1, <1>4, <1>5, <1>6, <1>8 DEF Next, vars

LEMMA TouchResponses ==
  ASSUME TypeInv, CallInv, MentionInv, ComingInv, AnswerInv, NEW p \in Parties, NEW k \in KernelNonces, Touches(p, k)
  PROVE  k \in incomingQueries' => Responses(k)' = {}
<1> USE ConstantTypes
<1>1. k \in incomingQueries => Responses(k) = {}
  BY DEF AnswerInv
<1>3. ASSUME said' = said PROVE Responses(k)' = Responses(k)
  BY <1>3 DEF Responses, Of
<1>4. ClearIncomingQuery(k) => k \notin incomingQueries'
  BY DEF ClearIncomingQuery
<1>5. CASE \E answer \in {"data", "err", "null"} : Respond(p, k, answer)
  BY <1>4, <1>5 DEF Respond
<1>6. CASE SendResponseUpdate(p, k)
  <2> DEFINE d == Cardinality(Updates(k)) + 1
  <2>1. Say(p, k, "responseUpdate", d) /\ incomingQueries' = incomingQueries
    BY <1>6 DEF SendResponseUpdate
  <2>2. d \in Nat
    BY UpdatesFinite, FS_CardinalityType
  <2> HIDE DEF d
  <2>3. [method |-> "responseUpdate", data |-> d] \in Said
    BY <2>2 DEF Said
  <2>4. Responses(k)' # {} => Responses(k) # {}
    BY <2>1, <2>3, SaidResponses
  <2> QED
    BY <1>1, <2>1, <2>4
<1>7. CASE HandleCall(p) /\ Head(inbox[p]).nonce = k
  <2>1. Take(p, "moduleCall")
    BY <1>7 DEF HandleCall
  <2>2. CASE said' = said
    <3>1. inbox[p] \in Seq(Incoming) /\ inbox[p] # <<>> /\ Head(inbox[p]).method = "moduleCall"
      BY <2>1, TakeTypes
    <3>2. 1 \in CallAt(inbox[p], k)
      BY <1>7, <3>1, TailFacts DEF CallAt
    <3>3. PICK g \in served : g.nonce = k /\ g.dest = p
      BY <1>7, TouchServed DEF MentionInv, ServedBy
    <3>4. said[k] = <<>>
      BY <3>2, <3>3 DEF ComingInv, Coming, Untold
    <3>5. Responses(k) = {}
      <4>1. DOMAIN (<<>>) = {}
        OBVIOUS
      <4> QED
        BY <3>4, <4>1 DEF Responses, Of
    <3> QED
      BY <1>3, <2>2, <3>5
  <2>3. CASE Say(p, k, "response", "err") /\ ClearIncomingQuery(k)
    BY <1>4, <2>3
  <2> QED
    BY <1>7, <2>2, <2>3 DEF HandleCall, RespondErr
<1>8. CASE SetReceiveUpdate(p, k) \/ HandleQueryUpdate(p) \/ RunMicrotask(p)
  <2>1. said' = said /\ incomingQueries' = incomingQueries
    BY <1>8 DEF SetReceiveUpdate, HandleQueryUpdate, RunMicrotask
  <2> QED
    BY <1>1, <1>3, <2>1
<1>9. CASE HandlerThrows(p) /\ running[p] = k
  <2>1. (said' = said /\ incomingQueries' = incomingQueries) \/ (Say(p, k, "response", "thrown") /\ ClearIncomingQuery(k))
    BY <1>9 DEF HandlerThrows, RespondErr
  <2> QED
    BY <1>1, <1>3, <1>4, <2>1
<1> QED
  BY <1>5, <1>6, <1>7, <1>8, <1>9 DEF Touches

LEMMA RegisteredStep ==
  ASSUME TypeInv, TypeInv', CallInv, MentionInv, ComingInv, AnswerInv, [Next]_vars, NEW k \in incomingQueries'
  PROVE  Responses(k)' = {} /\ \E g \in served' : g.nonce = k
<1>1. k \in KernelNonces /\ served \subseteq served'
  BY ServedGrows DEF TypeInv, ModuleTypes
<1>2. CASE \E p \in Parties : Touches(p, k)
  <2>1. PICK p \in Parties : Touches(p, k)
    BY <1>2
  <2> QED
    BY <1>1, <2>1, TouchResponses, TouchServed DEF MentionInv, ServedBy
<1>3. CASE \A p \in Parties : ~Touches(p, k)
  <2>1. said'[k] = said[k] /\ k \in incomingQueries
    BY <1>1, <1>3, Untouched DEF Kept
  <2>2. Responses(k)' = Responses(k)
    BY <2>1 DEF Responses, Of
  <2> QED
    BY <1>1, <2>1, <2>2 DEF AnswerInv
<1> QED
  BY <1>2, <1>3

\* Only a worker takes what the kernel posted to it.
LEMMA InGrows ==
  ASSUME TypeInv, TypeInv', CallInv, [Next]_vars, NEW r \in Parties,
         r \in Callers => ~(HandleResponseNonce(r) \/ HandleResponseUpdate(r) \/ HandleResponse(r)),
         ~(HandleCall(r) \/ HandleQueryUpdate(r))
  PROVE  InMail(r) \subseteq InMail(r)'
<1> USE ConstantTypes
<1>0. inbox \in [Parties -> Seq(Incoming)]
  BY DEF TypeInv, BoxTypes
<1>1. ASSUME inbox'[r] = inbox[r] PROVE InMail(r) \subseteq InMail(r)'
  BY <1>1 DEF InMail
<1>2. ASSUME NEW p \in Parties, NEW method, Take(p, method), p # r PROVE inbox'[r] = inbox[r]
  BY <1>0, <1>2 DEF Take
<1>3. CASE Caller
  <2>1. CASE inbox' = inbox
    BY <1>1, <2>1
  <2>2. CASE \E p \in Callers : HandleResponseNonce(p) \/ HandleResponseUpdate(p) \/ HandleResponse(p)
    <3>1. PICK p \in Callers : HandleResponseNonce(p) \/ HandleResponseUpdate(p) \/ HandleResponse(p)
      BY <2>2
    <3>2. PICK method : Take(p, method)
      BY <3>1 DEF HandleResponseNonce, HandleResponseUpdate, HandleResponse
    <3> QED
      BY <1>1, <1>2, <3>1, <3>2
  <2> QED
    BY <1>3, <2>1, <2>2 DEF Caller, NewKernelQuery, SendQueryUpdate
<1>4. CASE Handler
  BY <1>1, <1>4 DEF Handler, Respond, SendResponseUpdate, SetReceiveUpdate
<1>5. CASE Module
  <2>1. CASE inbox' = inbox
    BY <1>1, <2>1
  <2>2. CASE \E p \in Parties : HandleCall(p) \/ HandleQueryUpdate(p)
    <3>1. PICK p \in Parties : HandleCall(p) \/ HandleQueryUpdate(p)
      BY <2>2
    <3>2. PICK method : Take(p, method)
      BY <3>1 DEF HandleCall, HandleQueryUpdate
    <3> QED
      BY <1>1, <1>2, <3>1, <3>2
  <2> QED
    BY <1>5, <2>1, <2>2 DEF Module, RunMicrotask, HandlerReturns, HandlerThrows
<1>6. ASSUME NEW p \in Parties, NEW e \in Incoming, inbox' = Sent(inbox, p, e) PROVE InMail(r) \subseteq InMail(r)'
  BY <1>6, SentMail
<1>7. ASSUME NEW p \in Parties, KernelRefuses(p) PROVE InMail(r) \subseteq InMail(r)'
  <2>1. TakeFrom(p, "moduleCall") /\ inbox' = Sent(inbox, p, Message("response", Head(outbox[p]).nonce, "refused"))
    BY <1>7 DEF KernelRefuses
  <2>2. PICK e \in Incoming : e = Message("response", Head(outbox[p]).nonce, "refused")
    BY <2>1, TakeFromTypes, OutgoingTypes, RefusalTypes DEF Message
  <2>3. inbox' = Sent(inbox, p, e)
    BY <2>1, <2>2
  <2> QED
    BY <1>6, <2>3
<1>8. ASSUME NEW p \in Parties, KernelRelaysDown(p) PROVE InMail(r) \subseteq InMail(r)'
  <2>1. CASE inbox' # inbox
    <3>1. PICK g \in open : inbox' = Sent(inbox, g.dest, Head(outbox[p]))
      BY <1>8, <2>1 DEF KernelRelaysDown, Find
    <3>2. Head(outbox[p]) \in Incoming /\ g.dest \in Parties
      BY <1>8, TakeFromTypes, OutgoingTypes DEF KernelRelaysDown, TypeInv, KernelTypes, Served
    <3>3. PICK e \in Incoming, d \in Parties : e = Head(outbox[p]) /\ d = g.dest
      BY <3>2
    <3>4. inbox' = Sent(inbox, d, e)
      BY <3>1, <3>3
    <3> QED
      BY <1>6, <3>4
  <2> QED
    BY <1>1, <2>1
<1>9. ASSUME NEW p \in Parties, KernelRelaysUp(p) PROVE InMail(r) \subseteq InMail(r)'
  <2>1. CASE inbox' # inbox
    <3> DEFINE m == Head(outbox[p])
    <3>1. PICK g \in open : inbox' = Sent(inbox, g.source, Message(m.method, g.query, m.data))
      BY <1>9, <2>1 DEF KernelRelaysUp, Find
    <3>2. TakeFrom(p, m.method) /\ m.method \in {"response", "responseUpdate"} /\ ~BothNull(m)
      BY <1>9, <2>1 DEF KernelRelaysUp
    <3>3. Message(m.method, g.query, m.data) \in Incoming /\ g.source \in Parties
      <4>1. m \in Outgoing /\ g.source \in Parties /\ g.query \in 1 .. MaxCalls
        BY <3>2, TakeFromTypes, ConstantTypes DEF TypeInv, KernelTypes, Served
      <4> QED
        BY <3>2, <4>1, RelayedTypes
    <3>4. PICK e \in Incoming, d \in Parties : e = Message(m.method, g.query, m.data) /\ d = g.source
      BY <3>3
    <3>5. inbox' = Sent(inbox, d, e)
      BY <3>1, <3>4
    <3> QED
      BY <1>6, <3>5
  <2> QED
    BY <1>1, <2>1
<1>10. ASSUME NEW p \in Parties, KernelOpens(p) PROVE InMail(r) \subseteq InMail(r)'
  <2>1. PICK g \in served', e \in Incoming, t \in Incoming :
             g.dest \in Parties /\ (inbox' = Sent(inbox, g.dest, e) \/ inbox' = Sent(Sent(inbox, g.dest, e), p, t))
    BY <1>10, OpensMail
  <2> QED
    BY <1>6, <2>1, TwiceMail
<1> QED
  BY <1>1, <1>3, <1>4, <1>5, <1>7, <1>8, <1>9, <1>10 DEF Next, Kernel, vars

LEMMA PendingStep ==
  ASSUME TypeInv, TypeInv', CallInv, MentionInv, AnswerInv, [Next]_vars, NEW q \in Queries, queries'[q].open
  PROVE  Pending(q)'
<1> USE ConstantTypes
<1>1. PICK c \in Callers, n \in 1 .. MaxCalls : c = q[1] /\ n = q[2] /\ q = <<c, n>> /\ c \in Parties
  OBVIOUS
<1>2. queries[q] \in Query /\ queries \in [Queries -> Query]
  BY DEF TypeInv, CallerTypes
<1>3. CASE ~queries[q].open
  <2>1. Makes(q)
    <3>1. SendQueryUpdate(q) => queries'[q].open = queries[q].open
      <4> DEFINE u == Append(queries[q].held, Update(q, asked[q] + 1))
      <4>1. SendQueryUpdate(q) => queries' = queries \/ queries' = [queries EXCEPT ![q].held = u]
        BY DEF SendQueryUpdate
      <4> HIDE DEF u
      <4> QED
        BY <1>2, <4>1 DEF Query
    <3>2. Hears(q) => ~queries'[q].open
      <4>1. ASSUME Hears(q) PROVE queries' = queries
        BY <1>1, <1>3, <4>1 DEF Hears, HandleResponseNonce, HandleResponse
      <4> QED
        BY <1>3, <4>1
    <3> QED
      BY <1>3, <3>1, <3>2, CallerSteps
  <2>2. PICK e \in Outgoing : Post(c, e) /\ e.method = "moduleCall" /\ e.nonce = n
    <3>1. PICK to \in Modules, method \in Methods, wants \in BOOLEAN :
                NewKernelQuery(c, to, method, wants) /\ n = queriesNonce[c] + 1
      BY <1>1, <2>1 DEF Makes
    <3> DEFINE d == [module |-> to, method |-> method, sendKernelNonce |-> wants]
    <3>2. Post(c, Message("moduleCall", n, d))
      BY <3>1 DEF NewKernelQuery
    <3>3. Message("moduleCall", n, d) \in Outgoing
      BY <1>1 DEF Message, Outgoing
    <3> QED
      BY <3>2, <3>3 DEF Message
  <2>3. OutMail(c)' = OutMail(c) \cup {e}
    <3>1. c \in Parties /\ Post(c, e)
      BY <1>1, <2>2
    <3> QED
      BY <3>1, PostMail
  <2>4. e \in OutMail(c)'
    BY <2>3
  <2> QED
    BY <1>1, <2>2, <2>4 DEF Pending
<1>4. CASE queries[q].open
  <2>1. Pending(q)
    BY <1>4 DEF AnswerInv
  <2>2. ASSUME NEW m \in OutMail(c), m.method = "moduleCall", m.nonce = n PROVE Pending(q)'
    <3>1. CASE m \in OutMail(c)'
      BY <1>1, <2>2, <3>1 DEF Pending
    <3>2. CASE m \notin OutMail(c)'
      <4>1. KernelRefuses(c) \/ KernelOpens(c) \/ KernelRelaysDown(c) \/ KernelRelaysUp(c)
        BY <1>1, <3>2, OutGrows
      <4>2. PICK method : TakeFrom(c, method) /\ (method \in {"queryUpdate", "response", "responseUpdate"} \/ KernelRefuses(c) \/ KernelOpens(c))
        BY <4>1 DEF KernelRefuses, KernelOpens, KernelRelaysDown, KernelRelaysUp
      <4>3. m = Head(outbox[c]) /\ Head(outbox[c]).method = method
        <5>1. TakeFrom(c, method) /\ c \in Parties
          BY <1>1, <4>2
        <5>2. m = Head(outbox[c])
          BY <2>2, <3>2, <5>1, TakeFromMail
        <5> QED
          BY <5>1, <5>2, TakeFromTypes
      <4>4. CASE KernelRefuses(c)
        <5>1. PICK e \in Incoming : e.method = "response" /\ e.nonce = n /\ inbox' = Sent(inbox, c, e)
          <6>1. inbox' = Sent(inbox, c, Message("response", n, "refused"))
            BY <2>2, <4>3, <4>4 DEF KernelRefuses
          <6>2. Message("response", n, "refused") \in Incoming
            BY <1>1, RefusalTypes
          <6> QED
            BY <6>1, <6>2 DEF Message
        <5>2. e \in InMail(c)'
          <6>1. c \in Parties /\ inbox' = Sent(inbox, c, e)
            BY <1>1, <5>1
          <6> QED
            BY <6>1, SentMail
        <5> QED
          BY <1>1, <5>1, <5>2 DEF Pending
      <4>5. CASE KernelOpens(c)
        <5>1. PICK g \in served' : Opens(c, g)
          BY <1>1, <4>5, OpensWhat
        <5>2. g \in open' /\ AskedBy(g) = q
          BY <1>1, <2>2, <4>3, <5>1 DEF Opens, AskedBy
        <5> QED
          BY <5>2 DEF Pending, AskedBy
      <4> QED
        BY <2>2, <4>2, <4>3, <4>4, <4>5
    <3> QED
      BY <3>1, <3>2
  <2>3. ASSUME NEW g \in open, AskedBy(g) = q PROVE Pending(q)'
    <3>1. CASE g \in open'
      BY <2>3, <3>1 DEF Pending, AskedBy
    <3>2. CASE g \notin open'
      <4>1. PICK p \in Parties : KernelRelaysUp(p)
        BY <3>2 DEF Next, vars, callerVars, kernelVars, Caller, Handler, Module, Kernel, NewKernelQuery, SendQueryUpdate,
          HandleResponseNonce, HandleResponseUpdate, HandleResponse, Respond, SendResponseUpdate, SetReceiveUpdate,
          HandleCall, HandleQueryUpdate, RunMicrotask, HandlerReturns, HandlerThrows, KernelRefuses, KernelOpens, KernelRelaysDown
      <4> DEFINE h == Head(outbox[p])
      <4>2. PICK o \in Find(h.nonce) :
                /\ inbox' = Sent(inbox, o.source, Message(h.method, o.query, h.data))
                /\ open' = IF h.method = "response" THEN open \ {o} ELSE open
        BY <3>2, <4>1 DEF KernelRelaysUp
      <4>3. o = g /\ h.method = "response" /\ TakeFrom(p, "response") /\ ~BothNull(h)
        BY <3>2, <4>1, <4>2 DEF KernelRelaysUp
      <4>4. h \in Outgoing
        BY <4>3, TakeFromTypes
      <4>5. g.source = c /\ g.query = n
        BY <1>1, <2>3 DEF AskedBy
      <4>6. PICK e \in Incoming : e = Message("response", n, h.data)
        BY <1>1, <4>3, <4>4, RelayedTypes
      <4>7. inbox' = Sent(inbox, c, e)
        BY <4>2, <4>3, <4>5, <4>6
      <4>8. e \in InMail(c)' /\ e.method = "response" /\ e.nonce = n
        <5>1. c \in Parties /\ inbox' = Sent(inbox, c, e)
          BY <1>1, <4>7
        <5>2. e \in InMail(c)'
          BY <5>1, SentMail
        <5>3. e.method = "response" /\ e.nonce = n
          BY <4>6 DEF Message
        <5> QED
          BY <5>2, <5>3
      <4> QED
        BY <1>1, <4>8 DEF Pending
    <3> QED
      BY <3>1, <3>2
  <2>4. ASSUME NEW m \in InMail(c), m.method = "response", m.nonce = n PROVE Pending(q)'
    <3>1. CASE m \in InMail(c)'
      BY <1>1, <2>4, <3>1 DEF Pending
    <3>2. CASE m \notin InMail(c)'
      <4>1. HandleResponseNonce(c) \/ HandleResponseUpdate(c) \/ HandleResponse(c) \/ HandleCall(c) \/ HandleQueryUpdate(c)
        BY <1>1, <3>2, InGrows
      <4>2. PICK method : Take(c, method) /\ (method # "response" \/ HandleResponse(c))
        <5>1. CASE HandleResponse(c)
          BY <5>1 DEF HandleResponse
        <5>2. CASE ~HandleResponse(c)
          <6>1. PICK method \in {"responseNonce", "responseUpdate", "moduleCall", "queryUpdate"} : Take(c, method)
            BY <4>1, <5>2 DEF HandleResponseNonce, HandleResponseUpdate, HandleCall, HandleQueryUpdate
          <6> QED
            BY <6>1
        <5> QED
          BY <5>1, <5>2
      <4>3. m = Head(inbox[c]) /\ Head(inbox[c]).method = method
        BY <1>1, <3>2, <4>2, TakeMail, TakeTypes
      <4>4. HandleResponse(c) /\ <<c, Head(inbox[c]).nonce>> = q
        BY <1>1, <2>4, <4>2, <4>3
      <4>5. queries' = [queries EXCEPT ![q].open = FALSE]
        BY <1>4, <4>4 DEF HandleResponse
      <4>6. ~queries'[q].open
        BY <1>2, <4>5 DEF Query
      <4> QED
        BY <4>6
    <3> QED
      BY <3>1, <3>2
  <2> QED
    BY <1>1, <2>1, <2>2, <2>3, <2>4 DEF Pending
<1> QED
  BY <1>3, <1>4

LEMMA AnswerStep ==
  ASSUME TypeInv, TypeInv', CallInv, MentionInv, ComingInv, AnswerInv, [Next]_vars
  PROVE  AnswerInv'
BY RegisteredStep, PendingStep DEF AnswerInv

QueriesInv == TypeInv /\ CallInv /\ MentionInv /\ ComingInv /\ AnswerInv

LEMMA QueriesInit == Init => QueriesInv
<1> SUFFICES ASSUME Init PROVE QueriesInv
  OBVIOUS
<1>1. TypeInv /\ CallInv /\ MentionInv
  BY TypeInit, CallInit, MentionInit
<1>2. served = {} /\ open = {} /\ incomingQueries = {} /\ \A q \in Queries : ~queries[q].open
  BY DEF Init, NoQuery
<1> QED
  BY <1>1, <1>2 DEF QueriesInv, ComingInv, AnswerInv

LEMMA QueriesNext == QueriesInv /\ [Next]_vars => QueriesInv'
<1> SUFFICES ASSUME QueriesInv, [Next]_vars PROVE QueriesInv'
  OBVIOUS
<1>1. TypeInv'
  BY TypeStep DEF QueriesInv
<1>2. CallInv' /\ MentionInv' /\ ComingInv' /\ AnswerInv'
  BY <1>1, CallStep, MentionStep, ComingStep, AnswerStep DEF QueriesInv
<1> QED
  BY <1>1, <1>2 DEF QueriesInv

(***************************************************************************)
(* Runs: what a queue carries, and how its steps change that.               *)
(***************************************************************************)
Keeps(s, t, E) == \A F : \A a, b \in Nat : Run(s, E, F, a, b) => Run(t, E, F, a, b)

LEMMA RunEmpty ==
  ASSUME NEW s, NEW E, At(s, E) = {}, NEW F, NEW a \in Nat
  PROVE  Run(s, E, F, a, a)
<1> DEFINE f == [n \in a + 1 .. a |-> 0]
<1>1. a + 1 .. a = {}
  OBVIOUS
<1>2. f \in [a + 1 .. a -> Nat]
  OBVIOUS
<1> HIDE DEF f
<1> QED
  BY <1>1, <1>2 DEF Run

LEMMA EmptyRun ==
  ASSUME NEW s, NEW E, At(s, E) = {}, NEW F, NEW a \in Nat, NEW b \in Nat, Run(s, E, F, a, b)
  PROVE  a = b
<1>1. b \notin a + 1 .. b /\ a <= b
  BY DEF Run
<1> QED
  BY <1>1

\* The head of a queue is the next of its run, or none of it.
LEMMA RunTail ==
  ASSUME NEW S, NEW s \in Seq(S), s # <<>>, NEW E, NEW F, NEW a \in Nat, NEW b \in Nat, Run(s, E, F, a, b)
  PROVE  /\ Head(s) \notin E => Run(Tail(s), E, F, a, b)
         /\ Head(s) \in E => a + 1 <= b /\ Head(s) = F[a + 1] /\ Run(Tail(s), E, F, a + 1, b)
<1>0. /\ 1 \in DOMAIN s /\ Head(s) = s[1] /\ DOMAIN s \subseteq Nat \ {0}
      /\ \A i \in DOMAIN Tail(s) : i \in Nat \ {0} /\ i + 1 \in DOMAIN s /\ Tail(s)[i] = s[i + 1]
      /\ \A i \in DOMAIN s : i # 1 => i - 1 \in DOMAIN Tail(s) /\ Tail(s)[i - 1] = s[i]
  BY TailFacts
<1> DEFINE t == Tail(s)
<1> HIDE DEF t
<1>1. PICK f \in [a + 1 .. b -> Nat] :
           /\ At(s, E) = {f[n] : n \in a + 1 .. b}
           /\ \A n \in a + 1 .. b : s[f[n]] = F[n]
           /\ \A m, n \in a + 1 .. b : m < n => f[m] < f[n]
  BY DEF Run
<1>2. a <= b
  BY DEF Run
<1>3. \A n \in a + 1 .. b : f[n] \in DOMAIN s /\ f[n] \in Nat \ {0} /\ s[f[n]] \in E
  BY <1>0, <1>1 DEF At
<1>4. ASSUME NEW c \in {a, a + 1}, \A n \in c + 1 .. b : n \in a + 1 .. b /\ f[n] # 1, c <= b,
             \A i \in At(s, E) : i # 1 => \E n \in c + 1 .. b : i = f[n]
      PROVE  Run(t, E, F, c, b)
  <2> DEFINE h == [n \in c + 1 .. b |-> f[n] - 1]
  <2>1. \A n \in c + 1 .. b : f[n] - 1 \in Nat /\ f[n] - 1 \in DOMAIN t /\ t[f[n] - 1] = s[f[n]]
    BY <1>0, <1>3, <1>4 DEF t
  <2>2. h \in [c + 1 .. b -> Nat] /\ \A n \in c + 1 .. b : h[n] = f[n] - 1
    BY <2>1
  <2> HIDE DEF h
  <2>3. \A n \in c + 1 .. b : h[n] \in At(t, E) /\ t[h[n]] = F[n]
    BY <1>1, <1>3, <1>4, <2>1, <2>2 DEF At
  <2>4. ASSUME NEW i \in At(t, E) PROVE \E n \in c + 1 .. b : i = h[n]
    <3>1. i \in Nat \ {0} /\ i + 1 \in At(s, E)
      BY <1>0 DEF At, t
    <3>2. i + 1 # 1
      BY <3>1
    <3>3. PICK n \in c + 1 .. b : i + 1 = f[n]
      BY <1>4, <3>1, <3>2
    <3>4. h[n] = i
      BY <2>2, <3>1, <3>3
    <3> QED
      BY <3>4
  <2>5. \A m, n \in c + 1 .. b : m < n => h[m] < h[n]
    <3> TAKE m, n \in c + 1 .. b
    <3>1. m < n => f[m] < f[n]
      BY <1>1, <1>4
    <3>2. f[m] \in Nat /\ f[n] \in Nat
      BY <1>3, <1>4
    <3>3. f[m] < f[n] => f[m] - 1 < f[n] - 1
      BY <3>2
    <3> QED
      BY <2>2, <3>1, <3>3
  <2>6. At(t, E) = {h[n] : n \in c + 1 .. b}
    BY <2>3, <2>4
  <2> QED
    BY <1>4, <2>2, <2>3, <2>5, <2>6 DEF Run
<1>5. CASE s[1] \notin E
  <2>1. \A n \in a + 1 .. b : f[n] # 1
    BY <1>3, <1>5
  <2>2. Run(t, E, F, a, b)
    BY <1>1, <1>2, <1>4, <2>1
  <2> QED
    BY <1>0, <1>5, <2>2 DEF t
<1>6. CASE s[1] \in E
  <2>1. PICK n \in a + 1 .. b : f[n] = 1
    BY <1>0, <1>1, <1>6 DEF At
  <2>2. a + 1 \in a + 1 .. b
    BY <2>1
  <2>3. n = a + 1
    <3>1. a + 1 < n => f[a + 1] < f[n]
      BY <1>1, <2>2
    <3>2. ~(f[a + 1] < f[n])
      BY <1>3, <2>1, <2>2
    <3> QED
      BY <2>1, <3>1, <3>2
  <2>4. s[1] = F[a + 1]
    BY <1>1, <2>1, <2>3
  <2>5. \A m \in a + 2 .. b : m \in a + 1 .. b /\ a + 1 < m
    OBVIOUS
  <2>6. \A m \in a + 2 .. b : f[m] # 1
    BY <1>1, <1>3, <2>1, <2>2, <2>3, <2>5
  <2>7. \A i \in At(s, E) : i # 1 => \E m \in a + 2 .. b : i = f[m]
    <3> SUFFICES ASSUME NEW m \in a + 1 .. b, f[m] # 1 PROVE m \in a + 2 .. b
      BY <1>1
    <3>1. m # a + 1
      BY <2>1, <2>3
    <3> QED
      BY <3>1
  <2>8. a + 1 <= b /\ (a + 1) + 1 = a + 2
    BY <2>2
  <2>9. Run(t, E, F, a + 1, b)
    BY <1>4, <2>5, <2>6, <2>7, <2>8
  <2> QED
    BY <1>0, <1>6, <2>4, <2>8, <2>9 DEF t
<1> QED
  BY <1>5, <1>6

LEMMA RunAppend ==
  ASSUME NEW S, NEW s \in Seq(S), NEW e \in S, NEW E, NEW F, NEW a \in Nat, NEW b \in Nat, Run(s, E, F, a, b)
  PROVE  /\ e \notin E => Run(Append(s, e), E, F, a, b)
         /\ e \in E /\ e = F[b + 1] => Run(Append(s, e), E, F, a, b + 1)
<1> DEFINE t == Append(s, e)
           l == Len(s) + 1
<1>0. /\ l \in Nat /\ DOMAIN t = DOMAIN s \cup {l} /\ t[l] = e
      /\ \A i \in DOMAIN s : i \in Nat \ {0} /\ i < l /\ t[i] = s[i]
  BY AppendFacts
<1> HIDE DEF t, l
<1>1. PICK f \in [a + 1 .. b -> Nat] :
           /\ At(s, E) = {f[n] : n \in a + 1 .. b}
           /\ \A n \in a + 1 .. b : s[f[n]] = F[n]
           /\ \A m, n \in a + 1 .. b : m < n => f[m] < f[n]
  BY DEF Run
<1>2. a <= b
  BY DEF Run
<1>3. \A n \in a + 1 .. b : f[n] \in DOMAIN s /\ f[n] \in Nat /\ f[n] < l /\ t[f[n]] = F[n]
  BY <1>0, <1>1 DEF At
<1>4. ASSUME e \notin E PROVE Run(t, E, F, a, b)
  <2>1. At(t, E) = At(s, E)
    BY <1>0, <1>4 DEF At
  <2>2. Run(t, E, F, a, b)
    BY <1>1, <1>2, <1>3, <2>1 DEF Run
  <2> QED
    BY <1>4, <2>2 DEF t
<1>5. ASSUME e \in E, e = F[b + 1] PROVE Run(t, E, F, a, b + 1)
  <2> DEFINE h == [n \in a + 1 .. b + 1 |-> IF n = b + 1 THEN l ELSE f[n]]
  <2>1. \A n \in a + 1 .. b + 1 : n # b + 1 => n \in a + 1 .. b
    OBVIOUS
  <2>2. h \in [a + 1 .. b + 1 -> Nat]
    BY <1>0, <2>1
  <2>3. b + 1 \in a + 1 .. b + 1 /\ h[b + 1] = l /\ \A n \in a + 1 .. b : n \in a + 1 .. b + 1 /\ h[n] = f[n] /\ n # b + 1
    BY <1>2
  <2> HIDE DEF h
  <2>4. At(t, E) = At(s, E) \cup {l}
    BY <1>0, <1>5 DEF At
  <2>5. At(t, E) = {h[n] : n \in a + 1 .. b + 1}
    BY <1>1, <2>1, <2>3, <2>4
  <2>6. \A n \in a + 1 .. b + 1 : t[h[n]] = F[n]
    BY <1>0, <1>3, <1>5, <2>1, <2>3
  <2>7. ASSUME NEW m \in a + 1 .. b + 1, NEW n \in a + 1 .. b + 1, m < n PROVE h[m] < h[n]
    <3>1. m \in a + 1 .. b
      BY <2>7
    <3>2. CASE n = b + 1
      BY <1>3, <2>3, <3>1, <3>2
    <3>3. CASE n # b + 1
      BY <1>1, <2>1, <2>3, <2>7, <3>1, <3>3
    <3> QED
      BY <3>2, <3>3
  <2>8. a <= b + 1
    BY <1>2
  <2>9. Run(t, E, F, a, b + 1)
    BY <2>2, <2>5, <2>6, <2>7, <2>8 DEF Run
  <2> QED
    BY <1>5, <2>9 DEF t
<1> QED
  BY <1>4, <1>5 DEF t

LEMMA ConcatFacts ==
  ASSUME NEW S, NEW s \in Seq(S), NEW u \in Seq(S)
  PROVE  /\ s \o u \in Seq(S) /\ Len(s) \in Nat /\ Len(u) \in Nat /\ DOMAIN u = 1 .. Len(u)
         /\ \A i \in DOMAIN s : i \in DOMAIN (s \o u) /\ i \in Nat /\ i <= Len(s) /\ (s \o u)[i] = s[i]
         /\ \A i \in DOMAIN u : Len(s) + i \in DOMAIN (s \o u) /\ (s \o u)[Len(s) + i] = u[i]
         /\ \A i \in DOMAIN (s \o u) : i \in DOMAIN s \/ \E j \in DOMAIN u : i = Len(s) + j
<1> DEFINE t == s \o u
           l == Len(s)
           k == Len(u)
<1>1. /\ t \in Seq(S) /\ l \in Nat /\ k \in Nat /\ DOMAIN u = 1 .. k /\ DOMAIN s = 1 .. l
      /\ DOMAIN t = 1 .. l + k
      /\ \A i \in DOMAIN s : t[i] = s[i]
      /\ \A i \in DOMAIN u : t[l + i] = u[i]
  OBVIOUS
<1> HIDE DEF t, l, k
<1>2. \A i \in 1 .. l + k : i \in 1 .. l \/ \E j \in 1 .. k : i = l + j
  <2> TAKE i \in 1 .. l + k
  <2>1. i \notin 1 .. l => i - l \in 1 .. k /\ i = l + (i - l)
    BY <1>1
  <2> QED
    BY <2>1
<1>3. \A i \in 1 .. k : l + i \in 1 .. l + k
  BY <1>1
<1>4. \A i \in 1 .. l : i \in 1 .. l + k /\ i \in Nat /\ i <= l
  BY <1>1
<1> QED
  BY <1>1, <1>2, <1>3, <1>4 DEF t, l, k

\* What follows a queue adds to its run, or carries none of it.
LEMMA RunConcat ==
  ASSUME NEW S, NEW s \in Seq(S), NEW u \in Seq(S), NEW E, NEW F, NEW a \in Nat, NEW b \in Nat, Run(s, E, F, a, b)
  PROVE  /\ (\A i \in DOMAIN u : u[i] \notin E) => Run(s \o u, E, F, a, b)
         /\ (\A i \in DOMAIN u : u[i] \in E /\ u[i] = F[b + i]) => Run(s \o u, E, F, a, b + Len(u))
<1> DEFINE t == s \o u
           l == Len(s)
           k == Len(u)
<1>0. /\ l \in Nat /\ k \in Nat /\ DOMAIN u = 1 .. k
      /\ \A i \in DOMAIN s : i \in DOMAIN t /\ i \in Nat /\ i <= l /\ t[i] = s[i]
      /\ \A i \in DOMAIN u : l + i \in DOMAIN t /\ t[l + i] = u[i]
      /\ \A i \in DOMAIN t : i \in DOMAIN s \/ \E j \in DOMAIN u : i = l + j
  BY ConcatFacts
<1> HIDE DEF t, l, k
<1>1. PICK f \in [a + 1 .. b -> Nat] :
           /\ At(s, E) = {f[n] : n \in a + 1 .. b}
           /\ \A n \in a + 1 .. b : s[f[n]] = F[n]
           /\ \A m, n \in a + 1 .. b : m < n => f[m] < f[n]
  BY DEF Run
<1>2. a <= b
  BY DEF Run
<1>3. \A n \in a + 1 .. b : f[n] \in DOMAIN s /\ f[n] \in Nat /\ f[n] <= l /\ t[f[n]] = F[n]
  BY <1>0, <1>1 DEF At
<1>4. ASSUME \A i \in DOMAIN u : u[i] \notin E PROVE Run(t, E, F, a, b)
  <2>1. At(t, E) = At(s, E)
    BY <1>0, <1>4 DEF At
  <2>2. Run(t, E, F, a, b)
    BY <1>1, <1>2, <1>3, <2>1 DEF Run
  <2> QED
    BY <2>2 DEF t
<1>5. ASSUME \A i \in DOMAIN u : u[i] \in E /\ u[i] = F[b + i] PROVE Run(t, E, F, a, b + k)
  <2> DEFINE h == [n \in a + 1 .. b + k |-> IF n <= b THEN f[n] ELSE l + (n - b)]
  <2>1. \A n \in a + 1 .. b + k : (n <= b /\ n \in a + 1 .. b) \/ (~(n <= b) /\ n - b \in 1 .. k)
    BY <1>0
  <2>2. h \in [a + 1 .. b + k -> Nat]
    <3>1. \A n \in a + 1 .. b + k : n <= b => f[n] \in Nat
      BY <1>3, <2>1
    <3>2. \A n \in a + 1 .. b + k : ~(n <= b) => l + (n - b) \in Nat
      BY <1>0, <2>1
    <3> QED
      BY <3>1, <3>2
  <2>3. \A n \in a + 1 .. b : n \in a + 1 .. b + k /\ n <= b
    BY <1>0
  <2>4. \A i \in 1 .. k : b + i \in a + 1 .. b + k /\ ~(b + i <= b) /\ (b + i) - b = i
    BY <1>0, <1>2
  <2>5. /\ \A n \in a + 1 .. b : h[n] = f[n]
        /\ \A i \in 1 .. k : h[b + i] = l + i
    BY <2>3, <2>4
  <2> HIDE DEF h
  <2>6. ASSUME NEW n \in a + 1 .. b + k PROVE n \in a + 1 .. b \/ \E i \in 1 .. k : n = b + i
    <3>1. ~(n <= b) => n = b + (n - b)
      OBVIOUS
    <3> QED
      BY <2>1, <3>1
  <2>7. \A n \in a + 1 .. b + k : h[n] \in At(t, E) /\ t[h[n]] = F[n]
    <3>1. ASSUME NEW n \in a + 1 .. b PROVE h[n] \in At(t, E) /\ t[h[n]] = F[n]
      BY <1>0, <1>1, <1>3, <2>5 DEF At
    <3>2. ASSUME NEW i \in 1 .. k PROVE h[b + i] \in At(t, E) /\ t[h[b + i]] = F[b + i]
      BY <1>0, <1>5, <2>5 DEF At
    <3> QED
      BY <2>6, <3>1, <3>2
  <2>8. \A i \in At(t, E) : \E n \in a + 1 .. b + k : i = h[n]
    <3> TAKE i \in At(t, E)
    <3>1. CASE i \in DOMAIN s
      <4>1. i \in At(s, E)
        BY <1>0, <3>1 DEF At
      <4>2. PICK n \in a + 1 .. b : i = f[n]
        BY <1>1, <4>1
      <4> QED
        BY <2>3, <2>5, <4>2
    <3>2. CASE \E j \in DOMAIN u : i = l + j
      BY <1>0, <2>4, <2>5, <3>2
    <3> QED
      BY <1>0, <3>1, <3>2 DEF At
  <2>9. At(t, E) = {h[n] : n \in a + 1 .. b + k}
    BY <2>7, <2>8
  <2>10. ASSUME NEW m \in a + 1 .. b + k, NEW n \in a + 1 .. b + k, m < n PROVE h[m] < h[n]
    <3>1. CASE n \in a + 1 .. b
      <4>1. m \in a + 1 .. b
        BY <2>10, <3>1
      <4> QED
        BY <1>1, <2>5, <2>10, <3>1, <4>1
    <3>2. CASE \E i \in 1 .. k : n = b + i
      <4>1. PICK i \in 1 .. k : n = b + i
        BY <3>2
      <4>2. CASE m \in a + 1 .. b
        <5>1. h[m] \in Nat /\ h[m] <= l /\ h[n] = l + i
          BY <1>3, <2>5, <4>1, <4>2
        <5> QED
          BY <1>0, <5>1
      <4>3. CASE \E j \in 1 .. k : m = b + j
        <5>1. PICK j \in 1 .. k : m = b + j
          BY <4>3
        <5>2. h[m] = l + j /\ h[n] = l + i /\ j < i
          BY <2>5, <2>10, <4>1, <5>1
        <5> QED
          BY <1>0, <5>2
      <4> QED
        BY <2>6, <4>2, <4>3
    <3> QED
      BY <2>6, <3>1, <3>2
  <2>11. a <= b + k
    BY <1>0, <1>2
  <2>12. Run(t, E, F, a, b + k)
    BY <2>2, <2>7, <2>9, <2>10, <2>11 DEF Run
  <2> QED
    BY <1>5, <2>12 DEF t, k
<1> QED
  BY <1>4, <1>5 DEF t, k

LEMMA KeepsSame == \A s, E : Keeps(s, s, E)
BY DEF Keeps

LEMMA KeepsTrans ==
  ASSUME NEW s, NEW t, NEW u, NEW E, Keeps(s, t, E), Keeps(t, u, E)
  PROVE  Keeps(s, u, E)
BY DEF Keeps

LEMMA KeepsTail ==
  ASSUME NEW S, NEW s \in Seq(S), s # <<>>, NEW E, Head(s) \notin E
  PROVE  Keeps(s, Tail(s), E)
BY RunTail DEF Keeps

LEMMA KeepsAppend ==
  ASSUME NEW S, NEW s \in Seq(S), NEW e \in S, NEW E, e \notin E
  PROVE  Keeps(s, Append(s, e), E)
BY RunAppend DEF Keeps

LEMMA KeepsConcat ==
  ASSUME NEW S, NEW s \in Seq(S), NEW u \in Seq(S), NEW E, \A i \in DOMAIN u : u[i] \notin E
  PROVE  Keeps(s, s \o u, E)
BY RunConcat DEF Keeps

LEMMA Carried ==
  ASSUME NEW k \in KernelNonces
  PROVE  /\ \A m \in Outgoing \cup Incoming : m \in Carries(k) <=> m.method = "queryUpdate" /\ m.nonce = k
         /\ \A m : m.method # "queryUpdate" \/ m.nonce # k => m \notin Carries(k)
         /\ \A d \in Due : d \in Handed(k) <=> d.nonce = k
<1>1. \A m \in Outgoing : m.method = "queryUpdate" /\ m.nonce = k => m \in Carries(k)
  BY DEF Outgoing, Carries
<1>2. \A m \in Incoming : m.method = "queryUpdate" /\ m.nonce = k => m \in Carries(k)
  BY DEF Incoming, Carries
<1>3. \A m \in Carries(k) : m.method = "queryUpdate" /\ m.nonce = k
  BY DEF Carries
<1>4. \A d \in Due : d \in Handed(k) <=> d.nonce = k
  BY DEF Due, Handed
<1> QED
  BY <1>1, <1>2, <1>3, <1>4

LEMMA CarriedAt ==
  ASSUME NEW k \in KernelNonces, NEW q \in Queries, NEW n \in Nat
  PROVE  /\ CarriedAs(k, q)[n] = Message("queryUpdate", k, Update(q, n)) /\ CarriedAs(k, q)[n] \in Carries(k)
         /\ HandedAs(k, q)[n] = [nonce |-> k, data |-> Update(q, n)] /\ HandedAs(k, q)[n] \in Handed(k)
         /\ CarriedAs(k, q)[n].data = Update(q, n) /\ HandedAs(k, q)[n].data = Update(q, n)
BY DEF CarriedAs, HandedAs, Message, Update, Carries, Handed, Waiting

(***************************************************************************)
(* What each channel carries of the updates of g.                           *)
(***************************************************************************)
LEMMA TookFrom ==
  ASSUME TypeInv, NEW p \in Parties, NEW method, TakeFrom(p, method), NEW r \in Parties, NEW k \in KernelNonces,
         p # r \/ method # "queryUpdate" \/ Head(outbox[p]).nonce # k
  PROVE  Keeps(outbox[r], outbox'[r], Carries(k))
<1>1. outbox \in [Parties -> Seq(Outgoing)] /\ outbox[p] # <<>> /\ outbox' = [outbox EXCEPT ![p] = Tail(@)]
      /\ Head(outbox[p]).method = method
  BY DEF TypeInv, BoxTypes, TakeFrom
<1>2. CASE p = r
  <2>1. Head(outbox[r]) \notin Carries(k)
    BY <1>1, <1>2, Carried
  <2>2. Keeps(outbox[r], Tail(outbox[r]), Carries(k))
    BY <1>1, <1>2, <2>1, KeepsTail
  <2> QED
    BY <1>1, <1>2, <2>2
<1>3. CASE p # r
  BY <1>1, <1>3, KeepsSame
<1> QED
  BY <1>2, <1>3

LEMMA Took ==
  ASSUME TypeInv, NEW p \in Parties, NEW method, Take(p, method), NEW r \in Parties, NEW k \in KernelNonces,
         p # r \/ method # "queryUpdate" \/ Head(inbox[p]).nonce # k
  PROVE  Keeps(inbox[r], inbox'[r], Carries(k))
<1>1. inbox \in [Parties -> Seq(Incoming)] /\ inbox[p] # <<>> /\ inbox' = [inbox EXCEPT ![p] = Tail(@)]
      /\ Head(inbox[p]).method = method
  BY DEF TypeInv, BoxTypes, Take
<1>2. CASE p = r
  <2>1. Head(inbox[r]) \notin Carries(k)
    BY <1>1, <1>2, Carried
  <2>2. Keeps(inbox[r], Tail(inbox[r]), Carries(k))
    BY <1>1, <1>2, <2>1, KeepsTail
  <2> QED
    BY <1>1, <1>2, <2>2
<1>3. CASE p # r
  BY <1>1, <1>3, KeepsSame
<1> QED
  BY <1>2, <1>3

LEMMA Posted ==
  ASSUME TypeInv, TypeInv', NEW p \in Parties, NEW e, Post(p, e), NEW r \in Parties, NEW k \in KernelNonces,
         e.method # "queryUpdate"
  PROVE  Keeps(outbox[r], outbox'[r], Carries(k))
<1>1. outbox \in [Parties -> Seq(Outgoing)] /\ outbox' = [outbox EXCEPT ![p] = Append(@, e)]
      /\ outbox' \in [Parties -> Seq(Outgoing)]
  BY DEF TypeInv, BoxTypes, Post
<1>2. CASE p = r
  <2>1. outbox'[r] = Append(outbox[r], e) /\ outbox[r] \in Seq(Outgoing) /\ outbox'[r] \in Seq(Outgoing)
    BY <1>1, <1>2
  <2>2. Len(outbox[r]) + 1 \in DOMAIN outbox'[r] /\ outbox'[r][Len(outbox[r]) + 1] = e
    BY <2>1
  <2>3. e \in Outgoing
    BY <2>1, <2>2
  <2>4. e \notin Carries(k)
    BY Carried
  <2> QED
    BY <2>1, <2>3, <2>4, KeepsAppend
<1>3. CASE p # r
  BY <1>1, <1>3, KeepsSame
<1> QED
  BY <1>2, <1>3

LEMMA SentOn ==
  ASSUME TypeInv, NEW p \in Parties, NEW e \in Incoming, inbox' = Sent(inbox, p, e), NEW r \in Parties,
         NEW k \in KernelNonces, e.method # "queryUpdate" \/ e.nonce # k
  PROVE  Keeps(inbox[r], inbox'[r], Carries(k))
<1>1. inbox \in [Parties -> Seq(Incoming)] /\ inbox' = [inbox EXCEPT ![p] = Append(@, e)]
  BY DEF TypeInv, BoxTypes, Sent
<1>2. CASE p = r
  <2>1. e \notin Carries(k)
    BY Carried
  <2>2. Keeps(inbox[r], Append(inbox[r], e), Carries(k))
    BY <1>1, <2>1, KeepsAppend
  <2> QED
    BY <1>1, <1>2, <2>2
<1>3. CASE p # r
  BY <1>1, <1>3, KeepsSame
<1> QED
  BY <1>2, <1>3

\* PostUpdates, and what it adds to the channel of the caller.
LEMMA PostedUpdates ==
  ASSUME TypeInv, NEW q \in Queries, NEW k \in KernelNonces, NEW us \in Seq(Waiting), PostUpdates(q, k, us)
  PROVE  /\ \E t \in Seq(Outgoing) :
                /\ outbox'[q[1]] = outbox[q[1]] \o t
                /\ DOMAIN t = DOMAIN us /\ Len(t) = Len(us)
                /\ \A i \in DOMAIN us : t[i] = Message("queryUpdate", k, us[i])
         /\ \A r \in Parties : r # q[1] => outbox'[r] = outbox[r]
         /\ \A r \in Parties : \A j \in KernelNonces : j # k => Keeps(outbox[r], outbox'[r], Carries(j))
<1> DEFINE t == [i \in DOMAIN us |-> Message("queryUpdate", k, us[i])]
           p == q[1]
<1>1. p \in Parties /\ outbox \in [Parties -> Seq(Outgoing)] /\ outbox' = [outbox EXCEPT ![p] = @ \o t]
  BY ConstantTypes DEF TypeInv, BoxTypes, PostUpdates
<1>2. /\ t \in Seq(Outgoing) /\ DOMAIN t = DOMAIN us /\ Len(t) = Len(us)
      /\ \A i \in DOMAIN us : t[i] = Message("queryUpdate", k, us[i])
  <2>1. \A i \in DOMAIN us : us[i] \in Waiting
    OBVIOUS
  <2>2. \A i \in DOMAIN us : Message("queryUpdate", k, us[i]) \in Outgoing
    BY <2>1 DEF Message, Outgoing
  <2>3. DOMAIN us = 1 .. Len(us) /\ Len(us) \in Nat
    OBVIOUS
  <2> QED
    BY <2>2, <2>3
<1> HIDE DEF t, p
<1>3. outbox'[p] = outbox[p] \o t /\ outbox[p] \in Seq(Outgoing) /\ \A r \in Parties : r # p => outbox'[r] = outbox[r]
  BY <1>1
<1>4. ASSUME NEW r \in Parties, NEW j \in KernelNonces, j # k PROVE Keeps(outbox[r], outbox'[r], Carries(j))
  <2>1. \A i \in DOMAIN t : t[i] \notin Carries(j)
    <3>1. \A i \in DOMAIN t : t[i].nonce = k
      BY <1>2 DEF Message
    <3> QED
      BY <1>4, <3>1, Carried
  <2>2. Keeps(outbox[p], outbox[p] \o t, Carries(j))
    BY <1>2, <1>3, <2>1, KeepsConcat
  <2> QED
    BY <1>3, <2>2, KeepsSame
<1> QED
  BY <1>2, <1>3, <1>4 DEF p

LEMMA OutFlow ==
  ASSUME TypeInv, TypeInv', CallInv, MentionInv, [Next]_vars, NEW g \in served
  PROVE  \/ Keeps(outbox[g.source], outbox'[g.source], Carries(g.nonce))
         \/ SendQueryUpdate(AskedBy(g))
         \/ HandleResponseNonce(g.source) /\ Head(inbox[g.source]).nonce = g.query
         \/ KernelRelaysDown(g.source) /\ Head(outbox[g.source]).nonce = g.nonce
<1> USE ConstantTypes
<1>0. g.source \in Parties /\ g.nonce \in KernelNonces
  BY DEF TypeInv, KernelTypes, Served
<1>1. PICK r \in Parties, k \in KernelNonces : r = g.source /\ k = g.nonce
  BY <1>0
<1> DEFINE Same == Keeps(outbox[r], outbox'[r], Carries(k))
<1>2. ASSUME outbox' = outbox PROVE Same
  BY <1>2, KeepsSame
<1>3. ASSUME NEW p, NEW m, NEW d, NEW n, Post(p, Message(m, n, d)), p \in Parties, m # "queryUpdate" PROVE Same
  <2>1. Message(m, n, d).method # "queryUpdate"
    BY <1>3 DEF Message
  <2> QED
    BY <1>3, <2>1, Posted
<1>4. ASSUME NEW p, NEW n, NEW m, NEW d, Say(p, n, m, d), p \in Parties, m # "queryUpdate" PROVE Same
  BY <1>3, <1>4 DEF Say
<1>5. ASSUME NEW q \in Queries, SendQueryUpdate(q) PROVE Same \/ q = AskedBy(g)
  <2> DEFINE us == <<Update(q, asked[q] + 1)>>
             n == queries[q].kernelNonce
  <2>1. outbox' = outbox \/ (n # 0 /\ PostUpdates(q, n, us))
    BY <1>5 DEF SendQueryUpdate
  <2>2. us \in Seq(Waiting) /\ n \in {0} \cup KernelNonces
    BY DEF TypeInv, CallerTypes, Query, Update, Waiting
  <2>3. CASE n = k
    <3>1. PICK h \in served : AskedBy(h) = q /\ h.nonce = k
      BY <2>3, <1>1, ConstantTypes DEF MentionInv, PlaceInv
    <3>2. h = g
      BY <1>1, <3>1 DEF CallInv
    <3> QED
      BY <3>1, <3>2
  <2> HIDE DEF us, n
  <2>4. CASE n # k
    BY <1>2, <2>1, <2>2, <2>4, PostedUpdates
  <2> QED
    BY <2>3, <2>4
<1>6. ASSUME NEW p \in Callers, HandleResponseNonce(p) PROVE Same \/ (p = r /\ Head(inbox[p]).nonce = g.query)
  <2> DEFINE m == Head(inbox[p])
             q == <<p, m.nonce>>
             us == queries[q].held
  <2>1. outbox' = outbox \/ PostUpdates(q, m.data, us)
    BY <1>6 DEF HandleResponseNonce
  <2>2. Take(p, "responseNonce") /\ p \in Parties
    BY <1>6 DEF HandleResponseNonce
  <2>3. InMention(served, p, m) /\ m \in Incoming /\ m.method = "responseNonce"
    BY <2>2, HeadMention, TakeTypes DEF MentionInv
  <2>4. PICK h \in served : h.nonce = m.data /\ AskedBy(h) = q
    BY <2>3 DEF InMention
  <2>5. q \in Queries /\ us \in Seq(Waiting) /\ m.data \in KernelNonces
    BY <2>4 DEF CallInv, Opened, TypeInv, CallerTypes, Query, KernelTypes, Served
  <2>6. CASE m.data = k
    <3>1. h = g
      BY <1>1, <2>4, <2>6 DEF CallInv
    <3> QED
      BY <1>1, <2>4, <3>1 DEF AskedBy
  <2> HIDE DEF us, m, q
  <2>7. CASE m.data # k
    BY <1>2, <2>1, <2>5, <2>7, PostedUpdates
  <2> QED
    BY <2>6, <2>7 DEF m
<1>7. ASSUME NEW p \in Parties, NEW method, TakeFrom(p, method), method # "queryUpdate" PROVE Same
  BY <1>7, TookFrom
<1>8. CASE Caller
  <2>1. ASSUME NEW p \in Callers, NEW to \in Modules, NEW method \in Methods, NEW wants \in BOOLEAN,
               NewKernelQuery(p, to, method, wants)
        PROVE  Same
    BY <1>3, <2>1 DEF NewKernelQuery
  <2>2. ASSUME NEW p \in Callers, HandleResponseUpdate(p) \/ HandleResponse(p) PROVE Same
    BY <1>2, <2>2 DEF HandleResponseUpdate, HandleResponse
  <2> QED
    BY <1>1, <1>5, <1>6, <1>8, <2>1, <2>2 DEF Caller
<1>9. CASE Handler
  BY <1>1, <1>2, <1>4, <1>9 DEF Handler, Respond, SendResponseUpdate, SetReceiveUpdate
<1>10. CASE Module
  BY <1>1, <1>2, <1>4, <1>10 DEF Module, HandleCall, HandleQueryUpdate, RunMicrotask, HandlerReturns, HandlerThrows, RespondErr
<1>11. CASE Kernel
  <2>1. ASSUME NEW p \in Parties, KernelRelaysDown(p) PROVE Same \/ (p = r /\ Head(outbox[p]).nonce = k)
    <3>1. TakeFrom(p, "queryUpdate")
      BY <2>1 DEF KernelRelaysDown
    <3> QED
      BY <3>1, TookFrom
  <2>2. ASSUME NEW p \in Parties, KernelRelaysUp(p) PROVE Same
    <3>1. TakeFrom(p, Head(outbox[p]).method) /\ Head(outbox[p]).method # "queryUpdate"
      BY <2>2 DEF KernelRelaysUp
    <3> QED
      BY <1>7, <3>1
  <2>3. ASSUME NEW p \in Parties, KernelRefuses(p) \/ KernelOpens(p) PROVE Same
    BY <1>7, <2>3 DEF KernelRefuses, KernelOpens
  <2> QED
    BY <1>1, <1>11, <2>1, <2>2, <2>3 DEF Kernel
<1>12. CASE UNCHANGED vars
  BY <1>1, <1>2, <1>12 DEF vars
<1> QED
  BY <1>1, <1>8, <1>9, <1>10, <1>11, <1>12 DEF Next

LEMMA InFlow ==
  ASSUME TypeInv, TypeInv', CallInv, MentionInv, [Next]_vars, NEW g \in served
  PROVE  \/ Keeps(inbox[g.dest], inbox'[g.dest], Carries(g.nonce))
         \/ HandleQueryUpdate(g.dest) /\ Head(inbox[g.dest]).nonce = g.nonce
         \/ KernelRelaysDown(g.source) /\ Head(outbox[g.source]).nonce = g.nonce
<1> USE ConstantTypes
<1>0. g.dest \in Parties /\ g.nonce \in KernelNonces
  BY DEF TypeInv, KernelTypes, Served
<1>1. PICK r \in Parties, k \in KernelNonces : r = g.dest /\ k = g.nonce
  BY <1>0
<1> DEFINE Same == Keeps(inbox[r], inbox'[r], Carries(k))
<1>2. ASSUME inbox' = inbox PROVE Same
  BY <1>2, KeepsSame
<1>3. ASSUME NEW p \in Parties, NEW method, Take(p, method), method # "queryUpdate" PROVE Same
  BY <1>3, Took
<1>4. CASE Caller
  BY <1>1, <1>2, <1>3, <1>4 DEF Caller, NewKernelQuery, SendQueryUpdate, HandleResponseNonce, HandleResponseUpdate, HandleResponse
<1>5. CASE Handler
  BY <1>1, <1>2, <1>5 DEF Handler, Respond, SendResponseUpdate, SetReceiveUpdate
<1>6. CASE Module
  <2>1. ASSUME NEW p \in Parties, HandleQueryUpdate(p) PROVE Same \/ (p = r /\ Head(inbox[p]).nonce = k)
    <3>1. Take(p, "queryUpdate")
      BY <2>1 DEF HandleQueryUpdate
    <3> QED
      BY <3>1, Took
  <2>2. ASSUME NEW p \in Parties, HandleCall(p) PROVE Same
    BY <1>3, <2>2 DEF HandleCall
  <2>3. ASSUME NEW p \in Parties, RunMicrotask(p) \/ HandlerReturns(p) \/ HandlerThrows(p) PROVE Same
    BY <1>2, <2>3 DEF RunMicrotask, HandlerReturns, HandlerThrows
  <2> QED
    BY <1>1, <1>6, <2>1, <2>2, <2>3 DEF Module
<1>7. ASSUME NEW p \in Parties, NEW e \in Incoming, inbox' = Sent(inbox, p, e), e.method # "queryUpdate" \/ e.nonce # k PROVE Same
  BY <1>7, SentOn
<1>8. ASSUME NEW p \in Parties, KernelRefuses(p) PROVE Same
  <2>1. TakeFrom(p, "moduleCall") /\ inbox' = Sent(inbox, p, Message("response", Head(outbox[p]).nonce, "refused"))
    BY <1>8 DEF KernelRefuses
  <2>2. Message("response", Head(outbox[p]).nonce, "refused") \in Incoming
    BY <2>1, TakeFromTypes, OutgoingTypes, RefusalTypes DEF Message
  <2>3. PICK e \in Incoming : e = Message("response", Head(outbox[p]).nonce, "refused")
    BY <2>2
  <2>4. e.method # "queryUpdate" /\ inbox' = Sent(inbox, p, e)
    BY <2>1, <2>3 DEF Message
  <2> QED
    BY <1>7, <2>4
<1>9. ASSUME NEW p \in Parties, KernelRelaysDown(p) PROVE Same \/ (p = g.source /\ Head(outbox[p]).nonce = k)
  <2>1. TakeFrom(p, "queryUpdate")
    BY <1>9 DEF KernelRelaysDown
  <2>2. Head(outbox[p]) \in Incoming /\ Head(outbox[p]).method = "queryUpdate" /\ OutMention(p, Head(outbox[p]))
    BY <2>1, TakeFromTypes, OutgoingTypes, OutboxMention DEF MentionInv
  <2>3. CASE Head(outbox[p]).nonce = k
    <3>1. PICK h \in served : h.nonce = k /\ h.source = p
      BY <2>2, <2>3 DEF OutMention
    <3>2. h = g
      BY <1>1, <3>1 DEF CallInv
    <3> QED
      BY <2>3, <3>1, <3>2
  <2>4. CASE Head(outbox[p]).nonce # k
    <3>1. CASE inbox' = inbox
      BY <1>2, <3>1
    <3>2. CASE inbox' # inbox
      <4>1. PICK h \in open : inbox' = Sent(inbox, h.dest, Head(outbox[p]))
        BY <1>9, <3>2 DEF KernelRelaysDown, Find
      <4>2. h.dest \in Parties
        BY <4>1 DEF TypeInv, KernelTypes, Served
      <4>3. PICK e \in Incoming, d \in Parties : e = Head(outbox[p]) /\ d = h.dest
        BY <2>2, <4>2
      <4>4. inbox' = Sent(inbox, d, e) /\ e.nonce # k
        BY <2>4, <4>1, <4>3
      <4> QED
        BY <1>7, <4>4
    <3> QED
      BY <3>1, <3>2
  <2> QED
    BY <2>3, <2>4
<1>10. ASSUME NEW p \in Parties, KernelRelaysUp(p) PROVE Same
  <2>1. CASE inbox' = inbox
    BY <1>2, <2>1
  <2>2. CASE inbox' # inbox
    <3> DEFINE m == Head(outbox[p])
    <3>1. PICK h \in open : inbox' = Sent(inbox, h.source, Message(m.method, h.query, m.data))
      BY <1>10, <2>2 DEF KernelRelaysUp, Find
    <3>2. TakeFrom(p, m.method) /\ m.method \in {"response", "responseUpdate"} /\ ~BothNull(m)
      BY <1>10, <2>2 DEF KernelRelaysUp
    <3>3. Message(m.method, h.query, m.data) \in Incoming /\ h.source \in Parties
      <4>1. h.source \in Parties /\ h.query \in 1 .. MaxCalls
        BY <3>1 DEF TypeInv, KernelTypes, Served
      <4>2. m \in Outgoing
        BY <3>2, TakeFromTypes
      <4>3. Message(m.method, h.query, m.data) \in Incoming
        BY <3>2, <4>1, <4>2, RelayedTypes
      <4> QED
        BY <4>1, <4>3
    <3>4. PICK e \in Incoming, d \in Parties : e = Message(m.method, h.query, m.data) /\ d = h.source
      BY <3>3
    <3>5. inbox' = Sent(inbox, d, e) /\ e.method # "queryUpdate"
      BY <3>1, <3>2, <3>4 DEF Message
    <3> QED
      BY <1>7, <3>5
  <2> QED
    BY <2>1, <2>2
<1>11. ASSUME NEW p \in Parties, KernelOpens(p) PROVE Same
  <2>1. PICK o \in served' : Called(p, o, r)
    BY <1>11, OpensWhat
  <2>2. PICK e \in Incoming, t \in Incoming :
             /\ e.method = "moduleCall" /\ t.method = "responseNonce"
             /\ inbox'[r] \in {inbox[r], Append(inbox[r], e), Append(inbox[r], t), Append(Append(inbox[r], e), t)}
    BY <2>1 DEF Called
  <2>3. inbox[r] \in Seq(Incoming) /\ Append(inbox[r], e) \in Seq(Incoming) /\ e \notin Carries(k) /\ t \notin Carries(k)
    BY <2>2, Carried DEF TypeInv, BoxTypes
  <2>4. Keeps(inbox[r], Append(inbox[r], e), Carries(k)) /\ Keeps(inbox[r], Append(inbox[r], t), Carries(k))
    BY <2>3, KeepsAppend
  <2>5. Keeps(Append(inbox[r], e), Append(Append(inbox[r], e), t), Carries(k))
    BY <2>3, KeepsAppend
  <2>6. Keeps(inbox[r], Append(Append(inbox[r], e), t), Carries(k))
    BY <2>4, <2>5, KeepsTrans
  <2> QED
    BY <2>2, <2>4, <2>6, KeepsSame
<1>12. CASE UNCHANGED vars
  BY <1>1, <1>2, <1>12 DEF vars
<1> QED
  BY <1>1, <1>4, <1>5, <1>6, <1>8, <1>9, <1>10, <1>11, <1>12 DEF Next, Kernel

LEMMA DueFlow ==
  ASSUME TypeInv, CallInv, [Next]_vars, NEW g \in served
  PROVE  \/ Keeps(due[g.dest], due'[g.dest], Handed(g.nonce))
         \/ SetReceiveUpdate(g.dest, g.nonce)
         \/ RunMicrotask(g.dest) /\ Head(due[g.dest]).nonce = g.nonce
<1>0. g.dest \in Parties /\ g.nonce \in KernelNonces
  BY DEF TypeInv, KernelTypes, Served
<1>1. PICK r \in Parties, k \in KernelNonces : r = g.dest /\ k = g.nonce
  BY <1>0
<1> DEFINE Same == Keeps(due[r], due'[r], Handed(k))
<1>2. ASSUME due' = due PROVE Same
  BY <1>2, KeepsSame
<1>3. due \in [Parties -> Seq(Due)]
  BY DEF TypeInv, ModuleTypes
<1>4. ASSUME NEW p \in Parties, RunMicrotask(p) PROVE Same \/ (p = r /\ Head(due[p]).nonce = k)
  <2>1. due[p] # <<>> /\ due' = [due EXCEPT ![p] = Tail(@)]
    BY <1>4 DEF RunMicrotask
  <2>2. CASE p # r
    BY <1>3, <2>1, <2>2, KeepsSame
  <2>3. CASE p = r /\ Head(due[p]).nonce # k
    <3>1. due[p] \in Seq(Due) /\ Head(due[p]) \in Due
      BY <1>3, <2>1
    <3>2. Head(due[p]) \notin Handed(k)
      BY <2>3, <3>1, Carried
    <3>3. Keeps(due[p], Tail(due[p]), Handed(k))
      BY <2>1, <3>1, <3>2, KeepsTail
    <3> QED
      BY <1>3, <2>1, <2>3, <3>3
  <2> QED
    BY <2>2, <2>3
<1>5. ASSUME NEW p \in Parties, NEW j \in KernelNonces, SetReceiveUpdate(p, j) PROVE Same \/ (p = r /\ j = k)
  <2> DEFINE w == handlers[j].waiting
             ds == [i \in DOMAIN w |-> [nonce |-> j, data |-> w[i]]]
  <2>1. due' = [due EXCEPT ![p] = @ \o ds]
    BY <1>5 DEF SetReceiveUpdate
  <2>2. w \in Seq(Waiting)
    BY DEF TypeInv, ModuleTypes, HandlerState
  <2>3. ds \in Seq(Due) /\ \A i \in DOMAIN ds : ds[i].nonce = j
    <3> HIDE DEF w
    <3>1. \A i \in DOMAIN w : [nonce |-> j, data |-> w[i]] \in Due
      BY <2>2 DEF Due
    <3>2. DOMAIN w = 1 .. Len(w) /\ Len(w) \in Nat
      BY <2>2
    <3> QED
      BY <3>1, <3>2
  <2> HIDE DEF ds
  <2>4. CASE j # k
    <3>1. \A i \in DOMAIN ds : ds[i] \in Due
      BY <2>3
    <3>2. \A i \in DOMAIN ds : ds[i] \notin Handed(k)
      BY <2>3, <2>4, <3>1, Carried
    <3>3. Keeps(due[p], due[p] \o ds, Handed(k))
      BY <1>3, <2>3, <3>2, KeepsConcat
    <3> QED
      BY <1>3, <2>1, <3>3, KeepsSame
  <2>5. CASE j = k
    <3>1. PICK h \in served : h.nonce = j /\ h.dest = p
      BY <1>5 DEF SetReceiveUpdate, HandlerRuns
    <3>2. h = g
      BY <1>1, <2>5, <3>1 DEF CallInv
    <3> QED
      BY <1>1, <2>5, <3>1, <3>2
  <2> QED
    BY <2>4, <2>5
<1> HIDE DEF Same
<1>6. Same \/ (\E p \in Parties, j \in KernelNonces : SetReceiveUpdate(p, j)) \/ \E p \in Parties : RunMicrotask(p)
  BY <1>2 DEF Next, vars, moduleVars, Caller, Handler, Module, Kernel, NewKernelQuery, SendQueryUpdate,
       HandleResponseNonce, HandleResponseUpdate, HandleResponse, Respond, SendResponseUpdate,
       HandleCall, HandleQueryUpdate, HandlerReturns, HandlerThrows, KernelRefuses, KernelOpens,
       KernelRelaysDown, KernelRelaysUp
<1> QED
  BY <1>1, <1>4, <1>5, <1>6 DEF Same

\* What the module of k does to its updates.
LEMMA HandlerKeeps ==
  ASSUME TypeInv, CallInv, MentionInv, [Next]_vars, NEW g \in served,
         ~SetReceiveUpdate(g.dest, g.nonce),
         ~(HandleQueryUpdate(g.dest) /\ Head(inbox[g.dest]).nonce = g.nonce),
         ~(RunMicrotask(g.dest) /\ Head(due[g.dest]).nonce = g.nonce)
  PROVE  /\ handlers'[g.nonce].waiting = handlers[g.nonce].waiting
         /\ handlers'[g.nonce].receiver = handlers[g.nonce].receiver
         /\ got'[g.nonce] = got[g.nonce]
<1>0. g.dest \in Parties /\ g.nonce \in KernelNonces
  BY DEF TypeInv, KernelTypes, Served
<1>1. PICK r \in Parties, k \in KernelNonces : r = g.dest /\ k = g.nonce
  BY <1>0
<1>2. handlers \in [KernelNonces -> HandlerState]
  BY DEF TypeInv, ModuleTypes
<1> DEFINE Same == handlers'[k].waiting = handlers[k].waiting /\ handlers'[k].receiver = handlers[k].receiver /\ got'[k] = got[k]
<1>3. CASE \A p \in Parties : ~Touches(p, k)
  <2>1. Kept(k)
    BY <1>3, Untouched
  <2> QED
    BY <1>1, <2>1 DEF Kept
<1>4. CASE \E p \in Parties : Touches(p, k)
  <2>1. PICK p \in Parties : Touches(p, k)
    BY <1>4
  <2>2. p = r
    BY <1>1, <2>1, TouchServed DEF ServedBy, CallInv, MentionInv
  <2>3. CASE \E answer \in {"data", "err", "null"} : Respond(p, k, answer)
    <3>1. handlers' = [handlers EXCEPT ![k].responded = TRUE] /\ got' = got
      BY <2>3 DEF Respond, Responded
    <3> QED
      BY <1>1, <1>2, <3>1 DEF HandlerState
  <2>4. CASE SendResponseUpdate(p, k) \/ HandlerThrows(p)
    BY <1>1, <2>4 DEF SendResponseUpdate, HandlerThrows
  <2>5. CASE HandleCall(p) /\ Head(inbox[p]).nonce = k
    <3> DEFINE d == Head(inbox[p]).data
    <3>1. (handlers' = handlers \/ handlers' = [handlers EXCEPT ![k].method = d]) /\ got' = got
      BY <2>5 DEF HandleCall
    <3> HIDE DEF d
    <3> QED
      BY <1>1, <1>2, <3>1 DEF HandlerState
  <2> QED
    BY <1>1, <2>1, <2>2, <2>3, <2>4, <2>5 DEF Touches
<1> QED
  BY <1>3, <1>4

(***************************************************************************)
(* What waits for the kernel nonce.                                         *)
(***************************************************************************)
LEMMA EarlyStep ==
  ASSUME TypeInv, MentionInv, [Next]_vars, NEW q \in Queries, Early(q), q \notin Opened
  PROVE  Early(q)'
<1> USE ConstantTypes
<1>0. queries \in [Queries -> Query] /\ asked \in [Queries -> 0 .. MaxUpdates]
  BY DEF TypeInv, CallerTypes
<1>1. CASE queries'[q] = queries[q] /\ asked'[q] = asked[q]
  BY <1>1 DEF Early
<1>2. CASE Makes(q)
  <2>1. asked'[q] = asked[q] /\ queries'[q].kernelNonce = queries[q].kernelNonce /\ queries'[q].held = queries[q].held
    BY <1>0, <1>2 DEF Makes, Query
  <2> QED
    BY <2>1 DEF Early
<1>3. CASE SendQueryUpdate(q)
  <2> DEFINE u == Update(q, asked[q] + 1)
             h == queries[q].held
             t == Append(h, u)
  <2>1. queries[q].kernelNonce = 0
    BY DEF Early
  <2>2. queries' = [queries EXCEPT ![q].held = t] /\ asked' = [asked EXCEPT ![q] = asked[q] + 1]
    BY <1>3, <2>1 DEF SendQueryUpdate
  <2>3. u \in Waiting /\ h \in Seq(Waiting) /\ Len(h) = asked[q] /\ asked[q] \in Nat
    <3>1. asked[q] \in Nat /\ asked[q] + 1 \in Nat
      BY <1>0
    <3>2. h \in Seq(Waiting)
      BY <1>0 DEF Query
    <3>3. u \in Waiting
      BY <3>1 DEF Update, Waiting
    <3> QED
      BY <3>1, <3>2, <3>3 DEF Early
  <2> HIDE DEF t
  <2>4. queries'[q].held = t /\ queries'[q].kernelNonce = 0 /\ asked'[q] = asked[q] + 1
    BY <1>0, <2>1, <2>2 DEF Query
  <2>5. From(t, q, 0) /\ Len(t) = asked[q] + 1
    <3>1. \A i \in DOMAIN h : h[i] = Update(q, 0 + i)
      BY DEF Early, From
    <3> HIDE DEF h, u
    <3>2. \A i \in DOMAIN t : i \in Nat /\ ((i \in DOMAIN h /\ t[i] = h[i]) \/ (i = asked[q] + 1 /\ t[i] = u))
      BY <2>3 DEF t
    <3>3. Len(t) = asked[q] + 1
      BY <2>3 DEF t
    <3>4. 0 + (asked[q] + 1) = asked[q] + 1
      BY <2>3
    <3> QED
      BY <3>1, <3>2, <3>3, <3>4 DEF From, u
  <2> QED
    BY <2>4, <2>5 DEF Early
<1>4. CASE Hears(q)
  <2>1. PICK m \in InMail(q[1]) :
             /\ m = Head(inbox[q[1]]) /\ m.nonce = q[2] /\ q = <<q[1], m.nonce>>
             /\ \/ m.method = "responseNonce" /\ HandleResponseNonce(q[1])
                \/ m.method = "response" /\ HandleResponse(q[1])
    BY <1>4, HearsWhat
  <2>2. q[1] \in Parties
    OBVIOUS
  <2>3. m.method # "responseNonce"
    BY <2>1, <2>2 DEF MentionInv, InInv, InMention, Opened
  <2>4. (queries' = queries \/ queries' = [queries EXCEPT ![q].open = FALSE]) /\ asked' = asked
    BY <2>1, <2>3 DEF HandleResponse
  <2>5. queries'[q].kernelNonce = queries[q].kernelNonce /\ queries'[q].held = queries[q].held /\ asked'[q] = asked[q]
    BY <1>0, <2>4 DEF Query
  <2> QED
    BY <2>5 DEF Early
<1> QED
  BY <1>1, <1>2, <1>3, <1>4, CallerSteps

LEMMA CallMail ==
  ASSUME TypeInv, TypeInv', [Next]_vars, NEW p \in Parties, NEW m \in OutMail(p)', m.method = "moduleCall"
  PROVE  m \in OutMail(p) \/ (p \in Callers /\ m.nonce = queriesNonce[p] + 1 /\ queriesNonce[p] + 1 <= MaxCalls)
<1> USE ConstantTypes
<1>1. CASE \E c \in Callers, to \in Modules, method \in Methods, wants \in BOOLEAN : NewKernelQuery(c, to, method, wants)
  <2>1. PICK c \in Callers, to \in Modules, method \in Methods, wants \in BOOLEAN : NewKernelQuery(c, to, method, wants)
    BY <1>1
  <2> DEFINE n == queriesNonce[c] + 1
             e == Message("moduleCall", n, [module |-> to, method |-> method, sendKernelNonce |-> wants])
  <2>2. Post(c, e) /\ e.nonce = n /\ n <= MaxCalls
    BY <2>1 DEF NewKernelQuery, Message
  <2>3. e \in Outgoing /\ c \in Parties
    <3>1. n \in 1 .. MaxCalls
      BY <2>2 DEF TypeInv, CallerTypes
    <3> HIDE DEF n
    <3> QED
      BY <3>1 DEF Message, Outgoing
  <2> HIDE DEF e
  <2>4. m \in (IF p = c THEN OutMail(p) \cup {e} ELSE OutMail(p))
    BY <2>2, <2>3, PostMail
  <2> QED
    BY <2>2, <2>4
<1>2. CASE \A c \in Callers, to \in Modules, method \in Methods, wants \in BOOLEAN : ~NewKernelQuery(c, to, method, wants)
  <2>1. NoNewCall
    BY <1>2, QuietStep
  <2>2. PICK i \in DOMAIN outbox'[p] : m = outbox'[p][i]
    BY DEF OutMail
  <2>3. i \in Calls(p)'
    BY <2>2 DEF Calls
  <2>4. \E j \in Calls(p) : m = outbox[p][j]
    BY <2>1, <2>2, <2>3, CallsFrame
  <2> QED
    BY <2>4 DEF Calls, OutMail
<1> QED
  BY <1>1, <1>2

LEMMA HeldStep ==
  ASSUME TypeInv, TypeInv', CallInv, MentionInv, HeldInv, [Next]_vars
  PROVE  HeldInv'
<1> USE ConstantTypes
<1>0. queries \in [Queries -> Query]
  BY DEF TypeInv, CallerTypes
<1>1. ASSUME NEW q \in Queries PROVE queries'[q].kernelNonce # 0 => queries'[q].held = <<>>
  <2>0. queries[q].kernelNonce # 0 => queries[q].held = <<>>
    BY DEF HeldInv
  <2>1. CASE queries'[q] = queries[q]
    BY <2>0, <2>1
  <2>2. CASE Makes(q)
    <3>1. queries'[q].kernelNonce = queries[q].kernelNonce /\ queries'[q].held = queries[q].held
      BY <1>0, <2>2 DEF Makes, Query
    <3> QED
      BY <2>0, <3>1
  <2>3. CASE SendQueryUpdate(q)
    <3> DEFINE t == Append(queries[q].held, Update(q, asked[q] + 1))
    <3>1. (queries[q].kernelNonce = 0 /\ queries' = [queries EXCEPT ![q].held = t]) \/ queries' = queries
      BY <2>3 DEF SendQueryUpdate
    <3> HIDE DEF t
    <3>2. queries[q].kernelNonce = 0 /\ queries' = [queries EXCEPT ![q].held = t] => queries'[q].kernelNonce = 0
      BY <1>0 DEF Query
    <3> QED
      BY <2>0, <3>1, <3>2
  <2>4. CASE Hears(q)
    <3>1. PICK m \in InMail(q[1]) :
               /\ m = Head(inbox[q[1]]) /\ m.nonce = q[2] /\ q = <<q[1], m.nonce>>
               /\ \/ m.method = "responseNonce" /\ HandleResponseNonce(q[1])
                  \/ m.method = "response" /\ HandleResponse(q[1])
      BY <2>4, HearsWhat
    <3>2. CASE HandleResponseNonce(q[1])
      <4>1. queries' = queries \/ queries' = [queries EXCEPT ![q].kernelNonce = m.data, ![q].held = <<>>]
        BY <3>1, <3>2 DEF HandleResponseNonce
      <4>2. queries' = [queries EXCEPT ![q].kernelNonce = m.data, ![q].held = <<>>] => queries'[q].held = <<>>
        BY <1>0 DEF Query
      <4> QED
        BY <2>0, <4>1, <4>2
    <3>3. CASE HandleResponse(q[1])
      <4>1. queries' = queries \/ queries' = [queries EXCEPT ![q].open = FALSE]
        BY <3>1, <3>3 DEF HandleResponse
      <4>2. queries'[q].kernelNonce = queries[q].kernelNonce /\ queries'[q].held = queries[q].held
        BY <1>0, <4>1 DEF Query
      <4> QED
        BY <2>0, <4>2
    <3> QED
      BY <3>1, <3>2, <3>3
  <2> QED
    BY <2>1, <2>2, <2>3, <2>4, CallerSteps
<1>2. ASSUME NEW p \in Parties, NEW m \in OutMail(p)', m.method = "moduleCall" PROVE \E q \in Queries : q = <<p, m.nonce>> /\ Early(q)'
  <2>1. CASE m \in OutMail(p)
    <3>1. PICK i \in DOMAIN outbox[p] : m = outbox[p][i]
      BY <2>1 DEF OutMail
    <3>2. i \in Calls(p)
      BY <1>2, <3>1 DEF Calls
    <3>3. p \in Callers /\ m.nonce \in 1 .. MaxCalls
      <4>1. m \in Outgoing
        BY <3>1 DEF TypeInv, BoxTypes
      <4> QED
        BY <1>2, <3>1, <3>2, <4>1, OutgoingTypes DEF CallInv
    <3>4. PICK q \in Queries : q = <<p, m.nonce>>
      BY <3>3 DEF Queries
    <3>5. q \notin Opened
      BY <3>1, <3>2, <3>4 DEF CallInv
    <3>6. Early(q)
      BY <1>2, <2>1, <3>4 DEF HeldInv
    <3> QED
      BY <3>4, <3>5, <3>6, EarlyStep
  <2>2. CASE p \in Callers /\ m.nonce = queriesNonce[p] + 1 /\ queriesNonce[p] + 1 <= MaxCalls
    <3>1. queriesNonce[p] \in Nat
      BY <2>2 DEF TypeInv, CallerTypes
    <3>2. m.nonce \in 1 .. MaxCalls /\ m.nonce > queriesNonce[p] /\ ~(m.nonce <= queriesNonce[p])
      BY <2>2, <3>1
    <3>3. PICK q \in Queries : q = <<p, m.nonce>>
      BY <2>2, <3>2 DEF Queries
    <3>4. q[1] = p /\ q[2] = m.nonce
      BY <3>3
    <3>5. queries[q] = NoQuery /\ asked[q] = 0
      BY <3>2, <3>4 DEF MentionInv, FreshInv
    <3>6. Early(q)
      <4>1. Len(<<>>) = 0 /\ DOMAIN <<>> = {}
        OBVIOUS
      <4> QED
        BY <3>5, <4>1 DEF Early, NoQuery, From
    <3>7. q \notin Opened
      <4> SUFFICES ASSUME NEW g \in served, AskedBy(g) = q PROVE FALSE
        BY DEF Opened
      <4>1. g.source = p /\ g.query = m.nonce
        BY <3>4 DEF AskedBy
      <4> QED
        BY <3>2, <4>1 DEF CallInv
    <3> QED
      BY <3>3, <3>6, <3>7, EarlyStep
  <2> QED
    BY <1>2, <2>1, <2>2, CallMail
<1> QED
  BY <1>1, <1>2 DEF HeldInv

(***************************************************************************)
(* The updates of one query, from the caller to the handler.                *)
(***************************************************************************)
LEMMA FlowTypes ==
  ASSUME TypeInv, CallInv, NEW g \in served
  PROVE  /\ g.nonce \in KernelNonces /\ g.source \in Callers /\ g.source \in Parties /\ g.dest \in Parties
         /\ g.query \in 1 .. MaxCalls /\ AskedBy(g) \in Queries
         /\ inbox[g.dest] \in Seq(Incoming) /\ outbox[g.source] \in Seq(Outgoing) /\ due[g.dest] \in Seq(Due)
         /\ handlers[g.nonce].waiting \in Seq(Waiting) /\ got[g.nonce] \in Seq(Waiting)
         /\ Len(handlers[g.nonce].waiting) \in Nat /\ Len(got[g.nonce]) \in Nat
         /\ queries[AskedBy(g)].held \in Seq(Waiting) /\ Len(queries[AskedBy(g)].held) \in Nat
         /\ asked[AskedBy(g)] \in Nat
<1> USE ConstantTypes
<1>1. g.nonce \in KernelNonces /\ g.source \in Callers /\ g.source \in Parties /\ g.dest \in Parties /\ g.query \in 1 .. MaxCalls
  BY DEF TypeInv, KernelTypes, Served
<1>2. AskedBy(g) \in Queries
  BY <1>1 DEF AskedBy, Queries
<1>3. inbox[g.dest] \in Seq(Incoming) /\ outbox[g.source] \in Seq(Outgoing) /\ due[g.dest] \in Seq(Due)
  BY <1>1 DEF TypeInv, BoxTypes, ModuleTypes
<1>4. handlers[g.nonce].waiting \in Seq(Waiting) /\ got[g.nonce] \in Seq(Waiting)
  BY <1>1 DEF TypeInv, ModuleTypes, HandlerState
<1>5. queries[AskedBy(g)].held \in Seq(Waiting) /\ asked[AskedBy(g)] \in Nat
  BY <1>2 DEF TypeInv, CallerTypes, Query
<1>6. \A s \in Seq(Waiting) : Len(s) \in Nat
  OBVIOUS
<1> QED
  BY <1>1, <1>2, <1>3, <1>4, <1>5, <1>6

LEMMA FromAppend ==
  ASSUME NEW q, NEW s \in Seq(Waiting), NEW a \in Nat, From(s, q, a), NEW u \in Waiting, NEW n \in Nat, u = Update(q, n),
         n = a + Len(s) + 1
  PROVE  From(Append(s, u), q, a) /\ Len(Append(s, u)) = Len(s) + 1 /\ Append(s, u) \in Seq(Waiting)
<1> DEFINE t == Append(s, u)
           l == Len(s)
<1>1. /\ l \in Nat /\ DOMAIN t = DOMAIN s \cup {l + 1} /\ t[l + 1] = u /\ Len(t) = l + 1 /\ t \in Seq(Waiting)
      /\ \A i \in DOMAIN s : t[i] = s[i]
  OBVIOUS
<1> HIDE DEF t, l
<1>2. n = a + (l + 1)
  BY <1>1 DEF l
<1>3. From(t, q, a)
  BY <1>1, <1>2 DEF From
<1> QED
  BY <1>1, <1>3 DEF t, l

LEMMA FromEmpty == \A q, a : From(<<>>, q, a) /\ Len(<<>>) = 0
<1>1. Len(<<>>) = 0 /\ DOMAIN <<>> = {}
  OBVIOUS
<1> QED
  BY <1>1 DEF From

LEMMA FlowingStep ==
  ASSUME TypeInv, TypeInv', CallInv, MentionInv, ComingInv, [Next]_vars, NEW g \in served, Flowing(g)'
  PROVE  Flowing(g)
<1>1. g.nonce \in KernelNonces
  BY FlowTypes
<1>2. CASE Coming(g)'
  BY <1>2, ComingUntouched DEF Flowing
<1>3. CASE g.nonce \in incomingQueries' /\ g.nonce \notin incomingQueries
  <2>1. PICK p \in Parties : Touches(p, g.nonce)
    BY <1>1, <1>3, Untouched DEF Kept
  <2>2. p = g.dest
    BY <2>1, TouchServed DEF ServedBy, CallInv, MentionInv
  <2>3. HandleCall(p) /\ Head(inbox[p]).nonce = g.nonce
    BY <1>3, <2>1 DEF Touches, Respond, SendResponseUpdate, SetReceiveUpdate, HandleQueryUpdate, RunMicrotask, HandlerThrows,
         RespondErr, ClearIncomingQuery
  <2>4. inbox[p] \in Seq(Incoming) /\ inbox[p] # <<>> /\ Head(inbox[p]).method = "moduleCall"
    BY <2>3, TakeTypes DEF HandleCall
  <2>5. 1 \in CallAt(inbox[p], g.nonce)
    BY <2>3, <2>4, TailFacts DEF CallAt
  <2> QED
    BY <2>2, <2>5 DEF Flowing, Coming
<1> QED
  BY <1>2, <1>3 DEF Flowing

LEMMA OpenStays ==
  ASSUME TypeInv, TypeInv', CallInv, [Next]_vars, NEW g \in served, g \in open'
  PROVE  g \in open
<1>1. CASE open' \subseteq open
  BY <1>1
<1>2. CASE \E p \in Parties : KernelOpens(p)
  <2>1. PICK p \in Parties, h \in served' : Opens(p, h)
    BY <1>2, OpensWhat
  <2>2. h # g
    BY <2>1, NewNonce
  <2> QED
    BY <2>1, <2>2 DEF Opens
<1> QED
  BY <1>1, <1>2, KernelSteps

\* Most steps leave the updates of g where they are.
LEMMA FlowRest ==
  ASSUME TypeInv, TypeInv', CallInv, MentionInv, ComingInv, [Next]_vars, NEW g \in served, Flows(g),
         handlers'[g.nonce].waiting = handlers[g.nonce].waiting,
         handlers'[g.nonce].receiver = handlers[g.nonce].receiver,
         got'[g.nonce] = got[g.nonce],
         Keeps(due[g.dest], due'[g.dest], Handed(g.nonce)),
         Keeps(inbox[g.dest], inbox'[g.dest], Carries(g.nonce)),
         Keeps(outbox[g.source], outbox'[g.source], Carries(g.nonce)),
         queries'[AskedBy(g)].held = queries[AskedBy(g)].held,
         asked'[AskedBy(g)] = asked[AskedBy(g)]
  PROVE  Flows(g)'
<1>1. PICK a \in Nat, b \in Nat, c \in Nat : Flow(g, a, b, c)
  BY DEF Flows
<1>2. Flowing(g)' => Flowing(g)
  BY FlowingStep
<1>3. g \in open' => g \in open
  BY OpenStays
<1>4. a + Len(handlers[g.nonce].waiting) \in Nat /\ Len(got[g.nonce]) \in Nat
  BY FlowTypes
<1>5. Run(due'[g.dest], Handed(g.nonce), HandedAs(g.nonce, AskedBy(g)), Len(got[g.nonce]), a)
  BY <1>1, <1>4 DEF Flow, Keeps
<1>6. Flowing(g)' => Run(inbox'[g.dest], Carries(g.nonce), CarriedAs(g.nonce, AskedBy(g)), a + Len(handlers[g.nonce].waiting), b)
  BY <1>1, <1>2, <1>4 DEF Flow, Keeps
<1>7. Flowing(g)' /\ g \in open' => Run(outbox'[g.source], Carries(g.nonce), CarriedAs(g.nonce, AskedBy(g)), b, c)
  BY <1>1, <1>2, <1>3 DEF Flow, Keeps
<1>8. Flow(g, a, b, c)'
  <2>1. AskedBy(g)' = AskedBy(g)
    BY DEF AskedBy
  <2> QED
    BY <1>1, <1>2, <1>3, <1>5, <1>6, <1>7, <2>1 DEF Flow
<1> QED
  BY <1>8 DEF Flows, AskedBy

\* sendUpdate: the update waits, is posted, or is dropped.
LEMMA FlowSend ==
  ASSUME TypeInv, TypeInv', CallInv, MentionInv, ComingInv, HeldInv, [Next]_vars, NEW g \in served, Flows(g),
         SendQueryUpdate(AskedBy(g))
  PROVE  Flows(g)'
<1> DEFINE q == AskedBy(g)
           u == Update(q, asked[q] + 1)
           k == g.nonce
<1>1. PICK a \in Nat, b \in Nat, c \in Nat : Flow(g, a, b, c)
  BY DEF Flows
<1>2. /\ k \in KernelNonces /\ q \in Queries /\ q[1] = g.source /\ g.source \in Callers
      /\ queries[q].held \in Seq(Waiting) /\ asked[q] \in Nat /\ queries[q].kernelNonce \in {0} \cup KernelNonces
      /\ queries \in [Queries -> Query] /\ asked \in [Queries -> 0 .. MaxUpdates] /\ outbox[g.source] \in Seq(Outgoing)
      /\ q = <<g.source, g.query>> /\ q[2] = g.query /\ g.source \in Parties
  BY FlowTypes DEF TypeInv, CallerTypes, Query, AskedBy
<1>3. /\ UNCHANGED <<inbox, due, handlers, got, incomingQueries, open, served>>
      /\ asked' = [asked EXCEPT ![q] = asked[q] + 1]
  BY DEF SendQueryUpdate, kernelVars, moduleVars
<1>4. asked'[q] = asked[q] + 1 /\ \A n \in Nat : n <= asked[q] => n <= asked'[q]
  BY <1>2, <1>3
<1>5. u \in Waiting
  BY <1>2 DEF Update, Waiting
<1>6. AskedBy(g)' = AskedBy(g) /\ Flowing(g)' = Flowing(g)
  BY <1>3 DEF AskedBy, Flowing, Coming
<1>7. From(got[k], q, 0) /\ (handlers[k].receiver => handlers[k].waiting = <<>>)
  BY DEF Flows
<1>8. /\ Run(due[g.dest], Handed(k), HandedAs(k, q), Len(got[k]), a)
      /\ From(handlers[k].waiting, q, a) /\ a + Len(handlers[k].waiting) <= asked'[q]
      /\ Flowing(g) => /\ b <= asked'[q]
                       /\ Run(inbox[g.dest], Carries(k), CarriedAs(k, q), a + Len(handlers[k].waiting), b)
  <2>1. a + Len(handlers[k].waiting) \in Nat
    BY FlowTypes
  <2> QED
    BY <1>1, <1>4, <2>1 DEF Flow
<1>9. Flowing(g) /\ g \in open =>
          /\ Run(outbox[g.source], Carries(k), CarriedAs(k, q), b, c)
          /\ From(queries[q].held, q, c)
          /\ asked[q] = c + Len(queries[q].held)
  BY <1>1 DEF Flow
<1>10. CASE queries[q].kernelNonce = 0
  <2> DEFINE t == Append(queries[q].held, u)
  <2>1. queries' = [queries EXCEPT ![q].held = t] /\ outbox' = outbox
    BY <1>10 DEF SendQueryUpdate
  <2>2. queries'[q].held = t
    <3> HIDE DEF t, q
    <3> QED
      BY <1>2, <2>1 DEF Query
  <2>3. Flowing(g) /\ g \in open => From(t, q, c) /\ asked[q] + 1 = c + Len(t)
    <3> SUFFICES ASSUME Flowing(g), g \in open PROVE From(t, q, c) /\ asked[q] + 1 = c + Len(t)
      OBVIOUS
    <3> DEFINE l == Len(queries[q].held)
    <3>1. asked[q] = c + l /\ From(queries[q].held, q, c) /\ l \in Nat
      BY <1>2, <1>9
    <3>2. asked[q] + 1 = c + l + 1 /\ asked[q] + 1 = c + (l + 1) /\ asked[q] + 1 \in Nat
      BY <3>1
    <3>3. From(t, q, c) /\ Len(t) = l + 1
      BY <1>2, <1>5, <3>1, <3>2, FromAppend
    <3> QED
      BY <3>2, <3>3
  <2>4. Flow(g, a, b, c)'
    BY <1>3, <1>4, <1>6, <1>8, <1>9, <2>1, <2>2, <2>3 DEF Flow
  <2> QED
    BY <1>3, <1>6, <1>7, <2>4 DEF Flows
<1>11. CASE queries[q].kernelNonce # 0 /\ queries[q].open
  <2>1. queries' = queries /\ PostUpdates(q, queries[q].kernelNonce, <<u>>)
    BY <1>11 DEF SendQueryUpdate
  <2>2. queries[q].kernelNonce = k /\ queries[q].held = <<>>
    <3>1. PICK h \in served : AskedBy(h) = q /\ h.nonce = queries[q].kernelNonce
      BY <1>2, <1>11 DEF MentionInv, PlaceInv
    <3>2. h = g
      BY <3>1 DEF CallInv
    <3> QED
      BY <1>2, <1>11, <3>1, <3>2 DEF HeldInv
  <2>3. <<u>> \in Seq(Waiting) /\ Len(<<u>>) = 1 /\ DOMAIN <<u>> = {1} /\ <<u>>[1] = u
    BY <1>5
  <2>4. PICK t \in Seq(Outgoing) :
             /\ outbox'[g.source] = outbox[g.source] \o t
             /\ DOMAIN t = {1} /\ Len(t) = 1 /\ t[1] = Message("queryUpdate", k, u)
    <3>1. PICK us \in Seq(Waiting) : us = <<u>>
      BY <2>3
    <3>2. PostUpdates(q, k, us)
      BY <2>1, <2>2, <3>1
    <3> HIDE DEF u, q, k
    <3>3. PICK t \in Seq(Outgoing) :
               /\ outbox'[q[1]] = outbox[q[1]] \o t
               /\ DOMAIN t = DOMAIN us /\ Len(t) = Len(us)
               /\ \A i \in DOMAIN us : t[i] = Message("queryUpdate", k, us[i])
      BY <1>2, <3>2, PostedUpdates
    <3> QED
      BY <1>2, <2>3, <3>1, <3>3
  <2>5. Flowing(g) /\ g \in open => Run(outbox'[g.source], Carries(k), CarriedAs(k, q), b, c + 1) /\ asked'[q] = c + 1
    <3> SUFFICES ASSUME Flowing(g), g \in open
                 PROVE  Run(outbox'[g.source], Carries(k), CarriedAs(k, q), b, c + 1) /\ asked'[q] = c + 1
      OBVIOUS
    <3>1. asked[q] = c
      BY <1>9, <2>2, FromEmpty
    <3>2. t[1] \in Carries(k) /\ t[1] = CarriedAs(k, q)[c + 1]
      <4>1. c + 1 \in Nat
        OBVIOUS
      <4>2. u = Update(q, c + 1)
        BY <3>1
      <4> HIDE DEF u, q, k
      <4>3. PICK n \in Nat : n = c + 1
        BY <4>1
      <4>4. CarriedAs(k, q)[n] = Message("queryUpdate", k, Update(q, n)) /\ CarriedAs(k, q)[n] \in Carries(k)
        <5>1. k \in KernelNonces /\ q \in Queries
          BY <1>2
        <5> QED
          BY <5>1, CarriedAt
      <4> QED
        BY <2>4, <4>2, <4>3, <4>4
    <3>3. \A i \in DOMAIN t : t[i] \in Carries(k) /\ t[i] = CarriedAs(k, q)[c + i]
      BY <2>4, <3>2
    <3>4. Run(outbox[g.source], Carries(k), CarriedAs(k, q), b, c)
      BY <1>9
    <3> HIDE DEF q, k
    <3>5. Run(outbox[g.source] \o t, Carries(k), CarriedAs(k, q), b, c + Len(t))
      BY <1>2, <3>3, <3>4, RunConcat
    <3> QED
      BY <1>4, <2>4, <3>1, <3>5
  <2>6. From(queries[q].held, q, c + 1) /\ c + 1 = (c + 1) + Len(queries[q].held) /\ c + 1 \in Nat
    BY <2>2, FromEmpty
  <2>7. Flow(g, a, b, c + 1)'
    BY <1>3, <1>4, <1>6, <1>8, <2>1, <2>5, <2>6 DEF Flow
  <2> QED
    BY <1>3, <1>6, <1>7, <2>6, <2>7 DEF Flows
<1>12. CASE queries[q].kernelNonce # 0 /\ ~queries[q].open
  <2>1. UNCHANGED <<queries, outbox>>
    BY <1>12 DEF SendQueryUpdate
  <2>2. g \notin open
    <3>1. q[2] <= queriesNonce[q[1]]
      BY <1>2 DEF CallInv
    <3> QED
      BY <1>2, <1>12, <3>1 DEF MentionInv, SettledInv, Settled
  <2>3. Flow(g, a, b, c)'
    BY <1>3, <1>4, <1>6, <1>8, <2>1, <2>2 DEF Flow
  <2> QED
    BY <1>3, <1>6, <1>7, <2>3 DEF Flows
<1> QED
  BY <1>10, <1>11, <1>12

\* The kernel nonce arrives: what waited for it is posted.
LEMMA FlowNonce ==
  ASSUME TypeInv, TypeInv', CallInv, MentionInv, ComingInv, HeldInv, [Next]_vars, NEW g \in served, Flows(g),
         HandleResponseNonce(g.source), Head(inbox[g.source]).nonce = g.query
  PROVE  Flows(g)'
<1> DEFINE q == AskedBy(g)
           k == g.nonce
           m == Head(inbox[g.source])
           us == queries[q].held
<1>1. PICK a \in Nat, b \in Nat, c \in Nat : Flow(g, a, b, c)
  BY DEF Flows
<1>2. /\ k \in KernelNonces /\ q \in Queries /\ q[1] = g.source /\ g.source \in Callers /\ g.source \in Parties
      /\ us \in Seq(Waiting) /\ asked[q] \in Nat /\ Len(us) \in Nat /\ g.dest \in Parties
      /\ queries \in [Queries -> Query] /\ outbox[g.source] \in Seq(Outgoing) /\ q = <<g.source, g.query>>
  BY FlowTypes DEF TypeInv, CallerTypes, AskedBy
<1>3. UNCHANGED <<due, handlers, got, incomingQueries, open, served, asked>>
  BY DEF HandleResponseNonce, kernelVars, moduleVars
<1>4. Take(g.source, "responseNonce") /\ q = <<g.source, m.nonce>>
  BY <1>2 DEF HandleResponseNonce
<1>5. Keeps(inbox[g.dest], inbox'[g.dest], Carries(k))
  BY <1>2, <1>4, Took
<1>6. AskedBy(g)' = AskedBy(g) /\ (Flowing(g)' => Flowing(g))
  BY FlowingStep DEF AskedBy
<1>7. From(got[k], q, 0) /\ (handlers[k].receiver => handlers[k].waiting = <<>>)
  BY DEF Flows
<1>8. /\ Run(due[g.dest], Handed(k), HandedAs(k, q), Len(got[k]), a)
      /\ From(handlers[k].waiting, q, a) /\ a + Len(handlers[k].waiting) <= asked[q]
      /\ Flowing(g)' => /\ b <= asked[q]
                        /\ Run(inbox'[g.dest], Carries(k), CarriedAs(k, q), a + Len(handlers[k].waiting), b)
  <2>1. a + Len(handlers[k].waiting) \in Nat
    BY FlowTypes
  <2> QED
    BY <1>1, <1>5, <1>6, <2>1 DEF Flow, Keeps
<1>9. Flowing(g)' /\ g \in open =>
          /\ Run(outbox[g.source], Carries(k), CarriedAs(k, q), b, c)
          /\ From(us, q, c)
          /\ asked[q] = c + Len(us)
  BY <1>1, <1>6 DEF Flow
<1>10. CASE UNCHANGED <<queries, outbox>>
  <2>1. Flow(g, a, b, c)'
    BY <1>3, <1>6, <1>8, <1>9, <1>10 DEF Flow
  <2> QED
    BY <1>3, <1>6, <1>7, <2>1 DEF Flows
<1>11. CASE ~UNCHANGED <<queries, outbox>>
  <2>1. queries' = [queries EXCEPT ![q].kernelNonce = m.data, ![q].held = <<>>] /\ PostUpdates(q, m.data, us)
    BY <1>4, <1>11 DEF HandleResponseNonce
  <2>2. m.data = k
    <3>1. InMention(served, g.source, m) /\ m.method = "responseNonce"
      BY <1>2, <1>4, HeadMention, TakeTypes DEF MentionInv
    <3>2. PICK h \in served : h.nonce = m.data /\ AskedBy(h) = q
      BY <1>4, <3>1 DEF InMention
    <3>3. h = g
      BY <3>2 DEF CallInv
    <3> QED
      BY <3>2, <3>3
  <2>3. queries'[q].held = <<>>
    <3> HIDE DEF m, q
    <3> QED
      BY <1>2, <2>1 DEF Query
  <2>4. PICK t \in Seq(Outgoing) :
             /\ outbox'[g.source] = outbox[g.source] \o t
             /\ DOMAIN t = DOMAIN us /\ Len(t) = Len(us)
             /\ \A i \in DOMAIN us : t[i] = Message("queryUpdate", k, us[i])
    <3> HIDE DEF us, q, k, m
    <3> QED
      BY <1>2, <2>1, <2>2, PostedUpdates
  <2>5. Flowing(g)' /\ g \in open => Run(outbox'[g.source], Carries(k), CarriedAs(k, q), b, c + Len(us)) /\ asked[q] = c + Len(us)
    <3> SUFFICES ASSUME Flowing(g)', g \in open
                 PROVE  Run(outbox'[g.source], Carries(k), CarriedAs(k, q), b, c + Len(us)) /\ asked[q] = c + Len(us)
      OBVIOUS
    <3>1. asked[q] = c + Len(us) /\ From(us, q, c) /\ Run(outbox[g.source], Carries(k), CarriedAs(k, q), b, c)
      BY <1>9
    <3>2. \A i \in DOMAIN us : us[i] = Update(q, c + i) /\ c + i \in Nat
      <4>1. \A i \in DOMAIN us : us[i] = Update(q, c + i)
        BY <3>1 DEF From
      <4>2. \A v \in Seq(Waiting) : \A i \in DOMAIN v : c + i \in Nat
        OBVIOUS
      <4> QED
        BY <1>2, <4>1, <4>2
    <3> HIDE DEF us, q, k
    <3>3. ASSUME NEW i \in DOMAIN t PROVE t[i] \in Carries(k) /\ t[i] = CarriedAs(k, q)[c + i]
      <4>1. PICK n \in Nat : n = c + i
        BY <2>4, <3>2
      <4>2. CarriedAs(k, q)[n] = Message("queryUpdate", k, Update(q, n)) /\ CarriedAs(k, q)[n] \in Carries(k)
        <5>1. k \in KernelNonces /\ q \in Queries
          BY <1>2
        <5> QED
          BY <5>1, CarriedAt
      <4> QED
        BY <2>4, <3>2, <4>1, <4>2
    <3>4. Run(outbox[g.source] \o t, Carries(k), CarriedAs(k, q), b, c + Len(t))
      BY <1>2, <3>1, <3>3, RunConcat
    <3> QED
      BY <2>4, <3>1, <3>4
  <2>6. c + Len(us) \in Nat /\ c + Len(us) = (c + Len(us)) + 0
    BY <1>2
  <2>7. From(<<>>, q, c + Len(us)) /\ Len(<<>>) = 0
    BY FromEmpty
  <2>8. PICK e \in Nat : e = c + Len(us)
    BY <2>6
  <2>9. Flow(g, a, b, e)'
    BY <1>3, <1>6, <1>8, <2>3, <2>5, <2>6, <2>7, <2>8 DEF Flow
  <2> QED
    BY <1>3, <1>6, <1>7, <2>9 DEF Flows
<1> QED
  BY <1>10, <1>11

\* The receiver is set: what waited for it becomes microtasks.
LEMMA FlowReceive ==
  ASSUME TypeInv, TypeInv', CallInv, MentionInv, ComingInv, [Next]_vars, NEW g \in served, Flows(g),
         SetReceiveUpdate(g.dest, g.nonce)
  PROVE  Flows(g)'
<1> DEFINE q == AskedBy(g)
           k == g.nonce
           w == handlers[k].waiting
           ds == [i \in DOMAIN w |-> [nonce |-> k, data |-> w[i]]]
<1>1. PICK a \in Nat, b \in Nat, c \in Nat : Flow(g, a, b, c)
  BY DEF Flows
<1>2. /\ k \in KernelNonces /\ q \in Queries /\ g.dest \in Parties
      /\ w \in Seq(Waiting) /\ Len(w) \in Nat /\ Len(got[k]) \in Nat
      /\ handlers \in [KernelNonces -> HandlerState] /\ due \in [Parties -> Seq(Due)]
  BY FlowTypes DEF TypeInv, ModuleTypes
<1>3. /\ UNCHANGED <<outbox, inbox, queries, asked, got, incomingQueries, open, served>>
      /\ handlers' = [handlers EXCEPT ![k].receiver = TRUE, ![k].waiting = <<>>]
      /\ due' = [due EXCEPT ![g.dest] = @ \o ds]
  BY DEF SetReceiveUpdate, callerVars, kernelVars
<1>4. AskedBy(g)' = AskedBy(g) /\ Flowing(g)' = Flowing(g)
  BY <1>3 DEF AskedBy, Flowing, Coming
<1>5. From(got[k], q, 0) /\ From(w, q, a) /\ Run(due[g.dest], Handed(k), HandedAs(k, q), Len(got[k]), a)
  BY <1>1 DEF Flows, Flow
<1>6. handlers'[k].waiting = <<>>
  <2> HIDE DEF k
  <2> QED
    BY <1>2, <1>3 DEF HandlerState
<1>7. ds \in Seq(Due) /\ Len(ds) = Len(w) /\ DOMAIN ds = DOMAIN w /\ \A i \in DOMAIN w : ds[i] = [nonce |-> k, data |-> w[i]]
  <2> HIDE DEF w, k
  <2>1. \A i \in DOMAIN w : [nonce |-> k, data |-> w[i]] \in Due
    BY <1>2 DEF Due
  <2>2. DOMAIN w = 1 .. Len(w) /\ Len(w) \in Nat
    BY <1>2
  <2> QED
    BY <2>1, <2>2
<1> HIDE DEF ds, w, k, q
<1>8. ASSUME NEW i \in DOMAIN ds PROVE ds[i] \in Handed(k) /\ ds[i] = HandedAs(k, q)[a + i]
  <2>1. w[i] = Update(q, a + i)
    BY <1>5, <1>7 DEF From
  <2>2. a + i \in Nat
    <3>1. \A v \in Seq(Waiting) : \A j \in DOMAIN v : a + j \in Nat
      OBVIOUS
    <3> QED
      BY <1>2, <1>7, <3>1
  <2>3. PICK n \in Nat : n = a + i
    BY <2>2
  <2>4. HandedAs(k, q)[n] = [nonce |-> k, data |-> Update(q, n)] /\ HandedAs(k, q)[n] \in Handed(k)
    BY <1>2, CarriedAt
  <2> QED
    BY <1>7, <2>1, <2>3, <2>4
<1>9. Run(due[g.dest] \o ds, Handed(k), HandedAs(k, q), Len(got[k]), a + Len(w))
  BY <1>2, <1>5, <1>7, <1>8, RunConcat
<1>10. due'[g.dest] = due[g.dest] \o ds
  BY <1>2, <1>3
<1>11. PICK d \in Nat : d = a + Len(w)
  BY <1>2
<1>12. d + 0 = d /\ From(<<>>, q, d) /\ Len(<<>>) = 0
  BY FromEmpty
<1>13. Flow(g, d, b, c)'
  <2>1. d <= asked[q]
    BY <1>1, <1>11 DEF Flow, q, k, w
  <2>2. Flowing(g) => b <= asked[q] /\ Run(inbox[g.dest], Carries(k), CarriedAs(k, q), d, b)
    BY <1>1, <1>11 DEF Flow, q, k, w
  <2>3. Flowing(g) /\ g \in open =>
            /\ Run(outbox[g.source], Carries(k), CarriedAs(k, q), b, c)
            /\ From(queries[q].held, q, c)
            /\ asked[q] = c + Len(queries[q].held)
    BY <1>1 DEF Flow, q, k
  <2> QED
    BY <1>3, <1>4, <1>6, <1>9, <1>10, <1>11, <1>12, <2>1, <2>2, <2>3 DEF Flow, q, k
<1>14. (handlers[k].receiver => handlers[k].waiting = <<>>)'
  BY <1>6 DEF k
<1> QED
  BY <1>3, <1>4, <1>5, <1>6, <1>13 DEF Flows, q, k

\* A microtask hands the next update to the handler.
LEMMA FlowRun ==
  ASSUME TypeInv, TypeInv', CallInv, MentionInv, ComingInv, [Next]_vars, NEW g \in served, Flows(g),
         RunMicrotask(g.dest), Head(due[g.dest]).nonce = g.nonce
  PROVE  Flows(g)'
<1> DEFINE q == AskedBy(g)
           k == g.nonce
           e == Head(due[g.dest])
           l == Len(got[k])
<1>1. PICK a \in Nat, b \in Nat, c \in Nat : Flow(g, a, b, c)
  BY DEF Flows
<1>2. /\ k \in KernelNonces /\ q \in Queries /\ g.dest \in Parties
      /\ got[k] \in Seq(Waiting) /\ l \in Nat /\ due[g.dest] \in Seq(Due)
      /\ got \in [KernelNonces -> Seq(Waiting)] /\ due \in [Parties -> Seq(Due)]
  BY FlowTypes DEF TypeInv, ModuleTypes
<1>3. /\ UNCHANGED <<outbox, inbox, queries, asked, handlers, incomingQueries, open, served>>
      /\ due[g.dest] # <<>> /\ due' = [due EXCEPT ![g.dest] = Tail(@)]
      /\ got' = [got EXCEPT ![k] = Append(@, e.data)]
  BY DEF RunMicrotask, callerVars, kernelVars
<1>4. AskedBy(g)' = AskedBy(g) /\ Flowing(g)' = Flowing(g)
  BY <1>3 DEF AskedBy, Flowing, Coming
<1>5. From(got[k], q, 0) /\ Run(due[g.dest], Handed(k), HandedAs(k, q), l, a)
  BY <1>1 DEF Flows, Flow
<1>6. e \in Due /\ e \in Handed(k)
  <2>1. e \in Due
    BY <1>2, <1>3
  <2> QED
    BY <1>2, <2>1, Carried
<1> HIDE DEF e, k, q, l
<1>7. e = HandedAs(k, q)[l + 1] /\ Run(Tail(due[g.dest]), Handed(k), HandedAs(k, q), l + 1, a)
  BY <1>1, <1>2, <1>3, <1>5, <1>6, RunTail DEF e
<1>8. PICK n \in Nat : n = l + 1
  BY <1>2
<1>9. e.data = Update(q, n)
  BY <1>2, <1>7, <1>8, CarriedAt
<1>10. e.data \in Waiting
  BY <1>6 DEF Due
<1>11. got'[k] = Append(got[k], e.data) /\ due'[g.dest] = Tail(due[g.dest])
  BY <1>2, <1>3
<1>12. n = 0 + Len(got[k]) + 1
  BY <1>2, <1>8 DEF l
<1>13. From(got'[k], q, 0) /\ Len(got'[k]) = n
  BY <1>2, <1>5, <1>8, <1>9, <1>10, <1>11, <1>12, FromAppend DEF l
<1>14. Flow(g, a, b, c)'
  BY <1>1, <1>3, <1>4, <1>7, <1>8, <1>11, <1>13 DEF Flow, q, k
<1> QED
  BY <1>3, <1>4, <1>13, <1>14 DEF Flows, q, k

\* An update arrives at the module: it is handed on, waits, or is dropped.
LEMMA FlowHandle ==
  ASSUME TypeInv, TypeInv', CallInv, MentionInv, ComingInv, [Next]_vars, NEW g \in served, Flows(g),
         HandleQueryUpdate(g.dest), Head(inbox[g.dest]).nonce = g.nonce
  PROVE  Flows(g)'
<1> DEFINE q == AskedBy(g)
           k == g.nonce
           m == Head(inbox[g.dest])
           l == Len(got[k])
           w == handlers[k].waiting
<1>1. PICK a \in Nat, b \in Nat, c \in Nat : Flow(g, a, b, c)
  BY DEF Flows
<1>2. /\ k \in KernelNonces /\ q \in Queries /\ g.dest \in Parties
      /\ got[k] \in Seq(Waiting) /\ l \in Nat /\ w \in Seq(Waiting) /\ Len(w) \in Nat
      /\ got \in [KernelNonces -> Seq(Waiting)] /\ handlers \in [KernelNonces -> HandlerState]
      /\ inbox[g.dest] \in Seq(Incoming) /\ inbox \in [Parties -> Seq(Incoming)] /\ asked[q] \in Nat
  BY FlowTypes DEF TypeInv, ModuleTypes, BoxTypes
<1>3. /\ UNCHANGED <<outbox, queries, asked, due, incomingQueries, open, served>>
      /\ Take(g.dest, "queryUpdate")
  BY DEF HandleQueryUpdate, callerVars, kernelVars
<1>4. AskedBy(g)' = AskedBy(g) /\ (Flowing(g)' => Flowing(g))
  BY FlowingStep DEF AskedBy
<1>5. From(got[k], q, 0) /\ From(w, q, a) /\ (handlers[k].receiver => w = <<>>)
      /\ Run(due[g.dest], Handed(k), HandedAs(k, q), l, a)
  BY <1>1 DEF Flows, Flow
<1>6. CASE k \notin incomingQueries
  <2>1. handlers' = handlers /\ got' = got
    BY <1>6 DEF HandleQueryUpdate
  <2>2. ~Flowing(g)'
    <3>1. ~Coming(g)'
      BY <1>2, ComingUntouched DEF Touches
    <3> QED
      BY <1>3, <1>6, <3>1 DEF Flowing
  <2>3. Flow(g, a, b, c)'
    BY <1>1, <1>3, <1>4, <2>1, <2>2 DEF Flow
  <2> QED
    BY <1>4, <1>5, <2>1, <2>3 DEF Flows
<1>7. CASE k \in incomingQueries
  <2>1. Flowing(g) /\ b <= asked[q] /\ Run(inbox[g.dest], Carries(k), CarriedAs(k, q), a + Len(w), b)
    BY <1>1, <1>7 DEF Flow, Flowing
  <2>2. m \in Incoming /\ m.method = "queryUpdate" /\ inbox[g.dest] # <<>> /\ inbox'[g.dest] = Tail(inbox[g.dest])
    BY <1>2, <1>3, TakeTypes
  <2>3. m \in Carries(k) /\ m.data \in Waiting
    BY <1>2, <2>2, Carried, IncomingTypes
  <2> DEFINE v == a + Len(w)
  <2>4. v \in Nat /\ v + 1 \in Nat
    BY <1>2
  <2> HIDE DEF m, v, k, q
  <2>5. v + 1 <= b /\ m = CarriedAs(k, q)[v + 1] /\ Run(Tail(inbox[g.dest]), Carries(k), CarriedAs(k, q), v + 1, b)
    BY <1>2, <2>1, <2>2, <2>3, <2>4, RunTail DEF m, v
  <2>6. PICK n \in Nat : n = v + 1
    BY <2>4
  <2>7. m.data = Update(q, n)
    BY <1>2, <2>5, <2>6, CarriedAt
  <2>8. l = a
    <3>1. due[g.dest] = <<>>
      BY <1>3 DEF Take
    <3>2. At(due[g.dest], Handed(k)) = {}
      <4>1. DOMAIN (<<>>) = {}
        OBVIOUS
      <4> QED
        BY <3>1, <4>1 DEF At
    <3> QED
      BY <1>2, <1>5, <3>2, EmptyRun
  <2>9. CASE handlers[k].receiver
    <3>1. got' = [got EXCEPT ![k] = Append(@, m.data)] /\ handlers' = handlers
      BY <1>7, <2>9 DEF HandleQueryUpdate, k, m
    <3>2. got'[k] = Append(got[k], m.data)
      BY <1>2, <3>1
    <3>3. w = <<>> /\ Len(w) = 0
      BY <1>5, <2>9, FromEmpty
    <3>4. n = a + 1 /\ n = 0 + Len(got[k]) + 1 /\ n <= b
      BY <2>4, <2>5, <2>6, <2>8, <3>3 DEF v
    <3>5. From(got'[k], q, 0) /\ Len(got'[k]) = n
      BY <1>2, <1>5, <2>3, <2>7, <2>8, <3>2, <3>4, FromAppend
    <3>6. Run(due[g.dest], Handed(k), HandedAs(k, q), n, n)
      <4>1. At(due[g.dest], Handed(k)) = {}
        <5>1. DOMAIN (<<>>) = {} /\ due[g.dest] = <<>>
          BY <1>3 DEF Take
        <5> QED
          BY <5>1 DEF At
      <4> QED
        BY <4>1, RunEmpty
    <3>7. n + 0 = n /\ n <= asked[q]
      BY <1>2, <2>1, <3>4
    <3>8. From(w, q, n)
      BY <3>3, FromEmpty
    <3>9. Flow(g, n, b, c)'
      <4>1. Flowing(g)' => b <= asked[q] /\ Run(inbox'[g.dest], Carries(k), CarriedAs(k, q), n, b)
        BY <2>1, <2>2, <2>5, <2>6
      <4>2. Flowing(g)' /\ g \in open =>
                /\ Run(outbox[g.source], Carries(k), CarriedAs(k, q), b, c)
                /\ From(queries[q].held, q, c)
                /\ asked[q] = c + Len(queries[q].held)
        BY <1>1, <2>1 DEF Flow, k, q
      <4>3. handlers'[k].waiting = w /\ n + Len(w) = n
        BY <3>1, <3>3, <3>7
      <4> QED
        BY <1>3, <1>4, <3>3, <3>5, <3>6, <3>7, <3>8, <4>1, <4>2, <4>3 DEF Flow, k, q
    <3> QED
      BY <1>4, <1>5, <3>1, <3>5, <3>9 DEF Flows, k, q
  <2>10. CASE ~handlers[k].receiver
    <3>1. handlers' = [handlers EXCEPT ![k].waiting = Append(@, m.data)] /\ got' = got
      BY <1>7, <2>10 DEF HandleQueryUpdate, k, m
    <3>2. handlers'[k].waiting = Append(w, m.data) /\ handlers'[k].receiver = handlers[k].receiver
      BY <1>2, <3>1 DEF HandlerState
    <3>3. n = a + Len(w) + 1
      BY <1>2, <2>6 DEF v
    <3>4. From(Append(w, m.data), q, a) /\ Len(Append(w, m.data)) = Len(w) + 1
      <4> HIDE DEF w
      <4>1. w \in Seq(Waiting) /\ From(w, q, a) /\ m.data \in Waiting /\ m.data = Update(q, n)
        BY <1>2, <1>5, <2>3, <2>7
      <4> QED
        BY <3>3, <4>1, FromAppend
    <3>5. a + (Len(w) + 1) = n /\ n <= b /\ n <= asked[q]
      BY <1>2, <2>1, <2>4, <2>5, <2>6, <3>3
    <3>6. Flow(g, a, b, c)'
      <4>1. Flowing(g)' => b <= asked[q] /\ Run(inbox'[g.dest], Carries(k), CarriedAs(k, q), n, b)
        BY <2>1, <2>2, <2>5, <2>6
      <4>2. Flowing(g)' /\ g \in open =>
                /\ Run(outbox[g.source], Carries(k), CarriedAs(k, q), b, c)
                /\ From(queries[q].held, q, c)
                /\ asked[q] = c + Len(queries[q].held)
        BY <1>1, <2>1 DEF Flow, k, q
      <4>3. a + Len(handlers'[k].waiting) = n
        BY <3>2, <3>4, <3>5
      <4> QED
        BY <1>3, <1>4, <1>5, <3>1, <3>2, <3>4, <3>5, <4>1, <4>2, <4>3 DEF Flow, k, q
    <3> QED
      BY <1>4, <1>5, <2>10, <3>1, <3>2, <3>6 DEF Flows, k, q
  <2> QED
    BY <2>9, <2>10
<1> QED
  BY <1>6, <1>7

\* The kernel relays an update to the module, or drops it.
LEMMA FlowRelay ==
  ASSUME TypeInv, TypeInv', CallInv, MentionInv, ComingInv, [Next]_vars, NEW g \in served, Flows(g),
         KernelRelaysDown(g.source), Head(outbox[g.source]).nonce = g.nonce
  PROVE  Flows(g)'
<1> DEFINE q == AskedBy(g)
           k == g.nonce
           m == Head(outbox[g.source])
           w == handlers[k].waiting
           l == Len(queries[q].held)
<1>1. PICK a \in Nat, b \in Nat, c \in Nat : Flow(g, a, b, c)
  BY DEF Flows
<1>2. /\ k \in KernelNonces /\ q \in Queries /\ g.dest \in Parties /\ g.source \in Parties
      /\ outbox[g.source] \in Seq(Outgoing) /\ inbox[g.dest] \in Seq(Incoming) /\ inbox \in [Parties -> Seq(Incoming)]
      /\ Len(w) \in Nat /\ asked[q] \in Nat /\ l \in Nat
  BY FlowTypes DEF TypeInv, BoxTypes
<1>3. UNCHANGED <<queries, asked, due, handlers, got, incomingQueries, open, served>> /\ TakeFrom(g.source, "queryUpdate")
  BY DEF KernelRelaysDown, callerVars, kernelVars, moduleVars
<1>4. AskedBy(g)' = AskedBy(g) /\ (Flowing(g)' => Flowing(g))
  BY FlowingStep DEF AskedBy
<1>5. /\ From(got[k], q, 0) /\ (handlers[k].receiver => w = <<>>)
      /\ Run(due[g.dest], Handed(k), HandedAs(k, q), Len(got[k]), a)
      /\ From(w, q, a) /\ a + Len(w) <= asked[q]
  BY <1>1 DEF Flows, Flow
<1>6. CASE ~Flowing(g)
  <2>1. Flow(g, a, b, c)'
    BY <1>3, <1>4, <1>5, <1>6 DEF Flow
  <2> QED
    BY <1>3, <1>4, <1>5, <2>1 DEF Flows
<1>7. CASE Flowing(g) /\ g \notin open
  <2>1. Find(m.nonce) = {}
    BY <1>7 DEF Find, CallInv, TypeInv, KernelTypes
  <2>2. inbox' = inbox
    BY <2>1 DEF KernelRelaysDown
  <2>3. Flow(g, a, b, c)'
    BY <1>1, <1>3, <1>4, <1>7, <2>2 DEF Flow
  <2> QED
    BY <1>3, <1>4, <1>5, <2>3 DEF Flows
<1>8. CASE Flowing(g) /\ g \in open
  <2>1. PICK h \in Find(m.nonce) : inbox' = Sent(inbox, h.dest, m)
    BY <1>8 DEF Find, KernelRelaysDown
  <2>2. h = g
    BY <2>1 DEF Find, CallInv, TypeInv, KernelTypes
  <2>3. m \in Outgoing /\ m \in Incoming /\ m.method = "queryUpdate" /\ outbox[g.source] # <<>>
        /\ outbox'[g.source] = Tail(outbox[g.source])
    <3>1. m \in Outgoing /\ m.method = "queryUpdate" /\ outbox[g.source] # <<>>
      BY <1>2, <1>3, TakeFromTypes
    <3>2. m \in Incoming
      BY <3>1, OutgoingTypes
    <3>3. outbox'[g.source] = Tail(outbox[g.source])
      BY <1>2, <1>3 DEF TakeFrom, TypeInv, BoxTypes
    <3> QED
      BY <3>1, <3>2, <3>3
  <2>4. m \in Carries(k)
    BY <1>2, <2>3, Carried
  <2>5. /\ b <= asked[q] /\ Run(inbox[g.dest], Carries(k), CarriedAs(k, q), a + Len(w), b)
        /\ Run(outbox[g.source], Carries(k), CarriedAs(k, q), b, c)
        /\ From(queries[q].held, q, c) /\ asked[q] = c + l
    BY <1>1, <1>8 DEF Flow
  <2> DEFINE v == a + Len(w)
  <2>6. v \in Nat
    <3>1. Len(w) \in Nat
      BY <1>2
    <3> HIDE DEF w
    <3> QED
      BY <3>1
  <2> HIDE DEF m, k, q, v, l
  <2>7. b + 1 <= c /\ m = CarriedAs(k, q)[b + 1] /\ Run(Tail(outbox[g.source]), Carries(k), CarriedAs(k, q), b + 1, c)
    BY <1>2, <2>3, <2>4, <2>5, RunTail DEF m
  <2>8. Run(Append(inbox[g.dest], m), Carries(k), CarriedAs(k, q), v, b + 1)
    <3>1. Run(inbox[g.dest], Carries(k), CarriedAs(k, q), v, b)
      BY <2>5 DEF v
    <3> QED
      BY <1>2, <2>3, <2>4, <2>6, <2>7, <3>1, RunAppend
  <2>9. inbox'[g.dest] = Append(inbox[g.dest], m)
    BY <1>2, <2>1, <2>2 DEF Sent
  <2>10. PICK d \in Nat : d = b + 1
    OBVIOUS
  <2>11. d <= asked[q]
    BY <1>2, <2>5, <2>7, <2>10
  <2>12. Flow(g, a, d, c)'
    BY <1>3, <1>4, <1>5, <2>3, <2>5, <2>7, <2>8, <2>9, <2>10, <2>11 DEF Flow, k, q, v, l
  <2> QED
    BY <1>3, <1>4, <1>5, <2>12 DEF Flows, k, q
<1> QED
  BY <1>6, <1>7, <1>8

\* A query that is opened: its updates are still at the caller.
LEMMA FlowNew ==
  ASSUME TypeInv, TypeInv', CallInv, MentionInv, HeldInv, [Next]_vars, NEW p \in Parties, NEW g \in served', Opens(p, g),
         \A r \in Parties : Called(p, g, r)
  PROVE  Flows(g)'
<1> USE ConstantTypes
<1> DEFINE q == AskedBy(g)
           k == g.nonce
<1>1. k \in KernelNonces /\ q \in Queries /\ g.source = p /\ g.query = Head(outbox[p]).nonce /\ g.dest \in Parties
      /\ KernelOpens(p)
  BY DEF Opens
<1>2. UNCHANGED <<queries, asked, due, handlers, got, incomingQueries>> /\ TakeFrom(p, "moduleCall")
  BY <1>1 DEF KernelOpens, callerVars, moduleVars
<1>3. k > kernelNonces /\ (\A r : ~ServedBy(k, r)) /\ \A h \in served : h.nonce # k
  BY NewNonce
<1>4. handlers[k] = NoHandler /\ got[k] = <<>>
  BY <1>1, <1>3 DEF MentionInv, FreshInv
<1>5. At(due[g.dest], Handed(k)) = {}
  <2>1. \A d \in DueMail(g.dest) : d.nonce # k
    BY <1>1, <1>3 DEF MentionInv, PlaceInv
  <2> QED
    BY <2>1 DEF At, DueMail, Handed
<1>6. At(inbox[g.dest], Carries(k)) = {}
  <2>1. \A m \in InMail(g.dest) : m.method = "queryUpdate" => m.nonce # k
    BY <1>1, <1>3 DEF MentionInv, InInv, InMention, ServedBy
  <2> QED
    BY <2>1 DEF At, InMail, Carries
<1>7. At(outbox[p], Carries(k)) = {}
  <2>1. \A m \in OutMail(p) : m.method = "queryUpdate" => m.nonce # k
    BY <1>1, <1>3 DEF MentionInv, OutInv, OutMention
  <2> QED
    BY <2>1 DEF At, OutMail, Carries
<1>8. Run(due[g.dest], Handed(k), HandedAs(k, q), 0, 0)
      /\ Run(inbox[g.dest], Carries(k), CarriedAs(k, q), 0, 0)
      /\ Run(outbox[p], Carries(k), CarriedAs(k, q), 0, 0)
  BY <1>5, <1>6, <1>7, RunEmpty
<1>9. Run(outbox'[p], Carries(k), CarriedAs(k, q), 0, 0)
  <2>1. Keeps(outbox[p], outbox'[p], Carries(k))
    BY <1>1, <1>2, TookFrom
  <2> QED
    BY <1>8, <2>1 DEF Keeps
<1>10. Run(inbox'[g.dest], Carries(k), CarriedAs(k, q), 0, 0)
  <2>1. PICK e \in Incoming, t \in Incoming :
             /\ e.method = "moduleCall" /\ t.method = "responseNonce"
             /\ inbox'[g.dest] \in {Append(inbox[g.dest], e), Append(Append(inbox[g.dest], e), t)}
    <3>1. Called(p, g, g.dest)
      BY <1>1
    <3> QED
      BY <3>1 DEF Called
  <2>2. inbox[g.dest] \in Seq(Incoming) /\ Append(inbox[g.dest], e) \in Seq(Incoming) /\ e \notin Carries(k) /\ t \notin Carries(k)
    <3>1. inbox[g.dest] \in Seq(Incoming)
      BY <1>1 DEF TypeInv, BoxTypes
    <3>2. e \notin Carries(k) /\ t \notin Carries(k)
      BY <1>1, <2>1, Carried
    <3> QED
      BY <2>1, <3>1, <3>2
  <2>3. Run(Append(inbox[g.dest], e), Carries(k), CarriedAs(k, q), 0, 0)
    BY <1>8, <2>2, RunAppend
  <2>4. Run(Append(Append(inbox[g.dest], e), t), Carries(k), CarriedAs(k, q), 0, 0)
    BY <2>2, <2>3, RunAppend
  <2> QED
    BY <2>1, <2>3, <2>4
<1>11. Early(q)
  <2>1. Head(outbox[p]) \in OutMail(p) /\ Head(outbox[p]).method = "moduleCall"
    BY <1>1, <1>2, OutboxMention, TakeFromTypes DEF MentionInv
  <2>2. Early(<<p, Head(outbox[p]).nonce>>)
    BY <2>1 DEF HeldInv
  <2> QED
    BY <1>1, <2>2 DEF AskedBy
<1>12. Len(<<>>) = 0 /\ From(<<>>, q, 0) /\ 0 + 0 = 0
  BY FromEmpty
<1>13. asked[q] \in Nat /\ 0 <= asked[q] /\ asked[q] = 0 + Len(queries[q].held) /\ From(queries[q].held, q, 0)
  <2>1. asked[q] \in Nat
    BY <1>1 DEF TypeInv, CallerTypes
  <2> QED
    BY <1>11, <2>1 DEF Early
<1>14. Flow(g, 0, 0, 0)'
  <2>1. handlers[k].waiting = <<>> /\ AskedBy(g)' = q
    BY <1>4 DEF NoHandler, AskedBy
  <2>2. handlers' = handlers /\ got' = got /\ due' = due /\ queries' = queries /\ asked' = asked
    BY <1>2
  <2> QED
    BY <1>1, <1>4, <1>8, <1>9, <1>10, <1>12, <1>13, <2>1, <2>2 DEF Flow
<1>15. From(got'[k], q, 0) /\ (handlers'[k].receiver => handlers'[k].waiting = <<>>)
  BY <1>2, <1>4, <1>12 DEF NoHandler
<1> QED
  <2>1. AskedBy(g)' = q
    BY DEF AskedBy
  <2> QED
    BY <1>14, <1>15, <2>1 DEF Flows

LEMMA FlowStep ==
  ASSUME TypeInv, TypeInv', CallInv, MentionInv, ComingInv, HeldInv, FlowInv, [Next]_vars
  PROVE  FlowInv'
<1> USE ConstantTypes
<1>1. ASSUME NEW g \in served PROVE Flows(g)'
  <2> DEFINE q == AskedBy(g)
  <2>1. Flows(g)
    BY DEF FlowInv
  <2>2. CASE SendQueryUpdate(q)
    BY <2>1, <2>2, FlowSend
  <2>3. CASE HandleResponseNonce(g.source) /\ Head(inbox[g.source]).nonce = g.query
    BY <2>1, <2>3, FlowNonce
  <2>4. CASE SetReceiveUpdate(g.dest, g.nonce)
    BY <2>1, <2>4, FlowReceive
  <2>5. CASE HandleQueryUpdate(g.dest) /\ Head(inbox[g.dest]).nonce = g.nonce
    BY <2>1, <2>5, FlowHandle
  <2>6. CASE RunMicrotask(g.dest) /\ Head(due[g.dest]).nonce = g.nonce
    BY <2>1, <2>6, FlowRun
  <2>7. CASE KernelRelaysDown(g.source) /\ Head(outbox[g.source]).nonce = g.nonce
    BY <2>1, <2>7, FlowRelay
  <2>8. CASE ~(\/ SendQueryUpdate(q)
               \/ HandleResponseNonce(g.source) /\ Head(inbox[g.source]).nonce = g.query
               \/ SetReceiveUpdate(g.dest, g.nonce)
               \/ HandleQueryUpdate(g.dest) /\ Head(inbox[g.dest]).nonce = g.nonce
               \/ RunMicrotask(g.dest) /\ Head(due[g.dest]).nonce = g.nonce
               \/ KernelRelaysDown(g.source) /\ Head(outbox[g.source]).nonce = g.nonce)
    <3>1. /\ handlers'[g.nonce].waiting = handlers[g.nonce].waiting
          /\ handlers'[g.nonce].receiver = handlers[g.nonce].receiver
          /\ got'[g.nonce] = got[g.nonce]
      BY <2>8, HandlerKeeps
    <3>2. Keeps(due[g.dest], due'[g.dest], Handed(g.nonce))
      BY <2>8, DueFlow
    <3>3. Keeps(inbox[g.dest], inbox'[g.dest], Carries(g.nonce))
      BY <2>8, InFlow
    <3>4. Keeps(outbox[g.source], outbox'[g.source], Carries(g.nonce))
      BY <2>8, OutFlow
    <3>5. queries'[q].held = queries[q].held /\ asked'[q] = asked[q]
      <4>1. q \in Queries /\ q = <<g.source, g.query>> /\ q[1] = g.source /\ q[2] = g.query /\ queries[q] \in Query
            /\ queries \in [Queries -> Query]
        BY FlowTypes DEF AskedBy, TypeInv, CallerTypes
      <4>2. ~Makes(q)
        <5>1. g.query <= queriesNonce[g.source] /\ queriesNonce[g.source] \in Nat /\ g.query \in Nat
          BY FlowTypes DEF CallInv, TypeInv, CallerTypes
        <5>2. g.query # queriesNonce[g.source] + 1
          BY <5>1
        <5> QED
          BY <4>1, <5>2 DEF Makes
      <4>3. CASE Hears(q)
        <5>1. HandleResponse(g.source) /\ Head(inbox[g.source]).nonce = g.query /\ asked'[q] = asked[q]
          BY <2>8, <4>1, <4>3 DEF Hears
        <5>2. queries' = queries \/ queries' = [queries EXCEPT ![q].open = FALSE]
          BY <4>1, <5>1 DEF HandleResponse
        <5> HIDE DEF q
        <5> QED
          BY <4>1, <5>1, <5>2 DEF Query
      <4> QED
        BY <2>8, <4>1, <4>2, <4>3, CallerSteps
    <3> QED
      BY <2>1, <3>1, <3>2, <3>3, <3>4, <3>5, FlowRest
  <2> QED
    BY <2>2, <2>3, <2>4, <2>5, <2>6, <2>7, <2>8
<1>2. CASE UNCHANGED <<kernelNonces, served>> /\ open' \subseteq open
  BY <1>1, <1>2 DEF FlowInv
<1>3. CASE \E p \in Parties : KernelOpens(p)
  <2>1. PICK p \in Parties, g \in served' : Opens(p, g) /\ \A r \in Parties : Called(p, g, r)
    BY <1>3, OpensWhat
  <2>2. served' = served \cup {g}
    BY <2>1 DEF Opens
  <2>3. Flows(g)'
    BY <2>1, FlowNew
  <2> QED
    BY <1>1, <2>2, <2>3 DEF FlowInv
<1> QED
  BY <1>2, <1>3, KernelSteps

UpdatesInv == QueriesInv /\ HeldInv /\ FlowInv

(***************************************************************************)
(* QueryUpdatesInOrder: whatever waits where, a handler receives the updates *)
(* of its own query, in the order in which sendUpdate was called, and none   *)
(* is skipped.                                                              *)
(***************************************************************************)
THEOREM UpdatesInOrder == Spec => []QueryUpdatesInOrder
<1>1. Init => UpdatesInv
  <2> SUFFICES ASSUME Init PROVE UpdatesInv
    OBVIOUS
  <2>1. QueriesInv
    BY QueriesInit
  <2>2. FlowInv
    BY DEF Init, FlowInv
  <2>3. HeldInv
    <3>1. \A q \in Queries : queries[q].kernelNonce = 0
      BY DEF Init, NoQuery
    <3>2. \A p \in Parties : OutMail(p) = {}
      <4>1. DOMAIN (<<>>) = {}
        OBVIOUS
      <4> QED
        BY <4>1 DEF Init, OutMail
    <3> QED
      BY <3>1, <3>2 DEF HeldInv
  <2> QED
    BY <2>1, <2>2, <2>3 DEF UpdatesInv
<1>2. UpdatesInv /\ [Next]_vars => UpdatesInv'
  <2> SUFFICES ASSUME UpdatesInv, [Next]_vars PROVE UpdatesInv'
    OBVIOUS
  <2>1. QueriesInv'
    BY QueriesNext DEF UpdatesInv
  <2>2. TypeInv /\ TypeInv' /\ CallInv /\ MentionInv /\ ComingInv /\ HeldInv /\ FlowInv
    BY <2>1 DEF UpdatesInv, QueriesInv
  <2> QED
    BY <2>1, <2>2, HeldStep, FlowStep DEF UpdatesInv
<1>3. UpdatesInv => QueryUpdatesInOrder
  <2> SUFFICES ASSUME UpdatesInv, NEW g \in served
               PROVE  /\ \A i \in DOMAIN got[g.nonce] : got[g.nonce][i] = Update(<<g.source, g.query>>, i)
                      /\ Len(got[g.nonce]) <= asked[<<g.source, g.query>>]
    BY DEF QueryUpdatesInOrder
  <2>1. TypeInv /\ CallInv /\ Flows(g)
    BY DEF UpdatesInv, QueriesInv, FlowInv
  <2>2. From(got[g.nonce], AskedBy(g), 0)
    BY <2>1 DEF Flows
  <2>3. got[g.nonce] \in Seq(Waiting) /\ Len(got[g.nonce]) \in Nat /\ asked[AskedBy(g)] \in Nat
        /\ Len(handlers[g.nonce].waiting) \in Nat
    BY <2>1, FlowTypes
  <2>4. \A i \in DOMAIN got[g.nonce] : 0 + i = i
    BY <2>3
  <2>5. PICK a \in Nat : Len(got[g.nonce]) <= a /\ a + Len(handlers[g.nonce].waiting) <= asked[AskedBy(g)]
    BY <2>1 DEF Flows, Flow, Run
  <2>6. Len(got[g.nonce]) <= asked[AskedBy(g)]
    BY <2>3, <2>5
  <2> QED
    BY <2>2, <2>4, <2>6 DEF From, AskedBy
<1> QED
  BY <1>1, <1>2, <1>3, PTL DEF Spec

(***************************************************************************)
(* The way of answers: what the module of g said is in its outbox, in the   *)
(* inbox of the caller or heard, in this order, and no response is followed *)
(* beyond the kernel.                                                       *)
(***************************************************************************)
Answers(n) == [method : {"response", "responseUpdate"}, nonce : {n}, data : Nat \cup Answer \cup Reply]

\* The messages of t, as they are sent to n.
AsSent(t, n) == [i \in Nat |-> Message(t[i].method, n, t[i].data)]

\* What the module said of g after b is on its way to the kernel.
Leaves(g, b) ==
    Run(outbox[g.dest], Answers(g.nonce), AsSent(said[g.nonce], g.nonce), b, Len(said[g.nonce]))

\* The module said respond(null) after b, and the kernel dropped it.
Lost(g, b) ==
    /\ b + 1 \in Responses(g.nonce) /\ said[g.nonce][b + 1].data = "null"
    /\ Leaves(g, b + 1)

\* Of what was said, that up to a was heard and that up to b was relayed.
Replied(g, a, b) ==
    LET q == AskedBy(g)
        t == said[g.nonce]
    IN  /\ a <= b /\ b <= Len(t)
        /\ \A n \in 1 .. b : n < b \/ g \in open => t[n].method = "responseUpdate"
        /\ g \in open => Leaves(g, b) \/ Lost(g, b)
        /\ g \notin open => b # 0 /\ t[b].method = "response" /\ t[b].data # "null"
        /\ queries[q].open => Run(inbox[g.source], Answers(g.query), AsSent(t, g.query), a, b)
        /\ ~queries[q].open => g \notin open /\ a = b
        /\ Run(heard[q], Told, t, 0, a)

Replies(g) == \E a, b \in Nat : Replied(g, a, b)

\* A caller hears nothing of a query that the kernel has yet to open.
HeardInv ==
    \A q \in Queries : heard[q] # <<>> => q \in Opened \/ (q[2] <= queriesNonce[q[1]] /\ ~queries[q].open)

\* Updates are numbered until the first response.
Numbered(t) == \A n \in DOMAIN t : (\A m \in 1 .. n : t[m].method = "responseUpdate") => t[n].data = n

\* A module says nothing after respond(null).
Mute(k) == \A i \in Responses(k) : said[k][i].data = "null" => handlers[k].responded /\ i = Len(said[k])

AnswersInv ==
    /\ HeardInv
    /\ \A k \in KernelNonces : Numbered(said[k]) /\ Mute(k)
    /\ \A g \in served : Replies(g)

LEMMA Answered ==
  ASSUME NEW n
  PROVE  /\ \A m \in Outgoing \cup Incoming : m \in Answers(n) <=> m.method \in {"response", "responseUpdate"} /\ m.nonce = n
         /\ \A m : m.method \notin {"response", "responseUpdate"} \/ m.nonce # n => m \notin Answers(n)
<1>1. ASSUME NEW m \in Outgoing \cup Incoming, m.method \in {"response", "responseUpdate"}, m.nonce = n
      PROVE  m \in Answers(n)
  <2>1. m.data \in Nat \cup Answer \cup Reply
    BY <1>1, OutgoingTypes, IncomingTypes
  <2>2. m = [method |-> m.method, nonce |-> m.nonce, data |-> m.data]
    BY <1>1 DEF Outgoing, Incoming
  <2> QED
    BY <1>1, <2>1, <2>2 DEF Answers
<1>2. \A m : m \in Answers(n) => m.method \in {"response", "responseUpdate"} /\ m.nonce = n
  BY DEF Answers
<1> QED
  BY <1>1, <1>2

LEMMA RunAgrees ==
  ASSUME NEW s, NEW E, NEW F, NEW H, NEW a \in Nat, NEW b \in Nat, Run(s, E, F, a, b), \A n \in a + 1 .. b : F[n] = H[n]
  PROVE  Run(s, E, H, a, b)
<1>1. PICK f \in [a + 1 .. b -> Nat] :
           /\ At(s, E) = {f[n] : n \in a + 1 .. b}
           /\ \A n \in a + 1 .. b : s[f[n]] = F[n]
           /\ \A m, n \in a + 1 .. b : m < n => f[m] < f[n]
  BY DEF Run
<1>2. \A n \in a + 1 .. b : s[f[n]] = H[n]
  BY <1>1
<1> QED
  BY <1>1, <1>2 DEF Run

\* What was said stays as it was when more is said.
LEMMA MoreSaid ==
  ASSUME NEW t \in Seq(Said), NEW e \in Said, NEW j
  PROVE  /\ Append(t, e) \in Seq(Said) /\ Len(t) \in Nat /\ Len(Append(t, e)) = Len(t) + 1
         /\ \A n \in 1 .. Len(t) : Append(t, e)[n] = t[n] /\ AsSent(Append(t, e), j)[n] = AsSent(t, j)[n]
         /\ Append(t, e)[Len(t) + 1] = e
         /\ AsSent(Append(t, e), j)[Len(t) + 1] = Message(e.method, j, e.data)
<1>1. /\ Append(t, e) \in Seq(Said) /\ Len(t) \in Nat /\ Len(Append(t, e)) = Len(t) + 1
      /\ \A n \in 1 .. Len(t) : Append(t, e)[n] = t[n] /\ n \in Nat
      /\ Append(t, e)[Len(t) + 1] = e /\ Len(t) + 1 \in Nat
  OBVIOUS
<1> QED
  BY <1>1 DEF AsSent

LEMMA SentAt ==
  ASSUME NEW t \in Seq(Said), NEW n \in 1 .. Len(t), NEW j
  PROVE  /\ AsSent(t, j)[n] = Message(t[n].method, j, t[n].data)
         /\ AsSent(t, j)[n].method = t[n].method /\ AsSent(t, j)[n].data = t[n].data
         /\ AsSent(t, j)[n] \in Answers(j)
         /\ t[n] \in Said /\ t[n] = [method |-> t[n].method, data |-> t[n].data]
         /\ t[n].method \in {"response", "responseUpdate"}
<1>1. t[n] \in Said /\ n \in Nat
  OBVIOUS
<1>2. AsSent(t, j)[n] = Message(t[n].method, j, t[n].data)
  BY <1>1 DEF AsSent
<1>3. t[n].method \in {"response", "responseUpdate"} /\ t[n].data \in Nat \cup Answer
      /\ t[n] = [method |-> t[n].method, data |-> t[n].data]
  BY <1>1 DEF Said
<1>4. Message(t[n].method, j, t[n].data) \in Answers(j)
  BY <1>3 DEF Message, Answers
<1> QED
  BY <1>1, <1>2, <1>3, <1>4 DEF Message

(***************************************************************************)
(* What each channel carries of the answers to g.                           *)
(***************************************************************************)
LEMMA TookFromKeeps ==
  ASSUME TypeInv, NEW p \in Parties, NEW method, TakeFrom(p, method), NEW r \in Parties, NEW E,
         p # r \/ Head(outbox[p]) \notin E
  PROVE  Keeps(outbox[r], outbox'[r], E)
<1>1. outbox \in [Parties -> Seq(Outgoing)] /\ outbox[p] # <<>> /\ outbox' = [outbox EXCEPT ![p] = Tail(@)]
  BY DEF TypeInv, BoxTypes, TakeFrom
<1> QED
  BY <1>1, KeepsTail, KeepsSame

LEMMA TookKeeps ==
  ASSUME TypeInv, NEW p \in Parties, NEW method, Take(p, method), NEW r \in Parties, NEW E,
         p # r \/ Head(inbox[p]) \notin E
  PROVE  Keeps(inbox[r], inbox'[r], E)
<1>1. inbox \in [Parties -> Seq(Incoming)] /\ inbox[p] # <<>> /\ inbox' = [inbox EXCEPT ![p] = Tail(@)]
  BY DEF TypeInv, BoxTypes, Take
<1> QED
  BY <1>1, KeepsTail, KeepsSame

LEMMA PostedKeeps ==
  ASSUME TypeInv, TypeInv', NEW p \in Parties, NEW e, Post(p, e), NEW r \in Parties, NEW E, p # r \/ e \notin E
  PROVE  Keeps(outbox[r], outbox'[r], E)
<1>1. outbox \in [Parties -> Seq(Outgoing)] /\ outbox' = [outbox EXCEPT ![p] = Append(@, e)]
      /\ outbox' \in [Parties -> Seq(Outgoing)]
  BY DEF TypeInv, BoxTypes, Post
<1>2. CASE p = r
  <2>1. outbox'[r] = Append(outbox[r], e) /\ outbox[r] \in Seq(Outgoing) /\ outbox'[r] \in Seq(Outgoing)
    BY <1>1, <1>2
  <2>2. Len(outbox[r]) + 1 \in DOMAIN outbox'[r] /\ outbox'[r][Len(outbox[r]) + 1] = e
    BY <2>1
  <2>3. e \in Outgoing
    BY <2>1, <2>2
  <2> QED
    BY <1>2, <2>1, <2>3, KeepsAppend
<1>3. CASE p # r
  BY <1>1, <1>3, KeepsSame
<1> QED
  BY <1>2, <1>3

LEMMA SentKeeps ==
  ASSUME TypeInv, NEW p \in Parties, NEW e \in Incoming, inbox' = Sent(inbox, p, e), NEW r \in Parties, NEW E,
         p # r \/ e \notin E
  PROVE  Keeps(inbox[r], inbox'[r], E)
<1>1. inbox \in [Parties -> Seq(Incoming)] /\ inbox' = [inbox EXCEPT ![p] = Append(@, e)]
  BY DEF TypeInv, BoxTypes, Sent
<1> QED
  BY <1>1, KeepsAppend, KeepsSame

\* g is said something: an update with its number, or a response.
Says(g) ==
    \E m \in {"response", "responseUpdate"} : \E d :
        /\ [method |-> m, data |-> d] \in Said
        /\ m = "responseUpdate" => d = Cardinality(Updates(g.nonce)) + 1
        /\ Say(g.dest, g.nonce, m, d)
        /\ UNCHANGED <<callerVars, kernelVars>>
        /\ \/ UNCHANGED inbox
           \/ Take(g.dest, "moduleCall")

LEMMA TouchSays ==
  ASSUME TypeInv, NEW p \in Parties, NEW g \in served, g.dest = p, Touches(p, g.nonce)
  PROVE  said' = said \/ Says(g)
<1> USE ConstantTypes
<1> DEFINE k == g.nonce
<1>0. k \in KernelNonces
  BY DEF TypeInv, KernelTypes, Served
<1>1. ASSUME NEW a \in Answer, Say(p, k, "response", a), UNCHANGED <<callerVars, kernelVars>>,
             UNCHANGED inbox \/ Take(p, "moduleCall")
      PROVE  Says(g)
  <2>1. [method |-> "response", data |-> a] \in Said
    BY DEF Said
  <2> QED
    BY <1>1, <2>1 DEF Says
<1>2. CASE \E answer \in {"data", "err", "null"} : Respond(p, k, answer)
  BY <1>1, <1>2 DEF Respond, Answer
<1>3. CASE SendResponseUpdate(p, k)
  <2> DEFINE d == Cardinality(Updates(k)) + 1
  <2>1. Say(p, k, "responseUpdate", d) /\ UNCHANGED <<inbox, callerVars, kernelVars>>
    BY <1>3 DEF SendResponseUpdate
  <2>2. d \in Nat
    BY <1>0, UpdatesFinite, FS_CardinalityType
  <2> HIDE DEF d
  <2>3. [method |-> "responseUpdate", data |-> d] \in Said
    BY <2>2 DEF Said
  <2> QED
    BY <2>1, <2>3 DEF Says, d
<1>4. CASE HandleCall(p) /\ Head(inbox[p]).nonce = k
  BY <1>1, <1>4 DEF HandleCall, RespondErr, Answer
<1>5. CASE SetReceiveUpdate(p, k) \/ HandleQueryUpdate(p) \/ RunMicrotask(p)
  BY <1>5 DEF SetReceiveUpdate, HandleQueryUpdate, RunMicrotask
<1>6. CASE HandlerThrows(p) /\ running[p] = k
  BY <1>1, <1>6 DEF HandlerThrows, RespondErr, Answer
<1> QED
  BY <1>2, <1>3, <1>4, <1>5, <1>6 DEF Touches

LEMMA SaidStep ==
  ASSUME TypeInv, CallInv, MentionInv, [Next]_vars, NEW k \in KernelNonces
  PROVE  said'[k] = said[k] \/ \E g \in served : g.nonce = k /\ Says(g)
<1>1. CASE \A p \in Parties : ~Touches(p, k)
  BY <1>1, Untouched DEF Kept
<1>2. ASSUME NEW p \in Parties, Touches(p, k) PROVE said' = said \/ \E g \in served : g.nonce = k /\ Says(g)
  <2>1. PICK g \in served : g.nonce = k /\ g.dest = p
    BY <1>2, TouchServed DEF MentionInv, ServedBy
  <2> QED
    BY <1>2, <2>1, TouchSays
<1> QED
  BY <1>1, <1>2

LEMMA SayChanges ==
  ASSUME TypeInv, NEW p, NEW k \in KernelNonces, NEW m, NEW d, Say(p, k, m, d)
  PROVE  said'[k] # said[k]
<1>1. said[k] \in Seq(Said) /\ said'[k] = Append(said[k], [method |-> m, data |-> d])
  BY DEF TypeInv, ModuleTypes, Say
<1>2. Len(Append(said[k], [method |-> m, data |-> d])) # Len(said[k])
  BY <1>1
<1> QED
  BY <1>1, <1>2

LEMMA PostUpdatesKeeps ==
  ASSUME TypeInv, NEW q \in Queries, NEW k \in KernelNonces, NEW us \in Seq(Waiting), PostUpdates(q, k, us),
         NEW r \in Parties, NEW n
  PROVE  Keeps(outbox[r], outbox'[r], Answers(n))
<1>1. CASE r = q[1]
  <2>1. PICK t \in Seq(Outgoing) :
             /\ outbox'[q[1]] = outbox[q[1]] \o t
             /\ DOMAIN t = DOMAIN us
             /\ \A i \in DOMAIN us : t[i] = Message("queryUpdate", k, us[i])
    BY PostedUpdates
  <2>2. \A i \in DOMAIN t : t[i] \notin Answers(n)
    <3>1. \A i \in DOMAIN t : t[i].method = "queryUpdate"
      BY <2>1 DEF Message
    <3> QED
      BY <3>1, Answered
  <2>3. outbox[r] \in Seq(Outgoing)
    BY DEF TypeInv, BoxTypes
  <2> QED
    BY <1>1, <2>1, <2>2, <2>3, KeepsConcat
<1>2. CASE r # q[1]
  BY <1>2, PostedUpdates, KeepsSame
<1> QED
  BY <1>1, <1>2

LEMMA AnswerOut ==
  ASSUME TypeInv, TypeInv', CallInv, MentionInv, [Next]_vars, NEW g \in served
  PROVE  \/ Keeps(outbox[g.dest], outbox'[g.dest], Answers(g.nonce))
         \/ Says(g)
         \/ KernelRelaysUp(g.dest) /\ Head(outbox[g.dest]).nonce = g.nonce
<1> USE ConstantTypes
<1>0. g.dest \in Parties /\ g.nonce \in KernelNonces
  BY DEF TypeInv, KernelTypes, Served
<1>1. PICK r \in Parties, k \in KernelNonces : r = g.dest /\ k = g.nonce
  BY <1>0
<1> DEFINE Same == Keeps(outbox[r], outbox'[r], Answers(k))
<1>2. ASSUME outbox' = outbox PROVE Same
  BY <1>2, KeepsSame
<1>3. ASSUME NEW p \in Parties, NEW n, NEW m, NEW d, Say(p, n, m, d) PROVE Same \/ Says(g)
  <2>1. CASE n = k
    <3>1. said'[k] # said[k]
      BY <1>3, <2>1, SayChanges
    <3>2. PICK h \in served : h.nonce = k /\ Says(h)
      BY <3>1, SaidStep
    <3>3. h = g
      BY <1>1, <3>2 DEF CallInv
    <3> QED
      BY <3>2, <3>3
  <2>2. CASE n # k
    <3>1. Message(m, n, d) \notin Answers(k) /\ Post(p, Message(m, n, d))
      BY <1>3, <2>2, Answered DEF Message, Say
    <3> QED
      BY <3>1, PostedKeeps
  <2> QED
    BY <2>1, <2>2
<1>4. ASSUME NEW p \in Parties, NEW method, TakeFrom(p, method), method \notin {"response", "responseUpdate"} PROVE Same
  <2>1. Head(outbox[p]) \notin Answers(k)
    BY <1>4, TakeFromTypes, Answered
  <2> QED
    BY <1>4, <2>1, TookFromKeeps
<1>5. CASE Caller
  <2>1. ASSUME NEW p \in Callers, NEW to \in Modules, NEW method \in Methods, NEW wants \in BOOLEAN,
               NewKernelQuery(p, to, method, wants)
        PROVE  Same
    <3>1. PICK e : e.method = "moduleCall" /\ Post(p, e)
      BY <2>1 DEF NewKernelQuery, Message
    <3>2. e \notin Answers(k)
      BY <3>1, Answered
    <3> QED
      BY <3>1, <3>2, PostedKeeps
  <2>2. ASSUME NEW q \in Queries, SendQueryUpdate(q) PROVE Same
    <3> DEFINE us == <<Update(q, asked[q] + 1)>>
               n == queries[q].kernelNonce
    <3>1. outbox' = outbox \/ (n # 0 /\ PostUpdates(q, n, us))
      BY <2>2 DEF SendQueryUpdate
    <3>2. us \in Seq(Waiting) /\ n \in {0} \cup KernelNonces
      BY DEF TypeInv, CallerTypes, Query, Update, Waiting
    <3> HIDE DEF us, n
    <3> QED
      BY <1>2, <3>1, <3>2, PostUpdatesKeeps
  <2>3. ASSUME NEW p \in Callers, HandleResponseNonce(p) PROVE Same
    <3> DEFINE m == Head(inbox[p])
               q == <<p, m.nonce>>
               us == queries[q].held
    <3>1. outbox' = outbox \/ PostUpdates(q, m.data, us)
      BY <2>3 DEF HandleResponseNonce
    <3>2. Take(p, "responseNonce") /\ p \in Parties
      BY <2>3 DEF HandleResponseNonce
    <3>3. InMention(served, p, m) /\ m \in Incoming /\ m.method = "responseNonce"
      BY <3>2, HeadMention, TakeTypes DEF MentionInv
    <3>4. PICK h \in served : h.nonce = m.data /\ AskedBy(h) = q
      BY <3>3 DEF InMention
    <3>5. q \in Queries /\ us \in Seq(Waiting) /\ m.data \in KernelNonces
      BY <3>4 DEF CallInv, Opened, TypeInv, CallerTypes, Query, KernelTypes, Served
    <3> HIDE DEF us, m, q
    <3> QED
      BY <1>2, <3>1, <3>5, PostUpdatesKeeps
  <2>4. ASSUME NEW p \in Callers, HandleResponseUpdate(p) \/ HandleResponse(p) PROVE Same
    BY <1>2, <2>4 DEF HandleResponseUpdate, HandleResponse
  <2> QED
    BY <1>1, <1>5, <2>1, <2>2, <2>3, <2>4 DEF Caller
<1>6. CASE Handler
  BY <1>1, <1>2, <1>3, <1>6 DEF Handler, Respond, SendResponseUpdate, SetReceiveUpdate
<1>7. CASE Module
  BY <1>1, <1>2, <1>3, <1>7 DEF Module, HandleCall, HandleQueryUpdate, RunMicrotask, HandlerReturns, HandlerThrows, RespondErr
<1>8. ASSUME NEW p \in Parties, KernelRelaysUp(p) PROVE Same \/ (p = r /\ Head(outbox[p]).nonce = k)
  <2>1. TakeFrom(p, Head(outbox[p]).method)
    BY <1>8 DEF KernelRelaysUp
  <2>2. CASE p = r /\ Head(outbox[p]).nonce = k
    BY <2>2
  <2>3. CASE p # r \/ Head(outbox[p]).nonce # k
    <3>1. p # r \/ Head(outbox[p]) \notin Answers(k)
      BY <2>3, Answered
    <3> QED
      BY <2>1, <3>1, TookFromKeeps
  <2> QED
    BY <2>2, <2>3
<1>9. ASSUME NEW p \in Parties, KernelRefuses(p) \/ KernelOpens(p) \/ KernelRelaysDown(p) PROVE Same
  BY <1>4, <1>9 DEF KernelRefuses, KernelOpens, KernelRelaysDown
<1>10. CASE UNCHANGED vars
  BY <1>1, <1>2, <1>10 DEF vars
<1> QED
  BY <1>1, <1>5, <1>6, <1>7, <1>8, <1>9, <1>10 DEF Next, Kernel

LEMMA AnswerIn ==
  ASSUME TypeInv, TypeInv', CallInv, MentionInv, [Next]_vars, NEW g \in served
  PROVE  \/ Keeps(inbox[g.source], inbox'[g.source], Answers(g.query))
         \/ (HandleResponseUpdate(g.source) \/ HandleResponse(g.source)) /\ Head(inbox[g.source]).nonce = g.query
         \/ KernelRelaysUp(g.dest) /\ Head(outbox[g.dest]).nonce = g.nonce /\ g \in open
<1> USE ConstantTypes
<1>0. g.source \in Parties /\ g.query \in 1 .. MaxCalls
  BY DEF TypeInv, KernelTypes, Served
<1>1. PICK r \in Parties, n \in 1 .. MaxCalls : r = g.source /\ n = g.query
  BY <1>0
<1> DEFINE Same == Keeps(inbox[r], inbox'[r], Answers(n))
<1>2. ASSUME inbox' = inbox PROVE Same
  BY <1>2, KeepsSame
<1>3. ASSUME NEW p \in Parties, NEW method, Take(p, method), method \notin {"response", "responseUpdate"} PROVE Same
  <2>1. Head(inbox[p]) \notin Answers(n)
    BY <1>3, TakeTypes, Answered
  <2> QED
    BY <1>3, <2>1, TookKeeps
<1>4. ASSUME NEW p \in Callers, HandleResponseUpdate(p) \/ HandleResponse(p)
      PROVE  Same \/ (p = r /\ Head(inbox[p]).nonce = n)
  <2>1. PICK method : Take(p, method)
    BY <1>4 DEF HandleResponseUpdate, HandleResponse
  <2>2. CASE p = r /\ Head(inbox[p]).nonce = n
    BY <2>2
  <2>3. CASE p # r \/ Head(inbox[p]).nonce # n
    <3>1. p # r \/ Head(inbox[p]) \notin Answers(n)
      BY <2>3, Answered
    <3> QED
      BY <2>1, <3>1, TookKeeps
  <2> QED
    BY <2>2, <2>3
<1>5. CASE Caller
  BY <1>1, <1>2, <1>3, <1>4, <1>5 DEF Caller, NewKernelQuery, SendQueryUpdate, HandleResponseNonce
<1>6. CASE Handler
  BY <1>1, <1>2, <1>6 DEF Handler, Respond, SendResponseUpdate, SetReceiveUpdate
<1>7. CASE Module
  BY <1>1, <1>2, <1>3, <1>7 DEF Module, HandleCall, HandleQueryUpdate, RunMicrotask, HandlerReturns, HandlerThrows
<1>8. ASSUME NEW p \in Parties, NEW e \in Incoming, inbox' = Sent(inbox, p, e), p # r \/ e \notin Answers(n) PROVE Same
  BY <1>8, SentKeeps
<1>9. ASSUME NEW p \in Parties, KernelRefuses(p) PROVE Same
  <2>1. TakeFrom(p, "moduleCall") /\ inbox' = Sent(inbox, p, Message("response", Head(outbox[p]).nonce, "refused"))
    BY <1>9 DEF KernelRefuses
  <2>2. outbox[p] \in Seq(Outgoing) /\ outbox[p] # <<>> /\ Head(outbox[p]) \in Outgoing /\ Head(outbox[p]).method = "moduleCall"
    BY <2>1, TakeFromTypes
  <2>3. Message("response", Head(outbox[p]).nonce, "refused") \in Incoming
    BY <2>2, OutgoingTypes, RefusalTypes DEF Message
  <2>4. PICK e \in Incoming : e = Message("response", Head(outbox[p]).nonce, "refused")
    BY <2>3
  <2>5. 1 \in Calls(p) /\ outbox[p][1] = Head(outbox[p])
    BY <2>2, TailFacts DEF Calls
  <2>6. <<p, Head(outbox[p]).nonce>> \notin Opened
    BY <2>5 DEF CallInv
  <2>7. AskedBy(g) \in Opened
    BY DEF Opened
  <2>8. p # r \/ e.nonce # n
    BY <1>1, <2>4, <2>6, <2>7 DEF AskedBy, Message
  <2>9. p # r \/ e \notin Answers(n)
    BY <2>8, Answered
  <2> QED
    BY <1>8, <2>1, <2>4, <2>9
<1>10. ASSUME NEW p \in Parties, KernelRelaysDown(p) PROVE Same
  <2>1. CASE inbox' = inbox
    BY <1>2, <2>1
  <2>2. CASE inbox' # inbox
    <3>1. TakeFrom(p, "queryUpdate")
      BY <1>10 DEF KernelRelaysDown
    <3>2. Head(outbox[p]) \in Incoming /\ Head(outbox[p]).method = "queryUpdate"
      BY <3>1, TakeFromTypes, OutgoingTypes
    <3>3. PICK h \in open : inbox' = Sent(inbox, h.dest, Head(outbox[p]))
      BY <1>10, <2>2 DEF KernelRelaysDown, Find
    <3>4. h.dest \in Parties
      BY <3>3 DEF TypeInv, KernelTypes, Served
    <3>5. PICK e \in Incoming, d \in Parties : e = Head(outbox[p]) /\ d = h.dest
      BY <3>2, <3>4
    <3>6. inbox' = Sent(inbox, d, e) /\ e \notin Answers(n)
      BY <3>2, <3>3, <3>5, Answered
    <3> QED
      BY <1>8, <3>6
  <2> QED
    BY <2>1, <2>2
<1>11. ASSUME NEW p \in Parties, KernelRelaysUp(p)
       PROVE  Same \/ (p = g.dest /\ Head(outbox[p]).nonce = g.nonce /\ g \in open)
  <2>1. CASE inbox' = inbox
    BY <1>2, <2>1
  <2>2. CASE inbox' # inbox
    <3>1. PICK h \in open : Relays(p, h)
      BY <1>11, <2>2 DEF KernelRelaysUp, Find, Relays
    <3>2. PICK e \in Incoming, d \in Parties :
               /\ d = h.source /\ e.nonce = h.query /\ inbox' = Sent(inbox, d, e)
      BY <3>1, RelayTypes
    <3>3. CASE h = g
      <4>1. TakeFrom(p, Head(outbox[p]).method) /\ Head(outbox[p]).method \in {"response", "responseUpdate"}
            /\ Head(outbox[p]).nonce = g.nonce /\ g \in open
        BY <3>1, <3>3 DEF Relays
      <4>2. ServedBy(g.nonce, p)
        BY <4>1, OutboxMention DEF MentionInv, OutMention
      <4>3. p = g.dest
        BY <4>2 DEF ServedBy, CallInv
      <4> QED
        BY <4>1, <4>3
    <3>4. CASE h # g
      <4>1. h \in served
        BY <3>1 DEF TypeInv, KernelTypes
      <4>2. AskedBy(h) # AskedBy(g)
        BY <3>4, <4>1 DEF CallInv
      <4>3. d # r \/ e.nonce # n
        BY <1>1, <3>2, <4>2 DEF AskedBy
      <4>4. d # r \/ e \notin Answers(n)
        BY <4>3, Answered
      <4> QED
        BY <1>8, <3>2, <4>4
    <3> QED
      BY <3>3, <3>4
  <2> QED
    BY <2>1, <2>2
<1>12. ASSUME NEW p \in Parties, KernelOpens(p) PROVE Same
  <2>1. PICK o \in served' : Called(p, o, r)
    BY <1>12, OpensWhat
  <2>2. PICK e \in Incoming, t \in Incoming :
             /\ e.method = "moduleCall" /\ t.method = "responseNonce"
             /\ inbox'[r] \in {inbox[r], Append(inbox[r], e), Append(inbox[r], t), Append(Append(inbox[r], e), t)}
    BY <2>1 DEF Called
  <2>3. inbox[r] \in Seq(Incoming) /\ Append(inbox[r], e) \in Seq(Incoming) /\ e \notin Answers(n) /\ t \notin Answers(n)
    <3>1. inbox[r] \in Seq(Incoming)
      BY DEF TypeInv, BoxTypes
    <3>2. e \notin Answers(n) /\ t \notin Answers(n)
      BY <2>2, Answered
    <3> QED
      BY <2>2, <3>1, <3>2
  <2>4. Keeps(inbox[r], Append(inbox[r], e), Answers(n)) /\ Keeps(inbox[r], Append(inbox[r], t), Answers(n))
    BY <2>3, KeepsAppend
  <2>5. Keeps(Append(inbox[r], e), Append(Append(inbox[r], e), t), Answers(n))
    BY <2>3, KeepsAppend
  <2>6. Keeps(inbox[r], Append(Append(inbox[r], e), t), Answers(n))
    BY <2>4, <2>5, KeepsTrans
  <2> QED
    BY <2>2, <2>4, <2>6, KeepsSame
<1>13. CASE UNCHANGED vars
  BY <1>1, <1>2, <1>13 DEF vars
<1> QED
  BY <1>1, <1>4, <1>5, <1>6, <1>7, <1>9, <1>10, <1>11, <1>12, <1>13 DEF Next, Kernel

LEMMA HeardStep ==
  ASSUME TypeInv, [Next]_vars, NEW q \in Queries
  PROVE  \/ heard'[q] = heard[q]
         \/ /\ HandleResponseNonce(q[1]) \/ HandleResponseUpdate(q[1]) \/ HandleResponse(q[1])
            /\ Head(inbox[q[1]]).nonce = q[2]
<1> USE ConstantTypes
<1>0. heard \in [Queries -> Seq(Heard)]
  BY DEF TypeInv, CallerTypes
<1>1. ASSUME NEW r, NEW m, Hear(r, m) PROVE heard'[q] = heard[q] \/ r = q
  BY <1>0, <1>1 DEF Hear
<1>2. ASSUME NEW p \in Callers, HandleResponseNonce(p) \/ HandleResponseUpdate(p) \/ HandleResponse(p)
      PROVE  heard'[q] = heard[q] \/ (p = q[1] /\ Head(inbox[p]).nonce = q[2])
  <2>1. heard' = heard \/ Hear(<<p, Head(inbox[p]).nonce>>, Head(inbox[p]))
    BY <1>2 DEF HandleResponseNonce, HandleResponseUpdate, HandleResponse
  <2> QED
    BY <1>1, <2>1
<1>3. CASE Caller
  <2>1. ASSUME NEW p \in Callers, NEW to \in Modules, NEW method \in Methods, NEW wants \in BOOLEAN,
               NewKernelQuery(p, to, method, wants)
        PROVE  heard' = heard
    BY <2>1 DEF NewKernelQuery
  <2>2. ASSUME NEW r \in Queries, SendQueryUpdate(r) PROVE heard' = heard
    BY <2>2 DEF SendQueryUpdate
  <2> QED
    BY <1>2, <1>3, <2>1, <2>2 DEF Caller
<1>4. CASE Handler
  BY <1>4 DEF Handler, Respond, SendResponseUpdate, SetReceiveUpdate, callerVars
<1>5. CASE Module
  BY <1>5 DEF Module, HandleCall, HandleQueryUpdate, RunMicrotask, HandlerReturns, HandlerThrows, callerVars
<1>6. CASE Kernel
  BY <1>6 DEF Kernel, KernelRefuses, KernelOpens, KernelRelaysDown, KernelRelaysUp, callerVars
<1>7. CASE UNCHANGED vars
  BY <1>7 DEF vars, callerVars
<1> QED
  BY <1>3, <1>4, <1>5, <1>6, <1>7 DEF Next

LEMMA AskingStep ==
  ASSUME TypeInv, CallInv, [Next]_vars, NEW g \in served
  PROVE  \/ queries'[AskedBy(g)].open = queries[AskedBy(g)].open
         \/ HandleResponse(g.source) /\ Head(inbox[g.source]).nonce = g.query
<1> DEFINE q == AskedBy(g)
<1>1. q \in Queries /\ q[1] = g.source /\ q[2] = g.query /\ g.query <= queriesNonce[g.source]
      /\ queriesNonce[g.source] \in Nat /\ g.query \in Nat
  BY FlowTypes DEF AskedBy, CallInv, TypeInv, CallerTypes
<1> HIDE DEF q
<1>2. queries \in [Queries -> Query]
  BY DEF TypeInv, CallerTypes
<1>3. CASE queries'[q] = queries[q] /\ asked'[q] = asked[q]
  BY <1>3 DEF q
<1>4. CASE Makes(q)
  BY <1>1, <1>4 DEF Makes
<1>5. CASE SendQueryUpdate(q)
  <2>1. queries' = queries \/ \E s : queries' = [queries EXCEPT ![q].held = s]
    BY <1>5 DEF SendQueryUpdate
  <2>2. queries'[q].open = queries[q].open
    BY <1>1, <1>2, <2>1 DEF Query
  <2> QED
    BY <2>2 DEF q
<1>6. CASE Hears(q) /\ HandleResponseNonce(g.source)
  <2>1. <<g.source, Head(inbox[g.source]).nonce>> = q
    BY <1>1, <1>6 DEF Hears, q, AskedBy
  <2>2. queries' = queries \/ \E n : queries' = [queries EXCEPT ![q].kernelNonce = n, ![q].held = <<>>]
    BY <1>6, <2>1 DEF HandleResponseNonce
  <2>3. queries'[q].open = queries[q].open
    BY <1>1, <1>2, <2>2 DEF Query
  <2> QED
    BY <2>3 DEF q
<1>7. CASE Hears(q) /\ HandleResponse(g.source)
  BY <1>1, <1>7 DEF Hears
<1> QED
  BY <1>1, <1>3, <1>4, <1>5, <1>6, <1>7, CallerSteps DEF Hears

LEMMA OpenedStep ==
  ASSUME TypeInv, TypeInv', CallInv, MentionInv, [Next]_vars, NEW g \in served
  PROVE  \/ g \in open' <=> g \in open
         \/ KernelRelaysUp(g.dest) /\ Head(outbox[g.dest]).nonce = g.nonce /\ g \in open
<1>1. CASE open' = open
  BY <1>1
<1>2. ASSUME NEW p \in Parties, KernelOpens(p) PROVE g \in open' <=> g \in open
  <2>1. PICK h \in served' : Opens(p, h)
    BY <1>2, OpensWhat
  <2>2. h # g
    BY <2>1, NewNonce
  <2> QED
    BY <2>1, <2>2 DEF Opens
<1>3. ASSUME NEW p \in Parties, KernelRelaysUp(p)
      PROVE  (g \in open' <=> g \in open) \/ (KernelRelaysUp(g.dest) /\ Head(outbox[g.dest]).nonce = g.nonce /\ g \in open)
  <2>1. CASE open' = open
    BY <2>1
  <2>2. CASE open' # open
    <3>1. PICK h \in open : Relays(p, h)
      BY <1>3, <2>2 DEF KernelRelaysUp, Find, Relays
    <3>2. open' = open \/ open' = open \ {h}
      BY <3>1 DEF Relays
    <3>3. CASE h = g
      <4>1. TakeFrom(p, Head(outbox[p]).method) /\ Head(outbox[p]).method \in {"response", "responseUpdate"}
            /\ Head(outbox[p]).nonce = g.nonce /\ g \in open
        BY <3>1, <3>3 DEF Relays
      <4>2. ServedBy(g.nonce, p)
        BY <4>1, OutboxMention DEF MentionInv, OutMention
      <4>3. p = g.dest
        BY <4>2 DEF ServedBy, CallInv
      <4> QED
        BY <1>3, <4>1, <4>3
    <3>4. CASE h # g
      BY <3>2, <3>4
    <3> QED
      BY <3>3, <3>4
  <2> QED
    BY <2>1, <2>2
<1>4. CASE Caller
  BY <1>1, <1>4 DEF Caller, NewKernelQuery, SendQueryUpdate, HandleResponseNonce, HandleResponseUpdate, HandleResponse, kernelVars
<1>5. CASE Handler
  BY <1>1, <1>5 DEF Handler, Respond, SendResponseUpdate, SetReceiveUpdate, kernelVars
<1>6. CASE Module
  BY <1>1, <1>6 DEF Module, HandleCall, HandleQueryUpdate, RunMicrotask, HandlerReturns, HandlerThrows, kernelVars
<1>7. ASSUME NEW p \in Parties, KernelRefuses(p) \/ KernelRelaysDown(p) PROVE open' = open
  BY <1>7 DEF KernelRefuses, KernelRelaysDown, kernelVars
<1>8. CASE UNCHANGED vars
  BY <1>1, <1>8 DEF vars, kernelVars
<1> QED
  BY <1>1, <1>2, <1>3, <1>4, <1>5, <1>6, <1>7, <1>8 DEF Next, Kernel

(***************************************************************************)
(* Steps and the answers to g.                                              *)
(***************************************************************************)
LEMMA ReplyTypes ==
  ASSUME TypeInv, CallInv, NEW g \in served
  PROVE  /\ heard[AskedBy(g)] \in Seq(Heard)
         /\ said[g.nonce] \in Seq(Said) /\ Len(said[g.nonce]) \in Nat
         /\ outbox[g.dest] \in Seq(Outgoing) /\ inbox[g.source] \in Seq(Incoming)
         /\ queries[AskedBy(g)].open \in BOOLEAN
<1>1. g.nonce \in KernelNonces /\ g.dest \in Parties /\ g.source \in Parties /\ AskedBy(g) \in Queries
  BY FlowTypes
<1> QED
  BY <1>1 DEF TypeInv, BoxTypes, CallerTypes, ModuleTypes, Query

\* Nothing of it moves, or only past the kernel.
LEMMA ReplyRest ==
  ASSUME TypeInv, CallInv, NEW g \in served, Replies(g),
         said'[g.nonce] = said[g.nonce],
         g \in open' <=> g \in open,
         queries'[AskedBy(g)].open = queries[AskedBy(g)].open,
         g \in open => Keeps(outbox[g.dest], outbox'[g.dest], Answers(g.nonce)),
         queries[AskedBy(g)].open => Keeps(inbox[g.source], inbox'[g.source], Answers(g.query)),
         Keeps(heard[AskedBy(g)], heard'[AskedBy(g)], Told)
  PROVE  Replies(g)'
<1> DEFINE q == AskedBy(g)
           t == said[g.nonce]
<1>1. PICK a \in Nat, b \in Nat : Replied(g, a, b)
  BY DEF Replies
<1>2. AskedBy(g)' = q /\ 0 \in Nat
  BY DEF AskedBy
<1>3. g \in open => Leaves(g, b)' \/ Lost(g, b)'
  <2>1. Len(t) \in Nat /\ b + 1 \in Nat
    BY ReplyTypes
  <2>2. ASSUME NEW n \in Nat, Leaves(g, n), g \in open PROVE Leaves(g, n)'
    BY <2>1, <2>2 DEF Leaves, Keeps
  <2>3. Responses(g.nonce)' = Responses(g.nonce)
    BY DEF Responses, Of
  <2>4. g \in open => Leaves(g, b) \/ Lost(g, b)
    BY <1>1 DEF Replied
  <2> QED
    BY <2>1, <2>2, <2>3, <2>4 DEF Lost
<1>4. queries[q].open => Run(inbox'[g.source], Answers(g.query), AsSent(t, g.query), a, b)
  BY <1>1 DEF Replied, Keeps
<1>5. Run(heard'[q], Told, t, 0, a)
  BY <1>1, <1>2 DEF Replied, Keeps
<1>6. Replied(g, a, b)'
  BY <1>1, <1>2, <1>3, <1>4, <1>5 DEF Replied
<1> QED
  BY <1>6 DEF Replies

\* A handler that answered says nothing more.
LEMMA Muted ==
  ASSUME TypeInv, CallInv, MentionInv, ComingInv, [Next]_vars, NEW k \in KernelNonces, handlers[k].responded
  PROVE  said'[k] = said[k]
<1>1. CASE \A p \in Parties : ~Touches(p, k)
  BY <1>1, Untouched DEF Kept
<1>2. ASSUME NEW p \in Parties, Touches(p, k) PROVE said' = said
  <2>1. CASE \E answer \in {"data", "err", "null"} : Respond(p, k, answer)
    BY <2>1 DEF Respond
  <2>2. CASE SendResponseUpdate(p, k)
    BY <2>2 DEF SendResponseUpdate
  <2>3. CASE HandleCall(p) /\ Head(inbox[p]).nonce = k
    <3>1. Take(p, "moduleCall")
      BY <2>3 DEF HandleCall
    <3>2. inbox[p] \in Seq(Incoming) /\ inbox[p] # <<>> /\ Head(inbox[p]).method = "moduleCall"
      BY <3>1, TakeTypes
    <3>3. 1 \in CallAt(inbox[p], k)
      BY <2>3, <3>2, TailFacts DEF CallAt
    <3>4. PICK g \in served : g.nonce = k /\ g.dest = p
      BY <1>2, TouchServed DEF MentionInv, ServedBy
    <3>5. handlers[k] = NoHandler
      BY <3>3, <3>4 DEF ComingInv, Coming, Untold
    <3> QED
      BY <3>5 DEF NoHandler
  <2>4. CASE SetReceiveUpdate(p, k) \/ HandleQueryUpdate(p) \/ RunMicrotask(p)
    BY <2>4 DEF SetReceiveUpdate, HandleQueryUpdate, RunMicrotask
  <2>5. CASE HandlerThrows(p) /\ running[p] = k
    BY <2>5 DEF HandlerThrows
  <2> QED
    BY <1>2, <2>1, <2>2, <2>3, <2>4, <2>5 DEF Touches
<1> QED
  BY <1>1, <1>2

\* Its module says more.
LEMMA ReplySays ==
  ASSUME TypeInv, TypeInv', CallInv, MentionInv, ComingInv, [Next]_vars, NEW g \in served, Replies(g), Mute(g.nonce), Says(g)
  PROVE  Replies(g)'
<1> USE ConstantTypes
<1> DEFINE q == AskedBy(g)
           k == g.nonce
           t == said[k]
           z == Len(t)
<1>1. PICK a \in Nat, b \in Nat : Replied(g, a, b)
  BY DEF Replies
<1>2. AskedBy(g)' = q /\ 0 \in Nat /\ k \in KernelNonces /\ g.dest \in Parties /\ g.source \in Parties
  BY FlowTypes DEF AskedBy
<1>3. PICK m, d :
           /\ m \in {"response", "responseUpdate"}
           /\ [method |-> m, data |-> d] \in Said
           /\ Say(g.dest, k, m, d)
           /\ UNCHANGED <<callerVars, kernelVars>>
           /\ UNCHANGED inbox \/ Take(g.dest, "moduleCall")
  BY DEF Says
<1>4. PICK e \in Said : e = [method |-> m, data |-> d]
  BY <1>3
<1>5. /\ said'[k] = Append(t, e) /\ outbox'[g.dest] = Append(outbox[g.dest], Message(m, k, d))
      /\ e.method = m /\ e.data = d
  BY <1>2, <1>3, <1>4 DEF Say, Post, TypeInv, BoxTypes, ModuleTypes
<1>6. /\ t \in Seq(Said) /\ z \in Nat /\ outbox[g.dest] \in Seq(Outgoing) /\ outbox'[g.dest] \in Seq(Outgoing)
  BY <1>2, ReplyTypes DEF TypeInv, BoxTypes
<1> DEFINE u == Append(t, e)
<1> HIDE DEF t, z, u, k, q
<1>7. /\ u \in Seq(Said) /\ Len(u) = z + 1
      /\ \A n \in 1 .. z : u[n] = t[n]
      /\ \A j : \A n \in 1 .. z : AsSent(u, j)[n] = AsSent(t, j)[n]
      /\ \A j : AsSent(u, j)[z + 1] = Message(e.method, j, e.data)
  BY <1>4, <1>6, MoreSaid DEF u, z
<1>8. a <= b /\ b <= z
  BY <1>1 DEF Replied, z, t, k
<1>9. \A i \in 1 .. b : i \in 1 .. z
  BY <1>6, <1>8
<1>10. Run(heard[q], Told, u, 0, a)
  <2>1. \A n \in 0 + 1 .. a : t[n] = u[n]
    BY <1>6, <1>7, <1>8
  <2>2. Run(heard[q], Told, t, 0, a) /\ a \in Nat /\ 0 \in Nat
    BY <1>1 DEF Replied, q, t, k
  <2> HIDE DEF u
  <2> QED
    BY <2>1, <2>2, RunAgrees
<1>11. queries[q].open => Run(inbox'[g.source], Answers(g.query), AsSent(u, g.query), a, b)
  <2>1. \A n \in a + 1 .. b : AsSent(t, g.query)[n] = AsSent(u, g.query)[n]
    <3>1. \A n \in a + 1 .. b : n \in 1 .. z
      BY <1>6, <1>8
    <3> QED
      BY <1>7, <3>1
  <2>2. queries[q].open => Run(inbox[g.source], Answers(g.query), AsSent(t, g.query), a, b)
    BY <1>1 DEF Replied, q, t, k
  <2>3. Keeps(inbox[g.source], inbox'[g.source], Answers(g.query))
    <3>1. CASE inbox' = inbox
      BY <3>1, KeepsSame
    <3>2. CASE Take(g.dest, "moduleCall")
      <4>1. Head(inbox[g.dest]).method = "moduleCall"
        BY <1>2, <3>2, TakeTypes
      <4>2. Head(inbox[g.dest]) \notin Answers(g.query)
        BY <4>1, Answered
      <4> QED
        BY <1>2, <3>2, <4>2, TookKeeps
    <3> QED
      BY <1>3, <3>1, <3>2
  <2> QED
    BY <2>1, <2>2, <2>3, RunAgrees DEF Keeps
<1>12. g \in open => Run(outbox'[g.dest], Answers(k), AsSent(u, k), b, z + 1)
  <2>0. ~Lost(g, b)
    BY <1>3, Muted, SayChanges, <1>2 DEF Lost, Mute, k
  <2> SUFFICES ASSUME g \in open PROVE Run(outbox'[g.dest], Answers(k), AsSent(u, k), b, z + 1)
    OBVIOUS
  <2>1. \A n \in b + 1 .. z : AsSent(t, k)[n] = AsSent(u, k)[n]
    BY <1>6, <1>7, <1>8
  <2>2. Run(outbox[g.dest], Answers(k), AsSent(t, k), b, z)
    BY <1>1, <2>0 DEF Replied, Leaves, q, t, k, z
  <2>3. Run(outbox[g.dest], Answers(k), AsSent(u, k), b, z)
    BY <1>6, <2>1, <2>2, RunAgrees
  <2> DEFINE o == Message(m, k, d)
  <2>4. o = AsSent(u, k)[z + 1]
    BY <1>5, <1>7
  <2>5. o.method = m /\ o.nonce = k
    BY DEF Message
  <2>6. o \in Outgoing
    <3>1. Len(outbox[g.dest]) + 1 \in DOMAIN outbox'[g.dest] /\ outbox'[g.dest][Len(outbox[g.dest]) + 1] = o
      BY <1>5, <1>6
    <3> QED
      BY <1>6, <3>1
  <2>7. o \in Answers(k)
    BY <1>3, <2>5, <2>6, Answered
  <2> HIDE DEF o
  <2> QED
    BY <1>5, <1>6, <2>3, <2>4, <2>6, <2>7, RunAppend DEF o
<1>13. /\ \A n \in 1 .. b : n < b \/ g \in open => u[n].method = "responseUpdate"
       /\ g \notin open => b # 0 /\ u[b].method = "response" /\ u[b].data # "null"
       /\ ~queries[q].open => g \notin open /\ a = b
  <2>1. /\ \A n \in 1 .. b : n < b \/ g \in open => t[n].method = "responseUpdate"
        /\ g \notin open => b # 0 /\ t[b].method = "response" /\ t[b].data # "null"
        /\ ~queries[q].open => g \notin open /\ a = b
    BY <1>1 DEF Replied, q, t, k
  <2>2. b # 0 => b \in 1 .. b
    OBVIOUS
  <2> QED
    BY <1>7, <1>9, <2>1, <2>2
<1>14. b <= z + 1
  BY <1>6, <1>8
<1>15. /\ AskedBy(g)' = q /\ said'[g.nonce] = u /\ Len(u) = z + 1
       /\ open' = open /\ queries' = queries /\ heard' = heard
  BY <1>2, <1>3, <1>5, <1>7 DEF u, k, callerVars, kernelVars
<1>16. Replied(g, a, b)'
  BY <1>8, <1>10, <1>11, <1>12, <1>13, <1>14, <1>15 DEF Replied, Leaves, k
<1> QED
  BY <1>16 DEF Replies

\* The kernel relays the next of it.
LEMMA ReplyRelayed ==
  ASSUME TypeInv, TypeInv', CallInv, MentionInv, [Next]_vars, NEW g \in served, Replies(g), Mute(g.nonce), g \in open,
         KernelRelaysUp(g.dest), Head(outbox[g.dest]).nonce = g.nonce
  PROVE  Replies(g)'
<1> USE ConstantTypes
<1> DEFINE q == AskedBy(g)
           k == g.nonce
           t == said[k]
           z == Len(t)
           m == Head(outbox[g.dest])
<1>1. PICK a \in Nat, b \in Nat : Replied(g, a, b)
  BY DEF Replies
<1>2. /\ AskedBy(g)' = q /\ 0 \in Nat /\ k \in KernelNonces /\ g.dest \in Parties /\ g.source \in Parties
      /\ t \in Seq(Said) /\ z \in Nat /\ outbox[g.dest] \in Seq(Outgoing) /\ inbox[g.source] \in Seq(Incoming)
  BY FlowTypes, ReplyTypes DEF AskedBy
<1>3. /\ TakeFrom(g.dest, m.method) /\ m.method \in {"response", "responseUpdate"}
      /\ UNCHANGED <<callerVars, kernelNonces, served, moduleVars>>
  BY DEF KernelRelaysUp
<1>4. Find(k) = {g}
  BY DEF Find, CallInv, TypeInv, KernelTypes
<1>5. ~BothNull(m) => Relays(g.dest, g)
  BY <1>3, <1>4 DEF KernelRelaysUp, Relays
<1>6. /\ outbox[g.dest] # <<>> /\ outbox'[g.dest] = Tail(outbox[g.dest])
      /\ m \in Outgoing /\ m.nonce = k
  <2>0. PICK method : TakeFrom(g.dest, method)
    BY <1>3
  <2>1. /\ outbox[g.dest] # <<>> /\ m \in Outgoing /\ outbox' = [outbox EXCEPT ![g.dest] = Tail(@)]
    BY <1>2, <2>0, TakeFromTypes
  <2>2. outbox \in [Parties -> Seq(Outgoing)]
    BY DEF TypeInv, BoxTypes
  <2>3. outbox'[g.dest] = Tail(outbox[g.dest])
    BY <1>2, <2>1, <2>2
  <2> QED
    BY <2>1, <2>3
<1>7. BothNull(m) => UNCHANGED <<inbox, open>>
  BY DEF KernelRelaysUp
<1> HIDE DEF t, z, k, q, m
<1>10. m \in Answers(k)
  BY <1>3, <1>6, Answered
<1>11. Leaves(g, b) \/ Lost(g, b)
  BY <1>1 DEF Replied
<1>8. ASSUME NEW n \in Nat, Leaves(g, n)
        PROVE  n + 1 <= z /\ m = AsSent(t, k)[n + 1] /\ Leaves(g, n + 1)'
  <2>1. Head(outbox[g.dest]) \in Answers(k)
    BY <1>10 DEF m
  <2>2. Run(outbox[g.dest], Answers(k), AsSent(t, k), n, z)
    BY <1>8 DEF Leaves, t, k, z
  <2>3. /\ n + 1 <= z /\ Head(outbox[g.dest]) = AsSent(t, k)[n + 1]
        /\ Run(Tail(outbox[g.dest]), Answers(k), AsSent(t, k), n + 1, z)
    BY <1>2, <1>6, <2>1, <2>2, RunTail
  <2>4. outbox'[g.dest] = Tail(outbox[g.dest]) /\ said' = said
    BY <1>3, <1>6 DEF moduleVars
  <2> QED
    BY <2>3, <2>4 DEF Leaves, m, t, k, z
<1>9. ~Lost(g, b)
  <2> SUFFICES ASSUME Lost(g, b) PROVE FALSE
    OBVIOUS
  <2>1. b + 1 \in Nat /\ Leaves(g, b + 1) /\ b + 1 = z
    BY DEF Lost, Mute, z, t, k
  <2>2. b + 1 + 1 <= z
    BY <1>8, <2>1
  <2> QED
    BY <1>2, <2>1, <2>2
<1>12. b + 1 <= z /\ m = AsSent(t, k)[b + 1] /\ Leaves(g, b + 1)' /\ a <= b /\ b <= z
  BY <1>1, <1>11, <1>8, <1>9 DEF Replied, t, k, z
<1>13. b + 1 \in 1 .. z /\ b + 1 \in Nat
  BY <1>2, <1>12
<1>14. m.method = t[b + 1].method /\ m.data = t[b + 1].data
       /\ AsSent(t, g.query)[b + 1] = Message(m.method, g.query, m.data)
  <2>1. b + 1 \in 1 .. Len(t)
    BY <1>13 DEF z
  <2>2. AsSent(t, k)[b + 1] = Message(t[b + 1].method, k, t[b + 1].data)
    BY <1>2, <2>1, SentAt
  <2>3. AsSent(t, g.query)[b + 1] = Message(t[b + 1].method, g.query, t[b + 1].data)
    BY <1>2, <2>1, SentAt
  <2>4. \A x, y, n : Message(x, n, y).method = x /\ Message(x, n, y).data = y
    BY DEF Message
  <2> QED
    BY <1>12, <2>2, <2>3, <2>4
<1>15. queries[q].open
  BY <1>1 DEF Replied, q
<1>16. \A n \in 1 .. b : t[n].method = "responseUpdate"
  BY <1>1 DEF Replied, t, k
<1>17. Run(heard[q], Told, t, 0, a) /\ Run(inbox[g.source], Answers(g.query), AsSent(t, g.query), a, b) /\ a <= b + 1
  BY <1>1, <1>12, <1>15 DEF Replied, q, t, k
<1>18. said' = said /\ queries' = queries /\ heard' = heard
  BY <1>3 DEF callerVars, moduleVars
<1>19. CASE BothNull(m)
  <2>1. b + 1 \in Responses(g.nonce) /\ said[g.nonce][b + 1].data = "null"
    <3>1. b + 1 \in DOMAIN t
      BY <1>2, <1>13 DEF z
    <3>2. t[b + 1].method = "response" /\ t[b + 1].data = "null"
      BY <1>14, <1>19 DEF BothNull
    <3> QED
      BY <3>1, <3>2 DEF Responses, Of, t, k
  <2>2. Responses(g.nonce)' = Responses(g.nonce)
    BY <1>18 DEF Responses, Of
  <2>3. Lost(g, b)'
    BY <1>12, <1>18, <2>1, <2>2 DEF Lost
  <2>4. Replied(g, a, b)'
    BY <1>2, <1>7, <1>12, <1>15, <1>16, <1>17, <1>18, <1>19, <2>3 DEF Replied, q, t, k, z
  <2> QED
    BY <2>4 DEF Replies
<1>20. CASE ~BothNull(m)
  <2>1. Relays(g.dest, g)
    BY <1>5, <1>20
  <2>2. PICK e \in Incoming : e = Message(m.method, g.query, m.data) /\ inbox' = Sent(inbox, g.source, e)
    BY <1>2, <2>1, RelayTypes DEF m
  <2>3. inbox'[g.source] = Append(inbox[g.source], e) /\ e = AsSent(t, g.query)[b + 1]
    BY <1>2, <1>14, <2>2 DEF Sent, TypeInv, BoxTypes
  <2>4. open' = IF m.method = "response" THEN open \ {g} ELSE open
    BY <2>1 DEF Relays, m
  <2>5. e \in Answers(g.query)
    BY <1>2, <1>13, <2>3, SentAt DEF z
  <2>6. Run(inbox'[g.source], Answers(g.query), AsSent(t, g.query), a, b + 1)
    BY <1>2, <1>17, <2>3, <2>5, RunAppend
  <2>7. /\ g \notin open' <=> m.method = "response"
        /\ \A n \in 1 .. b + 1 : n < b + 1 \/ g \in open' => t[n].method = "responseUpdate"
        /\ g \notin open' => b + 1 # 0 /\ t[b + 1].method = "response" /\ t[b + 1].data # "null"
    <3>1. g \notin open' <=> m.method = "response"
      BY <2>4
    <3>2. \A n \in 1 .. b + 1 : n \in 1 .. b \/ (n = b + 1 /\ ~(n < b + 1))
      OBVIOUS
    <3>3. b + 1 # 0
      OBVIOUS
    <3>4. m.method = "response" => m.data # "null"
      BY <1>20 DEF BothNull
    <3> QED
      BY <1>3, <1>14, <1>16, <3>1, <3>2, <3>3, <3>4
  <2>8. Replied(g, a, b + 1)'
    BY <1>2, <1>12, <1>15, <1>17, <1>18, <2>6, <2>7 DEF Replied, q, t, k, z
  <2> QED
    BY <1>13, <2>8 DEF Replies
<1> QED
  BY <1>19, <1>20

\* The caller hears the next of it.
LEMMA ReplyHeard ==
  ASSUME TypeInv, TypeInv', CallInv, MentionInv, [Next]_vars, NEW g \in served, Replies(g),
         HandleResponseUpdate(g.source) \/ HandleResponse(g.source), Head(inbox[g.source]).nonce = g.query
  PROVE  Replies(g)'
<1> USE ConstantTypes
<1> DEFINE q == AskedBy(g)
           t == said[g.nonce]
           m == Head(inbox[g.source])
<1>1. PICK a \in Nat, b \in Nat : Replied(g, a, b)
  BY DEF Replies
<1>2. /\ AskedBy(g)' = q /\ 0 \in Nat /\ g.source \in Parties /\ q \in Queries /\ q = <<g.source, m.nonce>>
      /\ t \in Seq(Said) /\ inbox[g.source] \in Seq(Incoming) /\ heard[q] \in Seq(Heard)
  BY FlowTypes, ReplyTypes DEF AskedBy
<1>3. PICK method \in {"response", "responseUpdate"} : Take(g.source, method)
  BY DEF HandleResponseUpdate, HandleResponse
<1>4. inbox[g.source] # <<>> /\ inbox'[g.source] = Tail(inbox[g.source]) /\ m \in Incoming /\ m.method = method
  <2>1. /\ inbox[g.source] # <<>> /\ m \in Incoming /\ inbox' = [inbox EXCEPT ![g.source] = Tail(@)] /\ m.method = method
    BY <1>2, <1>3, TakeTypes
  <2>2. inbox \in [Parties -> Seq(Incoming)]
    BY DEF TypeInv, BoxTypes
  <2> QED
    BY <1>2, <2>1, <2>2
<1>5. UNCHANGED <<outbox, said, open>> /\ said'[g.nonce] = t
  BY DEF HandleResponseUpdate, HandleResponse, kernelVars, moduleVars
<1>6. CASE ~queries[q].open
  <2>1. UNCHANGED <<queries, heard>>
    BY <1>2, <1>6 DEF HandleResponseUpdate, HandleResponse
  <2>2. Keeps(heard[q], heard'[q], Told) /\ Keeps(outbox[g.dest], outbox'[g.dest], Answers(g.nonce))
    BY <1>5, <2>1, KeepsSame
  <2> QED
    BY <1>5, <1>6, <2>1, <2>2, ReplyRest
<1>7. CASE queries[q].open
  <2>1. Hear(q, m)
    BY <1>2, <1>7 DEF HandleResponseUpdate, HandleResponse
  <2> DEFINE e == [method |-> m.method, data |-> m.data]
  <2>2. heard'[q] = Append(heard[q], e)
    BY <1>2, <2>1 DEF Hear, TypeInv, CallerTypes
  <2> HIDE DEF e, m, t, q
  <2>3. Head(inbox[g.source]) \in Answers(g.query)
    BY <1>3, <1>4, Answered DEF m
  <2>4. Run(inbox[g.source], Answers(g.query), AsSent(t, g.query), a, b)
    BY <1>1, <1>7 DEF Replied, q, t
  <2>5. /\ a + 1 <= b /\ Head(inbox[g.source]) = AsSent(t, g.query)[a + 1]
        /\ Run(inbox'[g.source], Answers(g.query), AsSent(t, g.query), a + 1, b)
    <3>1. inbox[g.source] \in Seq(Incoming) /\ inbox[g.source] # <<>>
      BY <1>2, <1>4
    <3>2. /\ a + 1 <= b /\ Head(inbox[g.source]) = AsSent(t, g.query)[a + 1]
          /\ Run(Tail(inbox[g.source]), Answers(g.query), AsSent(t, g.query), a + 1, b)
      BY <2>3, <2>4, <3>1, RunTail
    <3> QED
      BY <1>4, <3>2
  <2>6. b <= Len(t) /\ Run(heard[q], Told, t, 0, a)
    BY <1>1 DEF Replied, q, t
  <2>7. Len(t) \in Nat /\ a + 1 \in 1 .. Len(t) /\ a + 1 \in Nat
    BY <1>2, <2>5, <2>6
  <2>8. AsSent(t, g.query)[a + 1] = Message(t[a + 1].method, g.query, t[a + 1].data)
        /\ t[a + 1] \in Said /\ t[a + 1] = [method |-> t[a + 1].method, data |-> t[a + 1].data]
    BY <1>2, <2>7, SentAt
  <2>9. \A x, y, n : Message(x, n, y).method = x /\ Message(x, n, y).data = y
    BY DEF Message
  <2>10. m.method = t[a + 1].method /\ e = t[a + 1] /\ e \in Said
    BY <2>5, <2>8, <2>9 DEF m, e
  <2>11. Run(heard'[q], Told, t, 0, a + 1)
    <3>1. e \in Heard /\ e \in Told
      BY <2>10 DEF Heard, Told, Said
    <3> QED
      BY <1>2, <2>2, <2>6, <2>10, <3>1, RunAppend
  <2>12. /\ \A n \in 1 .. b : n < b \/ g \in open => t[n].method = "responseUpdate"
         /\ g \in open => Leaves(g, b)' \/ Lost(g, b)'
         /\ g \notin open => b # 0 /\ t[b].method = "response" /\ t[b].data # "null"
    <3>1. outbox' = outbox /\ said' = said /\ Responses(g.nonce)' = Responses(g.nonce)
      BY <1>5 DEF Responses, Of
    <3>2. (Leaves(g, b) => Leaves(g, b)') /\ (Lost(g, b) => Lost(g, b)')
      BY <3>1 DEF Lost, Leaves
    <3> QED
      BY <1>1, <3>2 DEF Replied, t
  <2>13. CASE HandleResponseUpdate(g.source)
    <3>1. queries' = queries
      BY <2>13 DEF HandleResponseUpdate
    <3>2. Replied(g, a + 1, b)'
      BY <1>2, <1>5, <1>7, <2>5, <2>6, <2>11, <2>12, <3>1 DEF Replied, t
    <3> QED
      BY <2>7, <3>2 DEF Replies
  <2>14. CASE HandleResponse(g.source)
    <3>1. queries' = [queries EXCEPT ![q].open = FALSE]
      BY <1>2, <1>7, <2>14 DEF HandleResponse, m
    <3>2. ~queries'[q].open
      BY <1>2, <3>1 DEF TypeInv, CallerTypes, Query
    <3>3. m.method = "response"
      <4>1. Take(g.source, "response")
        BY <2>14 DEF HandleResponse
      <4> QED
        BY <1>2, <4>1, TakeTypes DEF m
    <3>4. a + 1 \in 1 .. b
      BY <2>5
    <3>5. ~(a + 1 < b) /\ g \notin open
      BY <2>10, <2>12, <3>3, <3>4
    <3>6. a + 1 = b
      BY <2>5, <3>5
    <3>7. a + 1 <= b
      BY <2>5
    <3>8. Replied(g, a + 1, b)'
      BY <1>2, <1>5, <2>6, <2>11, <2>12, <3>2, <3>5, <3>6, <3>7 DEF Replied, t
    <3> QED
      BY <2>7, <3>8 DEF Replies
  <2> QED
    BY <2>13, <2>14
<1> QED
  BY <1>2, <1>6, <1>7

\* The query is new.
LEMMA ReplyNew ==
  ASSUME TypeInv, TypeInv', CallInv, MentionInv, HeardInv, [Next]_vars, NEW p \in Parties, NEW g \in served', Opens(p, g),
         \A r \in Parties : Called(p, g, r)
  PROVE  Replies(g)'
<1> USE ConstantTypes
<1> DEFINE q == AskedBy(g)
           k == g.nonce
<1>1. /\ k \in KernelNonces /\ q \in Queries /\ g.source = p /\ g.dest \in Parties /\ KernelOpens(p)
      /\ AskedBy(g)' = q /\ q = <<p, g.query>> /\ g \in open'
  BY DEF Opens, AskedBy
<1>2. UNCHANGED <<queries, heard, said>> /\ TakeFrom(p, "moduleCall")
  BY <1>1 DEF KernelOpens, callerVars, moduleVars
<1>3. k > kernelNonces /\ \A r : ~ServedBy(k, r)
  BY NewNonce
<1>4. said[k] = <<>>
  BY <1>1, <1>3 DEF MentionInv, FreshInv
<1>5. PICK i \in Calls(p) : outbox[p][i].nonce = g.query
  BY DEF Opens
<1>6. q \notin Opened /\ q[1] = p /\ q[2] = g.query /\ q[2] <= queriesNonce[q[1]]
  BY <1>1, <1>5 DEF CallInv
<1>7. ~Settled(q)
  BY <1>5, <1>6 DEF Settled
<1>8. queries[q].open
  BY <1>1, <1>6, <1>7 DEF MentionInv, SettledInv
<1>9. heard[q] = <<>>
  BY <1>1, <1>6, <1>8 DEF HeardInv
<1>10. At(heard[q], Told) = {}
  <2>1. DOMAIN (<<>>) = {}
    OBVIOUS
  <2> QED
    BY <1>9, <2>1 DEF At
<1>11. At(outbox[g.dest], Answers(k)) = {}
  <2>1. \A m \in OutMail(g.dest) : m.method \in {"response", "responseUpdate"} => m.nonce # k
    BY <1>1, <1>3 DEF MentionInv, OutInv, OutMention
  <2> QED
    BY <2>1 DEF At, OutMail, Answers
<1>12. At(inbox[p], Answers(g.query)) = {}
  <2>1. ASSUME NEW m \in InMail(p), m.method \in {"response", "responseUpdate"}, m.nonce = g.query PROVE FALSE
    <3>1. m.method = "response" => Settled(<<p, m.nonce>>)
      BY <2>1 DEF MentionInv, SettledInv
    <3>2. m.method = "responseUpdate" => \E h \in served : AskedBy(h) = <<p, m.nonce>>
      BY <2>1 DEF MentionInv, InInv, InMention
    <3> QED
      BY <1>1, <1>6, <1>7, <2>1, <3>1, <3>2 DEF Opened
  <2> QED
    BY <2>1 DEF At, InMail, Answers
<1>13. /\ Run(heard[q], Told, said[k], 0, 0)
       /\ Run(outbox[g.dest], Answers(k), AsSent(said[k], k), 0, 0)
       /\ Run(inbox[p], Answers(g.query), AsSent(said[k], g.query), 0, 0)
  BY <1>10, <1>11, <1>12, RunEmpty
<1>14. Run(outbox'[g.dest], Answers(k), AsSent(said[k], k), 0, 0)
  <2>1. Head(outbox[p]) \notin Answers(k)
    BY <1>2, TakeFromTypes, Answered
  <2>2. Keeps(outbox[g.dest], outbox'[g.dest], Answers(k))
    BY <1>1, <1>2, <2>1, TookFromKeeps
  <2> QED
    BY <1>13, <2>2 DEF Keeps
<1>15. Run(inbox'[p], Answers(g.query), AsSent(said[k], g.query), 0, 0)
  <2>1. PICK e \in Incoming, t \in Incoming :
             /\ e.method = "moduleCall" /\ t.method = "responseNonce"
             /\ inbox'[p] \in {inbox[p], Append(inbox[p], e), Append(inbox[p], t), Append(Append(inbox[p], e), t)}
    <3>1. Called(p, g, p)
      OBVIOUS
    <3> QED
      BY <3>1 DEF Called
  <2>2. inbox[p] \in Seq(Incoming) /\ Append(inbox[p], e) \in Seq(Incoming)
    BY DEF TypeInv, BoxTypes
  <2>3. e \notin Answers(g.query) /\ t \notin Answers(g.query)
    BY <2>1, Answered
  <2>4. Run(Append(inbox[p], e), Answers(g.query), AsSent(said[k], g.query), 0, 0)
    BY <1>13, <2>2, <2>3, RunAppend
  <2>5. Run(Append(inbox[p], t), Answers(g.query), AsSent(said[k], g.query), 0, 0)
    BY <1>13, <2>2, <2>3, RunAppend
  <2>6. Run(Append(Append(inbox[p], e), t), Answers(g.query), AsSent(said[k], g.query), 0, 0)
    BY <2>2, <2>3, <2>4, RunAppend
  <2> QED
    BY <1>13, <2>1, <2>4, <2>5, <2>6
<1>16. Len(said[k]) = 0 /\ 0 <= 0 /\ 1 .. 0 = {} /\ 0 \in Nat
  BY <1>4
<1>17. Leaves(g, 0)'
  BY <1>2, <1>14, <1>16 DEF Leaves
<1>18. Replied(g, 0, 0)'
  BY <1>1, <1>2, <1>8, <1>13, <1>15, <1>16, <1>17 DEF Replied
<1> QED
  BY <1>16, <1>18 DEF Replies

LEMMA ReplyStep ==
  ASSUME TypeInv, TypeInv', CallInv, MentionInv, ComingInv, HeardInv, [Next]_vars,
         \A g \in served : Replies(g), \A k \in KernelNonces : Mute(k)
  PROVE  \A g \in served' : Replies(g)'
<1> SUFFICES ASSUME NEW g \in served' PROVE Replies(g)'
  OBVIOUS
<1>1. CASE g \notin served
  <2>1. PICK p \in Parties : KernelOpens(p)
    BY <1>1, KernelSteps
  <2>2. PICK h \in served' : Opens(p, h) /\ \A r \in Parties : Called(p, h, r)
    BY <2>1, OpensWhat
  <2>3. h = g
    BY <1>1, <2>2 DEF Opens
  <2> QED
    BY <2>2, <2>3, ReplyNew
<1>2. CASE g \in served
  <2> DEFINE k == g.nonce
             q == AskedBy(g)
  <2>1. k \in KernelNonces /\ q \in Queries /\ q[1] = g.source /\ q[2] = g.query /\ Replies(g) /\ Mute(g.nonce)
    BY <1>2, FlowTypes DEF AskedBy
  <2>2. CASE Says(g)
    BY <1>2, <2>1, <2>2, ReplySays
  <2>3. CASE (HandleResponseUpdate(g.source) \/ HandleResponse(g.source)) /\ Head(inbox[g.source]).nonce = g.query
    BY <1>2, <2>1, <2>3, ReplyHeard
  <2>4. CASE KernelRelaysUp(g.dest) /\ Head(outbox[g.dest]).nonce = k /\ g \in open
    BY <1>2, <2>1, <2>4, ReplyRelayed
  <2>5. CASE /\ ~Says(g)
             /\ ~((HandleResponseUpdate(g.source) \/ HandleResponse(g.source)) /\ Head(inbox[g.source]).nonce = g.query)
             /\ ~(KernelRelaysUp(g.dest) /\ Head(outbox[g.dest]).nonce = k /\ g \in open)
    <3>1. said'[k] = said[k]
      <4>1. ASSUME NEW h \in served, h.nonce = k PROVE ~Says(h)
        BY <1>2, <2>5, <4>1 DEF CallInv
      <4> QED
        BY <2>1, <4>1, SaidStep
    <3>2. g \in open' <=> g \in open
      BY <1>2, <2>5, OpenedStep
    <3>3. queries'[q].open = queries[q].open
      BY <1>2, <2>5, AskingStep
    <3>4. g \in open => Keeps(outbox[g.dest], outbox'[g.dest], Answers(k))
      BY <1>2, <2>5, AnswerOut
    <3>5. Keeps(inbox[g.source], inbox'[g.source], Answers(g.query))
      BY <1>2, <2>5, AnswerIn
    <3>6. Keeps(heard[q], heard'[q], Told)
      <4>1. CASE heard'[q] = heard[q]
        BY <4>1, KeepsSame
      <4>2. CASE HandleResponseNonce(g.source) /\ Head(inbox[g.source]).nonce = g.query
        <5> DEFINE m == Head(inbox[g.source])
                   e == [method |-> m.method, data |-> m.data]
        <5>1. q = <<g.source, m.nonce>> /\ g.source \in Parties
          BY <1>2, <2>1, <4>2, ConstantTypes DEF AskedBy
        <5>2. heard' = heard \/ Hear(q, m)
          BY <4>2, <5>1 DEF HandleResponseNonce
        <5>3. Take(g.source, "responseNonce")
          BY <4>2 DEF HandleResponseNonce
        <5>4. m \in Incoming /\ m.method = "responseNonce"
          BY <5>1, <5>3, TakeTypes
        <5>5. m.data \in KernelNonces
          BY <5>4, IncomingTypes
        <5>6. e \in Heard /\ e \notin Told
          BY <5>4, <5>5 DEF Heard, Told
        <5>7. heard[q] \in Seq(Heard) /\ heard \in [Queries -> Seq(Heard)]
          BY <2>1 DEF TypeInv, CallerTypes
        <5>8. heard'[q] = heard[q] \/ heard'[q] = Append(heard[q], e)
          BY <2>1, <5>2, <5>7 DEF Hear
        <5> HIDE DEF e
        <5> QED
          BY <5>6, <5>7, <5>8, KeepsAppend, KeepsSame
      <4> QED
        BY <2>1, <2>5, <4>1, <4>2, HeardStep
    <3> QED
      BY <1>2, <2>1, <3>1, <3>2, <3>3, <3>4, <3>5, <3>6, ReplyRest
  <2> QED
    BY <2>2, <2>3, <2>4, <2>5
<1> QED
  BY <1>1, <1>2

LEMMA HeardInvStep ==
  ASSUME TypeInv, TypeInv', CallInv, MentionInv, HeardInv, [Next]_vars
  PROVE  HeardInv'
<1> USE ConstantTypes
<1>0. Opened \subseteq Opened'
  BY ServedGrows DEF Opened, AskedBy
<1> SUFFICES ASSUME NEW q \in Queries, heard'[q] # <<>>, q \notin Opened
             PROVE  q[2] <= queriesNonce'[q[1]] /\ ~queries'[q].open
  BY <1>0 DEF HeardInv
<1>1. q[1] \in Callers /\ q[2] \in Nat /\ queriesNonce[q[1]] \in Nat /\ queriesNonce'[q[1]] \in Nat
      /\ queriesNonce[q[1]] <= queriesNonce'[q[1]] /\ q = <<q[1], q[2]>>
  BY NoncesGrow
<1>2. queries \in [Queries -> Query]
  BY DEF TypeInv, CallerTypes
<1>3. CASE heard'[q] = heard[q]
  <2>1. q[2] <= queriesNonce[q[1]] /\ ~queries[q].open
    BY <1>3 DEF HeardInv
  <2>2. CASE queries'[q] = queries[q]
    BY <1>1, <2>1, <2>2
  <2>3. CASE Makes(q)
    BY <1>1, <2>1, <2>3 DEF Makes
  <2>4. CASE SendQueryUpdate(q)
    <3>1. queries' = queries \/ \E s : queries' = [queries EXCEPT ![q].held = s]
      BY <2>4 DEF SendQueryUpdate
    <3> QED
      BY <1>1, <1>2, <2>1, <3>1 DEF Query
  <2>5. CASE Hears(q)
    <3>1. <<q[1], Head(inbox[q[1]]).nonce>> = q
      BY <1>1, <2>5 DEF Hears
    <3>2. queries' = queries
      BY <2>1, <2>5, <3>1 DEF Hears, HandleResponseNonce, HandleResponse
    <3> QED
      BY <1>1, <2>1, <3>2
  <2> QED
    BY <2>2, <2>3, <2>4, <2>5, CallerSteps
<1>4. CASE heard'[q] # heard[q]
  <2> DEFINE m == Head(inbox[q[1]])
  <2>1. /\ HandleResponseNonce(q[1]) \/ HandleResponseUpdate(q[1]) \/ HandleResponse(q[1])
        /\ m.nonce = q[2]
    BY <1>4, HeardStep
  <2>2. PICK method \in {"responseNonce", "responseUpdate", "response"} :
             /\ Take(q[1], method)
             /\ method = "response" => HandleResponse(q[1])
    BY <2>1 DEF HandleResponseNonce, HandleResponseUpdate, HandleResponse
  <2>3. m \in InMail(q[1]) /\ InMention(served, q[1], m) /\ m.method = method
    BY <1>1, <2>2, HeadMention, TakeTypes DEF MentionInv
  <2>4. CASE method \in {"responseNonce", "responseUpdate"}
    <3>1. \E g \in served : AskedBy(g) = q
      BY <1>1, <2>1, <2>3, <2>4 DEF InMention
    <3> QED
      BY <3>1 DEF Opened
  <2>5. CASE method = "response"
    <3>1. Settled(<<q[1], m.nonce>>)
      BY <1>1, <2>3, <2>5 DEF MentionInv, SettledInv
    <3>2. q[2] <= queriesNonce[q[1]]
      BY <1>1, <2>1, <3>1 DEF Settled
    <3>3. <<q[1], m.nonce>> = q
      BY <1>1, <2>1
    <3>4. queries' = [queries EXCEPT ![q].open = FALSE] \/ (~queries[q].open /\ queries' = queries)
      BY <2>2, <2>5, <3>3 DEF HandleResponse
    <3>5. ~queries'[q].open
      BY <1>2, <3>4 DEF Query
    <3> QED
      BY <1>1, <3>2, <3>5
  <2> QED
    BY <2>2, <2>4, <2>5
<1> QED
  BY <1>3, <1>4

LEMMA NumberedStep ==
  ASSUME TypeInv, TypeInv', CallInv, MentionInv, [Next]_vars, NEW k \in KernelNonces, Numbered(said[k])
  PROVE  Numbered(said'[k])
<1> DEFINE t == said[k]
           z == Len(t)
<1>1. t \in Seq(Said) /\ z \in Nat /\ DOMAIN t = 1 .. z
  BY DEF TypeInv, ModuleTypes
<1>2. CASE said'[k] = said[k]
  BY <1>2
<1>3. CASE said'[k] # said[k]
  <2>1. PICK g \in served : g.nonce = k /\ Says(g)
    BY <1>3, SaidStep
  <2>2. PICK m, d :
             /\ m \in {"response", "responseUpdate"}
             /\ [method |-> m, data |-> d] \in Said
             /\ m = "responseUpdate" => d = Cardinality(Updates(k)) + 1
             /\ Say(g.dest, k, m, d)
    BY <2>1 DEF Says
  <2>3. PICK e \in Said : e = [method |-> m, data |-> d]
    BY <2>2
  <2>4. said'[k] = Append(t, e) /\ e.method = m /\ e.data = d
    BY <2>2, <2>3 DEF Say, TypeInv, ModuleTypes
  <2> HIDE DEF t, z
  <2> DEFINE u == Append(t, e)
  <2>5. /\ DOMAIN u = 1 .. z + 1 /\ u[z + 1] = e
        /\ \A n \in 1 .. z : u[n] = t[n]
    BY <1>1 DEF z
  <2> HIDE DEF u
  <2>6. ASSUME NEW n \in DOMAIN u, \A i \in 1 .. n : u[i].method = "responseUpdate" PROVE u[n].data = n
    <3>1. CASE n \in 1 .. z
      <4>1. \A i \in 1 .. n : i \in 1 .. z
        BY <1>1, <3>1
      <4>2. \A i \in 1 .. n : t[i].method = "responseUpdate"
        BY <2>5, <2>6, <4>1
      <4> QED
        BY <1>1, <2>5, <3>1, <4>2 DEF Numbered, t
    <3>2. CASE n = z + 1
      <4>1. \A i \in 1 .. z : i \in 1 .. n
        BY <1>1, <3>2
      <4>2. \A i \in 1 .. z : t[i].method = "responseUpdate"
        BY <2>5, <2>6, <4>1
      <4>3. Updates(k) = 1 .. z
        BY <1>1, <4>2 DEF Updates, Of, t
      <4>4. Cardinality(1 .. z) = z
        <5>1. 1 \in Int /\ z \in Int
          BY <1>1
        <5>2. Cardinality(1 .. z) = IF 1 > z THEN 0 ELSE z - 1 + 1
          BY <5>1, FS_Interval
        <5> QED
          BY <1>1, <5>2
      <4>5. n \in 1 .. n
        BY <1>1, <3>2
      <4>6. m = "responseUpdate"
        BY <2>4, <2>5, <2>6, <3>2, <4>5
      <4> QED
        BY <2>2, <2>4, <2>5, <3>2, <4>3, <4>4, <4>6
    <3> QED
      BY <1>1, <2>5, <3>1, <3>2
  <2> QED
    BY <2>4, <2>6 DEF Numbered, u
<1> QED
  BY <1>2, <1>3

LEMMA MuteStep ==
  ASSUME TypeInv, TypeInv', CallInv, MentionInv, ComingInv, [Next]_vars, NEW k \in KernelNonces, Mute(k)
  PROVE  Mute(k)'
<1> DEFINE t == said[k]
<1>1. /\ t \in Seq(Said) /\ handlers \in [KernelNonces -> HandlerState]
      /\ said \in [KernelNonces -> Seq(Said)]
  BY DEF TypeInv, ModuleTypes
<1>2. CASE said'[k] = said[k]
  <2>1. handlers[k].responded => handlers'[k].responded
    <3>1. CASE \A p \in Parties : ~Touches(p, k)
      BY <3>1, Untouched DEF Kept
    <3>2. ASSUME NEW p \in Parties, Touches(p, k), handlers[k].responded PROVE handlers'[k].responded
      <4>1. CASE \E answer \in {"data", "err", "null"} : Respond(p, k, answer)
        BY <3>2, <4>1 DEF Respond
      <4>2. CASE SendResponseUpdate(p, k) \/ RunMicrotask(p) \/ HandlerThrows(p)
        BY <3>2, <4>2 DEF SendResponseUpdate, RunMicrotask, HandlerThrows
      <4>3. CASE SetReceiveUpdate(p, k)
        BY <1>1, <3>2, <4>3 DEF SetReceiveUpdate, HandlerState
      <4>4. CASE HandleCall(p) /\ Head(inbox[p]).nonce = k
        <5> DEFINE d == Head(inbox[p]).data
        <5>1. handlers' = handlers \/ handlers' = [handlers EXCEPT ![k].method = d]
          BY <4>4 DEF HandleCall
        <5> HIDE DEF d
        <5> QED
          BY <1>1, <3>2, <5>1 DEF HandlerState
      <4>5. CASE HandleQueryUpdate(p) /\ Head(inbox[p]).nonce = k
        <5> DEFINE d == Append(handlers[k].waiting, Head(inbox[p]).data)
        <5>1. handlers' = handlers \/ handlers' = [handlers EXCEPT ![k].waiting = d]
          BY <4>5 DEF HandleQueryUpdate
        <5> HIDE DEF d
        <5> QED
          BY <1>1, <3>2, <5>1 DEF HandlerState
      <4> QED
        BY <3>2, <4>1, <4>2, <4>3, <4>4, <4>5 DEF Touches
    <3> QED
      BY <3>1, <3>2
  <2>2. Responses(k)' = Responses(k)
    BY <1>2 DEF Responses, Of
  <2> QED
    BY <1>2, <2>1, <2>2 DEF Mute
<1>3. CASE said'[k] # said[k]
  <2>1. ~handlers[k].responded
    BY <1>3, Muted
  <2>2. PICK p \in Parties : Touches(p, k)
    BY <1>3, Untouched DEF Kept
  <2>3. PICK m, d : Say(p, k, m, d) /\ (m = "response" /\ d = "null" => handlers'[k].responded)
    <3>1. ASSUME NEW answer \in {"data", "err", "null"}, Respond(p, k, answer)
          PROVE  Say(p, k, "response", answer) /\ handlers'[k].responded
      BY <1>1, <3>1 DEF Respond, Responded, HandlerState
    <3>2. CASE \E answer \in {"data", "err", "null"} : Respond(p, k, answer)
      BY <3>1, <3>2
    <3>3. CASE SendResponseUpdate(p, k)
      <4>1. Say(p, k, "responseUpdate", Cardinality(Updates(k)) + 1)
        BY <3>3 DEF SendResponseUpdate
      <4> QED
        BY <4>1
    <3>4. CASE HandleCall(p) /\ Head(inbox[p]).nonce = k
      <4>1. Say(p, k, "response", "err")
        BY <1>3, <3>4 DEF HandleCall, RespondErr
      <4> QED
        BY <4>1
    <3>5. CASE SetReceiveUpdate(p, k) \/ HandleQueryUpdate(p) \/ RunMicrotask(p)
      BY <1>3, <3>5 DEF SetReceiveUpdate, HandleQueryUpdate, RunMicrotask
    <3>6. CASE HandlerThrows(p) /\ running[p] = k
      <4>1. Say(p, k, "response", "thrown")
        BY <1>3, <3>6 DEF HandlerThrows, RespondErr
      <4> QED
        BY <4>1
    <3> QED
      BY <2>2, <3>2, <3>3, <3>4, <3>5, <3>6 DEF Touches
  <2> DEFINE e == [method |-> m, data |-> d]
  <2>4. said'[k] = Append(t, e) /\ e.method = m /\ e.data = d
    BY <1>1, <2>3 DEF Say
  <2> HIDE DEF t, e
  <2>5. /\ DOMAIN Append(t, e) = 1 .. Len(t) + 1 /\ Len(Append(t, e)) = Len(t) + 1 /\ Append(t, e)[Len(t) + 1] = e
        /\ DOMAIN t = 1 .. Len(t) /\ Len(t) \in Nat /\ \A i \in DOMAIN t : Append(t, e)[i] = t[i]
    BY <1>1
  <2>6. ASSUME NEW i \in DOMAIN Append(t, e), Append(t, e)[i].method = "response", Append(t, e)[i].data = "null"
        PROVE  i = Len(t) + 1 /\ handlers'[k].responded
    <3>1. i \notin DOMAIN t
      BY <2>1, <2>5, <2>6 DEF Mute, Responses, Of, t
    <3>2. i = Len(t) + 1
      BY <2>5, <3>1
    <3> QED
      BY <2>3, <2>4, <2>5, <2>6, <3>2
  <2> QED
    BY <2>4, <2>5, <2>6 DEF Mute, Responses, Of
<1> QED
  BY <1>2, <1>3

\* The images of an increasing f below f[n], and up to n, are n in number.
LEMMA Counted ==
  ASSUME NEW c \in Nat, NEW f \in [1 .. c -> Nat], \A m, n \in 1 .. c : m < n => f[m] < f[n], NEW n \in 0 .. c
  PROVE  IsFiniteSet({f[m] : m \in 1 .. n}) /\ Cardinality({f[m] : m \in 1 .. n}) = n
<1> DEFINE T == {f[m] : m \in 1 .. n}
           g == [m \in 1 .. n |-> f[m]]
<1>1. \A m \in 1 .. n : m \in 1 .. c
  OBVIOUS
<1>2. g \in [1 .. n -> T]
  OBVIOUS
<1>3. ASSUME NEW i \in 1 .. n, NEW j \in 1 .. n, g[i] = g[j]
      PROVE  i = j
  <2>1. i \in 1 .. c /\ j \in 1 .. c /\ f[i] = f[j]
    BY <1>1, <1>3
  <2>2. f[i] \in Nat /\ f[j] \in Nat
    BY <2>1
  <2>3. ~(i < j) /\ ~(j < i)
    BY <2>1, <2>2
  <2> QED
    BY <2>3
<1>4. g \in Injection(1 .. n, T)
  BY <1>2, <1>3 DEF Injection, IsInjective
<1>5. \A e \in T : \E i \in 1 .. n : g[i] = e
  OBVIOUS
<1>6. g \in Surjection(1 .. n, T)
  BY <1>2, <1>5 DEF Surjection
<1>7. ExistsBijection(1 .. n, T)
  BY <1>4, <1>6 DEF ExistsBijection, Bijection
<1> HIDE DEF T
<1>8. n \in Int /\ 1 \in Int /\ (IF 1 > n THEN 0 ELSE n - 1 + 1) = n
  OBVIOUS
<1>9. IsFiniteSet(1 .. n) /\ Cardinality(1 .. n) = n
  BY <1>8, FS_Interval
<1>10. IsFiniteSet(T) /\ Cardinality(T) = Cardinality(1 .. n)
  BY <1>7, <1>9, FS_Bijection
<1> QED
  BY <1>9, <1>10 DEF T

\* Every update heard carries its place among those that were heard.
Tallied(h) ==
    \A i \in Of(h, "responseUpdate") : h[i].data = Cardinality({j \in Of(h, "responseUpdate") : j <= i})

\* What the caller of a run has heard: the first c updates of the module, in
\* order, and then perhaps the response.
HeardOf(t, h, a, c) ==
    /\ a <= Len(t) /\ Run(h, Told, t, 0, a) /\ Numbered(t)
    /\ a = c \/ (a = c + 1 /\ t[a].method = "response")
    /\ \A n \in 1 .. c : t[n].method = "responseUpdate"

LEMMA HeardRun ==
  ASSUME NEW t \in Seq(Said), NEW h \in Seq(Heard), NEW a \in Nat, NEW c \in Nat, HeardOf(t, h, a, c)
  PROVE  /\ Tallied(h)
         /\ Cardinality(Of(h, "responseUpdate")) = c
         /\ \A i \in Of(h, "response") : a = c + 1 /\ h[i].data = t[a].data
<1>0. /\ a <= Len(t) /\ Run(h, Told, t, 0, a) /\ Numbered(t)
      /\ a = c \/ (a = c + 1 /\ t[a].method = "response")
      /\ \A n \in 1 .. c : t[n].method = "responseUpdate"
  BY DEF HeardOf
<1> DEFINE HU == Of(h, "responseUpdate")
<1>1. PICK f \in [0 + 1 .. a -> Nat] :
           /\ At(h, Told) = {f[n] : n \in 0 + 1 .. a}
           /\ \A n \in 0 + 1 .. a : h[f[n]] = t[n]
           /\ \A m, n \in 0 + 1 .. a : m < n => f[m] < f[n]
  BY <1>0 DEF Run
<1>2. /\ f \in [1 .. a -> Nat] /\ At(h, Told) = {f[n] : n \in 1 .. a}
      /\ \A n \in 1 .. a : h[f[n]] = t[n]
      /\ \A m, n \in 1 .. a : m < n => f[m] < f[n]
  <2>1. 0 + 1 = 1
    OBVIOUS
  <2> QED
    BY <1>1, <2>1
<1>3. \A i \in DOMAIN h : h[i] \in Told <=> h[i].method \in {"response", "responseUpdate"}
  <2>1. \A i \in DOMAIN h : h[i] \in Heard
    OBVIOUS
  <2>2. \A e \in Heard : e \in Told <=> e.method \in {"response", "responseUpdate"}
    BY DEF Heard, Told
  <2> QED
    BY <2>1, <2>2
<1>4. \A n \in 1 .. a : f[n] \in DOMAIN h
  <2>1. \A n \in 1 .. a : f[n] \in At(h, Told)
    BY <1>2
  <2> QED
    BY <2>1 DEF At
<1>5. \A i \in DOMAIN h : h[i].method \in {"response", "responseUpdate"} => \E n \in 1 .. a : i = f[n]
  <2>1. \A i \in DOMAIN h : h[i].method \in {"response", "responseUpdate"} => i \in At(h, Told)
    BY <1>3 DEF At
  <2> QED
    BY <1>2, <2>1
<1>6. \A n \in 1 .. c : n \in 1 .. a
  BY <1>0
<1>7. \A n \in 1 .. a : n \in 1 .. c \/ (n = a /\ a = c + 1 /\ t[a].method = "response")
  <2>1. CASE a = c
    <3>1. \A n \in 1 .. a : n \in 1 .. c
      BY <2>1
    <3> QED
      BY <3>1
  <2>2. CASE a = c + 1 /\ t[a].method = "response"
    <3>1. \A n \in 1 .. a : n \in 1 .. c \/ n = a
      BY <2>2
    <3> QED
      BY <2>2, <3>1
  <2> QED
    BY <1>0, <2>1, <2>2
<1>8. HU = {f[n] : n \in 1 .. c}
  <2>1. ASSUME NEW i \in HU
        PROVE  \E n \in 1 .. c : i = f[n]
    <3>1. i \in DOMAIN h /\ h[i].method = "responseUpdate"
      BY DEF Of
    <3>2. PICK n \in 1 .. a : i = f[n]
      BY <1>5, <3>1
    <3>3. t[n].method = "responseUpdate"
      BY <1>2, <3>1, <3>2
    <3>4. n \in 1 .. c
      BY <1>7, <3>3
    <3> QED
      BY <3>2, <3>4
  <2>2. ASSUME NEW n \in 1 .. c
        PROVE  f[n] \in HU
    <3>1. n \in 1 .. a /\ f[n] \in DOMAIN h /\ h[f[n]] = t[n] /\ t[n].method = "responseUpdate"
      BY <1>0, <1>2, <1>4, <1>6
    <3> QED
      BY <3>1 DEF Of
  <2> HIDE DEF HU
  <2> QED
    BY <2>1, <2>2
<1>9. \A n \in 1 .. c : t[n].data = n
  <2>1. ASSUME NEW n \in 1 .. c
        PROVE  t[n].data = n
    <3>1. n \in DOMAIN t
      BY <1>0
    <3>2. \A m \in 1 .. n : m \in 1 .. c
      OBVIOUS
    <3>3. \A m \in 1 .. n : t[m].method = "responseUpdate"
      BY <1>0, <3>2
    <3> QED
      BY <1>0, <3>1, <3>3 DEF Numbered
  <2> QED
    BY <2>1
<1> DEFINE e == [n \in 1 .. c |-> f[n]]
<1>10. e \in [1 .. c -> Nat] /\ (\A n \in 1 .. c : e[n] = f[n]) /\ (\A m, n \in 1 .. c : m < n => e[m] < e[n])
  <2>1. \A n \in 1 .. c : f[n] \in Nat
    BY <1>2, <1>6
  <2>2. e \in [1 .. c -> Nat] /\ (\A n \in 1 .. c : e[n] = f[n])
    BY <2>1
  <2>3. \A m, n \in 1 .. c : m < n => f[m] < f[n]
    BY <1>2, <1>6
  <2> HIDE DEF e
  <2> QED
    BY <2>2, <2>3
<1> HIDE DEF e
<1>11. HU = {e[n] : n \in 1 .. c}
  <2>1. {f[n] : n \in 1 .. c} = {e[n] : n \in 1 .. c}
    BY <1>10
  <2> QED
    BY <1>8, <2>1
<1> HIDE DEF HU
<1>12. \A n \in 0 .. c : Cardinality({e[m] : m \in 1 .. n}) = n
  BY <1>10, Counted
<1>13. Cardinality(HU) = c
  <2>1. c \in 0 .. c
    OBVIOUS
  <2> QED
    BY <1>11, <1>12, <2>1
<1>14. ASSUME NEW i \in HU
       PROVE  h[i].data = Cardinality({j \in HU : j <= i})
  <2>1. PICK n \in 1 .. c : i = e[n]
    BY <1>11
  <2>2. h[i].data = n
    BY <1>2, <1>6, <1>9, <1>10, <2>1
  <2>3. {j \in HU : j <= i} = {e[m] : m \in 1 .. n}
    <3>1. ASSUME NEW m \in 1 .. c
          PROVE  e[m] <= e[n] <=> m <= n
      <4>1. e[m] \in Nat /\ e[n] \in Nat
        BY <1>10
      <4>2. (m < n => e[m] < e[n]) /\ (n < m => e[n] < e[m])
        BY <1>10
      <4> QED
        BY <4>1, <4>2
    <3>2. \A m : m \in 1 .. n <=> m \in 1 .. c /\ m <= n
      OBVIOUS
    <3>3. \A m : m \in 1 .. n <=> m \in 1 .. c /\ e[m] <= i
      BY <2>1, <3>1, <3>2
    <3>4. \A j : j \in {x \in HU : x <= i} <=> \E m \in 1 .. c : j = e[m] /\ e[m] <= i
      BY <1>11
    <3>5. \A j : j \in {e[m] : m \in 1 .. n} <=> \E m \in 1 .. c : j = e[m] /\ e[m] <= i
      BY <3>3
    <3> QED
      BY <3>4, <3>5
  <2>4. n \in 0 .. c
    OBVIOUS
  <2> QED
    BY <1>12, <2>2, <2>3, <2>4
<1>15. ASSUME NEW i \in Of(h, "response")
       PROVE  a = c + 1 /\ h[i].data = t[a].data
  <2>1. i \in DOMAIN h /\ h[i].method = "response"
    BY DEF Of
  <2>2. PICK n \in 1 .. a : i = f[n]
    BY <1>5, <2>1
  <2>3. t[n].method = "response"
    BY <1>2, <2>1, <2>2
  <2>4. n \notin 1 .. c
    BY <1>0, <2>3
  <2>5. n = a /\ a = c + 1
    BY <1>7, <2>4
  <2>6. h[i] = t[n]
    BY <1>2, <2>2
  <2> QED
    BY <2>5, <2>6
<1> QED
  BY <1>13, <1>14, <1>15 DEF HU, Tallied

\* The updates of t before the first response, when the first c are updates.
LEMMA FirstUpdates ==
  ASSUME TypeInv, NEW k \in KernelNonces, NEW c \in Nat, c <= Len(said[k]),
         \A n \in 1 .. c : said[k][n].method = "responseUpdate"
  PROVE  /\ c <= UpdatesBefore(k)
         /\ c + 1 \in DOMAIN said[k] /\ said[k][c + 1].method = "response" =>
                /\ c = UpdatesBefore(k)
                /\ c + 1 \in Responses(k)
                /\ \A j \in Responses(k) : c + 1 <= j
<1> DEFINE t == said[k]
           B == {i \in Updates(k) : \A j \in Responses(k) : i < j}
<1>1. t \in Seq(Said) /\ DOMAIN t = 1 .. Len(t) /\ Len(t) \in Nat
  BY DEF TypeInv, ModuleTypes
<1> HIDE DEF t
<1>2. IsFiniteSet(Updates(k)) /\ Cardinality(B) = UpdatesBefore(k)
  BY UpdatesFinite DEF UpdatesBefore
<1>3. Updates(k) = {i \in DOMAIN t : t[i].method = "responseUpdate"}
      /\ Responses(k) = {i \in DOMAIN t : t[i].method = "response"}
  BY DEF Updates, Responses, Of, t
<1>4. \A n \in 1 .. c : t[n].method = "responseUpdate" /\ n \in DOMAIN t
  BY <1>1 DEF t
<1>5. \A j \in Responses(k) : j \in DOMAIN t /\ j \notin 1 .. c
  BY <1>3, <1>4
<1>6. \A j \in Responses(k) : j \in Nat /\ c + 1 <= j
  BY <1>1, <1>5
<1>7. 1 .. c \subseteq B
  <2>1. ASSUME NEW n \in 1 .. c
        PROVE  n \in B
    <3>1. n \in Updates(k)
      BY <1>3, <1>4
    <3>2. \A j \in Responses(k) : n < j
      BY <1>6
    <3> QED
      BY <3>1, <3>2
  <2> QED
    BY <2>1
<1>8. B \subseteq Updates(k)
  OBVIOUS
<1>9. IsFiniteSet(B)
  BY <1>2, <1>8, FS_Subset
<1>10. IsFiniteSet(1 .. c) /\ Cardinality(1 .. c) = c
  <2>1. c \in Int /\ 1 \in Int /\ (IF 1 > c THEN 0 ELSE c - 1 + 1) = c
    OBVIOUS
  <2> QED
    BY <2>1, FS_Interval
<1>11. c <= UpdatesBefore(k)
  <2> HIDE DEF B
  <2>1. Cardinality(1 .. c) <= Cardinality(B)
    BY <1>7, <1>9, FS_Subset
  <2> QED
    BY <1>2, <1>10, <2>1
<1>12. ASSUME c + 1 \in DOMAIN t, t[c + 1].method = "response"
       PROVE  c = UpdatesBefore(k) /\ c + 1 \in Responses(k)
  <2>1. c + 1 \in Responses(k)
    BY <1>3, <1>12
  <2>2. ASSUME NEW i \in B
        PROVE  i \in 1 .. c
    <3>1. i \in DOMAIN t /\ i < c + 1
      BY <1>3, <2>1
    <3> QED
      BY <1>1, <3>1
  <2>3. B = 1 .. c
    BY <1>7, <2>2
  <2> QED
    BY <1>2, <1>10, <2>1, <2>3
<1> QED
  BY <1>6, <1>11, <1>12 DEF t

LEMMA FaithfulReplies ==
  ASSUME TypeInv, CallInv, NEW g \in served, Replies(g), Numbered(said[g.nonce])
  PROVE  LET q == <<g.source, g.query>>
             k == g.nonce
         IN  /\ \A i \in HeardUpdates(q) : heard[q][i].data = Cardinality({j \in HeardUpdates(q) : j <= i})
             /\ Cardinality(HeardUpdates(q)) <= UpdatesBefore(k)
             /\ \A i \in HeardResponses(q) :
                    /\ Cardinality(HeardUpdates(q)) = UpdatesBefore(k)
                    /\ \E first \in Responses(k) :
                           /\ \A j \in Responses(k) : first <= j
                           /\ heard[q][i].data = said[k][first].data
<1> DEFINE q == <<g.source, g.query>>
           k == g.nonce
           t == said[k]
           h == heard[q]
<1>1. k \in KernelNonces /\ q \in Queries /\ AskedBy(g) = q
  BY DEF TypeInv, KernelTypes, Served, CallInv, Opened, AskedBy
<1>2. t \in Seq(Said) /\ h \in Seq(Heard) /\ Len(t) \in Nat
  BY <1>1 DEF TypeInv, ModuleTypes, CallerTypes
<1>3. PICK a \in Nat, b \in Nat : Replied(g, a, b)
  BY DEF Replies
<1>4. /\ a <= b /\ b <= Len(t)
      /\ \A n \in 1 .. b : n < b \/ g \in open => t[n].method = "responseUpdate"
      /\ g \notin open => b # 0 /\ t[b].method = "response" /\ t[b].data # "null"
      /\ Run(h, Told, t, 0, a)
  BY <1>1, <1>3 DEF Replied
<1>5. HeardUpdates(q) = Of(h, "responseUpdate") /\ HeardResponses(q) = Of(h, "response")
  BY DEF HeardUpdates, HeardResponses
<1>6. Numbered(t)
  OBVIOUS
<1> HIDE DEF t, h
<1>7. PICK c \in Nat :
           /\ c <= Len(t)
           /\ a = c \/ (a = c + 1 /\ a <= Len(t) /\ t[a].method = "response")
           /\ \A n \in 1 .. c : t[n].method = "responseUpdate"
  <2>1. CASE a < b \/ g \in open
    <3>1. \A n \in 1 .. a : n \in 1 .. b /\ (n < b \/ g \in open)
      BY <1>4, <2>1
    <3>2. \A n \in 1 .. a : t[n].method = "responseUpdate"
      BY <1>4, <3>1
    <3>3. a <= Len(t)
      BY <1>2, <1>4
    <3> QED
      BY <3>2, <3>3
  <2>2. CASE a = b /\ g \notin open
    <3>1. b # 0 /\ t[b].method = "response"
      BY <1>4, <2>2
    <3>2. PICK c \in Nat : a = c + 1
      BY <2>2, <3>1
    <3>3. \A n \in 1 .. c : n \in 1 .. b /\ n < b
      BY <2>2, <3>2
    <3>4. \A n \in 1 .. c : t[n].method = "responseUpdate"
      BY <1>4, <3>3
    <3>5. c <= Len(t) /\ a <= Len(t)
      BY <1>2, <1>4, <2>2, <3>2
    <3> QED
      BY <2>2, <3>1, <3>2, <3>4, <3>5
  <2> QED
    BY <1>4, <2>1, <2>2
<1>8. /\ Tallied(h) /\ Cardinality(Of(h, "responseUpdate")) = c
      /\ \A i \in Of(h, "response") : a = c + 1 /\ h[i].data = t[a].data
  <2>1. a <= Len(t) /\ (a = c \/ (a = c + 1 /\ t[a].method = "response"))
    BY <1>2, <1>4, <1>7
  <2>2. HeardOf(t, h, a, c)
    BY <1>4, <1>6, <1>7, <2>1 DEF HeardOf
  <2> QED
    BY <1>2, <2>2, HeardRun
<1>9. /\ c <= UpdatesBefore(k)
      /\ c + 1 \in DOMAIN t /\ t[c + 1].method = "response" =>
             /\ c = UpdatesBefore(k)
             /\ c + 1 \in Responses(k)
             /\ \A j \in Responses(k) : c + 1 <= j
  <2>1. c <= Len(said[k]) /\ \A n \in 1 .. c : said[k][n].method = "responseUpdate"
    BY <1>7 DEF t
  <2> HIDE DEF k
  <2> QED
    BY <1>1, <2>1, FirstUpdates DEF t
<1>10. ASSUME NEW i \in Of(h, "response")
       PROVE  /\ c = UpdatesBefore(k)
              /\ \E first \in Responses(k) :
                     /\ \A j \in Responses(k) : first <= j
                     /\ h[i].data = t[first].data
  <2>1. a = c + 1 /\ h[i].data = t[a].data
    BY <1>8
  <2>2. a \in DOMAIN t /\ t[a].method = "response"
    BY <1>2, <1>7, <2>1
  <2> QED
    BY <1>9, <2>1, <2>2
<1> QED
  BY <1>5, <1>8, <1>9, <1>10 DEF t, h, Tallied

RepliesInv == QueriesInv /\ AnswersInv

LEMMA RepliesInit == Init => RepliesInv
<1> SUFFICES ASSUME Init PROVE RepliesInv
  OBVIOUS
<1>1. QueriesInv
  BY QueriesInit
<1>2. DOMAIN (<<>>) = {}
  OBVIOUS
<1>3. served = {} /\ (\A q \in Queries : heard[q] = <<>>) /\ \A k \in KernelNonces : said[k] = <<>>
  BY DEF Init
<1> QED
  BY <1>1, <1>2, <1>3 DEF RepliesInv, AnswersInv, HeardInv, Numbered, Mute, Responses, Of

LEMMA RepliesNext == RepliesInv /\ [Next]_vars => RepliesInv'
<1> SUFFICES ASSUME RepliesInv, [Next]_vars PROVE RepliesInv'
  OBVIOUS
<1>1. QueriesInv /\ QueriesInv'
  BY QueriesNext DEF RepliesInv
<1>2. TypeInv /\ TypeInv' /\ CallInv /\ MentionInv /\ ComingInv
  BY <1>1 DEF QueriesInv
<1>3. HeardInv /\ (\A k \in KernelNonces : Numbered(said[k]) /\ Mute(k)) /\ \A g \in served : Replies(g)
  BY DEF RepliesInv, AnswersInv
<1>4. HeardInv'
  BY <1>2, <1>3, HeardInvStep
<1>5. \A k \in KernelNonces : Numbered(said'[k])
  BY <1>2, <1>3, NumberedStep
<1>6. \A k \in KernelNonces : Mute(k)'
  BY <1>2, <1>3, MuteStep
<1>7. \A g \in served' : Replies(g)'
  BY <1>2, <1>3, ReplyStep
<1> QED
  BY <1>1, <1>4, <1>5, <1>6, <1>7 DEF RepliesInv, AnswersInv

(***************************************************************************)
(* RepliesFaithful: what the application hears from the library is what the *)
(* module posted, its updates numbered in order and all those that precede   *)
(* the response heard before it, and the response is the first one.          *)
(***************************************************************************)
THEOREM RepliesAreFaithful == Spec => []RepliesFaithful
<1>1. RepliesInv => RepliesFaithful
  <2> SUFFICES ASSUME RepliesInv PROVE RepliesFaithful
    OBVIOUS
  <2>1. TypeInv /\ CallInv /\ \A k \in KernelNonces : Numbered(said[k])
    BY DEF RepliesInv, AnswersInv, QueriesInv
  <2>2. ASSUME NEW g \in served
        PROVE  Replies(g) /\ Numbered(said[g.nonce])
    <3>1. g.nonce \in KernelNonces
      BY <2>1 DEF TypeInv, KernelTypes, Served
    <3> QED
      BY <2>1, <3>1 DEF RepliesInv, AnswersInv
  <2> QED
    BY <2>1, <2>2, FaithfulReplies DEF RepliesFaithful
<1> QED
  BY <1>1, RepliesInit, RepliesNext, PTL DEF Spec

(***************************************************************************)
(* NothingLeftAtRest: a query is registered for updates only while it has   *)
(* no response, and when all was answered and handled the modules keep       *)
(* nothing, and the kernel and the callers exactly the queries that were     *)
(* answered with respond(null).                                             *)
(***************************************************************************)
THEOREM NothingLeaks == Spec => []NothingLeftAtRest
<1>1. RepliesInv => NothingLeftAtRest
  <2> SUFFICES ASSUME RepliesInv PROVE NothingLeftAtRest
    OBVIOUS
  <2>0. QueriesInv /\ TypeInv /\ CallInv /\ AnswerInv /\ AnswersInv
    BY DEF RepliesInv, QueriesInv
  <2>1. \A k \in incomingQueries : Responses(k) = {}
    BY <2>0 DEF AnswerInv
  <2>2. ASSUME AtRest
        PROVE  /\ open = {g \in served : Dropped(g.nonce)}
               /\ incomingQueries = {}
               /\ \A q \in Queries : queries[q].open <=> \E g \in open : q = <<g.source, g.query>>
    <3>1. DOMAIN (<<>>) = {}
      OBVIOUS
    <3>2. \A p \in Parties : outbox[p] = <<>> /\ OutMail(p) = {} /\ InMail(p) = {}
      BY <2>2, <3>1 DEF AtRest, OutMail, InMail
    <3>3. \A g \in served : Responses(g.nonce) # {}
      BY <2>2 DEF AtRest
    <3>4. \A g \in open : g \in served /\ g.dest \in Parties
      BY <2>0 DEF TypeInv, KernelTypes, Served
    <3>5. ASSUME NEW g \in served
          PROVE  /\ g \in open <=> Dropped(g.nonce)
                 /\ ~queries[AskedBy(g)].open => g \notin open
      <4>1. PICK a \in Nat, b \in Nat : Replied(g, a, b)
        BY <2>0 DEF AnswersInv, Replies
      <4>2. said[g.nonce] \in Seq(Said) /\ Mute(g.nonce) /\ g.dest \in Parties /\ g.nonce \in KernelNonces
        BY <2>0, ReplyTypes, FlowTypes DEF AnswersInv
      <4> DEFINE t == said[g.nonce]
      <4>3. CASE g \in open
        <5>1. ASSUME NEW n \in Nat, Leaves(g, n) PROVE n = Len(t)
          <6>1. Run(<<>>, Answers(g.nonce), AsSent(t, g.nonce), n, Len(t)) /\ Len(t) \in Nat
            BY <3>2, <4>2, <5>1 DEF Leaves
          <6> HIDE DEF t
          <6>2. At(<<>>, Answers(g.nonce)) = {}
            BY <3>1 DEF At
          <6>3. n <= Len(t) /\ \E f \in [n + 1 .. Len(t) -> Nat] : {} = {f[i] : i \in n + 1 .. Len(t)}
            BY <6>1, <6>2 DEF Run
          <6>4. ~(n < Len(t))
            <7> SUFFICES ASSUME n < Len(t) PROVE FALSE
              OBVIOUS
            <7>1. Len(t) \in n + 1 .. Len(t)
              BY <6>1
            <7> QED
              BY <6>3, <7>1
          <6> QED
            BY <6>1, <6>3, <6>4
        <5>2. \A n \in 1 .. b : t[n].method = "responseUpdate"
          BY <4>1, <4>3 DEF Replied
        <5>3. ~Leaves(g, b)
          <6> SUFFICES ASSUME Leaves(g, b) PROVE FALSE
            OBVIOUS
          <6>1. DOMAIN t = 1 .. b
            BY <4>2, <5>1
          <6>2. Responses(g.nonce) = {}
            BY <5>2, <6>1 DEF Responses, Of
          <6> QED
            BY <3>3, <6>2
        <5>4. Lost(g, b)
          BY <4>1, <4>3, <5>3 DEF Replied
        <5>5. b + 1 \in Nat /\ Leaves(g, b + 1) /\ t[b + 1].data = "null"
          BY <5>4 DEF Lost
        <5>6. DOMAIN t = 1 .. b + 1
          BY <4>2, <5>1, <5>5
        <5>7. \A i \in Responses(g.nonce) : i = b + 1
          BY <5>2, <5>6 DEF Responses, Of
        <5>8. Dropped(g.nonce)
          BY <3>3, <5>5, <5>7 DEF Dropped
        <5> QED
          BY <4>1, <4>3, <5>8 DEF Replied
      <4>4. CASE g \notin open
        <5>1. b # 0 /\ b <= Len(t) /\ t[b].method = "response" /\ t[b].data # "null"
          BY <4>1, <4>4 DEF Replied
        <5>2. b \in DOMAIN t
          BY <4>2, <5>1
        <5>3. b \in Responses(g.nonce)
          BY <5>1, <5>2 DEF Responses, Of
        <5> QED
          BY <4>4, <5>1, <5>3 DEF Dropped
      <4> QED
        BY <4>3, <4>4
    <3>6. open = {g \in served : Dropped(g.nonce)}
      BY <3>4, <3>5
    <3>7. incomingQueries = {}
      BY <2>0, <3>3 DEF AnswerInv
    <3>8. \A q \in Queries : queries[q].open => \E g \in open : q = AskedBy(g)
      BY <2>0, <3>2, ConstantTypes DEF AnswerInv, Pending
    <3>9. \A g \in open : queries[AskedBy(g)].open
      BY <3>4, <3>5
    <3> QED
      BY <3>6, <3>7, <3>8, <3>9 DEF AskedBy
  <2> QED
    BY <2>1, <2>2 DEF NothingLeftAtRest
<1> QED
  BY <1>1, RepliesInit, RepliesNext, PTL DEF Spec
=============================================================================
