------------------------ MODULE ExtensionAuth_proofs ------------------------
(***************************************************************************)
(* The bootloader follows localStorage, a page sees the stages of auth in   *)
(* order, and it is used in the session it was told of, for any number of   *)
(* users, writes and pages.                                                 *)
(***************************************************************************)
EXTENDS ExtensionAuth, TLAPS

(***************************************************************************)
(* FollowsStorage alone is not inductive: it says nothing while events are  *)
(* pending.  What keeps it is that the last pending event tells of the last *)
(* write: if its key is null, there is no seed.                             *)
(***************************************************************************)
StorageInv ==
    /\ seed \in Seeds
    /\ events \in Seq({"v1-seed", "null"})
    /\ frame \in {"absent", "running", "reloading"}
    /\ frame = "absent" => events = <<>> /\ ~loginComplete /\ ~logoutComplete
    /\ frame = "running" => ~logoutComplete
    /\ frame = "running" /\ events = <<>> => FollowsStorage
    /\ frame = "running" /\ events # <<>> /\ events[Len(events)] = "null" => seed = NoSeed
    /\ loginComplete \in BOOLEAN /\ logoutComplete \in BOOLEAN

LEMMA EmptyIsSeq == ASSUME NEW S PROVE <<>> \in Seq(S)
  OBVIOUS

LEMMA StorageInvInit == ASSUME Init PROVE StorageInv
  BY EmptyIsSeq DEF Init, BootInit, StorageInv, FollowsStorage

\* Handling an event that is not the last leaves the last one where it is.
LEMMA TailKeepsLast ==
  ASSUME NEW S, NEW s \in Seq(S), s # <<>>, Tail(s) # <<>>
  PROVE  Tail(s)[Len(Tail(s))] = s[Len(s)]
<1>1. Len(s) \in Nat /\ Len(s) > 0 /\ Tail(s) \in Seq(S) /\ Len(Tail(s)) = Len(s) - 1
  OBVIOUS
<1>2. Len(Tail(s)) \in 1 .. Len(Tail(s))
  BY <1>1, Tail(s) # <<>>
<1>3. \A i \in 1 .. Len(Tail(s)) : Tail(s)[i] = s[i + 1]
  OBVIOUS
<1> QED
  BY <1>1, <1>2, <1>3

\* The head of a sequence of one element is its last.
LEMMA LastHead ==
  ASSUME NEW S, NEW s \in Seq(S), s # <<>>, Tail(s) = <<>>
  PROVE  Head(s) = s[Len(s)] /\ Head(s) \in S
<1>1. Len(s) \in Nat /\ Len(s) > 0 /\ Len(Tail(s)) = Len(s) - 1
  OBVIOUS
<1>2. Len(<<>>) = 0
  OBVIOUS
<1>3. Head(s) = s[1] /\ s[1] \in S
  BY <1>1
<1>4. Len(s) = 1
  BY <1>1, <1>2, Tail(s) = <<>>
<1> QED
  BY <1>3, <1>4

LEMMA StorageInvNext == ASSUME StorageInv, [Next]_vars PROVE StorageInv'
<1> USE DEF StorageInv, Seeds
<1>1. ASSUME NEW u \in Users \cup BadSeeds, WriteSeed(u) PROVE StorageInv'
  <2>1. seed' \in Seeds /\ events' \in Seq({"v1-seed", "null"})
    BY <1>1 DEF WriteSeed
  <2>2. frame # "absent" => events' # <<>> /\ events'[Len(events')] = "v1-seed"
    BY <1>1 DEF WriteSeed
  <2> QED
    BY <1>1, <2>1, <2>2 DEF WriteSeed, authVars, FollowsStorage
<1>2. CASE ClearStorage
  <2>1. seed' = NoSeed /\ events' \in Seq({"v1-seed", "null"})
    BY <1>2 DEF ClearStorage
  <2>2. frame # "absent" => events' # <<>>
    BY <1>2 DEF ClearStorage
  <2> QED
    BY <1>2, <2>1, <2>2 DEF ClearStorage, authVars, FollowsStorage
<1>3. CASE Start
  BY <1>3, BootloaderAssumption
  DEF Start, LogIn, ReportLoggedOut, storageVars, authVars, FollowsStorage, BootloaderAssumption
<1>4. CASE HandleStorage
  <2>1. /\ seed' = seed /\ events' = Tail(events) /\ events # <<>>
        /\ events' \in Seq({"v1-seed", "null"})
    BY <1>4 DEF HandleStorage, storageVars
  <2>2. frame' \in {"running", "reloading"} /\ loginComplete' \in BOOLEAN /\ logoutComplete' \in BOOLEAN
    BY <1>4 DEF HandleStorage, StorageChanged, LogIn, LogOut, ReportLoggedOut, Ignore, authVars
  <2>3. frame' = "running" => ~logoutComplete' /\ frame = "running"
    BY <1>4 DEF HandleStorage, StorageChanged, LogIn, LogOut, ReportLoggedOut, Ignore, authVars
  <2>4. ASSUME frame' = "running", events' = <<>> PROVE FollowsStorage'
    <3>1. Head(events) = events[Len(events)] /\ Head(events) \in {"v1-seed", "null"}
      BY <2>1, <2>4, LastHead
    <3>2. Head(events) = "null" => seed = NoSeed
      BY <3>1, <2>1, <2>3, <2>4
    <3>3. CASE Head(events) = "null" /\ ~loginComplete
      BY <3>3, <3>2, <2>1, <2>3, <2>4, <1>4, BootloaderAssumption
      DEF HandleStorage, StorageChanged, Ignore, authVars, FollowsStorage, BootloaderAssumption
    <3>4. CASE Head(events) = "v1-seed" /\ ~loginComplete
      BY <3>4, <2>1, <2>3, <2>4, <1>4
      DEF HandleStorage, StorageChanged, LogIn, ReportLoggedOut, authVars, FollowsStorage
    <3>5. CASE loginComplete
      BY <3>5, <2>3, <2>4, <1>4 DEF HandleStorage, StorageChanged, LogOut
    <3> QED
      BY <3>1, <3>3, <3>4, <3>5
  <2>5. ASSUME frame' = "running", events' # <<>>, events'[Len(events')] = "null"
        PROVE  seed' = NoSeed
    BY <2>5, <2>1, <2>3, TailKeepsLast
  <2> QED
    BY <2>1, <2>2, <2>3, <2>4, <2>5
<1>5. ASSUME NEW loaded \in {"success", "failed"}, KernelLoads(loaded) PROVE StorageInv'
  BY <1>5 DEF KernelLoads, storageVars, FollowsStorage
<1>6. CASE Unload
  <2>1. events' \in Seq({"v1-seed", "null"})
    BY <1>6, EmptyIsSeq, Zenon DEF Unload
  <2>2. events' = <<>> /\ frame' = "absent" /\ ~loginComplete' /\ ~logoutComplete'
    BY <1>6, Zenon DEF Unload
  <2>3. loginComplete' \in BOOLEAN /\ logoutComplete' \in BOOLEAN
    BY <1>6, Zenon DEF Unload
  <2>4. UNCHANGED storageVars
    BY <1>6, Zenon DEF Unload
  <2> QED
    BY <2>1, <2>2, <2>3, <2>4 DEF storageVars, FollowsStorage
<1>7. CASE UNCHANGED <<storageVars, events, frame, authVars>>
  BY <1>7 DEF storageVars, authVars, FollowsStorage
<1>8. CASE HandleAuthStatus
  BY <1>7, <1>8 DEF HandleAuthStatus, storageVars, authVars
<1>9. CASE PageStep
  BY <1>7, <1>9 DEF PageStep, Connect, BridgePasses, AnswerVersion, CallInit, Timeout,
      FrameTimeout, HandleMessage, FrameStatus, bootVars
<1>10. CASE UNCHANGED vars
  BY <1>7, <1>10 DEF vars, bootVars
<1> QED
  BY <1>1, <1>2, <1>3, <1>4, <1>5, <1>6, <1>8, <1>9, <1>10 DEF Next, AuthPage

\* However quickly the seed is written: a bootloader that has handled its
\* storage events runs the kernel of the seed in localStorage.
THEOREM StorageFollowed == Spec => []FollowsStorage
<1>1. StorageInv => FollowsStorage
  BY DEF StorageInv, FollowsStorage
<1> QED
  BY <1>1, StorageInvInit, StorageInvNext, PTL DEF Spec

----------------------------------------------------------------------------

\* A status that is one of a session: none is further than its login.
Reported == {m \in Status : (m.loaded # "not yet" => m.login) /\ (m.logout => m.login)}

(***************************************************************************)
(* StageOrder is kept because every status on its way, and every status a   *)
(* relay remembers, is in order; and the bootloader reports such statuses   *)
(* only because it downloads, loads and logs out in a session.              *)
(***************************************************************************)
BootInv ==
    /\ seed \in Seeds /\ writes \in 0 .. MaxWrites
    /\ events \in Seq({"v1-seed", "null"})
    /\ frame \in {"absent", "running", "reloading"}
    /\ userSeed \in Users \cup {NoSeed}
    /\ loginComplete \in BOOLEAN /\ logoutComplete \in BOOLEAN /\ fetching \in BOOLEAN
    /\ kernelLoaded \in {"not yet", "success", "failed"}
    /\ kernelLoaded # "not yet" \/ logoutComplete \/ fetching => loginComplete
    /\ statuses \in Seq(Reported)

BackInv ==
    /\ authStatus \in Reported \cup {Unknown}
    /\ port \in [Pages -> {"none", "open", "closed"}]
    /\ toBridge \in [Pages -> Seq(Reported)]

BridgeInv ==
    /\ bridgeStatus \in [Pages -> Reported \cup {Unknown}]
    /\ question \in [Pages -> {"none", "asked", "owed"}]
    /\ toPage \in [Pages -> Seq(Reported \cup {BridgeResponse})]

PageInv ==
    /\ page \in [Pages -> Page]
    /\ \A p \in Pages : page[p].loaded # "not yet" => page[p].login

OrderInv == BootInv /\ BackInv /\ BridgeInv /\ PageInv

LEMMA SeqWider == ASSUME NEW S, NEW T, S \subseteq T, NEW s \in Seq(S) PROVE s \in Seq(T)
  OBVIOUS

LEMMA OrderInvTypes == ASSUME OrderInv PROVE TypeOK
<1>1. Reported \subseteq Status /\ Reported \cup {BridgeResponse} \subseteq Status \cup {BridgeResponse}
  BY DEF Reported
<1>2. BootTypeOK
  BY <1>1, SeqWider DEF OrderInv, BootInv, BootTypeOK
<1>3. toBridge \in [Pages -> Seq(Status)] /\ toPage \in [Pages -> Seq(Status \cup {BridgeResponse})]
  BY <1>1, SeqWider DEF OrderInv, BackInv, BridgeInv
<1> QED
  BY <1>1, <1>2, <1>3 DEF OrderInv, BackInv, BridgeInv, PageInv, TypeOK

LEMMA OrderInvStages == ASSUME OrderInv PROVE StageOrder
<1>1. ASSUME NEW p \in Pages, NEW i \in DOMAIN toPage[p], toPage[p][i].logout
      PROVE  toPage[p][i].login
  <2> DEFINE s == toPage[p]
  <2>1. s \in Seq(Reported \cup {BridgeResponse})
    BY DEF OrderInv, BridgeInv
  <2>2. s[i] \in Reported \cup {BridgeResponse}
    BY <2>1
  <2>3. BridgeResponse.logout = FALSE
    BY DEF BridgeResponse
  <2> QED
    BY <2>2, <2>3, <1>1 DEF Reported
<1> QED
  BY <1>1 DEF OrderInv, PageInv, StageOrder

LEMMA OrderInvInit == ASSUME Init PROVE OrderInv
<1>1. BootInv
  <2>1. events \in Seq({"v1-seed", "null"}) /\ statuses \in Seq(Reported)
    BY EmptyIsSeq, Zenon DEF Init, BootInit
  <2>2. writes = 0
    BY Zenon DEF Init, BootInit
  <2>3. writes \in 0 .. MaxWrites
    BY <2>2, BootloaderAssumption DEF BootloaderAssumption
  <2> QED
    BY <2>1, <2>3, Zenon DEF Init, BootInit, BootInv
<1>2. BackInv /\ BridgeInv
  BY EmptyIsSeq DEF Init, BackInv, BridgeInv
<1>3. FreshPage \in Page /\ FreshPage.loaded = "not yet"
  BY DEF FreshPage, Page
<1>4. PageInv
  BY <1>3 DEF Init, PageInv
<1> QED
  BY <1>1, <1>2, <1>4 DEF OrderInv

LEMMA AppendIsSeq == ASSUME NEW S, NEW s \in Seq(S), NEW e \in S PROVE Append(s, e) \in Seq(S)
  OBVIOUS

LEMMA TailIsSeq == ASSUME NEW S, NEW s \in Seq(S), s # <<>> PROVE Tail(s) \in Seq(S)
  OBVIOUS

LEMMA OneMoreWrite ==
  ASSUME NEW n \in 0 .. MaxWrites, n < MaxWrites PROVE n + 1 \in 0 .. MaxWrites
  BY BootloaderAssumption DEF BootloaderAssumption

\* What the bootloader reports of variables in order is in order.
LEMMA ReportInOrder ==
  ASSUME statuses \in Seq(Reported), SendAuthUpdate,
         userSeed' \in Users \cup {NoSeed},
         loginComplete' \in BOOLEAN, logoutComplete' \in BOOLEAN,
         kernelLoaded' \in {"not yet", "success", "failed"},
         kernelLoaded' # "not yet" \/ logoutComplete' => loginComplete'
  PROVE  statuses' \in Seq(Reported)
<1> DEFINE m == [login |-> loginComplete', loaded |-> kernelLoaded',
                 logout |-> logoutComplete', user |-> userSeed']
<1>1. m \in Reported
  BY DEF Status, Reported
<1>2. statuses' = Append(statuses, m)
  BY DEF SendAuthUpdate
<1> HIDE DEF m
<1> QED
  BY <1>1, <1>2, AppendIsSeq

LEMMA BootInvStep == ASSUME BootInv, AuthPage \/ Boot PROVE BootInv'
<1> USE DEF BootInv, authVars, storageVars
<1>1. ASSUME NEW u \in Users \cup BadSeeds, WriteSeed(u) PROVE BootInv'
  <2>1. events' \in Seq({"v1-seed", "null"})
    BY <1>1, AppendIsSeq DEF WriteSeed
  <2>2. seed' \in Seeds /\ writes < MaxWrites /\ writes' = writes + 1
    BY <1>1, Zenon DEF WriteSeed, Seeds
  <2>4. writes' \in 0 .. MaxWrites
    BY <2>2, OneMoreWrite, Zenon
  <2>3. UNCHANGED <<frame, authVars, fetching, statuses>>
    BY <1>1, Zenon DEF WriteSeed
  <2> QED
    BY <2>1, <2>2, <2>3, <2>4
<1>2. CASE ClearStorage
  <2>1. events' \in Seq({"v1-seed", "null"})
    BY <1>2, AppendIsSeq DEF ClearStorage
  <2>2. seed' \in Seeds /\ writes < MaxWrites /\ writes' = writes + 1
    BY <1>2, Zenon DEF ClearStorage, Seeds
  <2>4. writes' \in 0 .. MaxWrites
    BY <2>2, OneMoreWrite, Zenon
  <2>3. UNCHANGED <<frame, authVars, fetching, statuses>>
    BY <1>2, Zenon DEF ClearStorage
  <2> QED
    BY <2>1, <2>2, <2>3, <2>4
<1>3. CASE Start
  BY <1>3, ReportInOrder DEF Start, LogIn, ReportLoggedOut
<1>4. CASE HandleStorage
  <2>1. events' \in Seq({"v1-seed", "null"})
    <3>1. events' = Tail(events) /\ events # <<>>
      BY <1>4, Zenon DEF HandleStorage
    <3> QED
      BY <3>1, TailIsSeq, Zenon
  <2>2. UNCHANGED storageVars
    BY <1>4, Zenon DEF HandleStorage
  <2>3. StorageChanged(Head(events)) /\ events # <<>>
    BY <1>4, Zenon DEF HandleStorage
  <2> DEFINE key == Head(events)
  <2> HIDE DEF key
  <2>4. StorageChanged(key)
    BY <2>3 DEF key
  <2> USE DEF StorageChanged
  <2>5. ASSUME LogIn, UNCHANGED frame, seed \in Users, ~logoutComplete PROVE BootInv'
    BY <2>1, <2>2, <2>5, ReportInOrder DEF LogIn
  <2>6. ASSUME ReportLoggedOut, UNCHANGED frame PROVE BootInv'
    BY <2>1, <2>2, <2>6, ReportInOrder DEF ReportLoggedOut
  <2>7. ASSUME LogOut, loginComplete PROVE BootInv'
    BY <2>1, <2>2, <2>7, ReportInOrder DEF LogOut
  <2>8. ASSUME UNCHANGED <<authVars, fetching, statuses>>,
               frame' = "reloading" \/ UNCHANGED frame
        PROVE  BootInv'
    BY <2>1, <2>2, <2>8
  <2> QED
    BY <2>4, <2>5, <2>6, <2>7, <2>8 DEF Ignore
<1>5. ASSUME NEW loaded \in {"success", "failed"}, KernelLoads(loaded) PROVE BootInv'
  BY <1>5, ReportInOrder DEF KernelLoads
<1>6. CASE Unload
  <2>1. events' \in Seq({"v1-seed", "null"})
    BY <1>6, EmptyIsSeq, Zenon DEF Unload
  <2>2. UNCHANGED <<storageVars, statuses>>
    BY <1>6, Zenon DEF Unload
  <2>3. /\ frame' = "absent" /\ userSeed' = NoSeed /\ loginComplete' = FALSE
        /\ kernelLoaded' = "not yet" /\ logoutComplete' = FALSE /\ fetching' = FALSE
    BY <1>6, Zenon DEF Unload
  <2> QED
    BY <2>1, <2>2, <2>3
<1> QED
  BY <1>1, <1>2, <1>3, <1>4, <1>5, <1>6 DEF AuthPage, Boot

LEMMA ConcatIsSeq ==
  ASSUME NEW S, NEW s \in Seq(S), NEW t \in Seq(S) PROVE s \o t \in Seq(S)
  OBVIOUS

LEMMA PairIsSeq == ASSUME NEW S, NEW a \in S, NEW b \in S PROVE <<a, b>> \in Seq(S)
  OBVIOUS

LEMMA SingleIsSeq == ASSUME NEW S, NEW a \in S PROVE <<a>> \in Seq(S)
  OBVIOUS

LEMMA HeadIsIn == ASSUME NEW S, NEW s \in Seq(S), s # <<>> PROVE Head(s) \in S
  OBVIOUS

LEMMA BackInvStep == ASSUME OrderInv, HandleAuthStatus PROVE OrderInv'
<1> DEFINE status == Head(statuses)
<1>1. statuses \in Seq(Reported) /\ statuses # <<>>
  BY Zenon DEF HandleAuthStatus, OrderInv, BootInv
<1>2. status \in Reported /\ statuses' \in Seq(Reported)
  BY <1>1, HeadIsIn, TailIsSeq, Zenon DEF HandleAuthStatus
<1> HIDE DEF status
<1>3. authStatus' \in Reported \cup {Unknown}
  BY <1>2, Zenon DEF HandleAuthStatus, status
<1>4. \A p \in Pages : Append(toBridge[p], status) \in Seq(Reported)
                      /\ toBridge[p] \o <<status, status>> \in Seq(Reported)
  BY <1>2, AppendIsSeq, ConcatIsSeq, PairIsSeq DEF OrderInv, BackInv
<1>5. IF Known(authStatus)
      THEN Broadcast(status)
      ELSE toBridge' = [p \in Pages |-> IF p \in OpenPorts
                                        THEN toBridge[p] \o <<status, status>> ELSE toBridge[p]]
  BY Zenon DEF HandleAuthStatus, status
<1>6. toBridge' \in [Pages -> Seq(Reported)]
  BY <1>4, <1>5 DEF Broadcast, OrderInv, BackInv
<1>7. port' \in [Pages -> {"none", "open", "closed"}]
  <2>1. port' = [p \in Pages |-> IF p \in OpenPorts /\ status.logout THEN "closed" ELSE port[p]]
    BY Zenon DEF HandleAuthStatus, status
  <2> QED
    BY <2>1 DEF OrderInv, BackInv
<1>8. UNCHANGED <<storageVars, events, frame, authVars, fetching, bridgeVars, toPage, page>>
  BY Zenon DEF HandleAuthStatus
<1> QED
  BY <1>2, <1>3, <1>6, <1>7, <1>8
  DEF OrderInv, BootInv, BackInv, BridgeInv, PageInv, storageVars, authVars, bridgeVars

\* The stages of a page stay in order whatever status comes next.
LEMMA AdvanceInOrder ==
  ASSUME NEW pg \in Page, NEW status \in Reported, pg.loaded # "not yet" => pg.login
  PROVE  /\ Advance(pg, status) \in Page
         /\ Advance(pg, status).loaded # "not yet" => Advance(pg, status).login
  BY DEF Page, Reported, Status, Advance

LEMMA FreshIsPage == FreshPage \in Page /\ FreshPage.loaded = "not yet"
  BY DEF FreshPage, Page

LEMMA FrameReports == FrameStatuses \subseteq Reported
<1> DEFINE out == [login |-> FALSE, loaded |-> "not yet", logout |-> FALSE, user |-> NoSeed]
           in == [login |-> TRUE, loaded |-> "success", logout |-> FALSE, user |-> NoSeed]
<1>1. out \in Status /\ in \in Status
  BY DEF Status
<1>2. out.loaded = "not yet" /\ ~out.logout /\ in.login
  OBVIOUS
<1>3. FrameStatuses = {out, in}
  BY DEF FrameStatuses
<1> HIDE DEF out, in
<1>4. out \in Reported /\ in \in Reported
  BY <1>1, <1>2 DEF Reported
<1> QED
  BY <1>3, <1>4

\* The steps of libkernel that do not touch the stages.
LEMMA SourceOfPage ==
  ASSUME NEW pg \in Page, NEW b \in BOOLEAN, NEW source \in {"unknown", "extension", "skt.us"}
  PROVE  /\ [pg EXCEPT !.called = b] \in Page /\ [pg EXCEPT !.called = b].loaded = pg.loaded
         /\ [pg EXCEPT !.called = b].login = pg.login
         /\ [pg EXCEPT !.init = b] \in Page /\ [pg EXCEPT !.init = b].loaded = pg.loaded
         /\ [pg EXCEPT !.init = b].login = pg.login
         /\ [pg EXCEPT !.source = source] \in Page /\ [pg EXCEPT !.source = source].loaded = pg.loaded
         /\ [pg EXCEPT !.source = source].login = pg.login
  BY DEF Page

LEMMA OnePageChanges ==
  ASSUME OrderInv, NEW p \in Pages, NEW new \in Page, new.loaded = page[p].loaded,
         new.login = page[p].login, page' = [page EXCEPT ![p] = new]
  PROVE  PageInv'
  BY DEF OrderInv, PageInv

LEMMA PageInvStep ==
  ASSUME OrderInv, NEW p \in Pages, UNCHANGED bootVars
  PROVE  /\ Connect(p) => OrderInv'
         /\ BridgePasses(p) => OrderInv'
         /\ AnswerVersion(p) => OrderInv'
         /\ CallInit(p) => OrderInv'
         /\ Timeout(p) \/ FrameTimeout(p) => OrderInv'
         /\ HandleMessage(p) => OrderInv'
         /\ \A status \in FrameStatuses : FrameStatus(p, status) => OrderInv'
<1>0. BootInv'
  BY DEF OrderInv, BootInv, bootVars, storageVars, authVars
<1> USE DEF BackInv, BridgeInv, PageInv
<1>1. ASSUME Connect(p) PROVE OrderInv'
  <2>1. Known(authStatus) => Append(toBridge[p], authStatus) \in Seq(Reported)
    BY AppendIsSeq DEF Known, OrderInv
  <2>2. toBridge' \in [Pages -> Seq(Reported)]
    BY <1>1, <2>1 DEF Connect, Greet, OrderInv
  <2> QED
    BY <1>0, <1>1, <2>2 DEF Connect, OrderInv, bridgeVars
<1>2. ASSUME BridgePasses(p) PROVE OrderInv'
  <2> DEFINE status == Head(toBridge[p])
  <2>1. status \in Reported /\ Tail(toBridge[p]) \in Seq(Reported)
    BY <1>2, HeadIsIn, TailIsSeq DEF BridgePasses, OrderInv
  <2> HIDE DEF status
  <2>2. toBridge' = [toBridge EXCEPT ![p] = Tail(@)] /\ bridgeStatus' = [bridgeStatus EXCEPT ![p] = status]
    BY <1>2, Zenon DEF BridgePasses, status
  <2>3. question' = [question EXCEPT ![p] = IF @ = "owed" THEN "none" ELSE @]
    BY <1>2, Zenon DEF BridgePasses
  <2>4. toPage[p] \o <<status, status>> \in Seq(Reported \cup {BridgeResponse})
        /\ toPage[p] \o <<status>> \in Seq(Reported \cup {BridgeResponse})
    BY <2>1, ConcatIsSeq, PairIsSeq, SingleIsSeq DEF OrderInv
  <2>5. \/ toPage' = toPage
        \/ toPage' = [toPage EXCEPT ![p] = @ \o (IF question[p] = "owed" THEN <<status, status>> ELSE <<status>>)]
    BY <1>2, Zenon DEF BridgePasses, status
  <2>6. toPage' \in [Pages -> Seq(Reported \cup {BridgeResponse})]
    BY <2>4, <2>5 DEF OrderInv
  <2>7. UNCHANGED <<authStatus, port, page>>
    BY <1>2, Zenon DEF BridgePasses
  <2> QED
    BY <1>0, <2>1, <2>2, <2>3, <2>6, <2>7 DEF OrderInv
<1>3. ASSUME AnswerVersion(p) PROVE OrderInv'
  <2>1. BridgeResponse \in Reported \cup {BridgeResponse}
    OBVIOUS
  <2>2. /\ Append(toPage[p], BridgeResponse) \in Seq(Reported \cup {BridgeResponse})
        /\ Known(bridgeStatus[p]) => toPage[p] \o <<BridgeResponse, bridgeStatus[p]>>
                                      \in Seq(Reported \cup {BridgeResponse})
    BY <2>1, AppendIsSeq, ConcatIsSeq, PairIsSeq DEF Known, OrderInv
  <2>3. toPage' \in [Pages -> Seq(Reported \cup {BridgeResponse})]
        /\ question' \in [Pages -> {"none", "asked", "owed"}]
    BY <1>3, <2>2 DEF AnswerVersion, OrderInv
  <2> QED
    BY <1>0, <1>3, <2>3 DEF AnswerVersion, OrderInv, backVars
<1>4. ASSUME CallInit(p) PROVE OrderInv'
  <2> DEFINE new == [page[p] EXCEPT !.called = TRUE]
  <2>1. new \in Page /\ new.loaded = page[p].loaded /\ new.login = page[p].login
    BY SourceOfPage DEF OrderInv
  <2>2. page' = [page EXCEPT ![p] = new]
    BY <1>4, Zenon DEF CallInit
  <2> HIDE DEF new
  <2>3. PageInv'
    BY <2>1, <2>2, OnePageChanges
  <2> QED
    BY <1>0, <1>4, <2>3 DEF CallInit, OrderInv, backVars
<1>5. ASSUME Timeout(p) \/ FrameTimeout(p) PROVE OrderInv'
  <2> DEFINE a == [page[p] EXCEPT !.source = "skt.us"]
             b == [page[p] EXCEPT !.init = TRUE]
  <2>1. /\ a \in Page /\ a.loaded = page[p].loaded /\ a.login = page[p].login
        /\ b \in Page /\ b.loaded = page[p].loaded /\ b.login = page[p].login
    BY SourceOfPage DEF OrderInv
  <2>2. Timeout(p) => page' = [page EXCEPT ![p] = a]
    BY Zenon DEF Timeout, LaunchKernelFrame
  <2>3. FrameTimeout(p) => page' = [page EXCEPT ![p] = b]
    BY Zenon DEF FrameTimeout
  <2> HIDE DEF a, b
  <2>4. PageInv'
    BY <1>5, <2>1, <2>2, <2>3, OnePageChanges
  <2> QED
    BY <1>0, <1>5, <2>4 DEF Timeout, FrameTimeout, OrderInv, backVars, bridgeVars
<1>6. ASSUME HandleMessage(p) PROVE OrderInv'
  <2> DEFINE m == Head(toPage[p])
  <2>1. m \in Reported \cup {BridgeResponse} /\ Tail(toPage[p]) \in Seq(Reported \cup {BridgeResponse})
    BY <1>6, HeadIsIn, TailIsSeq DEF HandleMessage, OrderInv
  <2> HIDE DEF m
  <2>2. UNCHANGED authStatus
    BY <1>6, Zenon DEF HandleMessage
  <2>3. ASSUME m = BridgeResponse,
               page' = [page EXCEPT ![p].source = IF @ = "unknown" THEN "extension" ELSE @],
               toPage' = [toPage EXCEPT ![p] = Tail(@)],
               UNCHANGED <<port, toBridge, bridgeVars>>
        PROVE  OrderInv'
    <3> DEFINE source == IF page[p].source = "unknown" THEN "extension" ELSE page[p].source
               new == [page[p] EXCEPT !.source = source]
    <3>0. page[p] \in Page /\ source \in {"unknown", "extension", "skt.us"}
      BY DEF OrderInv, Page
    <3>1. new \in Page /\ new.loaded = page[p].loaded /\ new.login = page[p].login
      BY <3>0, SourceOfPage
    <3>2. page' = [page EXCEPT ![p] = new]
      BY <2>3, Zenon
    <3> HIDE DEF new
    <3>3. PageInv'
      BY <3>1, <3>2, OnePageChanges
    <3> QED
      BY <1>0, <2>1, <2>2, <2>3, <3>3 DEF OrderInv, bridgeVars
  <2>4. ASSUME m \in Reported, HandleStatus(p, m) PROVE OrderInv'
    <3>1. CASE Reload(p)
      BY <1>0, <2>2, <3>1, FreshIsPage, EmptyIsSeq DEF Reload, OrderInv
    <3>2. ASSUME page' = [page EXCEPT ![p] = Advance(@, m)], toPage' = [toPage EXCEPT ![p] = Tail(@)],
                 UNCHANGED <<port, toBridge, bridgeVars>>
          PROVE  OrderInv'
      <4>1. PageInv'
        BY <2>4, <3>2, AdvanceInOrder DEF OrderInv
      <4> QED
        BY <1>0, <2>1, <2>2, <3>2, <4>1 DEF OrderInv, bridgeVars
    <3> QED
      BY <2>4, <3>1, <3>2 DEF HandleStatus
  <2> QED
    BY <1>6, <2>1, <2>3, <2>4 DEF HandleMessage, m
<1>7. ASSUME NEW status \in FrameStatuses, FrameStatus(p, status) PROVE OrderInv'
  <2>1. status \in Reported
    BY FrameReports
  <2>2. page' = [page EXCEPT ![p] = [Advance(page[p], status) EXCEPT
                                        !.frameLoaded = @ \/ status.loaded = "success"]]
    BY <1>7, Zenon DEF FrameStatus
  <2> DEFINE pg == Advance(page[p], status)
  <2>3. pg \in Page /\ (pg.loaded # "not yet" => pg.login)
    BY <2>1, AdvanceInOrder DEF OrderInv
  <2> HIDE DEF pg
  <2>4. page' = [page EXCEPT ![p] = [pg EXCEPT !.frameLoaded = @ \/ status.loaded = "success"]]
    BY <2>2, Zenon DEF pg
  <2>5. PageInv'
    BY <2>3, <2>4 DEF OrderInv, Page
  <2> QED
    BY <1>0, <1>7, <2>5 DEF FrameStatus, OrderInv, backVars, bridgeVars
<1> QED
  BY <1>1, <1>2, <1>3, <1>4, <1>5, <1>6, <1>7

LEMMA OrderInvNext == ASSUME OrderInv, [Next]_vars PROVE OrderInv'
<1>1. ASSUME AuthPage \/ Boot, Elsewhere PROVE OrderInv'
  <2>1. BootInv'
    BY <1>1, BootInvStep DEF OrderInv
  <2> QED
    BY <1>1, <2>1 DEF Elsewhere, OrderInv, BackInv, BridgeInv, PageInv, backVars, bridgeVars
<1>2. CASE PageStep
  <2>1. UNCHANGED bootVars
    BY <1>2, Zenon
    DEF PageStep, Connect, BridgePasses, AnswerVersion, CallInit, Timeout, FrameTimeout,
        HandleMessage, FrameStatus
  <2> QED
    BY <1>2, <2>1, PageInvStep, Zenon DEF PageStep
<1>3. CASE UNCHANGED vars
  BY <1>3 DEF vars, bootVars, backVars, bridgeVars, storageVars, authVars,
              OrderInv, BootInv, BackInv, BridgeInv, PageInv
<1> QED
  BY <1>1, <1>2, <1>3, BackInvStep DEF Next, Boot

\* Every variable has its type, whatever the pages and the bootloader do.
THEOREM AuthTypeCorrect == Spec => []TypeOK
  BY OrderInvInit, OrderInvNext, OrderInvTypes, PTL DEF Spec

\* No relay, repeat or reload makes a page see a kernel loaded, or a logout,
\* outside of a login.
THEOREM StagesInOrder == Spec => []StageOrder
  BY OrderInvInit, OrderInvNext, OrderInvStages, PTL DEF Spec

----------------------------------------------------------------------------

(***************************************************************************)
(* Why a page that was told of a login is used in that session, or has a    *)
(* logout coming.  A status travels from the frame to the background, from  *)
(* there to the bridge and to the page; at each place, the users a status   *)
(* may tell of are all of them when a logout is behind it on its way, and   *)
(* otherwise only the one whose session the frame is in - none once it has  *)
(* reported the logout, and none past a port that is not open.              *)
(***************************************************************************)
Sessions == Users \cup {NoSeed}

Ends(s) == \E i \in DOMAIN s : s[i].logout

LiveUsers == IF loginComplete /\ ~logoutComplete THEN {userSeed} ELSE {}

AtFrame == IF Ends(statuses) THEN Sessions ELSE LiveUsers

AtPort(p) == IF port[p] = "open" THEN AtFrame ELSE {}

AtBridge(p) == IF Ends(toBridge[p]) THEN Sessions ELSE AtPort(p)

AtPage(p) == IF Ends(toPage[p]) THEN Sessions ELSE AtBridge(p)

Told(m, users) == m.login => m.logout \/ m.user \in users

SessionsIn(s, users) ==
    \A i \in DOMAIN s :
        s[i].login => s[i].user \in users \/ \E j \in DOMAIN s : j >= i /\ s[j].logout

FrameSession ==
    /\ frame = "reloading" => logoutComplete
    /\ SessionsIn(statuses, LiveUsers)
    /\ Told(authStatus, AtFrame)

PageSession(p) ==
    /\ SessionsIn(toBridge[p], AtPort(p))
    /\ Told(bridgeStatus[p], AtBridge(p))
    /\ SessionsIn(toPage[p], AtBridge(p))
    /\ page[p].login /\ page[p].source # "skt.us" => page[p].user \in AtPage(p)

\* Nothing is on its way to a page that has not called init or has no port.
Silent(p) ==
    /\ ~page[p].called => /\ question[p] = "none" /\ toPage[p] = <<>>
                          /\ page[p].source # "skt.us" /\ ~page[p].login
    /\ port[p] = "none" => /\ question[p] = "none" /\ toPage[p] = <<>>
                           /\ toBridge[p] = <<>> /\ bridgeStatus[p] = Unknown
                           /\ page[p].login => page[p].source = "skt.us"

SessionInv ==
    /\ OrderInv
    /\ StorageInv
    /\ FrameSession
    /\ \A p \in Pages : PageSession(p) /\ Silent(p)

LEMMA EndsAppend ==
  ASSUME NEW S, NEW s \in Seq(S), NEW e \in S
  PROVE  Ends(Append(s, e)) <=> (Ends(s) \/ e.logout)
<1>1. /\ Len(s) \in Nat
      /\ DOMAIN s = 1 .. Len(s)
      /\ DOMAIN Append(s, e) = 1 .. Len(s) + 1
      /\ \A i \in 1 .. Len(s) : Append(s, e)[i] = s[i]
      /\ Append(s, e)[Len(s) + 1] = e
  OBVIOUS
<1> QED
  BY <1>1 DEF Ends

LEMMA EndsTail ==
  ASSUME NEW S, NEW s \in Seq(S), s # <<>>
  PROVE  Ends(s) <=> (Head(s).logout \/ Ends(Tail(s)))
<1>1. /\ Len(s) \in Nat /\ Len(s) > 0
      /\ DOMAIN s = 1 .. Len(s)
      /\ DOMAIN Tail(s) = 1 .. Len(s) - 1
      /\ \A i \in 1 .. Len(s) - 1 : Tail(s)[i] = s[i + 1]
      /\ Head(s) = s[1]
  OBVIOUS
<1>2. ASSUME NEW i \in DOMAIN s, s[i].logout PROVE Head(s).logout \/ Ends(Tail(s))
  <2>1. i = 1 \/ (i - 1 \in 1 .. Len(s) - 1 /\ Tail(s)[i - 1] = s[i])
    BY <1>1
  <2> QED
    BY <1>1, <1>2, <2>1 DEF Ends
<1>3. ASSUME NEW i \in DOMAIN Tail(s), Tail(s)[i].logout PROVE Ends(s)
  <2>1. i + 1 \in 1 .. Len(s) /\ s[i + 1] = Tail(s)[i]
    BY <1>1
  <2> QED
    BY <1>1, <1>3, <2>1 DEF Ends
<1>4. Head(s).logout => Ends(s)
  <2>1. 1 \in DOMAIN s
    BY <1>1
  <2> QED
    BY <1>1, <2>1 DEF Ends
<1> QED
  BY <1>2, <1>3, <1>4 DEF Ends

LEMMA SessionsWider ==
  ASSUME NEW s, NEW U, NEW V, U \subseteq V, SessionsIn(s, U)
  PROVE  SessionsIn(s, V)
  BY DEF SessionsIn

LEMMA SessionsAppend ==
  ASSUME NEW S, NEW s \in Seq(S), NEW e \in S, NEW U, NEW V,
         SessionsIn(s, U), Told(e, V), e.logout \/ U \subseteq V
  PROVE  SessionsIn(Append(s, e), V)
<1> DEFINE t == Append(s, e)
           n == Len(s)
<1>1. /\ n \in Nat
      /\ DOMAIN s = 1 .. n
      /\ DOMAIN t = 1 .. n + 1
      /\ \A i \in 1 .. n : t[i] = s[i]
      /\ t[n + 1] = e
  OBVIOUS
<1> HIDE DEF t, n
<1> SUFFICES ASSUME NEW i \in DOMAIN t, t[i].login
             PROVE  t[i].user \in V \/ \E j \in DOMAIN t : j >= i /\ t[j].logout
  BY DEF SessionsIn, t
<1>2. CASE e.logout
  <2>1. n + 1 \in DOMAIN t /\ n + 1 >= i
    BY <1>1
  <2> QED
    BY <1>1, <1>2, <2>1
<1>3. CASE ~e.logout /\ i = n + 1
  BY <1>1, <1>3 DEF Told
<1>4. CASE ~e.logout /\ i # n + 1
  <2>1. i \in DOMAIN s /\ s[i] = t[i]
    BY <1>1, <1>4
  <2>2. s[i].user \in U \/ \E j \in DOMAIN s : j >= i /\ s[j].logout
    BY <2>1 DEF SessionsIn
  <2>3. \A j \in DOMAIN s : j \in DOMAIN t /\ t[j] = s[j]
    BY <1>1
  <2> QED
    BY <1>4, <2>1, <2>2, <2>3
<1> QED
  BY <1>2, <1>3, <1>4

LEMMA SessionsTail ==
  ASSUME NEW S, NEW s \in Seq(S), s # <<>>, NEW U, SessionsIn(s, U)
  PROVE  /\ SessionsIn(Tail(s), U)
         /\ Head(s).login => Head(s).logout \/ Ends(Tail(s)) \/ Head(s).user \in U
<1> DEFINE t == Tail(s)
           n == Len(s)
<1>1. /\ n \in Nat /\ n > 0
      /\ DOMAIN s = 1 .. n
      /\ DOMAIN t = 1 .. n - 1
      /\ \A i \in 1 .. n - 1 : t[i] = s[i + 1]
      /\ Head(s) = s[1]
  OBVIOUS
<1> HIDE DEF t, n
<1>2. ASSUME NEW i \in DOMAIN t, t[i].login
      PROVE  t[i].user \in U \/ \E j \in DOMAIN t : j >= i /\ t[j].logout
  <2>1. i + 1 \in DOMAIN s /\ t[i] = s[i + 1]
    BY <1>1
  <2>2. t[i].user \in U \/ \E j \in DOMAIN s : j >= i + 1 /\ s[j].logout
    BY <1>2, <2>1 DEF SessionsIn
  <2>3. ASSUME NEW j \in DOMAIN s, j >= i + 1, s[j].logout
        PROVE  \E k \in DOMAIN t : k >= i /\ t[k].logout
    <3>1. j - 1 \in DOMAIN t /\ j - 1 >= i /\ t[j - 1] = s[j]
      BY <1>1, <2>3
    <3> QED
      BY <2>3, <3>1
  <2> QED
    BY <2>2, <2>3
<1>3. ASSUME Head(s).login, Head(s).user \notin U, ~Head(s).logout PROVE Ends(t)
  <2>1. 1 \in DOMAIN s
    BY <1>1
  <2>2. \E j \in DOMAIN s : j >= 1 /\ s[j].logout
    BY <1>1, <1>3, <2>1 DEF SessionsIn
  <2>3. PICK j \in DOMAIN s : s[j].logout
    BY <2>2
  <2>4. j - 1 \in DOMAIN t /\ t[j - 1] = s[j]
    BY <1>1, <1>3, <2>3
  <2> QED
    BY <2>3, <2>4 DEF Ends
<1> QED
  BY <1>2, <1>3 DEF SessionsIn, t

LEMMA TwiceIsAppend ==
  ASSUME NEW S, NEW s \in Seq(S), NEW a \in S, NEW b \in S
  PROVE  s \o <<a, b>> = Append(Append(s, a), b) /\ s \o <<a>> = Append(s, a)
  OBVIOUS

LEMMA NothingEnds == ~Ends(<<>>) /\ \A U : SessionsIn(<<>>, U)
  BY DEF Ends, SessionsIn

LEMMA FrameUsers == ASSUME OrderInv PROVE LiveUsers \subseteq Sessions /\ AtFrame \subseteq Sessions
  BY DEF OrderInv, BootInv, LiveUsers, AtFrame, Sessions

LEMMA SessionInvInit == ASSUME Init PROVE SessionInv
<1>1. OrderInv /\ StorageInv
  BY OrderInvInit, StorageInvInit
<1>2. frame = "absent" /\ statuses = <<>> /\ authStatus = Unknown /\ ~Unknown.login
  BY DEF Init, BootInit, Unknown
<1>3. FrameSession
  BY <1>2, NothingEnds DEF FrameSession, Told
<1>4. ASSUME NEW p \in Pages PROVE PageSession(p) /\ Silent(p)
  <2>1. /\ toBridge[p] = <<>> /\ toPage[p] = <<>> /\ bridgeStatus[p] = Unknown
        /\ question[p] = "none" /\ page[p] = FreshPage
    BY DEF Init
  <2>2. ~FreshPage.login /\ FreshPage.source = "unknown"
    BY DEF FreshPage
  <2> QED
    BY <1>2, <2>1, <2>2, NothingEnds DEF PageSession, Silent, Told
<1> QED
  BY <1>1, <1>3, <1>4 DEF SessionInv

\* A report of the frame either tells of the session it is in, or ends it.
LEMMA ReportSessions ==
  ASSUME OrderInv, BootInv', SessionsIn(statuses, LiveUsers), SendAuthUpdate,
         logoutComplete' \/ LiveUsers \subseteq LiveUsers'
  PROVE  SessionsIn(statuses', LiveUsers') /\ AtFrame \subseteq AtFrame'
<1> DEFINE m == [login |-> loginComplete', loaded |-> kernelLoaded',
                 logout |-> logoutComplete', user |-> userSeed']
           live == LiveUsers'
<1>1. m \in Status
  BY DEF BootInv, Status
<1>2. statuses' = Append(statuses, m)
  BY DEF SendAuthUpdate
<1>3. statuses \in Seq(Status)
  BY SeqWider DEF OrderInv, BootInv, Reported
<1>4. m.logout = logoutComplete' /\ Told(m, live)
  BY DEF Told, LiveUsers
<1> HIDE DEF m
<1>5. SessionsIn(Append(statuses, m), live)
  <2>1. m.logout \/ LiveUsers \subseteq live
    BY <1>4
  <2> HIDE DEF live
  <2> QED
    BY <1>1, <1>3, <1>4, <2>1, SessionsAppend
<1>6. Ends(statuses') <=> (Ends(statuses) \/ logoutComplete')
  BY <1>1, <1>2, <1>3, <1>4, EndsAppend
<1>7. AtFrame' = IF Ends(statuses') THEN Sessions ELSE live
  BY DEF AtFrame, Sessions
<1> QED
  BY <1>2, <1>5, <1>6, <1>7, FrameUsers DEF AtFrame

\* No step of the frame takes a user from those a status may tell of.
LEMMA BootSessions ==
  ASSUME SessionInv, AuthPage \/ Boot
  PROVE  /\ SessionsIn(statuses', LiveUsers')
         /\ AtFrame \subseteq AtFrame'
         /\ frame' = "reloading" => logoutComplete'
<1> USE DEF SessionInv
<1>1. BootInv'
  BY BootInvStep DEF OrderInv
<1>2. SessionsIn(statuses, LiveUsers) /\ (frame = "reloading" => logoutComplete)
  BY DEF FrameSession
<1>3. ASSUME UNCHANGED <<frame, authVars, statuses>>
      PROVE  /\ SessionsIn(statuses', LiveUsers') /\ AtFrame \subseteq AtFrame'
             /\ frame' = "reloading" => logoutComplete'
  BY <1>2, <1>3 DEF authVars, LiveUsers, AtFrame
<1>4. ASSUME LogIn, ~loginComplete
      PROVE  SessionsIn(statuses', LiveUsers') /\ AtFrame \subseteq AtFrame'
  <2>1. LiveUsers = {}
    BY <1>4 DEF LiveUsers
  <2> QED
    BY <1>1, <1>2, <1>4, <2>1, ReportSessions DEF LogIn
<1>5. ASSUME ReportLoggedOut
      PROVE  SessionsIn(statuses', LiveUsers') /\ AtFrame \subseteq AtFrame'
  <2>1. LiveUsers = LiveUsers'
    BY <1>5 DEF ReportLoggedOut, authVars, LiveUsers
  <2> QED
    BY <1>1, <1>2, <1>5, <2>1, ReportSessions DEF ReportLoggedOut
<1>6. CASE AuthPage
  <2>1. UNCHANGED <<frame, authVars, statuses>>
    BY <1>6, Zenon DEF AuthPage, WriteSeed, ClearStorage
  <2> QED
    BY <1>3, <2>1
<1>7. CASE Start
  <2>1. ~loginComplete /\ frame' = "running"
    BY <1>7 DEF Start, StorageInv
  <2> QED
    BY <1>4, <1>5, <1>7, <2>1 DEF Start
<1>8. CASE HandleStorage
  <2>1. StorageChanged(Head(events))
    BY <1>8, Zenon DEF HandleStorage
  <2>2. CASE logoutComplete
    BY <1>2, <2>1, <2>2 DEF StorageChanged, authVars, LiveUsers, AtFrame
  <2>3. CASE Ignore
    BY <1>3, <2>3 DEF Ignore
  <2>4. ASSUME LogIn, ~loginComplete, UNCHANGED frame
        PROVE  /\ SessionsIn(statuses', LiveUsers') /\ AtFrame \subseteq AtFrame'
               /\ frame' = "reloading" => logoutComplete'
    BY <1>2, <1>4, <2>4 DEF LogIn
  <2>5. ASSUME ReportLoggedOut, UNCHANGED frame
        PROVE  /\ SessionsIn(statuses', LiveUsers') /\ AtFrame \subseteq AtFrame'
               /\ frame' = "reloading" => logoutComplete'
    BY <1>2, <1>5, <2>5 DEF ReportLoggedOut, authVars
  <2>6. CASE LogOut
    BY <1>1, <1>2, <2>6, ReportSessions DEF LogOut
  <2> QED
    BY <2>1, <2>2, <2>3, <2>4, <2>5, <2>6 DEF StorageChanged
<1>9. ASSUME NEW loaded \in {"success", "failed"}, KernelLoads(loaded)
      PROVE  /\ SessionsIn(statuses', LiveUsers') /\ AtFrame \subseteq AtFrame'
             /\ frame' = "reloading" => logoutComplete'
  <2>1. LiveUsers = LiveUsers'
    BY <1>9 DEF KernelLoads, LiveUsers
  <2> QED
    BY <1>1, <1>2, <1>9, <2>1, ReportSessions DEF KernelLoads
<1>10. CASE Unload
  <2>1. /\ logoutComplete /\ frame' = "absent" /\ statuses' = statuses
        /\ loginComplete' = FALSE
    BY <1>2, <1>10, Zenon DEF Unload
  <2>2. LiveUsers = {} /\ LiveUsers' = {}
    BY <2>1 DEF LiveUsers
  <2> QED
    BY <1>2, <2>1, <2>2 DEF AtFrame
<1> QED
  BY <1>6, <1>7, <1>8, <1>9, <1>10 DEF Boot

\* What a step leaves alone stays, when its port lets no fewer users through.
LEMMA PageKept ==
  ASSUME NEW p \in Pages, PageSession(p), Silent(p), AtPort(p) \subseteq AtPort(p)',
         port'[p] = port[p], toBridge'[p] = toBridge[p], bridgeStatus'[p] = bridgeStatus[p],
         question'[p] = question[p], toPage'[p] = toPage[p], page'[p] = page[p]
  PROVE  PageSession(p)' /\ Silent(p)'
<1>1. AtBridge(p) \subseteq AtBridge(p)' /\ AtPage(p) \subseteq AtPage(p)'
  BY DEF AtBridge, AtPage, Sessions
<1>2. SessionsIn(toBridge[p], AtPort(p)') /\ SessionsIn(toPage[p], AtBridge(p)')
  BY <1>1, SessionsWider DEF PageSession
<1>3. PageSession(p)'
  BY <1>1, <1>2 DEF PageSession, Told
<1>4. Silent(p)'
  BY DEF Silent, Unknown
<1> QED
  BY <1>3, <1>4

\* The port of a page whose port stays as it is.
LEMMA PortKept ==
  ASSUME NEW p \in Pages, AtFrame \subseteq AtFrame', port'[p] = port[p]
  PROVE  AtPort(p) \subseteq AtPort(p)'
  BY DEF AtPort

\* The background tells the open ports, and closes them when it is a logout.
LEMMA BackgroundSessions ==
  ASSUME SessionInv, HandleAuthStatus, OrderInv'
  PROVE  FrameSession' /\ \A p \in Pages : PageSession(p)' /\ Silent(p)'
<1> DEFINE status == Head(statuses)
<1>1. /\ statuses # <<>> /\ statuses' = Tail(statuses) /\ authStatus' = status
      /\ UNCHANGED <<frame, authVars, bridgeVars, toPage, page>>
  BY Zenon DEF HandleAuthStatus
<1>2. statuses \in Seq(Status) /\ status \in Status /\ status.user \in Sessions
  <2>1. statuses \in Seq(Status)
    BY SeqWider DEF SessionInv, OrderInv, BootInv, Reported
  <2> QED
    BY <1>1, <2>1, HeadIsIn DEF Status, Sessions
<1>3. \A p \in Pages : port'[p] = IF port[p] = "open" /\ status.logout THEN "closed" ELSE port[p]
  BY Zenon DEF HandleAuthStatus, OpenPorts
<1>4. \A p \in Pages : port[p] # "open" => toBridge'[p] = toBridge[p]
  BY DEF HandleAuthStatus, OpenPorts, Broadcast
<1>5. \A p \in Pages : port[p] = "open" =>
        \/ toBridge'[p] = Append(toBridge[p], status)
        \/ toBridge'[p] = toBridge[p] \o <<status, status>>
  BY DEF HandleAuthStatus, OpenPorts, Broadcast
<1> HIDE DEF status
<1>6. LiveUsers' = LiveUsers
  BY <1>1 DEF authVars, LiveUsers
<1>7. /\ SessionsIn(statuses', LiveUsers)
      /\ status.login => status.logout \/ Ends(statuses') \/ status.user \in LiveUsers
      /\ Ends(statuses) <=> (status.logout \/ Ends(statuses'))
  BY <1>1, <1>2, SessionsTail, EndsTail DEF SessionInv, FrameSession, status
<1>8. Told(status, AtFrame')
  BY <1>2, <1>6, <1>7 DEF Told, AtFrame, Sessions
<1>9. FrameSession'
  <2>1. SessionsIn(statuses', LiveUsers')
    BY <1>6, <1>7
  <2>2. Told(authStatus', AtFrame')
    BY <1>1, <1>8
  <2>3. frame' = "reloading" => logoutComplete'
    BY <1>1 DEF authVars, SessionInv, FrameSession
  <2> QED
    BY <2>1, <2>2, <2>3 DEF FrameSession
<1>10. ASSUME NEW p \in Pages, port[p] # "open" PROVE PageSession(p)' /\ Silent(p)'
  <2>1. AtPort(p) \subseteq AtPort(p)'
    BY <1>10 DEF AtPort
  <2> QED
    BY <1>1, <1>3, <1>4, <1>10, <2>1, PageKept DEF SessionInv, bridgeVars
<1>11. ASSUME NEW p \in Pages, port[p] = "open" PROVE PageSession(p)' /\ Silent(p)'
  <2> DEFINE s == toBridge[p]
             t == toBridge'[p]
             U == AtPort(p)
             V == AtPort(p)'
  <2>1. s \in Seq(Status) /\ SessionsIn(s, U)
    BY SeqWider DEF SessionInv, OrderInv, BackInv, Reported, PageSession
  <2>2. t = Append(s, status) \/ t = Append(Append(s, status), status)
    BY <1>2, <1>5, <1>11, <2>1, TwiceIsAppend
  <2>3. Told(status, V) /\ (status.logout \/ U \subseteq V)
    <3>1. CASE status.logout
      BY <3>1 DEF Told
    <3>2. CASE ~status.logout
      <4>1. port'[p] = "open" /\ AtFrame = AtFrame'
        BY <1>3, <1>6, <1>7, <1>11, <3>2 DEF AtFrame, Sessions
      <4> QED
        BY <1>8, <1>11, <4>1 DEF AtPort
    <3> QED
      BY <3>1, <3>2
  <2> HIDE DEF t, U, V
  <2>4. SessionsIn(t, V) /\ (Ends(t) <=> (Ends(s) \/ status.logout))
    <3>1. Append(s, status) \in Seq(Status)
      BY <1>2, <2>1, AppendIsSeq
    <3>2. SessionsIn(Append(s, status), V)
      BY <1>2, <2>1, <2>3, SessionsAppend
    <3>3. Ends(Append(s, status)) <=> (Ends(s) \/ status.logout)
      BY <1>2, <2>1, EndsAppend
    <3>4. SessionsIn(Append(Append(s, status), status), V)
      BY <1>2, <2>3, <3>1, <3>2, SessionsAppend
    <3>5. Ends(Append(Append(s, status), status)) <=> (Ends(s) \/ status.logout)
      BY <1>2, <3>1, <3>3, EndsAppend
    <3> QED
      BY <2>2, <3>2, <3>3, <3>4, <3>5
  <2>5. AtBridge(p) \subseteq AtBridge(p)' /\ AtPage(p) \subseteq AtPage(p)'
    <3>1. AtBridge(p)' = IF Ends(t) THEN Sessions ELSE V
      BY DEF AtBridge, Sessions, t, V
    <3>2. AtBridge(p) \subseteq Sessions
      BY FrameUsers DEF AtBridge, AtPort, SessionInv
    <3>3. AtBridge(p) = IF Ends(s) THEN Sessions ELSE U
      BY DEF AtBridge, U
    <3>4. AtBridge(p) \subseteq AtBridge(p)'
      BY <2>3, <2>4, <3>1, <3>2, <3>3
    <3> QED
      BY <1>1, <3>4 DEF AtPage, Sessions
  <2>6. PageSession(p)'
    <3>1. SessionsIn(toBridge[p], AtPort(p))'
      BY <2>4 DEF t, V
    <3>2. SessionsIn(toPage[p], AtBridge(p)')
      BY <2>5, SessionsWider DEF SessionInv, PageSession
    <3> QED
      BY <1>1, <2>5, <3>1, <3>2 DEF SessionInv, PageSession, Told, bridgeVars
  <2>7. Silent(p)'
    BY <1>1, <1>3, <1>11 DEF SessionInv, Silent, bridgeVars
  <2> QED
    BY <2>6, <2>7
<1> QED
  BY <1>9, <1>10, <1>11

\* The page of one tab changes: what is on its way to it does not.
LEMMA OnePage ==
  ASSUME OrderInv, NEW p \in Pages, NEW new, PageSession(p), Silent(p),
         page' = [page EXCEPT ![p] = new],
         UNCHANGED <<bootVars, port, toBridge, bridgeStatus, question, toPage>>,
         new.login /\ new.source # "skt.us" => page[p].login /\ page[p].source # "skt.us"
                                                /\ new.user = page[p].user,
         ~new.called => ~page[p].called /\ ~new.login /\ new.source # "skt.us"
  PROVE  PageSession(p)' /\ Silent(p)'
<1>1. page'[p] = new
  BY DEF OrderInv, PageInv
<1>2. AtPort(p)' = AtPort(p) /\ AtBridge(p)' = AtBridge(p) /\ AtPage(p)' = AtPage(p)
  BY DEF bootVars, authVars, AtPort, AtBridge, AtPage, AtFrame, LiveUsers, Sessions
<1> QED
  BY <1>1, <1>2 DEF PageSession, Silent, Unknown

LEMMA ConnectSessions ==
  ASSUME SessionInv, NEW p \in Pages, Connect(p) PROVE PageSession(p)' /\ Silent(p)'
<1>1. /\ port[p] = "none" /\ toBridge[p] = <<>> /\ toPage[p] = <<>> /\ bridgeStatus[p] = Unknown
      /\ page[p].login => page[p].source = "skt.us"
  BY Zenon DEF Connect, SessionInv, Silent
<1>2. UNCHANGED <<bootVars, authStatus, bridgeStatus, question, toPage, page>> /\ port'[p] = "open"
  BY DEF Connect, bridgeVars, SessionInv, OrderInv, BackInv
<1>3. \/ toBridge'[p] = <<>>
      \/ authStatus \in Status /\ toBridge'[p] = Append(<<>>, authStatus)
  BY <1>1 DEF Connect, Greet, Known, SessionInv, OrderInv, BackInv, Reported
<1>4. AtPort(p)' = AtFrame /\ Told(authStatus, AtFrame)
  BY <1>2 DEF AtPort, AtFrame, LiveUsers, Sessions, bootVars, authVars, SessionInv, FrameSession
<1>5. SessionsIn(toBridge'[p], AtFrame)
  BY <1>3, <1>4, NothingEnds, EmptyIsSeq, SessionsAppend
<1>6. ~Unknown.login
  BY DEF Unknown
<1>7. PageSession(p)'
  BY <1>1, <1>2, <1>4, <1>5, <1>6, NothingEnds DEF PageSession, Told
<1>8. Silent(p)'
  BY <1>1, <1>2 DEF SessionInv, Silent
<1> QED
  BY <1>7, <1>8

\* A logout that reaches the bridge of a page that has not called init is
\* remembered there; in any other page it is passed on.
LEMMA BridgeSessions ==
  ASSUME SessionInv, NEW p \in Pages, BridgePasses(p) PROVE PageSession(p)' /\ Silent(p)'
<1> DEFINE s == toBridge[p]
           m == Head(toBridge[p])
           w == toPage[p]
           S == Status \cup {BridgeResponse}
<1>1. /\ s # <<>> /\ toBridge'[p] = Tail(s) /\ bridgeStatus'[p] = m
      /\ UNCHANGED <<bootVars, authStatus, port, page>>
      /\ toPage'[p] = IF ~page[p].called THEN w
                      ELSE w \o (IF question[p] = "owed" THEN <<m, m>> ELSE <<m>>)
      /\ question[p] = "none" => question'[p] = "none"
  BY DEF BridgePasses, SessionInv, OrderInv, BackInv, BridgeInv
<1>2. s \in Seq(Status) /\ w \in Seq(S) /\ m \in Status /\ m.user \in Sessions
  <2>1. s \in Seq(Status) /\ w \in Seq(S)
    BY SeqWider DEF SessionInv, OrderInv, BackInv, BridgeInv, Reported
  <2> QED
    BY <1>1, <2>1, HeadIsIn DEF Status, Sessions
<1>3. /\ SessionsIn(s, AtPort(p)) /\ SessionsIn(w, AtBridge(p)) /\ Silent(p)
      /\ page[p].login /\ page[p].source # "skt.us" => page[p].user \in AtPage(p)
  BY Zenon DEF SessionInv, PageSession
<1>4. port[p] # "none"
  BY <1>1, <1>3 DEF Silent
<1> HIDE DEF S
<1>5. /\ SessionsIn(Tail(s), AtPort(p))
      /\ m.login => m.logout \/ Ends(Tail(s)) \/ m.user \in AtPort(p)
      /\ Ends(s) <=> (m.logout \/ Ends(Tail(s)))
  BY <1>1, <1>2, <1>3, SessionsTail, EndsTail
<1>6. AtPort(p)' = AtPort(p)
  BY <1>1 DEF bootVars, authVars, AtPort, AtFrame, LiveUsers, Sessions
<1>7. AtBridge(p)' = IF Ends(Tail(s)) THEN Sessions ELSE AtPort(p)
  BY <1>1, <1>6 DEF AtBridge, Sessions
<1>8. AtBridge(p) = IF Ends(s) THEN Sessions ELSE AtPort(p)
  BY DEF AtBridge
<1> HIDE DEF m, s, w
<1>9. Told(m, AtBridge(p)')
  BY <1>2, <1>5, <1>7 DEF Told
<1>10. CASE ~page[p].called
  <2>1. w = <<>> /\ ~page[p].login
    BY <1>3, <1>10 DEF Silent, w
  <2>2. toPage'[p] = <<>>
    BY <1>1, <1>10, <2>1
  <2>3. PageSession(p)'
    BY <1>1, <1>5, <1>6, <1>9, <2>1, <2>2, NothingEnds DEF PageSession
  <2>4. Silent(p)'
    BY <1>1, <1>3, <1>4, <2>2 DEF Silent
  <2> QED
    BY <2>3, <2>4
<1>11. CASE page[p].called
  <2> DEFINE t == toPage'[p]
             V == AtBridge(p)'
  <2>1. m \in S
    BY <1>2 DEF S
  <2>2. t = Append(w, m) \/ t = Append(Append(w, m), m)
    BY <1>1, <1>2, <1>11, <2>1, TwiceIsAppend
  <2>3. m.logout \/ AtBridge(p) \subseteq V
    BY <1>5, <1>7, <1>8
  <2> HIDE DEF t, V
  <2>4. SessionsIn(t, V) /\ (Ends(t) <=> (Ends(w) \/ m.logout))
    <3>0. Told(m, V)
      BY <1>9 DEF V
    <3>1. Append(w, m) \in Seq(S)
      BY <1>2, <2>1, AppendIsSeq
    <3>2. SessionsIn(Append(w, m), V)
      BY <1>2, <1>3, <2>1, <2>3, <3>0, SessionsAppend
    <3>3. Ends(Append(w, m)) <=> (Ends(w) \/ m.logout)
      BY <1>2, <2>1, EndsAppend
    <3>4. SessionsIn(Append(Append(w, m), m), V)
      BY <2>1, <3>0, <3>1, <3>2, SessionsAppend
    <3>5. Ends(Append(Append(w, m), m)) <=> (Ends(w) \/ m.logout)
      BY <2>1, <3>1, <3>3, EndsAppend
    <3> QED
      BY <2>2, <3>2, <3>3, <3>4, <3>5
  <2>5. AtPage(p) \subseteq AtPage(p)'
    <3>1. AtPage(p)' = IF Ends(t) THEN Sessions ELSE V
      BY DEF AtPage, Sessions, t, V
    <3>2. AtPage(p) = IF Ends(w) THEN Sessions ELSE AtBridge(p)
      BY DEF AtPage, w
    <3>3. AtBridge(p) \subseteq Sessions
      BY FrameUsers DEF AtBridge, AtPort, SessionInv
    <3> QED
      BY <2>3, <2>4, <3>1, <3>2, <3>3
  <2>6. PageSession(p)'
    BY <1>1, <1>3, <1>5, <1>6, <1>9, <2>4, <2>5 DEF PageSession, t, V
  <2>7. Silent(p)'
    BY <1>1, <1>4, <1>11 DEF Silent
  <2> QED
    BY <2>6, <2>7
<1> QED
  BY <1>10, <1>11 DEF SessionInv, OrderInv, PageInv, Page

\* The status that the bridge remembers comes before those on its port.
LEMMA AnswerSessions ==
  ASSUME SessionInv, NEW p \in Pages, AnswerVersion(p) PROVE PageSession(p)' /\ Silent(p)'
<1> DEFINE w == toPage[p]
           S == Status \cup {Unknown, BridgeResponse}
           U == AtBridge(p)
           b == bridgeStatus[p]
           t == toPage'[p]
<1>1. /\ question[p] = "asked"
      /\ UNCHANGED <<bootVars, authStatus, port, toBridge, bridgeStatus, page>>
      /\ t = w \o <<BridgeResponse, b>> \/ t = Append(w, BridgeResponse)
  BY DEF AnswerVersion, backVars, SessionInv, OrderInv, BridgeInv
<1>2. w \in Seq(S) /\ b \in S /\ BridgeResponse \in S
  BY SeqWider DEF SessionInv, OrderInv, BridgeInv, Reported
<1>3. SessionsIn(w, U) /\ Told(b, U) /\ Silent(p)
      /\ (page[p].login /\ page[p].source # "skt.us" => page[p].user \in AtPage(p))
  BY Zenon DEF SessionInv, PageSession
<1>4. page[p].called /\ port[p] # "none"
  BY <1>1, <1>3 DEF Silent
<1>5. Told(BridgeResponse, U) /\ BridgeResponse.logout = FALSE
  BY DEF Told, BridgeResponse
<1>6. t = Append(Append(w, BridgeResponse), b) \/ t = Append(w, BridgeResponse)
  BY <1>1, <1>2, TwiceIsAppend
<1>7. AtPort(p)' = AtPort(p) /\ AtBridge(p)' = U
  BY <1>1 DEF bootVars, authVars, AtBridge, AtPort, AtFrame, LiveUsers, Sessions
<1> HIDE DEF w, S, U, b, t
<1>8. Append(w, BridgeResponse) \in Seq(S) /\ SessionsIn(Append(w, BridgeResponse), U)
  <2>1. U \subseteq U
    OBVIOUS
  <2> QED
    BY <1>2, <1>3, <1>5, <2>1, AppendIsSeq, SessionsAppend
<1>9. SessionsIn(t, U)
  <2>1. U \subseteq U
    OBVIOUS
  <2>2. SessionsIn(Append(Append(w, BridgeResponse), b), U)
    BY <1>2, <1>3, <1>8, <2>1, SessionsAppend
  <2> QED
    BY <1>6, <1>8, <2>2
<1>10. Ends(w) => Ends(t)
  <2>1. Ends(w) => Ends(Append(w, BridgeResponse))
    BY <1>2, EndsAppend
  <2>2. Ends(w) => Ends(Append(Append(w, BridgeResponse), b))
    BY <1>2, <1>8, <2>1, EndsAppend
  <2> QED
    BY <1>6, <2>1, <2>2
<1>11. AtPage(p) \subseteq AtPage(p)'
  <2>1. U \subseteq Sessions
    BY FrameUsers DEF AtBridge, AtPort, SessionInv, U
  <2> QED
    BY <1>7, <1>10, <2>1 DEF AtPage, Sessions, w, t, U
<1>12. PageSession(p)'
  BY <1>1, <1>3, <1>7, <1>9, <1>11 DEF SessionInv, PageSession, t, U
<1>13. Silent(p)'
  BY <1>1, <1>4 DEF Silent
<1> QED
  BY <1>12, <1>13

\* What becomes of a page's record in a step of the page alone.
LEMMA RecordSessions ==
  ASSUME SessionInv, NEW p \in Pages
  PROVE  /\ CallInit(p) => PageSession(p)' /\ Silent(p)'
         /\ Timeout(p) => PageSession(p)' /\ Silent(p)'
         /\ FrameTimeout(p) => PageSession(p)' /\ Silent(p)'
         /\ \A status \in FrameStatuses : FrameStatus(p, status) => PageSession(p)' /\ Silent(p)'
<1>0. PageSession(p) /\ Silent(p) /\ OrderInv /\ page[p] \in Page
  BY DEF SessionInv, OrderInv, PageInv
<1>1. ASSUME CallInit(p) PROVE PageSession(p)' /\ Silent(p)'
  <2> DEFINE new == [page[p] EXCEPT !.called = TRUE]
  <2>1. /\ new.called = TRUE /\ new.login = page[p].login /\ new.source = page[p].source
        /\ new.user = page[p].user
    BY <1>0 DEF Page
  <2>2. page'[p] = new
    BY <1>1 DEF CallInit, OrderInv, SessionInv, PageInv
  <2> HIDE DEF new
  <2>3. UNCHANGED <<bootVars, port, toBridge, bridgeStatus, toPage>>
        /\ (port[p] = "none" => question'[p] = question[p])
    BY <1>1 DEF CallInit, backVars, SessionInv, OrderInv, BridgeInv
  <2>4. AtPort(p)' = AtPort(p) /\ AtBridge(p)' = AtBridge(p) /\ AtPage(p)' = AtPage(p)
    BY <2>3 DEF bootVars, authVars, AtPort, AtBridge, AtPage, AtFrame, LiveUsers, Sessions
  <2> QED
    BY <1>0, <2>1, <2>2, <2>3, <2>4 DEF PageSession, Silent, Unknown
<1>2. ASSUME Timeout(p) PROVE PageSession(p)' /\ Silent(p)'
  <2> DEFINE new == [page[p] EXCEPT !.source = "skt.us"]
  <2>1. new.called = page[p].called /\ page[p].called /\ new.source = "skt.us"
    BY <1>0, <1>2 DEF Page, Timeout
  <2>2. page' = [page EXCEPT ![p] = new]
    BY <1>2, Zenon DEF Timeout, LaunchKernelFrame
  <2>3. UNCHANGED <<bootVars, port, toBridge, bridgeStatus, question, toPage>>
    BY <1>2, Zenon DEF Timeout, backVars, bridgeVars
  <2> HIDE DEF new
  <2> QED
    BY <1>0, <2>1, <2>2, <2>3, OnePage
<1>3. ASSUME FrameTimeout(p) PROVE PageSession(p)' /\ Silent(p)'
  <2> DEFINE new == [page[p] EXCEPT !.init = TRUE]
  <2>1. new.called = page[p].called /\ page[p].called /\ new.source = "skt.us"
    BY <1>0, <1>3 DEF Page, FrameTimeout, Silent
  <2>2. page' = [page EXCEPT ![p] = new]
    BY <1>3, Zenon DEF FrameTimeout
  <2>3. UNCHANGED <<bootVars, port, toBridge, bridgeStatus, question, toPage>>
    BY <1>3, Zenon DEF FrameTimeout, backVars, bridgeVars
  <2> HIDE DEF new
  <2> QED
    BY <1>0, <2>1, <2>2, <2>3, OnePage
<1>4. ASSUME NEW status \in FrameStatuses, FrameStatus(p, status)
      PROVE  PageSession(p)' /\ Silent(p)'
  <2> DEFINE pg == Advance(page[p], status)
             new == [pg EXCEPT !.frameLoaded = @ \/ status.loaded = "success"]
  <2>1. pg \in Page
    BY <1>0, FrameReports, AdvanceInOrder DEF OrderInv, PageInv
  <2>2. pg.called = page[p].called /\ pg.source = page[p].source
    BY <1>0 DEF Page, Advance
  <2>3. page' = [page EXCEPT ![p] = new]
    BY <1>4, Zenon DEF FrameStatus
  <2> HIDE DEF pg
  <2>4. new.called = pg.called /\ new.source = pg.source
    BY <2>1 DEF Page
  <2> HIDE DEF new
  <2>5. page[p].source = "skt.us" /\ page[p].called
    BY <1>0, <1>4 DEF FrameStatus, Silent
  <2>6. UNCHANGED <<bootVars, port, toBridge, bridgeStatus, question, toPage>>
    BY <1>4, Zenon DEF FrameStatus, backVars, bridgeVars
  <2> QED
    BY <1>0, <2>2, <2>3, <2>4, <2>5, <2>6, OnePage
<1> QED
  BY <1>1, <1>2, <1>3, <1>4

LEMMA MessageUser == ASSUME NEW m \in Status \cup {BridgeResponse} PROVE m.user \in Sessions
<1>1. BridgeResponse.user = NoSeed
  BY DEF BridgeResponse
<1>2. m \in Status => m.user \in Users \cup {NoSeed}
  BY DEF Status
<1> QED
  BY <1>1, <1>2 DEF Sessions

\* A page that takes a status of a login is in its session, or has the logout of
\* it behind; one that takes a logout begins again.
LEMMA MessageSessions ==
  ASSUME SessionInv, NEW p \in Pages, HandleMessage(p) PROVE PageSession(p)' /\ Silent(p)'
<1> DEFINE w == toPage[p]
           m == Head(toPage[p])
           S == Status \cup {BridgeResponse}
           U == AtBridge(p)
<1>0. /\ PageSession(p) /\ Silent(p) /\ OrderInv /\ page[p] \in Page
      /\ w # <<>> /\ UNCHANGED <<bootVars, authStatus>>
  BY DEF HandleMessage, SessionInv, OrderInv, PageInv
<1>1. w \in Seq(S) /\ m \in S /\ m.user \in Sessions
  <2>1. w \in Seq(S)
    BY SeqWider DEF SessionInv, OrderInv, BridgeInv, Reported
  <2>2. m \in S
    BY <1>0, <2>1, HeadIsIn
  <2> QED
    BY <2>1, <2>2, MessageUser DEF S
<1>2. page[p].called /\ port[p] # "none"
  BY <1>0 DEF Silent
<1> HIDE DEF S
<1>3. /\ SessionsIn(Tail(w), U)
      /\ m.login => m.logout \/ Ends(Tail(w)) \/ m.user \in U
      /\ Ends(w) <=> (m.logout \/ Ends(Tail(w)))
  BY <1>0, <1>1, SessionsTail, EndsTail DEF PageSession
<1>4. ASSUME NEW new, ~m.logout,
             page' = [page EXCEPT ![p] = new],
             toPage' = [toPage EXCEPT ![p] = Tail(@)],
             UNCHANGED <<port, toBridge, bridgeVars>>,
             new.called = page[p].called,
             new.login /\ new.source # "skt.us" =>
                 \/ page[p].login /\ page[p].source # "skt.us" /\ new.user = page[p].user
                 \/ m.login /\ new.user = m.user
      PROVE  PageSession(p)' /\ Silent(p)'
  <2>1. page'[p] = new /\ toPage'[p] = Tail(w)
    BY <1>4 DEF SessionInv, OrderInv, PageInv, BridgeInv
  <2>2. AtPort(p)' = AtPort(p) /\ AtBridge(p)' = U
    BY <1>0, <1>4 DEF bootVars, authVars, AtPort, AtBridge, AtFrame, LiveUsers, Sessions
  <2>3. AtPage(p)' = IF Ends(Tail(w)) THEN Sessions ELSE U
    BY <2>1, <2>2 DEF AtPage, Sessions
  <2>4. AtPage(p) = IF Ends(w) THEN Sessions ELSE U
    BY DEF AtPage
  <2>5. new.login /\ new.source # "skt.us" => new.user \in AtPage(p)'
    BY <1>0, <1>1, <1>3, <1>4, <2>3, <2>4 DEF PageSession
  <2>6. PageSession(p)'
    BY <1>0, <1>3, <1>4, <2>1, <2>2, <2>5 DEF PageSession, bridgeVars
  <2>7. Silent(p)'
    BY <1>2, <1>4, <2>1 DEF Silent
  <2> QED
    BY <2>6, <2>7
<1>5. CASE m = BridgeResponse
  <2> DEFINE source == IF page[p].source = "unknown" THEN "extension" ELSE page[p].source
             new == [page[p] EXCEPT !.source = source]
  <2>1. /\ page' = [page EXCEPT ![p] = new] /\ toPage' = [toPage EXCEPT ![p] = Tail(@)]
        /\ UNCHANGED <<port, toBridge, bridgeVars>>
    BY <1>5, Zenon DEF HandleMessage
  <2>2. /\ new.called = page[p].called /\ new.login = page[p].login /\ new.user = page[p].user
        /\ new.source # "skt.us" => page[p].source # "skt.us"
    BY <1>0 DEF Page
  <2>3. BridgeResponse.logout = FALSE
    BY DEF BridgeResponse
  <2> HIDE DEF new, m
  <2> QED
    BY <1>4, <1>5, <2>1, <2>2, <2>3
<1>6. CASE m # BridgeResponse /\ m.logout
  <2>1. Reload(p)
    BY <1>6, Zenon DEF HandleMessage, HandleStatus
  <2>2. /\ page'[p] = FreshPage /\ port'[p] = "none" /\ toBridge'[p] = <<>>
        /\ bridgeStatus'[p] = Unknown /\ question'[p] = "none" /\ toPage'[p] = <<>>
    BY <2>1 DEF Reload, SessionInv, OrderInv, BackInv, BridgeInv, PageInv
  <2>3. ~FreshPage.login /\ FreshPage.source = "unknown" /\ ~Unknown.login
    BY DEF FreshPage, Unknown
  <2> QED
    BY <2>2, <2>3, NothingEnds DEF PageSession, Silent, Told, Unknown
<1>7. CASE m # BridgeResponse /\ ~m.logout
  <2> DEFINE new == Advance(page[p], m)
  <2>1. /\ page' = [page EXCEPT ![p] = new] /\ toPage' = [toPage EXCEPT ![p] = Tail(@)]
        /\ UNCHANGED <<port, toBridge, bridgeVars>>
    BY <1>7, Zenon DEF HandleMessage, HandleStatus
  <2>2. /\ new.called = page[p].called /\ new.source = page[p].source
        /\ new.login <=> (page[p].login \/ m.login)
        /\ new.user = IF ~page[p].login /\ m.login THEN m.user ELSE page[p].user
    BY <1>0 DEF Page, Advance
  <2> HIDE DEF new, m
  <2> QED
    BY <1>4, <1>7, <2>1, <2>2
<1> QED
  BY <1>5, <1>6, <1>7

\* A step of one page is none of another.
LEMMA OtherPages ==
  ASSUME SessionInv, NEW p \in Pages, NEW q \in Pages, q # p,
         \/ Connect(q) \/ BridgePasses(q) \/ AnswerVersion(q) \/ CallInit(q)
         \/ Timeout(q) \/ FrameTimeout(q) \/ HandleMessage(q)
         \/ \E status \in FrameStatuses : FrameStatus(q, status)
  PROVE  PageSession(p)' /\ Silent(p)'
<1> USE DEF SessionInv, OrderInv, BackInv, BridgeInv, PageInv
<1> DEFINE Same ==
             /\ port'[p] = port[p] /\ toBridge'[p] = toBridge[p] /\ bridgeStatus'[p] = bridgeStatus[p]
             /\ question'[p] = question[p] /\ toPage'[p] = toPage[p] /\ page'[p] = page[p]
             /\ UNCHANGED bootVars
<1>1. Same
  <2>1. ASSUME Connect(q) PROVE Same
    BY <2>1 DEF Connect, Greet, bridgeVars
  <2>2. ASSUME BridgePasses(q) PROVE Same
    BY <2>2 DEF BridgePasses
  <2>3. ASSUME AnswerVersion(q) PROVE Same
    BY <2>3 DEF AnswerVersion, backVars
  <2>4. ASSUME CallInit(q) PROVE Same
    BY <2>4 DEF CallInit, backVars
  <2>5. ASSUME Timeout(q) \/ FrameTimeout(q) PROVE Same
    BY <2>5 DEF Timeout, FrameTimeout, backVars, bridgeVars
  <2>6. ASSUME HandleMessage(q) PROVE Same
    <3> DEFINE Takes == /\ \E new : page' = [page EXCEPT ![q] = new]
                        /\ toPage' = [toPage EXCEPT ![q] = Tail(@)]
                        /\ UNCHANGED <<port, toBridge, bridgeVars>>
    <3>1. UNCHANGED bootVars
      BY <2>6, Zenon DEF HandleMessage
    <3>2. CASE Reload(q)
      BY <3>1, <3>2 DEF Reload
    <3>3. CASE Takes
      BY <3>1, <3>3 DEF bridgeVars
    <3>4. Reload(q) \/ Takes
      BY <2>6, Zenon DEF HandleMessage, HandleStatus, Advance
    <3> QED
      BY <3>2, <3>3, <3>4
  <2>7. ASSUME NEW status \in FrameStatuses, FrameStatus(q, status) PROVE Same
    BY <2>7 DEF FrameStatus, backVars, bridgeVars
  <2> QED
    BY <2>1, <2>2, <2>3, <2>4, <2>5, <2>6, <2>7
<1>2. AtFrame = AtFrame'
  BY <1>1 DEF bootVars, authVars, AtFrame, LiveUsers, Sessions
<1>3. AtPort(p) \subseteq AtPort(p)'
  BY <1>1, <1>2 DEF AtPort
<1> QED
  BY <1>1, <1>3, PageKept

LEMMA SessionInvNext == ASSUME SessionInv, [Next]_vars PROVE SessionInv'
<1>1. OrderInv' /\ StorageInv'
  BY OrderInvNext, StorageInvNext DEF SessionInv
<1>2. ASSUME AuthPage \/ Boot, Elsewhere PROVE SessionInv'
  <2>1. /\ SessionsIn(statuses', LiveUsers') /\ AtFrame \subseteq AtFrame'
        /\ frame' = "reloading" => logoutComplete'
    BY <1>2, BootSessions
  <2>2. UNCHANGED <<authStatus, port, toBridge, bridgeStatus, question, toPage, page>>
    BY <1>2 DEF Elsewhere, backVars, bridgeVars
  <2>3. FrameSession'
    BY <2>1, <2>2 DEF SessionInv, FrameSession, Told
  <2>4. ASSUME NEW p \in Pages PROVE PageSession(p)' /\ Silent(p)'
    <3>1. AtPort(p) \subseteq AtPort(p)'
      BY <2>1, <2>2, PortKept
    <3> QED
      BY <2>2, <3>1, PageKept DEF SessionInv
  <2> QED
    BY <1>1, <2>3, <2>4 DEF SessionInv
<1>3. CASE HandleAuthStatus
  BY <1>1, <1>3, BackgroundSessions DEF SessionInv
<1>4. ASSUME NEW q \in Pages,
             \/ Connect(q) \/ BridgePasses(q) \/ AnswerVersion(q) \/ CallInit(q)
             \/ Timeout(q) \/ FrameTimeout(q) \/ HandleMessage(q)
             \/ \E status \in FrameStatuses : FrameStatus(q, status)
      PROVE  SessionInv'
  <2>1. UNCHANGED <<bootVars, authStatus>>
    BY <1>4, Zenon DEF Connect, BridgePasses, AnswerVersion, CallInit, Timeout, FrameTimeout,
                       HandleMessage, FrameStatus, backVars
  <2>2. FrameSession'
    BY <2>1 DEF SessionInv, FrameSession, SessionsIn, Told, AtFrame, Ends, LiveUsers, Sessions,
                bootVars, authVars
  <2>3. PageSession(q)' /\ Silent(q)'
    BY <1>4, ConnectSessions, BridgeSessions, AnswerSessions, RecordSessions, MessageSessions
  <2>4. ASSUME NEW p \in Pages, p # q PROVE PageSession(p)' /\ Silent(p)'
    BY <1>4, <2>4, OtherPages
  <2> QED
    BY <1>1, <2>2, <2>3, <2>4 DEF SessionInv
<1>5. CASE UNCHANGED vars
  <2>1. UNCHANGED <<bootVars, authStatus, port, toBridge, bridgeStatus, question, toPage, page>>
    BY <1>5 DEF vars, backVars, bridgeVars
  <2>2. FrameSession'
    BY <2>1 DEF SessionInv, FrameSession, SessionsIn, Told, AtFrame, Ends, LiveUsers, Sessions,
                bootVars, authVars
  <2>3. AtFrame = AtFrame'
    BY <2>1 DEF bootVars, authVars, AtFrame, LiveUsers, Sessions
  <2>4. ASSUME NEW p \in Pages PROVE PageSession(p)' /\ Silent(p)'
    <3>1. AtPort(p) \subseteq AtPort(p)'
      BY <2>1, <2>3, PortKept
    <3> QED
      BY <2>1, <3>1, PageKept DEF SessionInv
  <2> QED
    BY <1>1, <2>2, <2>4 DEF SessionInv
<1> QED
  BY <1>2, <1>3, <1>4, <1>5 DEF Next, Boot, PageStep

LEMMA SessionInvPages == ASSUME SessionInv PROVE PageInSession
<1> SUFFICES ASSUME NEW p \in Pages, page[p].login, page[p].source # "skt.us",
                    ~LogoutComing(p)
             PROVE  loginComplete /\ userSeed = page[p].user
  BY DEF PageInSession
<1>1. ~Ends(toPage[p]) /\ ~Ends(toBridge[p]) /\ (port[p] = "open" => ~Ends(statuses))
  BY DEF LogoutComing, Contains, IsLogout, Ends
<1>2. page[p].user \in AtPage(p)
  BY DEF SessionInv, PageSession
<1> QED
  BY <1>1, <1>2 DEF AtPage, AtBridge, AtPort, AtFrame, LiveUsers

\* A page is used with the kernel of the user it was told of, or the logout is on
\* its way to it: through late ports, statuses that are repeated, pages that have
\* not called init yet, and however many logins and logouts are ahead of them.
THEOREM PagesInSession == Spec => []PageInSession
  BY SessionInvInit, SessionInvNext, SessionInvPages, PTL DEF Spec
=============================================================================
