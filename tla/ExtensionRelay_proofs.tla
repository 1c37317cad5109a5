----------------------- MODULE ExtensionRelay_proofs -----------------------
(***************************************************************************)
(* What a page hears of its queries through the extension is from the       *)
(* session it was told of, and is one run of QueryProtocol, for any number   *)
(* of documents, queries, sessions and updates.                             *)
(***************************************************************************)
EXTENDS ExtensionRelay, TLAPS, FiniteSetTheorems

(***************************************************************************)
(* The types of what the documents and the frame send each other.           *)
(***************************************************************************)
Session == Nat \ {0}

StatusMsg == [method : {"kernelAuthStatus"}, nonce : {NoCall},
              data : [loaded : {"not yet", "success", "failed"}, logout : BOOLEAN], from : Session]

ReplyMsg == [method : {"response", "responseNonce", "responseUpdate"}, nonce : Calls,
             data : Nat, from : Session]

ErrorMsg == [method : {"response"}, nonce : Calls \cup {NoCall}, from : Session]

UpMsg == StatusMsg \cup ReplyMsg \cup ErrorMsg

CallMsg == [method : {"moduleCall"}, nonce : Calls, data : BOOLEAN]

UpdateMsg == [method : {"queryUpdate"}, nonce : Nat, data : [of : Calls, number : Nat]]

DownMsg == CallMsg \cup UpdateMsg

Query == [phase : {"idle", "waiting", "open", "closed"}, owner : Docs \cup {NoCall},
          sendUpdates : BOOLEAN, kernelNonce : Nat, held : Seq(Nat)]

FrameTypes ==
    /\ frame \in {"absent", "running", "reloading"}
    /\ session \in Nat
    /\ frame # "absent" => session # 0
    /\ kernelLoaded \in {"not yet", "success", "failed"}
    /\ kernelNonces \in Nat
    /\ kernelQueries \subseteq [nonce : Nat, call : Calls]
    /\ frame = "absent" => kernelQueries = {}
    /\ posted \in [Calls -> Nat]

ChannelTypes ==
    /\ up \in Seq(UpMsg)
    /\ down \in Seq(DownMsg)
    /\ toPage \in [Docs -> Seq(UpMsg)]
    /\ fromPage \in [Docs -> Seq(DownMsg)]

BackTypes ==
    /\ authStatus \in StatusMsg \cup {Unknown}
    /\ ports \in [Docs -> {"none", "open", "closed"}]

QueriesOwned ==
    \A q \in Calls : queries[q].phase # "idle" \/ queries[q].sendUpdates => queries[q].owner \in Docs

WaitingAsked == \A d \in Docs : \A i \in DOMAIN waiting[d] : queries[waiting[d][i]].phase # "idle"

PageTypes ==
    /\ doc \in [Docs -> {"new", "live", "reloading", "gone"}]
    /\ told \in [Docs -> Nat]
    /\ waiting \in [Docs -> Seq(Calls)]
    /\ queries \in [Calls -> Query]
    /\ asked \in [Calls -> Nat]
    /\ heard \in [Calls -> Seq(ReplyMsg)]
    /\ WaitingAsked
    /\ QueriesOwned

TypeInv == FrameTypes /\ ChannelTypes /\ BackTypes /\ PageTypes

LEMMA EmptyIsSeq == ASSUME NEW S PROVE <<>> \in Seq(S)
  OBVIOUS

LEMMA AppendIsSeq == ASSUME NEW S, NEW s \in Seq(S), NEW e \in S PROVE Append(s, e) \in Seq(S)
  OBVIOUS

LEMMA AppendElements ==
  ASSUME NEW S, NEW s \in Seq(S), NEW e \in S, NEW i \in DOMAIN Append(s, e)
  PROVE  Append(s, e)[i] = e \/ (i \in DOMAIN s /\ Append(s, e)[i] = s[i])
  OBVIOUS

LEMMA TailIsSeq == ASSUME NEW S, NEW s \in Seq(S), s # <<>> PROVE Tail(s) \in Seq(S) /\ Head(s) \in S
  OBVIOUS

LEMMA ConcatIsSeq ==
  ASSUME NEW S, NEW s \in Seq(S), NEW t \in Seq(S) PROVE s \o t \in Seq(S)
  OBVIOUS

LEMMA SingleIsSeq == ASSUME NEW S, NEW a \in S PROVE <<a>> \in Seq(S) /\ <<a, a>> \in Seq(S)
  OBVIOUS

LEMMA PrefixIsSeq ==
  ASSUME NEW S, NEW s \in Seq(S), NEW n \in 0 .. Len(s)
  PROVE  /\ SubSeq(s, 1, n) \in Seq(S) /\ DOMAIN SubSeq(s, 1, n) = 1 .. n /\ 1 .. n \subseteq DOMAIN s
         /\ \A i \in 1 .. n : SubSeq(s, 1, n)[i] = s[i]
  OBVIOUS

\* A sequence made of another one, element by element.
LEMMA MappedIsSeq ==
  ASSUME NEW S, NEW T, NEW s \in Seq(S), NEW t, t = [i \in DOMAIN s |-> t[i]],
         \A i \in DOMAIN s : t[i] \in T
  PROVE  t \in Seq(T) /\ DOMAIN t = DOMAIN s
<1>1. Len(s) \in Nat /\ DOMAIN s = 1 .. Len(s)
  OBVIOUS
<1>2. t \in [1 .. Len(s) -> T]
  BY <1>1
<1> QED
  BY <1>1, <1>2

LEMMA Successor == ASSUME NEW n \in Nat PROVE n + 1 \in Nat /\ n + 1 # 0 /\ n + 1 \in Session
  BY DEF Session

LEMMA InitTypes == ASSUME Init PROVE TypeInv
<1>1. NoQuery \in Query
  BY EmptyIsSeq DEF NoQuery, Query
<1>2. ChannelTypes
  BY EmptyIsSeq DEF Init, ChannelTypes
<1>3. FrameTypes /\ BackTypes
  BY DEF Init, FrameTypes, BackTypes
<1>4. PageTypes
  <2>1. \A q \in Calls : ~(queries[q].phase # "idle" \/ queries[q].sendUpdates)
    BY DEF Init, NoQuery
  <2>2. WaitingAsked
    <3>1. \A d \in Docs : waiting[d] = <<>>
      BY DEF Init
    <3>2. DOMAIN (<<>>) = {}
      OBVIOUS
    <3> QED
      BY <3>1, <3>2, Zenon DEF WaitingAsked
  <2> QED
    BY <1>1, <2>1, <2>2, EmptyIsSeq DEF Init, PageTypes, QueriesOwned
<1> QED
  BY <1>2, <1>3, <1>4 DEF TypeInv

\* What the frame makes.
LEMMA MadeMessages ==
  ASSUME FrameTypes, frame # "absent"
  PROVE  /\ \A n \in Calls \cup {NoCall} : Error(n) \in ErrorMsg
         /\ \A loaded \in {"not yet", "success", "failed"}, logout \in BOOLEAN :
                Status(loaded, logout) \in StatusMsg
         /\ \A method \in {"response", "responseNonce", "responseUpdate"}, q \in Calls, n \in Nat :
                Message(method, q, n) \in ReplyMsg
<1>1. session \in Session
  BY DEF FrameTypes, Session
<1> QED
  BY <1>1 DEF Error, ErrorMsg, Status, Message, StatusMsg, ReplyMsg

\* What a page makes.
LEMMA MadeRequests ==
  ASSUME NEW q \in Calls
  PROVE  /\ \A updates \in BOOLEAN : Request("moduleCall", q, updates) \in CallMsg
         /\ \A k \in Nat, i \in Nat : QueryUpdate(q, k, i) \in UpdateMsg
  BY DEF Request, QueryUpdate, CallMsg, UpdateMsg

LEMMA DownCalls ==
  ASSUME NEW m \in DownMsg
  PROVE  m.method = "moduleCall" <=> m \in CallMsg
  BY DEF DownMsg, CallMsg, UpdateMsg

LEMMA UpMessages ==
  ASSUME NEW m \in UpMsg
  PROVE  /\ m.method = "kernelAuthStatus" <=> m \in StatusMsg
         /\ m.method \in {"responseNonce", "responseUpdate"} => m \in ReplyMsg
         /\ m.method = "response" => m \in ReplyMsg \cup ErrorMsg
         /\ m.from \in Session
  BY DEF UpMsg, StatusMsg, ReplyMsg, ErrorMsg

LEMMA WithData ==
  ASSUME NEW m \in UpMsg, m.method # "kernelAuthStatus", "data" \in DOMAIN m
  PROVE  m \in ReplyMsg
<1>1. m \in ErrorMsg => DOMAIN m = {"method", "nonce", "from"}
  BY DEF ErrorMsg
<1> QED
  BY <1>1, UpMessages DEF UpMsg

LEMMA FrameTypesNext == ASSUME TypeInv, [Next]_vars PROVE FrameTypes'
<1> USE DEF TypeInv, FrameTypes
<1>0. ASSUME UNCHANGED frameVars PROVE FrameTypes'
  BY <1>0 DEF frameVars
<1>1. CASE FrameStarts
  <2>1. session + 1 \in Nat /\ session + 1 # 0
    BY Successor, Zenon
  <2>2. session' \in Nat /\ session' # 0
    BY <1>1, <2>1, Zenon DEF FrameStarts
  <2> QED
    BY <1>1, <2>2 DEF FrameStarts
<1>2. ASSUME NEW loaded \in Loads, FrameLoads(loaded) PROVE FrameTypes'
  BY <1>2, ExtensionRelayAssumption DEF FrameLoads, ExtensionRelayAssumption
<1>3. CASE LogOut
  BY <1>3 DEF LogOut
<1>4. CASE Unload
  BY <1>4 DEF Unload
<1>5. CASE KernelOpens
  <2>1. Head(down) \in DownMsg /\ Head(down).method = "moduleCall"
    BY <1>5, TailIsSeq DEF KernelOpens, Take, ChannelTypes
  <2>2. Head(down).nonce \in Calls
    BY <2>1 DEF DownMsg, CallMsg, UpdateMsg
  <2> DEFINE g == [nonce |-> kernelNonces + 1, call |-> Head(down).nonce]
  <2>0. kernelNonces + 1 \in Nat
    BY Successor, Zenon
  <2>3. g \in [nonce : Nat, call : Calls]
    BY <2>0, <2>2
  <2>4. /\ kernelNonces' = kernelNonces + 1 /\ kernelQueries' = kernelQueries \cup {g}
        /\ frame # "absent" /\ UNCHANGED <<frame, session, kernelLoaded, posted>>
    BY <1>5, Zenon DEF KernelOpens, Take
  <2>5. kernelNonces' \in Nat
    BY <2>0, <2>4, Zenon
  <2> HIDE DEF g
  <2> QED
    BY <2>3, <2>4, <2>5
<1>6. CASE KernelRelaysUpdate
  BY <1>6, Zenon DEF KernelRelaysUpdate
<1>7. ASSUME NEW g \in kernelQueries, ModuleUpdates(g) PROVE FrameTypes'
  <2>1. posted' = [posted EXCEPT ![g.call] = @ + 1]
        /\ UNCHANGED <<frame, session, kernelLoaded, kernelNonces, kernelQueries>>
    BY <1>7, Zenon DEF ModuleUpdates
  <2>2. posted' \in [Calls -> Nat]
    <3>1. posted[g.call] + 1 \in Nat
      BY Successor
    <3> DEFINE n == posted[g.call] + 1
    <3>2. posted' = [posted EXCEPT ![g.call] = n] /\ n \in Nat
      BY <2>1, <3>1, Zenon
    <3> HIDE DEF n
    <3> QED
      BY <3>2
  <2> QED
    BY <2>1, <2>2
<1>8. ASSUME NEW g \in kernelQueries, ModuleResponds(g) PROVE FrameTypes'
  BY <1>8 DEF ModuleResponds
<1>9. CASE Background
  BY <1>0, <1>9, Zenon DEF Background, HandleAuthStatus, HandleReply, Connect, HandleBridgeMessage, PortDisconnected
<1>10. CASE Page
  BY <1>0, <1>10, Zenon DEF Page, NewKernelQuery, SendUpdate, HandleStatus, HandleResponse,
      HandleResponseUpdate, HandleResponseNonce, Reloads, Closes, Leave
<1>11. CASE BootloaderAnswers \/ KernelRefuses
  BY <1>0, <1>11, Zenon DEF BootloaderAnswers, KernelRefuses
<1>12. CASE UNCHANGED vars
  BY <1>0, <1>12 DEF vars
<1> QED
  BY <1>1, <1>2, <1>3, <1>4, <1>5, <1>6, <1>7, <1>8, <1>9, <1>10, <1>11, <1>12, Zenon DEF Next, Frame

IsStatus(m) == m.method = "kernelAuthStatus"

IsLogout(m) == IsStatus(m) /\ m.data.logout

\* What the frame sends next is from session n: it runs session n, or the first
\* session is yet to start.
Goes(n) == (frame = "running" /\ session = n) \/ (frame = "absent" /\ session = 0 /\ n = 1)

\* A message is from the session that goes on, which it may end; a reply is to
\* a call that has come, or to an open query.
Sends(m) ==
    /\ m \in UpMsg
    /\ up' = Append(up, m)
    /\ \A n : Goes(n) => m.from = n /\ (IsLogout(m) \/ Goes(n)')
    /\ IsStatus(m) => IsLogout(m) \/ Goes(m.from)'
    /\ m.nonce \in Calls => \/ down # <<>> /\ Head(down).method = "moduleCall" /\ m.nonce = Head(down).nonce
                            \/ \E g \in kernelQueries : m.nonce = g.call

LEMMA StatusSends ==
  ASSUME NEW m \in StatusMsg, up' = Append(up, m), frame # "absent", UNCHANGED session, m.from = session,
         m.data.logout \/ (frame = "running" /\ frame' = "running")
  PROVE  Sends(m)
<1>1. m.nonce \notin Calls /\ m.method = "kernelAuthStatus"
  BY ExtensionRelayAssumption DEF StatusMsg, ExtensionRelayAssumption
<1> QED
  BY <1>1 DEF Sends, UpMsg, Goes, IsStatus, IsLogout

LEMMA ReplySends ==
  ASSUME NEW m \in ReplyMsg \cup ErrorMsg, up' = Append(up, m), frame # "absent", UNCHANGED <<frame, session>>,
         m.from = session,
         m.nonce \in Calls => \/ down # <<>> /\ Head(down).method = "moduleCall" /\ m.nonce = Head(down).nonce
                              \/ \E g \in kernelQueries : m.nonce = g.call
  PROVE  Sends(m)
<1>1. m.method # "kernelAuthStatus" /\ m \in UpMsg
  BY DEF ReplyMsg, ErrorMsg, UpMsg
<1>2. ~IsStatus(m)
  BY <1>1 DEF IsStatus
<1>3. \A n : Goes(n) => m.from = n /\ Goes(n)'
  BY DEF Goes
<1> QED
  BY <1>1, <1>2, <1>3, Zenon DEF Sends

\* The steps of the frame add at most one message to those on their way up.
LEMMA FrameSends ==
  ASSUME TypeInv, Frame
  PROVE  (up' = up /\ \A n : Goes(n) => Goes(n)') \/ \E m \in UpMsg : Sends(m)
<1>1. CASE FrameStarts
  <2> DEFINE first == [Status("not yet", FALSE) EXCEPT !.from = session']
  <2>1. session + 1 \in Session
    BY Successor DEF TypeInv, FrameTypes
  <2>2. session' = session + 1 /\ frame = "absent" /\ frame' = "running" /\ up' = Append(up, first)
    BY <1>1, Zenon DEF FrameStarts
  <2>3. session' \in Session
    BY <2>1, <2>2, Zenon
  <2>4. ASSUME session = 0 PROVE session' = 1
    <3>1. 0 + 1 = 1
      OBVIOUS
    <3> QED
      BY <2>2, <2>4, <3>1, Zenon
  <2>5. first \in StatusMsg /\ first.from = session'
    BY <2>3 DEF Status, Message, StatusMsg
  <2> HIDE DEF first
  <2>6. PICK m \in StatusMsg : m = first
    BY <2>5
  <2>7. \A n : Goes(n) => m.from = n /\ Goes(n)'
    BY <2>2, <2>4, <2>5, <2>6 DEF Goes
  <2>8. Goes(m.from)'
    BY <2>2, <2>5, <2>6 DEF Goes
  <2>9. m.nonce \notin Calls
    BY ExtensionRelayAssumption DEF ExtensionRelayAssumption, StatusMsg
  <2>10. Sends(m)
    BY <2>2, <2>6, <2>7, <2>8, <2>9 DEF UpMsg, Sends
  <2> QED
    BY <2>10 DEF UpMsg
<1>2. ASSUME NEW loaded \in Loads, FrameLoads(loaded) PROVE \E m \in UpMsg : Sends(m)
  <2> DEFINE m == Status(loaded, frame = "reloading")
  <2>1. /\ frame # "absent" /\ loaded \in {"not yet", "success", "failed"} /\ (frame = "reloading") \in BOOLEAN
        /\ up' = Append(up, m) /\ UNCHANGED <<frame, session>> /\ (frame = "running" \/ frame = "reloading")
    BY <1>2, ExtensionRelayAssumption DEF FrameLoads, ExtensionRelayAssumption, TypeInv, FrameTypes
  <2>2. m \in StatusMsg
    BY <2>1, MadeMessages DEF TypeInv
  <2>3. m.from = session /\ m.data.logout = (frame = "reloading")
    BY DEF Status, Message
  <2> HIDE DEF m
  <2>4. Sends(m)
    BY <2>1, <2>2, <2>3, StatusSends
  <2> QED
    BY <2>2, <2>4 DEF UpMsg
<1>3. CASE LogOut
  <2> DEFINE m == Status(kernelLoaded, TRUE)
  <2>1. /\ frame # "absent" /\ kernelLoaded \in {"not yet", "success", "failed"}
        /\ up' = Append(up, m) /\ UNCHANGED session
    BY <1>3 DEF LogOut, TypeInv, FrameTypes
  <2>2. m \in StatusMsg
    BY <2>1, MadeMessages DEF TypeInv
  <2>3. m.from = session /\ m.data.logout
    BY DEF Status, Message
  <2> HIDE DEF m
  <2>4. Sends(m)
    BY <2>1, <2>2, <2>3, StatusSends
  <2> QED
    BY <2>2, <2>4 DEF UpMsg
<1>4. CASE Unload
  <2>1. UNCHANGED up /\ frame = "reloading"
    BY <1>4, Zenon DEF Unload
  <2> QED
    BY <2>1 DEF Goes
<1>5. CASE BootloaderAnswers
  <2> DEFINE n == IF Head(down).method = "moduleCall" THEN Head(down).nonce ELSE NoCall
  <2>1. frame # "absent" /\ down # <<>> /\ Head(down) \in DownMsg /\ UNCHANGED <<frame, session>>
    BY <1>5, TailIsSeq DEF BootloaderAnswers, Take, TypeInv, ChannelTypes, frameVars
  <2>2. n \in Calls \cup {NoCall} /\ (n \in Calls => Head(down).method = "moduleCall" /\ n = Head(down).nonce)
    BY <2>1, ExtensionRelayAssumption DEF DownMsg, CallMsg, UpdateMsg, ExtensionRelayAssumption
  <2>3. up' = Append(up, Error(n))
    BY <1>5, Zenon DEF BootloaderAnswers
  <2> HIDE DEF n
  <2>4. Error(n) \in ErrorMsg
    BY <2>1, <2>2, MadeMessages DEF TypeInv
  <2>5. Error(n).from = session /\ Error(n).nonce = n
    BY DEF Error
  <2>6. Sends(Error(n))
    BY <2>1, <2>2, <2>3, <2>4, <2>5, ReplySends
  <2> QED
    BY <2>4, <2>6 DEF UpMsg
<1>6. CASE KernelRefuses
  <2> DEFINE m == Message("response", Head(down).nonce, 0)
  <2>1. /\ frame # "absent" /\ down # <<>> /\ Head(down) \in DownMsg /\ Head(down).method = "moduleCall"
        /\ UNCHANGED <<frame, session>> /\ up' = Append(up, m)
    BY <1>6, TailIsSeq DEF KernelRefuses, Take, TypeInv, ChannelTypes, frameVars
  <2>2. Head(down).nonce \in Calls
    BY <2>1 DEF DownMsg, CallMsg, UpdateMsg
  <2>3. m \in ReplyMsg
    BY <2>1, <2>2, MadeMessages DEF TypeInv
  <2>4. m.from = session /\ m.nonce = Head(down).nonce
    BY DEF Message
  <2> HIDE DEF m
  <2>5. Sends(m)
    BY <2>1, <2>3, <2>4, ReplySends
  <2> QED
    BY <2>3, <2>5 DEF UpMsg
<1>7. CASE KernelOpens
  <2> DEFINE m == Message("responseNonce", Head(down).nonce, kernelNonces + 1)
  <2>1. /\ frame # "absent" /\ down # <<>> /\ Head(down) \in DownMsg /\ Head(down).method = "moduleCall"
        /\ UNCHANGED <<frame, session>>
    BY <1>7, TailIsSeq DEF KernelOpens, Take, TypeInv, ChannelTypes
  <2>2. Head(down).nonce \in Calls
    BY <2>1 DEF DownMsg, CallMsg, UpdateMsg
  <2>3. kernelNonces + 1 \in Nat
    BY Successor, Zenon DEF TypeInv, FrameTypes
  <2>4. m \in ReplyMsg
    BY <2>1, <2>2, <2>3, MadeMessages DEF TypeInv
  <2>5. m.from = session /\ m.nonce = Head(down).nonce
    BY DEF Message
  <2>6. up' = up \/ up' = Append(up, m)
    BY <1>7, Zenon DEF KernelOpens
  <2> HIDE DEF m
  <2>7. CASE up' = Append(up, m)
    <3>1. Sends(m)
      BY <2>1, <2>4, <2>5, <2>7, ReplySends
    <3> QED
      BY <2>4, <3>1 DEF UpMsg
  <2>8. \A n : Goes(n) => Goes(n)'
    BY <2>1 DEF Goes
  <2> QED
    BY <2>6, <2>7, <2>8
<1>8. CASE KernelRelaysUpdate
  <2>1. UNCHANGED <<up, frame, session>>
    BY <1>8, Zenon DEF KernelRelaysUpdate
  <2> QED
    BY <2>1 DEF Goes
<1>9. ASSUME NEW g \in kernelQueries, ModuleUpdates(g) \/ ModuleResponds(g)
      PROVE  \E m \in UpMsg : Sends(m)
  <2>1. g.call \in Calls /\ frame # "absent" /\ UNCHANGED <<frame, session>>
    BY <1>9 DEF ModuleUpdates, ModuleResponds, TypeInv, FrameTypes
  <2>2. posted[g.call] \in Nat /\ posted[g.call] + 1 \in Nat
    BY <2>1, Successor DEF TypeInv, FrameTypes
  <2>3. \E method \in {"response", "responseUpdate"}, n \in Nat : up' = Append(up, Message(method, g.call, n))
    BY <1>9, <2>2, Zenon DEF ModuleUpdates, ModuleResponds
  <2>4. PICK method \in {"response", "responseUpdate"}, n \in Nat : up' = Append(up, Message(method, g.call, n))
    BY <2>3
  <2> DEFINE m == Message(method, g.call, n)
  <2>5. m \in ReplyMsg
    BY <2>1, MadeMessages DEF TypeInv
  <2>6. m.from = session /\ m.nonce = g.call
    BY DEF Message
  <2> HIDE DEF m
  <2>7. up' = Append(up, m)
    BY <2>4 DEF m
  <2>8. Sends(m)
    BY <2>1, <2>5, <2>6, <2>7, ReplySends
  <2> QED
    BY <2>5, <2>8 DEF UpMsg
<1> QED
  BY <1>1, <1>2, <1>3, <1>4, <1>5, <1>6, <1>7, <1>8, <1>9 DEF Frame

\* What the background gives to the ports.
LEMMA SendToTypes ==
  ASSUME toPage \in [Docs -> Seq(UpMsg)], NEW D, NEW ms \in Seq(UpMsg), SendTo(D, ms)
  PROVE  toPage' \in [Docs -> Seq(UpMsg)]
<1>1. \A d \in Docs : toPage[d] \o ms \in Seq(UpMsg)
  BY ConcatIsSeq
<1> QED
  BY <1>1 DEF SendTo

LEMMA PostTypes ==
  ASSUME fromPage \in [Docs -> Seq(DownMsg)], NEW d \in Docs, NEW ms \in Seq(DownMsg), Post(d, ms)
  PROVE  fromPage' \in [Docs -> Seq(DownMsg)]
<1>1. fromPage[d] \o ms \in Seq(DownMsg)
  BY ConcatIsSeq
<1> QED
  BY <1>1 DEF Post

LEMMA TakenFromPage ==
  ASSUME toPage \in [Docs -> Seq(UpMsg)], NEW d \in Docs, toPage[d] # <<>>,
         toPage' = [toPage EXCEPT ![d] = Tail(@)]
  PROVE  toPage' \in [Docs -> Seq(UpMsg)] /\ Head(toPage[d]) \in UpMsg
<1>1. Tail(toPage[d]) \in Seq(UpMsg) /\ Head(toPage[d]) \in UpMsg
  BY TailIsSeq
<1> QED
  BY <1>1

LEMMA CallIsMsg == ASSUME PageTypes, NEW q \in Calls PROVE Call(q) \in DownMsg
<1>1. queries[q].sendUpdates \in BOOLEAN
  BY DEF PageTypes, Query
<1> QED
  BY <1>1, MadeRequests DEF Call, DownMsg

\* What a page posts when its kernel has loaded, or when it has the kernel nonce.
LEMMA PostedTypes ==
  ASSUME PageTypes
  PROVE  /\ \A d \in Docs : [i \in DOMAIN waiting[d] |-> Call(waiting[d][i])] \in Seq(DownMsg)
         /\ \A q \in Calls, k \in Nat :
                [i \in DOMAIN queries[q].held |-> QueryUpdate(q, k, queries[q].held[i])] \in Seq(DownMsg)
<1>1. ASSUME NEW d \in Docs PROVE [i \in DOMAIN waiting[d] |-> Call(waiting[d][i])] \in Seq(DownMsg)
  <2> DEFINE s == waiting[d]
             t == [i \in DOMAIN s |-> Call(s[i])]
  <2>1. s \in Seq(Calls)
    BY DEF PageTypes
  <2>2. \A i \in DOMAIN s : t[i] \in DownMsg
    BY <2>1, CallIsMsg
  <2>3. t = [i \in DOMAIN s |-> t[i]]
    OBVIOUS
  <2> HIDE DEF s, t
  <2>4. t \in Seq(DownMsg)
    BY <2>1, <2>2, <2>3, MappedIsSeq
  <2> QED
    BY <2>4 DEF s, t
<1>2. ASSUME NEW q \in Calls, NEW k \in Nat
      PROVE  [i \in DOMAIN queries[q].held |-> QueryUpdate(q, k, queries[q].held[i])] \in Seq(DownMsg)
  <2> DEFINE s == queries[q].held
             t == [i \in DOMAIN s |-> QueryUpdate(q, k, s[i])]
  <2>1. s \in Seq(Nat)
    BY DEF PageTypes, Query
  <2>2. \A i \in DOMAIN s : s[i] \in Nat
    BY <2>1
  <2> HIDE DEF s
  <2>3. \A i \in DOMAIN s : t[i] \in DownMsg
    BY <2>2, MadeRequests DEF DownMsg
  <2>4. t = [i \in DOMAIN s |-> t[i]]
    OBVIOUS
  <2> HIDE DEF t
  <2>5. t \in Seq(DownMsg)
    BY <2>1, <2>3, <2>4, MappedIsSeq
  <2> QED
    BY <2>5 DEF s, t
<1> QED
  BY <1>1, <1>2

LEMMA BackgroundTypes ==
  ASSUME TypeInv, Background PROVE ChannelTypes' /\ BackTypes'
<1> USE DEF TypeInv, ChannelTypes, BackTypes
<1>1. CASE HandleAuthStatus
  <2> DEFINE m == Head(up)
  <2>1. up # <<>> /\ m.method = "kernelAuthStatus" /\ up' = Tail(up) /\ authStatus' = m
        /\ UNCHANGED <<down, fromPage>>
    BY <1>1, Zenon DEF HandleAuthStatus, TakeUp
  <2>2. up' \in Seq(UpMsg) /\ m \in UpMsg
    BY <2>1, TailIsSeq, Zenon
  <2>3. m \in StatusMsg
    BY <2>1, <2>2, UpMessages, Zenon
  <2>4. SendTo(OpenPorts, <<m, m>>) \/ SendTo(OpenPorts, <<m>>)
    BY <1>1, Zenon DEF HandleAuthStatus
  <2>5. toPage' \in [Docs -> Seq(UpMsg)]
    BY <2>2, <2>4, SendToTypes, SingleIsSeq, Zenon
  <2>6. ports' \in [Docs -> {"none", "open", "closed"}]
    <3>1. ports' = ports \/ ports' = [d \in Docs |-> IF d \in OpenPorts THEN "closed" ELSE ports[d]]
      BY <1>1, Zenon DEF HandleAuthStatus, ClosePorts
    <3> QED
      BY <3>1
  <2> HIDE DEF m
  <2> QED
    BY <2>1, <2>2, <2>3, <2>5, <2>6, Zenon
<1>2. CASE HandleReply
  <2> DEFINE m == Head(up)
  <2>1. up # <<>> /\ up' = Tail(up) /\ UNCHANGED <<authStatus, ports, down, fromPage>>
    BY <1>2, Zenon DEF HandleReply, TakeUp
  <2>2. up' \in Seq(UpMsg) /\ m \in UpMsg
    BY <2>1, TailIsSeq, Zenon
  <2>3. SendTo(OpenPorts \cap {queries[m.nonce].owner}, <<m>>) \/ UNCHANGED toPage
    BY <1>2, Zenon DEF HandleReply
  <2>4. toPage' \in [Docs -> Seq(UpMsg)]
    BY <2>2, <2>3, SendToTypes, SingleIsSeq, Zenon
  <2> QED
    BY <2>1, <2>2, <2>4, Zenon
<1>3. ASSUME NEW d \in Docs, Connect(d) PROVE ChannelTypes' /\ BackTypes'
  <2>1. /\ UNCHANGED <<authStatus, up, down, fromPage>> /\ ports' = [ports EXCEPT ![d] = "open"]
        /\ toPage' = toPage \/ (authStatus # Unknown /\ toPage' = [toPage EXCEPT ![d] = Append(@, authStatus)])
    BY <1>3, Zenon DEF Connect
  <2>2. authStatus # Unknown => Append(toPage[d], authStatus) \in Seq(UpMsg)
    BY AppendIsSeq DEF UpMsg
  <2>3. toPage' \in [Docs -> Seq(UpMsg)]
    BY <2>1, <2>2
  <2>4. ports' \in [Docs -> {"none", "open", "closed"}]
    BY <2>1
  <2> QED
    BY <2>1, <2>3, <2>4, Zenon
<1>4. ASSUME NEW d \in Docs, HandleBridgeMessage(d) PROVE ChannelTypes' /\ BackTypes'
  <2> DEFINE m == Head(fromPage[d])
  <2>1. /\ fromPage[d] # <<>> /\ fromPage' = [fromPage EXCEPT ![d] = Tail(@)]
        /\ UNCHANGED <<authStatus, ports, up, toPage>>
        /\ down' = down \/ down' = Append(down, m)
    BY <1>4, Zenon DEF HandleBridgeMessage
  <2>2. m \in DownMsg /\ Tail(fromPage[d]) \in Seq(DownMsg)
    BY <2>1, TailIsSeq
  <2>3. down' \in Seq(DownMsg)
    BY <2>1, <2>2, AppendIsSeq, Zenon
  <2>4. fromPage' \in [Docs -> Seq(DownMsg)]
    BY <2>1, <2>2
  <2> QED
    BY <2>1, <2>3, <2>4, Zenon
<1>5. ASSUME NEW d \in Docs, PortDisconnected(d) PROVE ChannelTypes' /\ BackTypes'
  BY <1>5 DEF PortDisconnected
<1> QED
  BY <1>1, <1>2, <1>3, <1>4, <1>5, Zenon DEF Background

LEMMA FrameChannels == ASSUME TypeInv, Frame PROVE ChannelTypes' /\ BackTypes' /\ PageTypes'
<1>1. UNCHANGED <<backVars, pageVars, toPage, fromPage>>
  BY Zenon DEF Frame, FrameStarts, FrameLoads, LogOut, Unload, BootloaderAnswers, KernelRefuses, KernelOpens,
     KernelRelaysUpdate, ModuleUpdates, ModuleResponds
<1>2. down' = down \/ down' = <<>> \/ (down # <<>> /\ down' = Tail(down))
  BY Zenon DEF Frame, FrameStarts, FrameLoads, LogOut, Unload, BootloaderAnswers, KernelRefuses, KernelOpens,
     KernelRelaysUpdate, ModuleUpdates, ModuleResponds, Take
<1>3. down' \in Seq(DownMsg)
  BY <1>2, EmptyIsSeq, TailIsSeq DEF TypeInv, ChannelTypes
<1>4. up' \in Seq(UpMsg)
  <2>1. up' = up \/ \E m \in UpMsg : up' = Append(up, m)
    BY FrameSends, Zenon DEF Sends
  <2> QED
    BY <2>1, AppendIsSeq DEF TypeInv, ChannelTypes
<1>5. ChannelTypes'
  BY <1>1, <1>3, <1>4 DEF TypeInv, ChannelTypes
<1>6. BackTypes'
  BY <1>1 DEF TypeInv, BackTypes, backVars
<1>7. PageTypes'
  BY <1>1 DEF TypeInv, PageTypes, QueriesOwned, WaitingAsked, pageVars
<1> QED
  BY <1>5, <1>6, <1>7

LEMMA PageChannels == ASSUME TypeInv, Page PROVE ChannelTypes' /\ BackTypes'
<1> USE DEF TypeInv
<1>0. UNCHANGED <<backVars, up, down>>
  BY Zenon DEF Page, NewKernelQuery, SendUpdate, HandleStatus, HandleResponse,
      HandleResponseUpdate, HandleResponseNonce, Reloads, Closes, Leave
<1>1. BackTypes'
  BY <1>0 DEF BackTypes, backVars
<1>2. ASSUME toPage' \in [Docs -> Seq(UpMsg)], fromPage' \in [Docs -> Seq(DownMsg)] PROVE ChannelTypes'
  BY <1>0, <1>2 DEF ChannelTypes
<1>3. toPage \in [Docs -> Seq(UpMsg)] /\ fromPage \in [Docs -> Seq(DownMsg)]
  BY DEF ChannelTypes
<1>4. ASSUME NEW d \in Docs, NEW method, TakePage(d, method)
      PROVE  toPage' \in [Docs -> Seq(UpMsg)] /\ Head(toPage[d]) \in UpMsg /\ Head(toPage[d]).method = method
  BY <1>3, <1>4, TakenFromPage, Zenon DEF TakePage
<1>5. ASSUME NEW d \in Docs, NEW q \in Calls, NEW updates \in BOOLEAN, NewKernelQuery(d, q, updates)
      PROVE  ChannelTypes'
  <2>1. <<Request("moduleCall", q, updates)>> \in Seq(DownMsg)
    BY MadeRequests, SingleIsSeq DEF DownMsg
  <2>2. UNCHANGED fromPage \/ Post(d, <<Request("moduleCall", q, updates)>>)
    BY <1>5, Zenon DEF NewKernelQuery
  <2>3. UNCHANGED toPage
    BY <1>5, Zenon DEF NewKernelQuery
  <2> QED
    BY <1>2, <1>3, <2>1, <2>2, <2>3, PostTypes, Zenon
<1>6. ASSUME NEW q \in Calls, SendUpdate(q) PROVE ChannelTypes'
  <2> DEFINE d == queries[q].owner
             m == QueryUpdate(q, queries[q].kernelNonce, asked[q] + 1)
  <2>1. d \in Docs
    BY <1>6 DEF SendUpdate, PageTypes, QueriesOwned
  <2>2. queries[q].kernelNonce \in Nat /\ asked[q] \in Nat
    BY DEF PageTypes, Query
  <2>3. asked[q] + 1 \in Nat
    BY <2>2
  <2>4. <<m>> \in Seq(DownMsg)
    BY <2>2, <2>3, MadeRequests, SingleIsSeq DEF DownMsg
  <2>5. UNCHANGED toPage /\ (UNCHANGED fromPage \/ Post(d, <<m>>))
    BY <1>6, Zenon DEF SendUpdate
  <2> HIDE DEF m, d
  <2> QED
    BY <1>2, <1>3, <2>1, <2>4, <2>5, PostTypes, Zenon
<1>7. ASSUME NEW d \in Docs, HandleStatus(d) PROVE ChannelTypes'
  <2>1. UNCHANGED fromPage \/ Post(d, [i \in DOMAIN waiting[d] |-> Call(waiting[d][i])])
    BY <1>7, Zenon DEF HandleStatus
  <2>2. TakePage(d, "kernelAuthStatus")
    BY <1>7, Zenon DEF HandleStatus
  <2> QED
    BY <1>2, <1>3, <1>4, <2>1, <2>2, PostTypes, PostedTypes, Zenon
<1>8. ASSUME NEW d \in Docs, HandleResponse(d) \/ HandleResponseUpdate(d) PROVE ChannelTypes'
  <2>1. UNCHANGED fromPage /\ (TakePage(d, "response") \/ TakePage(d, "responseUpdate"))
    BY <1>8, Zenon DEF HandleResponse, HandleResponseUpdate
  <2> QED
    BY <1>2, <1>3, <1>4, <2>1, Zenon
<1>9. ASSUME NEW d \in Docs, HandleResponseNonce(d) PROVE ChannelTypes'
  <2> DEFINE m == Head(toPage[d])
  <2>1. TakePage(d, "responseNonce")
    BY <1>9, Zenon DEF HandleResponseNonce
  <2>2. m \in ReplyMsg
    BY <1>4, <2>1, UpMessages, Zenon
  <2>3. m.nonce \in Calls /\ m.data \in Nat
    BY <2>2 DEF ReplyMsg
  <2>4. UNCHANGED fromPage \/ Post(d, [i \in DOMAIN queries[m.nonce].held |->
                                           QueryUpdate(m.nonce, m.data, queries[m.nonce].held[i])])
    BY <1>9, Zenon DEF HandleResponseNonce
  <2> HIDE DEF m
  <2> QED
    BY <1>2, <1>3, <1>4, <2>1, <2>3, <2>4, PostTypes, PostedTypes, Zenon
<1>10. ASSUME NEW d \in Docs, Leave(d) PROVE ChannelTypes'
  <2>1. PICK n \in 0 .. Len(fromPage[d]) : fromPage' = [fromPage EXCEPT ![d] = SubSeq(@, 1, n)]
    BY <1>10, Zenon DEF Leave
  <2>2. SubSeq(fromPage[d], 1, n) \in Seq(DownMsg)
    BY <1>3, PrefixIsSeq
  <2>3. fromPage' \in [Docs -> Seq(DownMsg)]
    BY <1>3, <2>1, <2>2
  <2>4. toPage' = [toPage EXCEPT ![d] = <<>>]
    BY <1>10, Zenon DEF Leave
  <2>5. toPage' \in [Docs -> Seq(UpMsg)]
    BY <1>3, <2>4, EmptyIsSeq
  <2> QED
    BY <1>2, <2>3, <2>5
<1> QED
  BY <1>1, <1>5, <1>6, <1>7, <1>8, <1>9, <1>10, Zenon DEF Page, Reloads, Closes

\* A query that goes on.
LEMMA QueryTypes ==
  ASSUME NEW r \in Query
  PROVE  /\ \A p \in {"waiting", "open", "closed"} :
                [r EXCEPT !.phase = p] \in Query /\ [r EXCEPT !.phase = p].owner = r.owner
         /\ \A i \in Nat : LET new == [r EXCEPT !.held = Append(@, i)]
                          IN  new \in Query /\ new.owner = r.owner /\ new.phase = r.phase
         /\ \A k \in Nat : LET new == [r EXCEPT !.kernelNonce = k, !.held = <<>>]
                          IN  new \in Query /\ new.owner = r.owner /\ new.phase = r.phase
<1>1. \A i \in Nat : Append(r.held, i) \in Seq(Nat)
  BY AppendIsSeq DEF Query
<1> QED
  BY <1>1, EmptyIsSeq DEF Query

LEMMA HearTypes ==
  ASSUME PageTypes, NEW m \in UpMsg, m.method # "kernelAuthStatus", (Takes(m) /\ Hear(m)) \/ UNCHANGED heard
  PROVE  /\ heard' \in [Calls -> Seq(ReplyMsg)]
         /\ Takes(m) => m \in ReplyMsg /\ m.nonce \in Calls
<1>1. Takes(m) => m \in ReplyMsg
  BY WithData DEF Takes
<1>2. Takes(m) => m.nonce \in Calls
  BY <1>1 DEF ReplyMsg
<1>3. CASE Takes(m) /\ Hear(m)
  <2>1. Append(heard[m.nonce], m) \in Seq(ReplyMsg)
    BY <1>1, <1>2, <1>3, AppendIsSeq DEF PageTypes
  <2>2. heard' = [heard EXCEPT ![m.nonce] = Append(heard[m.nonce], m)]
    BY <1>3, Zenon DEF Hear
  <2>3. heard' \in [Calls -> Seq(ReplyMsg)]
    BY <2>1, <2>2 DEF PageTypes
  <2> QED
    BY <1>1, <1>2, <2>3
<1>4. CASE UNCHANGED heard
  BY <1>1, <1>2, <1>4, Zenon DEF PageTypes
<1> QED
  BY <1>3, <1>4

LEMMA WaitingElements ==
  ASSUME PageTypes, NEW d \in Docs, NEW q \in Calls, Contains(waiting[d], q)
  PROVE  queries[q].phase # "idle" /\ queries[q].owner \in Docs
<1>1. PICK i \in 1 .. Len(waiting[d]) : waiting[d][i] = q
  BY DEF Contains
<1>2. i \in DOMAIN waiting[d]
  BY DEF PageTypes
<1> QED
  BY <1>1, <1>2 DEF PageTypes, WaitingAsked, QueriesOwned

LEMMA WaitingKept ==
  ASSUME PageTypes,
         \A d \in Docs : waiting'[d] = waiting[d] \/ waiting'[d] = <<>>,
         \A q \in Calls : queries[q].phase # "idle" => queries'[q].phase # "idle"
  PROVE  WaitingAsked'
<1>1. ASSUME NEW d \in Docs, NEW i \in DOMAIN waiting'[d] PROVE queries'[waiting'[d][i]].phase # "idle"
  <2>1. i \in DOMAIN waiting[d] /\ waiting'[d] = waiting[d]
    BY <1>1
  <2>2. waiting[d][i] \in Calls /\ queries[waiting[d][i]].phase # "idle"
    BY <2>1 DEF PageTypes, WaitingAsked
  <2> QED
    BY <2>1, <2>2
<1> QED
  BY <1>1 DEF WaitingAsked

LEMMA QueryKept ==
  ASSUME PageTypes, NEW q \in Calls, NEW r \in Query, r.owner = queries[q].owner, r.owner \in Docs,
         r.phase = queries[q].phase \/ r.phase # "idle",
         queries' = [queries EXCEPT ![q] = r] \/ UNCHANGED queries, UNCHANGED waiting
  PROVE  queries' \in [Calls -> Query] /\ QueriesOwned' /\ WaitingAsked'
<1>1. queries' \in [Calls -> Query] /\ \A p \in Calls : queries[p].phase # "idle" => queries'[p].phase # "idle"
  BY DEF PageTypes
<1>2. QueriesOwned'
  BY DEF PageTypes, QueriesOwned
<1>3. WaitingAsked'
  BY <1>1, WaitingKept
<1> QED
  BY <1>1, <1>2, <1>3

LEMMA PageTypesNext == ASSUME TypeInv, Background \/ Page \/ UNCHANGED vars PROVE PageTypes'
<1> USE DEF TypeInv, PageTypes
<1>0. ASSUME UNCHANGED pageVars PROVE PageTypes'
  BY <1>0 DEF pageVars, QueriesOwned, WaitingAsked
<1>1. CASE HandleAuthStatus \/ HandleReply \/ (\E d \in Docs : HandleBridgeMessage(d) \/ PortDisconnected(d))
  BY <1>0, <1>1, Zenon DEF HandleAuthStatus, HandleReply, HandleBridgeMessage, PortDisconnected
<1>2. ASSUME NEW d \in Docs, Connect(d) PROVE PageTypes'
  BY <1>2 DEF Connect, QueriesOwned, WaitingAsked
<1>3. ASSUME NEW d \in Docs, NEW q \in Calls, NEW updates \in BOOLEAN, NewKernelQuery(d, q, updates)
      PROVE  PageTypes'
  <2> DEFINE new == [NoQuery EXCEPT !.owner = d, !.sendUpdates = updates]
             waits == [new EXCEPT !.phase = "waiting"]
             opens == [new EXCEPT !.phase = "open"]
  <2>1. new \in Query /\ new.owner = d
    BY EmptyIsSeq DEF Query, NoQuery
  <2>2. waits \in Query /\ opens \in Query /\ waits.owner = d /\ opens.owner = d
        /\ waits.phase # "idle" /\ opens.phase # "idle"
    BY <2>1, QueryTypes DEF Query
  <2>3. /\ UNCHANGED <<doc, told, asked, heard>>
        /\ \/ queries' = [queries EXCEPT ![q] = waits] /\ waiting' = [waiting EXCEPT ![d] = Append(@, q)]
           \/ queries' = [queries EXCEPT ![q] = opens] /\ UNCHANGED waiting
    BY <1>3, Zenon DEF NewKernelQuery
  <2>4. Append(waiting[d], q) \in Seq(Calls)
    BY AppendIsSeq
  <2> HIDE DEF new, waits, opens
  <2>5. waiting' \in [Docs -> Seq(Calls)]
    BY <2>3, <2>4
  <2>8. PICK new2 \in Query : queries' = [queries EXCEPT ![q] = new2] /\ new2.owner = d /\ new2.phase # "idle"
    BY <2>2, <2>3
  <2>9. queries' \in [Calls -> Query] /\ QueriesOwned'
    BY <2>8 DEF QueriesOwned
  <2>6. \A p \in Calls : queries[p].phase # "idle" \/ p = q => queries'[p].phase # "idle"
    BY <2>8
  <2>7. WaitingAsked'
    <3>1. \A i \in DOMAIN Append(waiting[d], q) :
              Append(waiting[d], q)[i] = q \/ (i \in DOMAIN waiting[d] /\ Append(waiting[d], q)[i] = waiting[d][i])
      BY AppendElements
    <3>2. \A e \in Docs : \A i \in DOMAIN waiting[e] : waiting[e][i] \in Calls /\ queries[waiting[e][i]].phase # "idle"
      BY DEF WaitingAsked
    <3>3. ASSUME NEW e \in Docs, NEW i \in DOMAIN waiting'[e] PROVE queries'[waiting'[e][i]].phase # "idle"
      <4>1. waiting'[e] = waiting[e] \/ (e = d /\ waiting'[e] = Append(waiting[d], q))
        BY <2>3
      <4>2. (i \in DOMAIN waiting[e] /\ waiting'[e][i] = waiting[e][i]) \/ waiting'[e][i] = q
        BY <3>1, <3>3, <4>1
      <4> QED
        BY <2>6, <3>2, <4>2
    <3> QED
      BY <3>3 DEF WaitingAsked
  <2> QED
    BY <2>3, <2>5, <2>6, <2>7, <2>9
<1>4. ASSUME NEW q \in Calls, SendUpdate(q) PROVE PageTypes'
  <2> DEFINE new == [queries[q] EXCEPT !.held = Append(@, asked[q] + 1)]
  <2>1. asked[q] + 1 \in Nat
    BY Successor
  <2>2. new \in Query /\ new.owner = queries[q].owner /\ new.phase = queries[q].phase
    BY <2>1, QueryTypes
  <2>3. queries[q].owner \in Docs
    BY <1>4 DEF SendUpdate, QueriesOwned
  <2>4. /\ UNCHANGED <<doc, told, waiting, heard>> /\ asked' = [asked EXCEPT ![q] = asked[q] + 1]
        /\ queries' = [queries EXCEPT ![q] = new] \/ UNCHANGED queries
    BY <1>4, Zenon DEF SendUpdate
  <2>5. asked' \in [Calls -> Nat]
    BY <2>1, <2>4
  <2>8. new.owner \in Docs
    BY <2>2, <2>3
  <2> HIDE DEF new
  <2>6. queries' \in [Calls -> Query] /\ QueriesOwned' /\ WaitingAsked'
    BY <2>2, <2>3, <2>4, <2>8, QueryKept, Zenon
  <2> QED
    BY <2>4, <2>5, <2>6
<1>5. ASSUME NEW d \in Docs, HandleStatus(d) PROVE PageTypes'
  <2> DEFINE m == Head(toPage[d])
             opened(q) == [queries[q] EXCEPT !.phase = "open"]
  <2>1. toPage[d] # <<>> /\ m.method = "kernelAuthStatus" /\ Runs(d)
    BY <1>5, Zenon DEF HandleStatus, TakePage
  <2>2. m \in UpMsg
    BY <2>1, TailIsSeq DEF ChannelTypes
  <2>3. m.from \in Nat
    BY <2>2, UpMessages DEF Session
  <2>4. doc' = doc \/ doc' = [doc EXCEPT ![d] = "reloading"]
    BY <1>5, Zenon DEF HandleStatus, ObeyLogout
  <2>5. UNCHANGED <<asked, heard>>
    BY <1>5, Zenon DEF HandleStatus
  <2>6. CASE ~Resolves(d)
    BY <1>5, <2>4, <2>5, <2>6 DEF HandleStatus, QueriesOwned, WaitingAsked
  <2>7. CASE Resolves(d)
    <3>1. /\ told' = [told EXCEPT ![d] = m.from] /\ waiting' = [waiting EXCEPT ![d] = <<>>]
          /\ queries' = [q \in Calls |-> IF Contains(waiting[d], q) THEN opened(q) ELSE queries[q]]
      BY <1>5, <2>7, Zenon DEF HandleStatus
    <3>2. told' \in [Docs -> Nat] /\ waiting' \in [Docs -> Seq(Calls)]
      BY <2>3, <3>1, EmptyIsSeq
    <3>3. \A q \in Calls : opened(q) \in Query /\ opened(q).owner = queries[q].owner
      BY QueryTypes
    <3>4. ASSUME NEW q \in Calls, Contains(waiting[d], q) PROVE queries[q].owner \in Docs
      BY <3>4, WaitingElements
    <3>5. \A q \in Calls : opened(q).phase = "open"
      BY DEF Query
    <3> HIDE DEF opened
    <3>6. queries' \in [Calls -> Query] /\ \A p \in Calls : queries[p].phase # "idle" => queries'[p].phase # "idle"
      BY <3>1, <3>3, <3>5
    <3>7. QueriesOwned'
      BY <3>1, <3>3, <3>4 DEF QueriesOwned
    <3>8. WaitingAsked'
      BY <3>1, <3>6, WaitingKept
    <3> QED
      BY <2>4, <2>5, <3>2, <3>6, <3>7, <3>8
  <2> QED
    BY <2>6, <2>7
<1>6. ASSUME NEW d \in Docs, HandleResponse(d) PROVE PageTypes'
  <2> DEFINE m == Head(toPage[d])
             new == [queries[m.nonce] EXCEPT !.phase = "closed"]
  <2>1. toPage[d] # <<>> /\ m.method = "response"
    BY <1>6, Zenon DEF HandleResponse, TakePage
  <2>2. m \in UpMsg
    BY <2>1, TailIsSeq DEF ChannelTypes
  <2>3. /\ UNCHANGED <<doc, told, waiting, asked>>
        /\ \/ Takes(m) /\ Hear(m) /\ queries' = [queries EXCEPT ![m.nonce] = new]
           \/ UNCHANGED <<heard, queries>>
    BY <1>6, Zenon DEF HandleResponse
  <2>4. heard' \in [Calls -> Seq(ReplyMsg)] /\ (Takes(m) => m \in ReplyMsg /\ m.nonce \in Calls)
    BY <2>1, <2>2, <2>3, HearTypes, Zenon
  <2>5. CASE Takes(m) /\ queries' = [queries EXCEPT ![m.nonce] = new]
    <3>1. m.nonce \in Calls /\ queries[m.nonce].phase = "open"
      BY <2>4, <2>5 DEF Takes
    <3>2. new \in Query /\ new.owner = queries[m.nonce].owner /\ new.phase # "idle"
      <4>1. queries[m.nonce] \in Query
        BY <3>1
      <4>2. new \in Query /\ new.owner = queries[m.nonce].owner
        BY <4>1, QueryTypes
      <4>3. new.phase = "closed"
        BY <4>1 DEF Query
      <4> QED
        BY <4>2, <4>3
    <3>4. new.owner \in Docs
      BY <3>1, <3>2 DEF QueriesOwned
    <3> HIDE DEF new, m
    <3>3. queries' \in [Calls -> Query] /\ QueriesOwned' /\ WaitingAsked'
      BY <2>3, <2>5, <3>1, <3>2, <3>4, QueryKept, Zenon
    <3> QED
      BY <2>3, <2>4, <3>3
  <2> QED
    BY <2>3, <2>4, <2>5 DEF QueriesOwned, WaitingAsked
<1>7. ASSUME NEW d \in Docs, HandleResponseUpdate(d) PROVE PageTypes'
  <2> DEFINE m == Head(toPage[d])
  <2>1. toPage[d] # <<>> /\ m.method = "responseUpdate" /\ UNCHANGED <<doc, told, waiting, queries, asked>>
        /\ ((Takes(m) /\ Hear(m)) \/ UNCHANGED heard)
    BY <1>7, Zenon DEF HandleResponseUpdate, TakePage
  <2>2. m \in UpMsg
    BY <2>1, TailIsSeq DEF ChannelTypes
  <2>3. heard' \in [Calls -> Seq(ReplyMsg)]
    BY <2>1, <2>2, HearTypes, Zenon
  <2> QED
    BY <2>1, <2>3 DEF QueriesOwned, WaitingAsked
<1>8. ASSUME NEW d \in Docs, HandleResponseNonce(d) PROVE PageTypes'
  <2> DEFINE m == Head(toPage[d])
             new == [queries[m.nonce] EXCEPT !.kernelNonce = m.data, !.held = <<>>]
  <2>1. toPage[d] # <<>> /\ m.method = "responseNonce"
    BY <1>8, Zenon DEF HandleResponseNonce, TakePage
  <2>2. m \in UpMsg
    BY <2>1, TailIsSeq DEF ChannelTypes
  <2>3. /\ UNCHANGED <<doc, told, waiting, asked>>
        /\ \/ /\ Takes(m) /\ Hear(m)
              /\ queries' = [queries EXCEPT ![m.nonce].kernelNonce = m.data, ![m.nonce].held = <<>>]
           \/ UNCHANGED <<heard, queries>>
    BY <1>8, Zenon DEF HandleResponseNonce
  <2>4. heard' \in [Calls -> Seq(ReplyMsg)] /\ (Takes(m) => m \in ReplyMsg /\ m.nonce \in Calls)
    BY <2>1, <2>2, <2>3, HearTypes, Zenon
  <2>5. CASE Takes(m) /\ queries' = [queries EXCEPT ![m.nonce].kernelNonce = m.data, ![m.nonce].held = <<>>]
    <3>1. m.nonce \in Calls /\ queries[m.nonce].phase = "open" /\ m.data \in Nat
      BY <2>4, <2>5 DEF Takes, ReplyMsg
    <3>2. new \in Query /\ new.owner = queries[m.nonce].owner /\ new.phase # "idle"
      BY <3>1, QueryTypes
    <3>5. new.owner \in Docs
      BY <3>1, <3>2 DEF QueriesOwned
    <3>3. queries' = [queries EXCEPT ![m.nonce] = new]
      BY <2>5, <3>1 DEF Query
    <3> HIDE DEF new, m
    <3>4. queries' \in [Calls -> Query] /\ QueriesOwned' /\ WaitingAsked'
      BY <2>3, <3>1, <3>2, <3>3, <3>5, QueryKept, Zenon
    <3> QED
      BY <2>3, <2>4, <3>4
  <2> QED
    BY <2>3, <2>4, <2>5 DEF QueriesOwned, WaitingAsked
<1>9. ASSUME NEW d \in Docs, Leave(d) PROVE PageTypes'
  BY <1>9 DEF Leave, QueriesOwned, WaitingAsked
<1>10. CASE UNCHANGED vars
  BY <1>0, <1>10, Zenon DEF vars
<1> QED
  BY <1>1, <1>2, <1>3, <1>4, <1>5, <1>6, <1>7, <1>8, <1>9, <1>10, Zenon DEF Background, Page, Reloads, Closes

LEMMA TypesNext == ASSUME TypeInv, [Next]_vars PROVE TypeInv'
<1>1. FrameTypes'
  BY FrameTypesNext
<1>2. CASE Frame
  BY <1>1, <1>2, FrameChannels DEF TypeInv
<1>3. CASE Background
  BY <1>1, <1>3, BackgroundTypes, PageTypesNext DEF TypeInv
<1>4. CASE Page
  BY <1>1, <1>4, PageChannels, PageTypesNext DEF TypeInv
<1>5. CASE UNCHANGED vars
  <2>1. ChannelTypes' /\ BackTypes'
    BY <1>5 DEF vars, backVars, TypeInv, ChannelTypes, BackTypes
  <2>2. PageTypes'
    BY <1>5, PageTypesNext
  <2> QED
    BY <1>1, <2>1, <2>2 DEF TypeInv
<1> QED
  BY <1>2, <1>3, <1>4, <1>5 DEF Next

\* What the documents, the background and the frame send each other is well formed.
THEOREM RelayTypes == Spec => []TypeInv
<1> QED
  BY InitTypes, TypesNext, PTL DEF Spec

(***************************************************************************)
(* Where a query may be mentioned.  Only a query that libkernel has sent is *)
(* on the way, in the maps of the background and the kernel, or answered;   *)
(* its replies are on the way to its own document, which has been told of   *)
(* a session.                                                               *)
(***************************************************************************)
SentCalls == {q \in Calls : queries[q].phase \in {"open", "closed"}}

SentBy(d) == {q \in SentCalls : queries[q].owner = d}

WaitsIn(d) == {q \in Calls : queries[q].phase = "waiting" /\ queries[q].owner = d}

RepliesTo(Q) == {m \in UpMsg : m.nonce \in Calls => m.nonce \in Q}

CallsOf(Q) == {m \in DownMsg : m.method = "moduleCall" => m.nonce \in Q}

ChannelMentions ==
    /\ up \in Seq(RepliesTo(SentCalls))
    /\ down \in Seq(CallsOf(SentCalls))
    /\ \A d \in Docs : toPage[d] \in Seq(RepliesTo(SentBy(d)))
    /\ \A d \in Docs : fromPage[d] \in Seq(CallsOf(SentBy(d)))

MapMentions ==
    /\ \A g \in kernelQueries : g.call \in SentCalls
    /\ bgQueries \subseteq SentCalls

PageMentions ==
    /\ \A q \in Calls : heard[q] # <<>> => q \in SentCalls
    /\ \A q \in SentCalls : told[queries[q].owner] # 0
    /\ \A d \in Docs : waiting[d] \in Seq(WaitsIn(d))
    /\ \A d \in Docs : told[d] # 0 => waiting[d] = <<>>

NewDocs == \A d \in Docs : doc[d] = "new" => told[d] = 0 /\ toPage[d] = <<>> /\ ports[d] = "none"

MentionInv == TypeInv /\ ChannelMentions /\ MapMentions /\ PageMentions /\ NewDocs

LEMMA SeqWider == ASSUME NEW S, NEW T, S \subseteq T, NEW s \in Seq(S) PROVE s \in Seq(T)
  OBVIOUS

LEMMA MentionWider ==
  ASSUME NEW Q, NEW R, Q \subseteq R
  PROVE  RepliesTo(Q) \subseteq RepliesTo(R) /\ CallsOf(Q) \subseteq CallsOf(R)
  BY DEF RepliesTo, CallsOf

\* What mentions a query goes on doing so when no query is forgotten.
LEMMA ChannelsKept ==
  ASSUME ChannelMentions, SentCalls \subseteq SentCalls', \A d \in Docs : SentBy(d) \subseteq SentBy(d)'
  PROVE  /\ up \in Seq(RepliesTo(SentCalls')) /\ down \in Seq(CallsOf(SentCalls'))
         /\ \A d \in Docs : toPage[d] \in Seq(RepliesTo(SentBy(d)')) /\ fromPage[d] \in Seq(CallsOf(SentBy(d)'))
<1>1. RepliesTo(SentCalls) \subseteq RepliesTo(SentCalls') /\ CallsOf(SentCalls) \subseteq CallsOf(SentCalls')
  BY MentionWider
<1>2. \A d \in Docs : /\ RepliesTo(SentBy(d)) \subseteq RepliesTo(SentBy(d)')
                      /\ CallsOf(SentBy(d)) \subseteq CallsOf(SentBy(d)')
  BY MentionWider
<1>3. up \in Seq(RepliesTo(SentCalls')) /\ down \in Seq(CallsOf(SentCalls'))
  BY <1>1, SeqWider, Zenon DEF ChannelMentions
<1>4. ASSUME NEW d \in Docs
      PROVE  toPage[d] \in Seq(RepliesTo(SentBy(d)')) /\ fromPage[d] \in Seq(CallsOf(SentBy(d)'))
  BY <1>2, SeqWider, Zenon DEF ChannelMentions
<1> QED
  BY <1>3, <1>4

LEMMA SentIsKept ==
  ASSUME UNCHANGED queries
  PROVE  /\ SentCalls' = SentCalls
         /\ \A d : SentBy(d)' = SentBy(d) /\ WaitsIn(d)' = WaitsIn(d)
  BY DEF SentCalls, SentBy, WaitsIn

LEMMA MentionInit == ASSUME Init PROVE MentionInv
<1>1. TypeInv
  BY InitTypes
<1>2. \A q \in Calls : queries[q].phase = "idle"
  BY DEF Init, NoQuery
<1>3. SentCalls = {}
  BY <1>2 DEF SentCalls
<1>4. ChannelMentions
  BY EmptyIsSeq DEF Init, ChannelMentions
<1>5. MapMentions
  BY DEF Init, MapMentions
<1>6. PageMentions
  BY <1>3, EmptyIsSeq DEF Init, PageMentions
<1>7. NewDocs
  BY DEF Init, NewDocs
<1> QED
  BY <1>1, <1>4, <1>5, <1>6, <1>7 DEF MentionInv

LEMMA CallMention ==
  ASSUME NEW Q, NEW m \in CallsOf(Q), m.method = "moduleCall"
  PROVE  m.nonce \in Q /\ m.nonce \in Calls
<1>1. m.nonce \in Q /\ m \in CallMsg
  BY DownCalls DEF CallsOf
<1> QED
  BY <1>1 DEF CallMsg

LEMMA MentionFrame == ASSUME MentionInv, Frame, TypeInv' PROVE MentionInv'
<1> USE DEF MentionInv
<1>0. UNCHANGED <<authStatus, ports, bgQueries, doc, told, waiting, queries, asked, heard, toPage, fromPage>>
  BY Zenon DEF Frame, FrameStarts, FrameLoads, LogOut, Unload, BootloaderAnswers, KernelRefuses, KernelOpens,
     KernelRelaysUpdate, ModuleUpdates, ModuleResponds, backVars, pageVars
<1>1. SentCalls' = SentCalls /\ \A d : SentBy(d)' = SentBy(d) /\ WaitsIn(d)' = WaitsIn(d)
  BY <1>0, SentIsKept
<1>2. PageMentions' /\ NewDocs'
  BY <1>0, <1>1 DEF PageMentions, NewDocs
<1>3. down' \in Seq(CallsOf(SentCalls))
  <2>1. down' = down \/ down' = <<>> \/ (down # <<>> /\ down' = Tail(down))
    BY Zenon DEF Frame, FrameStarts, FrameLoads, LogOut, Unload, BootloaderAnswers, KernelRefuses, KernelOpens,
       KernelRelaysUpdate, ModuleUpdates, ModuleResponds, Take
  <2> QED
    BY <2>1, EmptyIsSeq, TailIsSeq DEF ChannelMentions
<1>4. ASSUME down # <<>>, Head(down).method = "moduleCall" PROVE Head(down).nonce \in SentCalls
  BY <1>4, TailIsSeq, CallMention DEF ChannelMentions
<1>5. up' \in Seq(RepliesTo(SentCalls))
  <2>1. ASSUME NEW m \in UpMsg, Sends(m) PROVE up' \in Seq(RepliesTo(SentCalls))
    <3>1. m \in RepliesTo(SentCalls)
      BY <1>4, <2>1 DEF Sends, RepliesTo, MapMentions
    <3> QED
      BY <2>1, <3>1, AppendIsSeq DEF Sends, ChannelMentions
  <2> QED
    BY <2>1, FrameSends, Zenon DEF ChannelMentions
<1>6. MapMentions'
  <2>1. CASE KernelOpens
    <3> DEFINE k == kernelNonces + 1
    <3>1. /\ down # <<>> /\ Head(down).method = "moduleCall"
          /\ kernelQueries' = kernelQueries \cup {[nonce |-> k, call |-> Head(down).nonce]}
      BY <2>1, Zenon DEF KernelOpens, Take
    <3> HIDE DEF k
    <3> QED
      BY <1>0, <1>1, <1>4, <3>1 DEF MapMentions
  <2>2. CASE ~KernelOpens
    <3>1. kernelQueries' = kernelQueries \/ kernelQueries' = {} \/ \E g : kernelQueries' = kernelQueries \ {g}
      BY <2>2, Zenon DEF Frame, FrameStarts, FrameLoads, LogOut, Unload, BootloaderAnswers, KernelRefuses,
         KernelRelaysUpdate, ModuleUpdates, ModuleResponds, frameVars
    <3> QED
      BY <1>0, <1>1, <3>1 DEF MapMentions
  <2> QED
    BY <2>1, <2>2
<1>7. ChannelMentions'
  BY <1>0, <1>1, <1>3, <1>5 DEF ChannelMentions
<1> QED
  BY <1>2, <1>6, <1>7

LEMMA StatusMention == ASSUME NEW m \in StatusMsg, NEW Q PROVE m \in RepliesTo(Q)
  BY ExtensionRelayAssumption DEF ExtensionRelayAssumption, StatusMsg, UpMsg, RepliesTo

\* What the background gives to a port is a status or a reply to a query of that document.
LEMMA SendToMentions ==
  ASSUME NEW D, NEW ms, SendTo(D, ms), ChannelMentions, NewDocs,
         \A d \in D : d \in Docs => ms \in Seq(RepliesTo(SentBy(d))),
         D \subseteq OpenPorts
  PROVE  /\ \A d \in Docs : toPage'[d] \in Seq(RepliesTo(SentBy(d)))
         /\ \A d \in Docs : doc[d] = "new" => toPage'[d] = <<>>
<1>1. ASSUME NEW d \in Docs PROVE toPage'[d] \in Seq(RepliesTo(SentBy(d)))
  <2>1. toPage'[d] = toPage[d] \/ (d \in D /\ toPage'[d] = toPage[d] \o ms)
    BY DEF SendTo
  <2>2. toPage[d] \in Seq(RepliesTo(SentBy(d)))
    BY DEF ChannelMentions
  <2> QED
    BY <2>1, <2>2, ConcatIsSeq, Zenon
<1>2. ASSUME NEW d \in Docs, doc[d] = "new" PROVE toPage'[d] = <<>>
  <2>1. d \notin D /\ toPage[d] = <<>>
    BY <1>2 DEF NewDocs, OpenPorts
  <2> QED
    BY <2>1 DEF SendTo
<1> QED
  BY <1>1, <1>2

LEMMA MentionBackground == ASSUME MentionInv, Background, TypeInv' PROVE MentionInv'
<1> USE DEF MentionInv
<1>0. UNCHANGED <<told, waiting, queries, asked, heard, kernelQueries>>
  BY Zenon DEF Background, HandleAuthStatus, HandleReply, Connect, HandleBridgeMessage, PortDisconnected,
     pageVars, frameVars
<1>1. SentCalls' = SentCalls /\ \A d : SentBy(d)' = SentBy(d) /\ WaitsIn(d)' = WaitsIn(d)
  BY <1>0, SentIsKept
<1>2. PageMentions'
  BY <1>0, <1>1 DEF PageMentions
<1>3. ASSUME /\ up' \in Seq(RepliesTo(SentCalls)) /\ down' \in Seq(CallsOf(SentCalls))
             /\ \A d \in Docs : toPage'[d] \in Seq(RepliesTo(SentBy(d)))
             /\ \A d \in Docs : fromPage'[d] \in Seq(CallsOf(SentBy(d)))
             /\ bgQueries' \subseteq SentCalls /\ NewDocs'
      PROVE  MentionInv'
  <2>1. ChannelMentions' /\ MapMentions'
    BY <1>0, <1>1, <1>3 DEF ChannelMentions, MapMentions
  <2> QED
    BY <1>2, <1>3, <2>1
<1>4. /\ up \in Seq(RepliesTo(SentCalls)) /\ down \in Seq(CallsOf(SentCalls)) /\ bgQueries \subseteq SentCalls
      /\ \A d \in Docs : toPage[d] \in Seq(RepliesTo(SentBy(d)))
      /\ \A d \in Docs : fromPage[d] \in Seq(CallsOf(SentBy(d)))
  BY DEF ChannelMentions, MapMentions
<1>5. ASSUME up # <<>> PROVE Head(up) \in RepliesTo(SentCalls) /\ Tail(up) \in Seq(RepliesTo(SentCalls))
  BY <1>4, <1>5, TailIsSeq
<1>6. CASE HandleAuthStatus
  <2>1. /\ up # <<>> /\ Head(up).method = "kernelAuthStatus" /\ up' = Tail(up)
        /\ UNCHANGED <<bgQueries, doc, told, down, fromPage>>
        /\ SendTo(OpenPorts, <<Head(up), Head(up)>>) \/ SendTo(OpenPorts, <<Head(up)>>)
    BY <1>6, Zenon DEF HandleAuthStatus, TakeUp, pageVars
  <2>2. Head(up) \in StatusMsg
    BY <1>5, <2>1, UpMessages DEF RepliesTo
  <2>3. \A d : <<Head(up), Head(up)>> \in Seq(RepliesTo(SentBy(d))) /\ <<Head(up)>> \in Seq(RepliesTo(SentBy(d)))
    BY <2>2, StatusMention, SingleIsSeq, Zenon
  <2>4. /\ \A d \in Docs : toPage'[d] \in Seq(RepliesTo(SentBy(d)))
        /\ \A d \in Docs : doc[d] = "new" => toPage'[d] = <<>>
    BY <2>1, <2>3, SendToMentions
  <2>5. ports' = ports \/ ports' = [d \in Docs |-> IF d \in OpenPorts THEN "closed" ELSE ports[d]]
    BY <1>6, Zenon DEF HandleAuthStatus, ClosePorts
  <2>6. NewDocs'
    BY <2>1, <2>4, <2>5 DEF NewDocs, OpenPorts
  <2> QED
    BY <1>3, <1>4, <1>5, <2>1, <2>4, <2>6
<1>7. CASE HandleReply
  <2> DEFINE m == Head(up)
             D == OpenPorts \cap {queries[m.nonce].owner}
  <2>1. /\ up # <<>> /\ up' = Tail(up)
        /\ UNCHANGED <<doc, told, ports, down, fromPage>>
        /\ \/ UNCHANGED <<toPage, bgQueries>>
           \/ SendTo(D, <<m>>) /\ (UNCHANGED bgQueries \/ bgQueries' = bgQueries \ {m.nonce})
    BY <1>7, Zenon DEF HandleReply, TakeUp, Forgets, pageVars
  <2>2. m \in RepliesTo(SentCalls)
    BY <1>5, <2>1
  <2>3. ASSUME NEW d \in D PROVE m \in RepliesTo(SentBy(d))
    BY <2>2, <2>3 DEF RepliesTo, SentBy
  <2>4. \A d \in D : <<m>> \in Seq(RepliesTo(SentBy(d)))
    BY <2>3, SingleIsSeq, Zenon
  <2>5. D \subseteq OpenPorts
    OBVIOUS
  <2> HIDE DEF m, D
  <2>6. /\ \A d \in Docs : toPage'[d] \in Seq(RepliesTo(SentBy(d)))
        /\ \A d \in Docs : doc[d] = "new" => toPage'[d] = <<>>
    <3>1. CASE UNCHANGED toPage
      BY <1>4, <3>1 DEF NewDocs
    <3>2. CASE SendTo(D, <<m>>)
      BY <2>4, <2>5, <3>2, SendToMentions
    <3> QED
      BY <2>1, <3>1, <3>2
  <2>7. NewDocs'
    BY <2>1, <2>6 DEF NewDocs
  <2>8. bgQueries' \subseteq SentCalls
    BY <1>4, <2>1
  <2> QED
    BY <1>3, <1>4, <1>5, <2>1, <2>6, <2>7, <2>8
<1>8. ASSUME NEW d \in Docs, Connect(d) PROVE MentionInv'
  <2>1. /\ doc[d] = "new" /\ doc' = [doc EXCEPT ![d] = "live"] /\ ports' = [ports EXCEPT ![d] = "open"]
        /\ UNCHANGED <<bgQueries, told, up, down, fromPage>>
        /\ toPage' = toPage \/ (authStatus # Unknown /\ toPage' = [toPage EXCEPT ![d] = Append(@, authStatus)])
    BY <1>8, Zenon DEF Connect
  <2>2. authStatus # Unknown => Append(toPage[d], authStatus) \in Seq(RepliesTo(SentBy(d)))
    BY <1>4, AppendIsSeq, StatusMention DEF TypeInv, BackTypes
  <2>3. \A e \in Docs : toPage'[e] \in Seq(RepliesTo(SentBy(e))) /\ (e # d => toPage'[e] = toPage[e])
    BY <1>4, <2>1, <2>2 DEF TypeInv, ChannelTypes
  <2>4. NewDocs'
    BY <2>1, <2>3 DEF NewDocs, TypeInv, PageTypes, BackTypes
  <2> QED
    BY <1>3, <1>4, <2>1, <2>3, <2>4
<1>9. ASSUME NEW d \in Docs, HandleBridgeMessage(d) PROVE MentionInv'
  <2> DEFINE m == Head(fromPage[d])
  <2>1. /\ fromPage[d] # <<>> /\ fromPage' = [fromPage EXCEPT ![d] = Tail(@)]
        /\ UNCHANGED <<ports, doc, told, up, toPage>>
        /\ down' = down \/ down' = Append(down, m)
        /\ bgQueries' = bgQueries \/ (m.method = "moduleCall" /\ bgQueries' = bgQueries \cup {m.nonce})
    BY <1>9, Zenon DEF HandleBridgeMessage, Registers, pageVars
  <2>2. m \in CallsOf(SentBy(d)) /\ Tail(fromPage[d]) \in Seq(CallsOf(SentBy(d)))
    BY <1>4, <2>1, TailIsSeq
  <2>3. m \in CallsOf(SentCalls) /\ (m.method = "moduleCall" => m.nonce \in SentCalls)
    BY <2>2 DEF CallsOf, SentBy
  <2>4. \A e \in Docs : fromPage'[e] \in Seq(CallsOf(SentBy(e)))
    BY <1>4, <2>1, <2>2 DEF TypeInv, ChannelTypes
  <2>5. down' \in Seq(CallsOf(SentCalls))
    BY <1>4, <2>1, <2>3, AppendIsSeq, Zenon
  <2>6. bgQueries' \subseteq SentCalls
    BY <1>4, <2>1, <2>3
  <2>7. NewDocs'
    BY <2>1 DEF NewDocs
  <2> QED
    BY <1>3, <1>4, <2>1, <2>4, <2>5, <2>6, <2>7
<1>10. ASSUME NEW d \in Docs, PortDisconnected(d) PROVE MentionInv'
  <2>1. /\ ports[d] = "open" /\ ports' = [ports EXCEPT ![d] = "closed"]
        /\ UNCHANGED <<bgQueries, doc, told, up, down, toPage, fromPage>>
    BY <1>10, Zenon DEF PortDisconnected, pageVars
  <2>2. NewDocs'
    BY <2>1 DEF NewDocs, TypeInv, BackTypes
  <2> QED
    BY <1>3, <1>4, <2>1, <2>2
<1> QED
  BY <1>6, <1>7, <1>8, <1>9, <1>10, Zenon DEF Background

\* A query that is sent stays sent, and with its document; one that waits does
\* so until it is sent.
LEMMA SentGrows ==
  ASSUME \A q \in SentCalls : queries'[q].phase \in {"open", "closed"} /\ queries'[q].owner = queries[q].owner
  PROVE  SentCalls \subseteq SentCalls' /\ \A d \in Docs : SentBy(d) \subseteq SentBy(d)'
<1>1. SentCalls \subseteq SentCalls'
  BY DEF SentCalls
<1> QED
  BY <1>1 DEF SentBy

LEMMA WaitsKept ==
  ASSUME NEW d,
         \A q \in WaitsIn(d) : queries'[q].phase = "waiting" /\ queries'[q].owner = d,
         NEW s \in Seq(WaitsIn(d))
  PROVE  s \in Seq(WaitsIn(d)')
<1>1. WaitsIn(d) \subseteq WaitsIn(d)'
  BY DEF WaitsIn
<1> QED
  BY <1>1, SeqWider

LEMMA PostMentions ==
  ASSUME TypeInv, NEW d \in Docs, NEW ms, Post(d, ms) \/ (UNCHANGED fromPage),
         Post(d, ms) => ms \in Seq(CallsOf(SentBy(d)')),
         \A e \in Docs : fromPage[e] \in Seq(CallsOf(SentBy(e)'))
  PROVE  \A e \in Docs : fromPage'[e] \in Seq(CallsOf(SentBy(e)'))
<1>1. CASE Post(d, ms)
  <2>1. fromPage[d] \o ms \in Seq(CallsOf(SentBy(d)'))
    BY <1>1, ConcatIsSeq
  <2>2. fromPage' = [fromPage EXCEPT ![d] = fromPage[d] \o ms] /\ DOMAIN fromPage = Docs
    BY <1>1 DEF Post, TypeInv, ChannelTypes
  <2>3. fromPage'[d] = fromPage[d] \o ms /\ \A e \in Docs : e # d => fromPage'[e] = fromPage[e]
    BY <2>2
  <2> QED
    BY <2>1, <2>3, Zenon
<1> QED
  BY <1>1, Zenon

LEMMA UpdatesMention ==
  ASSUME NEW m \in UpdateMsg, NEW Q PROVE m \in CallsOf(Q)
  BY DEF UpdateMsg, DownMsg, CallsOf

\* A step of a page in which it posts ms.
LEMMA MentionPage ==
  ASSUME MentionInv, TypeInv', NEW d \in Docs, NEW ms, UNCHANGED <<frameVars, backVars, up, down>>,
         \A q \in SentCalls : queries'[q].phase \in {"open", "closed"} /\ queries'[q].owner = queries[q].owner,
         Post(d, ms) \/ UNCHANGED fromPage, Post(d, ms) => ms \in Seq(CallsOf(SentBy(d)')),
         \A e \in Docs : toPage'[e] = toPage[e] \/ (toPage[e] # <<>> /\ toPage'[e] = Tail(toPage[e])),
         \A e \in Docs : doc'[e] = "new" => doc[e] = "new" /\ told'[e] = told[e],
         PageMentions'
  PROVE  MentionInv'
<1> USE DEF MentionInv
<1>1. SentCalls \subseteq SentCalls' /\ \A e \in Docs : SentBy(e) \subseteq SentBy(e)'
  BY SentGrows
<1>2. /\ up \in Seq(RepliesTo(SentCalls')) /\ down \in Seq(CallsOf(SentCalls'))
      /\ \A e \in Docs : toPage[e] \in Seq(RepliesTo(SentBy(e)')) /\ fromPage[e] \in Seq(CallsOf(SentBy(e)'))
  BY <1>1, ChannelsKept
<1>3. \A e \in Docs : fromPage'[e] \in Seq(CallsOf(SentBy(e)'))
  BY <1>2, PostMentions
<1>4. \A e \in Docs : toPage'[e] \in Seq(RepliesTo(SentBy(e)'))
  BY <1>2, TailIsSeq, Zenon
<1>5. ChannelMentions'
  BY <1>2, <1>3, <1>4 DEF ChannelMentions
<1>6. MapMentions'
  BY <1>1 DEF MapMentions, frameVars, backVars
<1>7. NewDocs'
  BY DEF NewDocs, backVars
<1> QED
  BY <1>5, <1>6, <1>7

LEMMA MentionPageQuiet ==
  ASSUME MentionInv, TypeInv', UNCHANGED <<frameVars, backVars, up, down, fromPage>>,
         \A q \in SentCalls : queries'[q].phase \in {"open", "closed"} /\ queries'[q].owner = queries[q].owner,
         \A e \in Docs : toPage'[e] = toPage[e] \/ (toPage[e] # <<>> /\ toPage'[e] = Tail(toPage[e])),
         \A e \in Docs : doc'[e] = "new" => doc[e] = "new" /\ told'[e] = told[e],
         PageMentions'
  PROVE  MentionInv'
<1> USE DEF MentionInv
<1>1. SentCalls \subseteq SentCalls' /\ \A e \in Docs : SentBy(e) \subseteq SentBy(e)'
  BY SentGrows
<1>2. /\ up \in Seq(RepliesTo(SentCalls')) /\ down \in Seq(CallsOf(SentCalls'))
      /\ \A e \in Docs : toPage[e] \in Seq(RepliesTo(SentBy(e)')) /\ fromPage[e] \in Seq(CallsOf(SentBy(e)'))
  BY <1>1, ChannelsKept
<1>3. \A e \in Docs : toPage'[e] \in Seq(RepliesTo(SentBy(e)'))
  BY <1>2, TailIsSeq, Zenon
<1>4. ChannelMentions'
  BY <1>2, <1>3 DEF ChannelMentions
<1>5. MapMentions'
  BY <1>1 DEF MapMentions, frameVars, backVars
<1>6. NewDocs'
  BY DEF NewDocs, backVars
<1> QED
  BY <1>4, <1>5, <1>6

LEMMA PageMentionsKept ==
  ASSUME PageMentions, UNCHANGED <<told, waiting, heard>>,
         UNCHANGED queries \/
         (\A p \in Calls : queries'[p].phase = queries[p].phase /\ queries'[p].owner = queries[p].owner)
  PROVE  PageMentions'
<1>1. \A p \in Calls : queries'[p].phase = queries[p].phase /\ queries'[p].owner = queries[p].owner
  OBVIOUS
<1>2. SentCalls' = SentCalls /\ \A d : WaitsIn(d)' = WaitsIn(d)
  BY <1>1 DEF SentCalls, WaitsIn
<1> QED
  BY <1>1, <1>2 DEF PageMentions, SentCalls

LEMMA MentionNewQuery ==
  ASSUME MentionInv, TypeInv', NEW d \in Docs, NEW q \in Calls, NEW updates \in BOOLEAN, NewKernelQuery(d, q, updates)
  PROVE  MentionInv'
<1> USE DEF MentionInv
<1> DEFINE new == [NoQuery EXCEPT !.owner = d, !.sendUpdates = updates]
           m == Request("moduleCall", q, updates)
<1>1. /\ Runs(d) /\ queries[q].phase = "idle"
      /\ UNCHANGED <<frameVars, backVars, doc, told, asked, heard, up, down, toPage>>
      /\ IF told[d] = 0
         THEN /\ queries' = [queries EXCEPT ![q] = [new EXCEPT !.phase = "waiting"]]
              /\ waiting' = [waiting EXCEPT ![d] = Append(@, q)] /\ UNCHANGED fromPage
         ELSE /\ queries' = [queries EXCEPT ![q] = [new EXCEPT !.phase = "open"]]
              /\ Post(d, <<m>>) /\ UNCHANGED waiting
  BY Zenon DEF NewKernelQuery
<1>2. /\ queries'[q].owner = d
      /\ queries'[q].phase = (IF told[d] = 0 THEN "waiting" ELSE "open")
      /\ \A p \in Calls \ {q} : queries'[p] = queries[p]
  <2> DEFINE waits == [new EXCEPT !.phase = "waiting"]
             opens == [new EXCEPT !.phase = "open"]
  <2>1. waits.owner = d /\ opens.owner = d /\ waits.phase = "waiting" /\ opens.phase = "open"
    BY DEF NoQuery
  <2>2. queries' = [queries EXCEPT ![q] = IF told[d] = 0 THEN waits ELSE opens] /\ DOMAIN queries = Calls
    BY <1>1 DEF TypeInv, PageTypes
  <2> HIDE DEF waits, opens
  <2>3. queries'[q] = (IF told[d] = 0 THEN waits ELSE opens) /\ \A p \in Calls \ {q} : queries'[p] = queries[p]
    BY <2>2
  <2> QED
    BY <2>1, <2>3
<1>3. q \notin SentCalls /\ \A e : q \notin WaitsIn(e)
  BY <1>1 DEF SentCalls, WaitsIn
<1>4. \A p \in SentCalls : queries'[p].phase \in {"open", "closed"} /\ queries'[p].owner = queries[p].owner
  BY <1>2, <1>3 DEF SentCalls
<1>5. \A e \in Docs : \A p \in WaitsIn(e) : queries'[p].phase = "waiting" /\ queries'[p].owner = e
  BY <1>2, <1>3 DEF WaitsIn
<1>6. SentCalls' \subseteq SentCalls \cup {q} /\ (q \in SentCalls' <=> told[d] # 0) /\ SentCalls \subseteq SentCalls'
  BY <1>2, <1>4, SentGrows DEF SentCalls
<1>7. Post(d, <<m>>) /\ told[d] # 0 => <<m>> \in Seq(CallsOf(SentBy(d)'))
  <2>1. m \in CallMsg /\ m.nonce = q
    BY MadeRequests DEF Request
  <2>2. told[d] # 0 => q \in SentBy(d)'
    BY <1>2, <1>6 DEF SentBy
  <2> HIDE DEF m
  <2>3. told[d] # 0 => m \in CallsOf(SentBy(d)')
    BY <2>1, <2>2 DEF CallsOf, DownMsg
  <2> QED
    BY <2>3, SingleIsSeq, Zenon
<1>8. PageMentions'
  <2>1. \A p \in Calls : heard'[p] # <<>> => p \in SentCalls'
    BY <1>1, <1>6 DEF PageMentions
  <2>2. \A p \in SentCalls' : told'[queries'[p].owner] # 0
    BY <1>1, <1>2, <1>3, <1>4, <1>6 DEF PageMentions
  <2>3. ASSUME NEW e \in Docs PROVE waiting'[e] \in Seq(WaitsIn(e)') /\ (told'[e] # 0 => waiting'[e] = <<>>)
    <3>1. waiting[e] \in Seq(WaitsIn(e)')
      BY <1>5, WaitsKept DEF PageMentions
    <3>2. e = d /\ told[d] = 0 => q \in WaitsIn(e)'
      BY <1>2 DEF WaitsIn
    <3>3. waiting'[e] = waiting[e] \/ (e = d /\ told[d] = 0 /\ waiting'[e] = Append(waiting[e], q))
      BY <1>1 DEF TypeInv, PageTypes
    <3>4. waiting'[e] \in Seq(WaitsIn(e)')
      BY <3>1, <3>2, <3>3, AppendIsSeq, Zenon
    <3> QED
      BY <1>1, <3>3, <3>4 DEF PageMentions
  <2> QED
    BY <2>1, <2>2, <2>3 DEF PageMentions
<1> HIDE DEF m, new
<1>9. (told[d] # 0 /\ Post(d, <<m>>)) \/ UNCHANGED fromPage
  BY <1>1
<1>10. CASE UNCHANGED fromPage
  BY <1>1, <1>4, <1>8, <1>10, <1>9, MentionPageQuiet
<1>11. CASE told[d] # 0
  BY <1>1, <1>4, <1>7, <1>8, <1>9, <1>11, MentionPage
<1> QED
  BY <1>9, <1>10, <1>11

LEMMA MentionUpdate ==
  ASSUME MentionInv, TypeInv', NEW q \in Calls, SendUpdate(q)
  PROVE  MentionInv'
<1> USE DEF MentionInv
<1> DEFINE m == QueryUpdate(q, queries[q].kernelNonce, asked[q] + 1)
           new == [queries[q] EXCEPT !.held = Append(@, asked[q] + 1)]
<1>1. PICK d \in Docs : d = queries[q].owner
  BY DEF SendUpdate, TypeInv, PageTypes, QueriesOwned
<1>2. /\ UNCHANGED <<frameVars, backVars, doc, told, waiting, heard, up, down, toPage>>
      /\ queries' = queries \/ queries' = [queries EXCEPT ![q] = new]
      /\ UNCHANGED fromPage \/ Post(d, <<m>>)
  BY <1>1, Zenon DEF SendUpdate
<1>3. \A p \in Calls : queries'[p].phase = queries[p].phase /\ queries'[p].owner = queries[p].owner
  <2>1. queries[q] \in Query /\ asked[q] + 1 \in Nat
    BY Successor DEF TypeInv, PageTypes
  <2>2. new.phase = queries[q].phase /\ new.owner = queries[q].owner
    BY <2>1, QueryTypes
  <2> HIDE DEF new
  <2> QED
    BY <1>2, <2>2 DEF TypeInv, PageTypes
<1>4. <<m>> \in Seq(CallsOf(SentBy(d)'))
  <2>1. queries[q].kernelNonce \in Nat /\ asked[q] + 1 \in Nat
    BY Successor DEF TypeInv, PageTypes, Query
  <2>2. m \in UpdateMsg
    BY <2>1, MadeRequests
  <2> HIDE DEF m
  <2> QED
    BY <2>2, UpdatesMention, SingleIsSeq
<1> HIDE DEF m
<1>5. PageMentions'
  BY <1>2, <1>3, PageMentionsKept
<1>6. \A p \in SentCalls : queries'[p].phase \in {"open", "closed"} /\ queries'[p].owner = queries[p].owner
  BY <1>3 DEF SentCalls
<1>7. /\ \A e \in Docs : toPage'[e] = toPage[e]
      /\ \A e \in Docs : doc'[e] = "new" => doc[e] = "new" /\ told'[e] = told[e]
  BY <1>2
<1>8. Post(d, <<m>>) \/ UNCHANGED fromPage
  BY <1>2
<1>9. UNCHANGED <<frameVars, backVars, up, down>>
  BY <1>2
<1> QED
  BY <1>1, <1>4, <1>5, <1>6, <1>7, <1>8, <1>9, MentionPage, Zenon

LEMMA MentionStatus ==
  ASSUME MentionInv, TypeInv', NEW d \in Docs, HandleStatus(d)
  PROVE  MentionInv'
<1> USE DEF MentionInv
<1> DEFINE ms == [i \in DOMAIN waiting[d] |-> Call(waiting[d][i])]
<1>1. /\ Runs(d) /\ toPage[d] # <<>> /\ toPage' = [toPage EXCEPT ![d] = Tail(@)]
      /\ doc' = doc \/ doc' = [doc EXCEPT ![d] = "reloading"]
      /\ UNCHANGED <<frameVars, backVars, asked, heard, up, down>>
  BY Zenon DEF HandleStatus, TakePage, ObeyLogout
<1>2. \A e \in Docs : toPage'[e] = toPage[e] \/ (toPage[e] # <<>> /\ toPage'[e] = Tail(toPage[e]))
  BY <1>1 DEF TypeInv, ChannelTypes
<1>3. CASE ~Resolves(d)
  <2>1. UNCHANGED <<told, waiting, queries, fromPage>>
    BY <1>3, Zenon DEF HandleStatus
  <2>2. PageMentions'
    BY <1>1, <2>1, PageMentionsKept
  <2>3. \A e \in Docs : doc'[e] = "new" => doc[e] = "new" /\ told'[e] = told[e]
    BY <1>1, <2>1 DEF TypeInv, PageTypes
  <2>4. \A p \in SentCalls : queries'[p].phase \in {"open", "closed"} /\ queries'[p].owner = queries[p].owner
    BY <2>1 DEF SentCalls
  <2> QED
    BY <1>1, <1>2, <2>1, <2>2, <2>3, <2>4, MentionPageQuiet
<1>4. CASE Resolves(d)
  <2>1. /\ told[d] = 0 /\ told' = [told EXCEPT ![d] = Head(toPage[d]).from]
        /\ waiting' = [waiting EXCEPT ![d] = <<>>]
        /\ queries' = [q \in Calls |-> IF Contains(waiting[d], q)
                                       THEN [queries[q] EXCEPT !.phase = "open"] ELSE queries[q]]
        /\ Post(d, ms)
    BY <1>4, Zenon DEF HandleStatus, Resolves
  <2>2. Head(toPage[d]).from # 0
    <3>1. Head(toPage[d]) \in UpMsg
      BY <1>1, TailIsSeq DEF TypeInv, ChannelTypes
    <3> QED
      BY <3>1, UpMessages DEF Session
  <2>3. \A q \in Calls : /\ queries'[q].owner = queries[q].owner
                         /\ ~Contains(waiting[d], q) => queries'[q].phase = queries[q].phase
                         /\ Contains(waiting[d], q) => queries'[q].phase = "open" /\ q \in WaitsIn(d)
    <3>1. waiting[d] \in Seq(WaitsIn(d))
      BY DEF PageMentions
    <3>2. \A q \in Calls : Contains(waiting[d], q) => q \in WaitsIn(d)
      BY <3>1 DEF Contains
    <3> QED
      BY <2>1, <3>2 DEF TypeInv, PageTypes, Query
  <2>4. \A q \in SentCalls : queries'[q].phase \in {"open", "closed"} /\ queries'[q].owner = queries[q].owner
    BY <2>3 DEF SentCalls
  <2>5. told'[d] # 0 /\ waiting'[d] = <<>> /\ \A e \in Docs \ {d} : told'[e] = told[e] /\ waiting'[e] = waiting[e]
    BY <2>1, <2>2 DEF TypeInv, PageTypes
  <2>6. PageMentions'
    <3>1. SentCalls \subseteq SentCalls'
      BY <2>4, SentGrows
    <3>2. \A q \in Calls : heard'[q] # <<>> => q \in SentCalls'
      BY <1>1, <3>1 DEF PageMentions
    <3>3. ASSUME NEW q \in SentCalls' PROVE told'[queries'[q].owner] # 0
      <4>1. q \in Calls
        BY DEF SentCalls
      <4>2. CASE Contains(waiting[d], q)
        BY <2>3, <2>5, <4>1, <4>2 DEF WaitsIn
      <4>3. CASE ~Contains(waiting[d], q)
        <5>1. q \in SentCalls /\ queries'[q].owner = queries[q].owner
          BY <2>3, <4>1, <4>3 DEF SentCalls
        <5>2. queries[q].owner \in Docs /\ told[queries[q].owner] # 0
          BY <5>1 DEF PageMentions, SentCalls, TypeInv, PageTypes, QueriesOwned
        <5> QED
          BY <2>5, <5>1, <5>2
      <4> QED
        BY <4>2, <4>3
    <3>4. ASSUME NEW e \in Docs PROVE waiting'[e] \in Seq(WaitsIn(e)') /\ (told'[e] # 0 => waiting'[e] = <<>>)
      <4>1. CASE e = d
        BY <2>5, <4>1, EmptyIsSeq
      <4>2. CASE e # d
        <5>1. \A q \in WaitsIn(e) : queries'[q].phase = "waiting" /\ queries'[q].owner = e
          BY <2>3, <4>2 DEF WaitsIn
        <5>2. waiting[e] \in Seq(WaitsIn(e)) /\ (told[e] # 0 => waiting[e] = <<>>)
          BY DEF PageMentions
        <5>3. waiting[e] \in Seq(WaitsIn(e)')
          BY <5>1, <5>2, WaitsKept, Zenon
        <5> QED
          BY <2>5, <4>2, <5>2, <5>3
      <4> QED
        BY <4>1, <4>2
    <3> QED
      BY <3>2, <3>3, <3>4 DEF PageMentions
  <2>7. ms \in Seq(CallsOf(SentBy(d)'))
    <3>1. \A i \in DOMAIN waiting[d] : ms[i] \in CallsOf(SentBy(d)')
      <4> SUFFICES ASSUME NEW i \in DOMAIN waiting[d] PROVE Call(waiting[d][i]) \in CallsOf(SentBy(d)')
        OBVIOUS
      <4> DEFINE q == waiting[d][i]
      <4>1. q \in WaitsIn(d) /\ Contains(waiting[d], q) /\ q \in Calls
        <5>1. waiting[d] \in Seq(WaitsIn(d))
          BY DEF PageMentions
        <5>2. q \in WaitsIn(d) /\ Contains(waiting[d], q)
          BY <5>1 DEF Contains
        <5> QED
          BY <5>2 DEF WaitsIn
      <4>2. q \in SentBy(d)'
        BY <2>3, <4>1 DEF SentBy, SentCalls, WaitsIn
      <4>3. Call(q) \in DownMsg /\ Call(q).nonce = q
        BY <4>1, CallIsMsg DEF TypeInv, Call, Request
      <4> QED
        BY <4>2, <4>3 DEF CallsOf
    <3> DEFINE s == waiting[d]
    <3>2. s \in Seq(Calls)
      BY DEF TypeInv, PageTypes
    <3>3. ms = [i \in DOMAIN s |-> ms[i]]
      OBVIOUS
    <3>4. \A i \in DOMAIN s : ms[i] \in CallsOf(SentBy(d)')
      BY <3>1
    <3> HIDE DEF ms, s
    <3> QED
      BY <3>2, <3>3, <3>4, MappedIsSeq
  <2> HIDE DEF ms
  <2>8. \A e \in Docs : doc'[e] = "new" => doc[e] = "new" /\ told'[e] = told[e]
    BY <1>1, <2>5 DEF Runs, TypeInv, PageTypes
  <2> QED
    BY <1>1, <1>2, <2>1, <2>4, <2>6, <2>7, <2>8, MentionPage
<1> QED
  BY <1>3, <1>4

\* A query that libkernel hears of is one its document has sent.
LEMMA HeardIsSent ==
  ASSUME MentionInv, NEW d \in Docs, toPage[d] # <<>>, Head(toPage[d]).nonce \in Calls
  PROVE  Head(toPage[d]).nonce \in SentBy(d)
<1>1. Head(toPage[d]) \in RepliesTo(SentBy(d))
  BY TailIsSeq DEF MentionInv, ChannelMentions
<1> QED
  BY <1>1 DEF RepliesTo

\* A reply closes an open query, or leaves its phase alone.
LEMMA RepliesKeep ==
  ASSUME TypeInv, NEW d \in Docs,
         HandleResponse(d) \/ HandleResponseUpdate(d) \/ HandleResponseNonce(d)
  PROVE  \A q \in Calls :
             /\ queries'[q].owner = queries[q].owner
             /\ queries'[q].phase = queries[q].phase \/ (queries[q].phase = "open" /\ queries'[q].phase = "closed")
<1> DEFINE m == Head(toPage[d])
           q == m.nonce
           closes == [queries[q] EXCEPT !.phase = "closed"]
           gets == [queries[q] EXCEPT !.kernelNonce = m.data, !.held = <<>>]
<1>1. toPage[d] # <<>> /\ m.method # "kernelAuthStatus"
  BY Zenon DEF HandleResponse, HandleResponseUpdate, HandleResponseNonce, TakePage
<1>2. \/ UNCHANGED queries
      \/ Takes(m) /\ queries' = [queries EXCEPT ![q].phase = "closed"]
      \/ Takes(m) /\ queries' = [queries EXCEPT ![q].kernelNonce = m.data, ![q].held = <<>>]
  BY Zenon DEF HandleResponse, HandleResponseUpdate, HandleResponseNonce
<1>3. CASE Takes(m) /\ ~UNCHANGED queries
  <2>1. m \in UpMsg
    BY <1>1, TailIsSeq DEF TypeInv, ChannelTypes
  <2>2. m \in ReplyMsg /\ queries[q].phase = "open"
    BY <1>1, <1>3, <2>1, WithData DEF Takes
  <2>3. q \in Calls /\ queries[q] \in Query /\ m.data \in Nat
    BY <2>2 DEF ReplyMsg, TypeInv, PageTypes
  <2>4. /\ closes.owner = queries[q].owner /\ gets.owner = queries[q].owner
        /\ gets.phase = queries[q].phase
    BY <2>3, QueryTypes
  <2>5. closes.phase = "closed"
    BY <2>3 DEF Query
  <2>6. \/ queries' = [queries EXCEPT ![q] = closes]
        \/ queries' = [queries EXCEPT ![q] = gets]
    BY <1>2, <1>3, <2>3 DEF Query
  <2> HIDE DEF closes, gets, q
  <2> QED
    BY <2>2, <2>3, <2>4, <2>5, <2>6 DEF TypeInv, PageTypes
<1> QED
  BY <1>2, <1>3

LEMMA MentionReply ==
  ASSUME MentionInv, TypeInv', NEW d \in Docs,
         HandleResponse(d) \/ HandleResponseUpdate(d) \/ HandleResponseNonce(d)
  PROVE  MentionInv'
<1> USE DEF MentionInv
<1> DEFINE m == Head(toPage[d])
           ms == [i \in DOMAIN queries[m.nonce].held |-> QueryUpdate(m.nonce, m.data, queries[m.nonce].held[i])]
<1>1. /\ toPage[d] # <<>> /\ toPage' = [toPage EXCEPT ![d] = Tail(@)] /\ m.method # "kernelAuthStatus"
      /\ UNCHANGED <<frameVars, backVars, doc, told, waiting, asked, up, down>>
  BY Zenon DEF HandleResponse, HandleResponseUpdate, HandleResponseNonce, TakePage
<1>2. \A e \in Docs : toPage'[e] = toPage[e] \/ (toPage[e] # <<>> /\ toPage'[e] = Tail(toPage[e]))
  BY <1>1 DEF TypeInv, ChannelTypes
<1>3. \A e \in Docs : doc'[e] = "new" => doc[e] = "new" /\ told'[e] = told[e]
  BY <1>1
<1>4. m \in UpMsg
  BY <1>1, TailIsSeq DEF TypeInv, ChannelTypes
<1>5. Takes(m) => m \in ReplyMsg /\ m.nonce \in SentBy(d) /\ m.nonce \in Calls /\ m.data \in Nat
  <2>1. Takes(m) => m \in ReplyMsg
    BY <1>1, <1>4, WithData DEF Takes
  <2>2. m \in ReplyMsg => m.nonce \in Calls /\ m.data \in Nat
    BY DEF ReplyMsg
  <2> QED
    BY <1>1, <2>1, <2>2, HeardIsSent
<1>6. UNCHANGED heard \/ (Takes(m) /\ Hear(m))
  BY Zenon DEF HandleResponse, HandleResponseUpdate, HandleResponseNonce
<1>7. \/ UNCHANGED queries
      \/ Takes(m) /\ queries' = [queries EXCEPT ![m.nonce].phase = "closed"]
      \/ Takes(m) /\ queries' = [queries EXCEPT ![m.nonce].kernelNonce = m.data, ![m.nonce].held = <<>>]
  BY Zenon DEF HandleResponse, HandleResponseUpdate, HandleResponseNonce
<1>8. UNCHANGED fromPage \/ (Takes(m) /\ Post(d, ms))
  BY Zenon DEF HandleResponse, HandleResponseUpdate, HandleResponseNonce
<1>9. Takes(m) => ms \in Seq(CallsOf(SentBy(d)'))
  <2> SUFFICES ASSUME Takes(m) PROVE ms \in Seq(CallsOf(SentBy(d)'))
    OBVIOUS
  <2> DEFINE s == queries[m.nonce].held
  <2>1. m.nonce \in Calls /\ m.data \in Nat /\ s \in Seq(Nat)
    BY <1>5 DEF TypeInv, PageTypes, Query
  <2>2. \A i \in DOMAIN s : s[i] \in Nat
    BY <2>1
  <2>3. ms = [i \in DOMAIN s |-> ms[i]]
    OBVIOUS
  <2> HIDE DEF s
  <2>4. \A i \in DOMAIN s : ms[i] \in UpdateMsg
    BY <2>1, <2>2, MadeRequests DEF s
  <2>5. \A i \in DOMAIN s : ms[i] \in CallsOf(SentBy(d)')
    BY <2>4, UpdatesMention
  <2> HIDE DEF ms
  <2> QED
    BY <2>1, <2>3, <2>5, MappedIsSeq
<1> HIDE DEF m, ms
<1>10. \A q \in Calls : /\ queries'[q].owner = queries[q].owner
                        /\ queries'[q].phase = queries[q].phase \/ (q \in SentCalls /\ queries'[q].phase = "closed")
  BY RepliesKeep DEF SentCalls
<1>11. \A q \in SentCalls : queries'[q].phase \in {"open", "closed"} /\ queries'[q].owner = queries[q].owner
  BY <1>10 DEF SentCalls
<1>12. PageMentions'
  <2>1. SentCalls' = SentCalls /\ \A e : WaitsIn(e)' = WaitsIn(e)
    BY <1>10 DEF SentCalls, WaitsIn
  <2>2. \A q \in Calls : heard'[q] # <<>> => q \in SentCalls
    <3>1. CASE Takes(m) /\ Hear(m)
      BY <1>5, <3>1 DEF Hear, PageMentions, SentBy
    <3> QED
      BY <1>6, <3>1 DEF PageMentions
  <2>3. \A q \in SentCalls : told'[queries'[q].owner] # 0
    BY <1>1, <1>10 DEF PageMentions, SentCalls
  <2> QED
    BY <1>1, <2>1, <2>2, <2>3 DEF PageMentions
<1>13. UNCHANGED <<frameVars, backVars, up, down>>
  BY <1>1
<1>14. CASE UNCHANGED fromPage
  BY <1>2, <1>3, <1>11, <1>12, <1>13, <1>14, MentionPageQuiet
<1>15. CASE Takes(m) /\ Post(d, ms)
  BY <1>2, <1>3, <1>9, <1>11, <1>12, <1>13, <1>15, MentionPage, Zenon
<1> QED
  BY <1>8, <1>14, <1>15

LEMMA MentionLeave == ASSUME MentionInv, TypeInv', NEW d \in Docs, Leave(d) PROVE MentionInv'
<1> USE DEF MentionInv
<1>1. PICK n \in 0 .. Len(fromPage[d]) : fromPage' = [fromPage EXCEPT ![d] = SubSeq(@, 1, n)]
  BY Zenon DEF Leave
<1>2. /\ doc' = [doc EXCEPT ![d] = "gone"] /\ toPage' = [toPage EXCEPT ![d] = <<>>]
      /\ UNCHANGED <<frameVars, backVars, told, waiting, queries, asked, heard, up, down>>
  BY Zenon DEF Leave
<1>3. SentCalls' = SentCalls /\ \A e : SentBy(e)' = SentBy(e) /\ WaitsIn(e)' = WaitsIn(e)
  BY <1>2, SentIsKept
<1>4. \A e \in Docs : fromPage'[e] \in Seq(CallsOf(SentBy(e)))
  <2>1. \A e \in Docs : fromPage[e] \in Seq(CallsOf(SentBy(e)))
    BY DEF ChannelMentions
  <2>2. SubSeq(fromPage[d], 1, n) \in Seq(CallsOf(SentBy(d)))
    BY <2>1, PrefixIsSeq, Zenon
  <2> QED
    BY <1>1, <2>1, <2>2 DEF TypeInv, ChannelTypes
<1>5. \A e \in Docs : toPage'[e] = toPage[e] \/ toPage'[e] = <<>>
  BY <1>2 DEF TypeInv, ChannelTypes
<1>6. ChannelMentions'
  BY <1>2, <1>3, <1>4, <1>5, EmptyIsSeq DEF ChannelMentions
<1>7. MapMentions' /\ PageMentions'
  BY <1>2, <1>3 DEF MapMentions, PageMentions, frameVars, backVars
<1>8. NewDocs'
  BY <1>2, <1>5 DEF NewDocs, backVars, TypeInv, PageTypes
<1> QED
  BY <1>6, <1>7, <1>8

LEMMA MentionNext == ASSUME MentionInv, [Next]_vars PROVE MentionInv'
<1>1. TypeInv'
  BY TypesNext DEF MentionInv
<1>2. CASE UNCHANGED vars
  <2>1. SentCalls' = SentCalls /\ \A e : SentBy(e)' = SentBy(e) /\ WaitsIn(e)' = WaitsIn(e)
    BY <1>2, SentIsKept DEF vars, pageVars
  <2> QED
    BY <1>1, <1>2, <2>1 DEF MentionInv, ChannelMentions, MapMentions, PageMentions, NewDocs, vars, frameVars,
       backVars, pageVars
<1>3. CASE Page
  BY <1>1, <1>3, MentionNewQuery, MentionUpdate, MentionStatus, MentionReply, MentionLeave, Zenon
  DEF Page, Reloads, Closes
<1> QED
  BY <1>1, <1>2, <1>3, MentionFrame, MentionBackground DEF Next

\* Only queries that libkernel has sent are on the way or answered.
THEOREM RelayMentions == Spec => []MentionInv
<1> QED
  BY MentionInit, MentionNext, PTL DEF Spec

(***************************************************************************)
(* The sessions of messages.  A channel is clean for session n after its    *)
(* first k messages if they are followed by messages of n alone until a     *)
(* logout.  A document that has not heard of a logout, the background, and  *)
(* every status on its way that is none, see a clean channel that ends with *)
(* a logout, or the frame that runs their session.                          *)
(***************************************************************************)
EndedFrom(s, k) == \E j \in DOMAIN s : j > k /\ IsLogout(s[j])

CleanFrom(s, k, n) ==
    \A i \in DOMAIN s : i > k => s[i].from = n \/ \E j \in DOMAIN s : k < j /\ j <= i /\ IsLogout(s[j])

Follows(k, n) == CleanFrom(up, k, n) /\ (EndedFrom(up, k) \/ Goes(n))

StatusSessions ==
    \A i \in DOMAIN up : IsStatus(up[i]) => IsLogout(up[i]) \/ Follows(i, up[i].from)

BackSession ==
    IF authStatus = Unknown THEN Follows(0, 1) ELSE IsLogout(authStatus) \/ Follows(0, authStatus.from)

InSession(d, n) ==
    /\ told[d] # 0 => told[d] = n
    /\ CleanFrom(toPage[d], 0, n)
    /\ ports[d] = "open" => EndedFrom(toPage[d], 0) \/ Follows(0, n)

DocSessions == \A d \in Docs : doc[d] = "live" => \E n \in Session : InSession(d, n)

SessionInv == MentionInv /\ StatusSessions /\ BackSession /\ DocSessions /\ AnswersInSession

LEMMA CleanAppend ==
  ASSUME NEW S, NEW s \in Seq(S), NEW e \in S, NEW k \in 0 .. Len(s), NEW n, CleanFrom(s, k, n),
         EndedFrom(s, k) \/ e.from = n \/ IsLogout(e)
  PROVE  /\ CleanFrom(Append(s, e), k, n)
         /\ EndedFrom(Append(s, e), k) <=> EndedFrom(s, k) \/ IsLogout(e)
<1> DEFINE t == Append(s, e)
           z == Len(s)
<1>1. /\ z \in Nat /\ DOMAIN s = 1 .. z /\ DOMAIN t = 1 .. z + 1
      /\ \A i \in 1 .. z : t[i] = s[i]
      /\ t[z + 1] = e /\ k \in 0 .. z
  OBVIOUS
<1> HIDE DEF t, z
<1>2. EndedFrom(t, k) <=> EndedFrom(s, k) \/ IsLogout(e)
  BY <1>1 DEF EndedFrom
<1>3. ASSUME NEW i \in DOMAIN t, i > k
      PROVE  t[i].from = n \/ \E j \in DOMAIN t : k < j /\ j <= i /\ IsLogout(t[j])
  <2>1. CASE i \in 1 .. z
    BY <1>1, <1>3, <2>1 DEF CleanFrom
  <2>2. CASE i = z + 1
    <3>1. CASE EndedFrom(s, k)
      BY <1>1, <1>3, <2>2, <3>1 DEF EndedFrom
    <3>2. CASE IsLogout(e)
      BY <1>1, <1>3, <2>2, <3>2
    <3> QED
      BY <1>1, <2>2, <3>1, <3>2
  <2> QED
    BY <1>1, <1>3, <2>1, <2>2
<1>4. CleanFrom(t, k, n)
  BY <1>3 DEF CleanFrom
<1> QED
  BY <1>2, <1>4 DEF t

LEMMA CleanTail ==
  ASSUME NEW S, NEW s \in Seq(S), s # <<>>, NEW k \in Nat, NEW n
  PROVE  /\ CleanFrom(s, k + 1, n) => CleanFrom(Tail(s), k, n)
         /\ EndedFrom(s, k + 1) => EndedFrom(Tail(s), k)
<1> DEFINE t == Tail(s)
           z == Len(s)
<1>1. /\ z \in Nat /\ DOMAIN s = 1 .. z /\ DOMAIN t = 1 .. z - 1 /\ z >= 1
      /\ \A i \in 1 .. z - 1 : t[i] = s[i + 1]
  OBVIOUS
<1> HIDE DEF t, z
<1>2. ASSUME EndedFrom(s, k + 1) PROVE EndedFrom(t, k)
  <2>1. PICK j \in 1 .. z : j > k + 1 /\ IsLogout(s[j])
    BY <1>1, <1>2 DEF EndedFrom
  <2>2. j - 1 \in 1 .. z - 1 /\ t[j - 1] = s[j] /\ j - 1 > k
    BY <1>1, <2>1
  <2> QED
    BY <1>1, <2>1, <2>2 DEF EndedFrom
<1>3. ASSUME CleanFrom(s, k + 1, n), NEW i \in 1 .. z - 1, i > k
      PROVE  t[i].from = n \/ \E j \in DOMAIN t : k < j /\ j <= i /\ IsLogout(t[j])
  <2>1. i + 1 \in DOMAIN s /\ i + 1 > k + 1 /\ t[i] = s[i + 1]
    BY <1>1, <1>3
  <2>2. s[i + 1].from = n \/ \E j \in DOMAIN s : k + 1 < j /\ j <= i + 1 /\ IsLogout(s[j])
    BY <1>3, <2>1 DEF CleanFrom
  <2>3. ASSUME NEW j \in DOMAIN s, k + 1 < j, j <= i + 1, IsLogout(s[j])
        PROVE  \E l \in DOMAIN t : k < l /\ l <= i /\ IsLogout(t[l])
    <3>1. j - 1 \in DOMAIN t /\ t[j - 1] = s[j] /\ k < j - 1 /\ j - 1 <= i
      BY <1>1, <2>3
    <3> QED
      BY <2>3, <3>1
  <2> QED
    BY <2>1, <2>2, <2>3
<1>4. CleanFrom(s, k + 1, n) => CleanFrom(t, k, n)
  BY <1>1, <1>3 DEF CleanFrom
<1> QED
  BY <1>2, <1>4 DEF t

LEMMA CleanHead ==
  ASSUME NEW S, NEW s \in Seq(S), s # <<>>, NEW n, CleanFrom(s, 0, n), ~IsLogout(Head(s))
  PROVE  /\ Head(s).from = n
         /\ CleanFrom(Tail(s), 0, n)
         /\ EndedFrom(s, 0) => EndedFrom(Tail(s), 0)
<1>1. /\ Len(s) \in Nat /\ DOMAIN s = 1 .. Len(s) /\ Len(s) >= 1 /\ Head(s) = s[1]
  OBVIOUS
<1>2. Head(s).from = n
  BY <1>1 DEF CleanFrom
<1>3. CleanFrom(s, 1, n)
  BY <1>1 DEF CleanFrom
<1>4. EndedFrom(s, 0) => EndedFrom(s, 1)
  BY <1>1 DEF EndedFrom
<1>5. 0 + 1 = 1 /\ 0 \in Nat
  OBVIOUS
<1> QED
  BY <1>2, <1>3, <1>4, <1>5, CleanTail

LEMMA CleanStart ==
  ASSUME NEW s, s = <<>>, NEW n PROVE CleanFrom(s, 0, n)
  BY DEF CleanFrom

LEMMA SendIsAppend ==
  ASSUME NEW S, NEW s \in Seq(S), NEW e \in S
  PROVE  s \o <<e>> = Append(s, e) /\ s \o <<e, e>> = Append(Append(s, e), e)
  OBVIOUS

LEMMA SessionInit == ASSUME Init PROVE SessionInv
<1>1. MentionInv
  BY MentionInit
<1>2. up = <<>> /\ DOMAIN up = {} /\ authStatus = Unknown /\ Goes(1)
  <2>1. DOMAIN (<<>>) = {}
    OBVIOUS
  <2> QED
    BY <2>1 DEF Init, Goes
<1>3. StatusSessions /\ BackSession
  BY <1>2, CleanStart DEF StatusSessions, BackSession, Follows
<1>4. DocSessions
  BY DEF Init, DocSessions
<1>5. \A q \in Calls : heard[q] = <<>>
  BY DEF Init
<1>6. AnswersInSession
  <2>1. DOMAIN (<<>>) = {}
    OBVIOUS
  <2> QED
    BY <1>5, <2>1, Zenon DEF AnswersInSession
<1> QED
  BY <1>1, <1>3, <1>4, <1>6 DEF SessionInv

\* A channel of one session stays one when the frame sends more.
LEMMA FollowsFrame ==
  ASSUME TypeInv, Frame, NEW k \in 0 .. Len(up), NEW n, Follows(k, n)
  PROVE  Follows(k, n)'
<1>1. up \in Seq(UpMsg)
  BY DEF TypeInv, ChannelTypes
<1>2. ASSUME NEW m \in UpMsg, Sends(m) PROVE Follows(k, n)'
  <2>1. up' = Append(up, m) /\ (Goes(n) => m.from = n /\ (IsLogout(m) \/ Goes(n)'))
    BY <1>2, Zenon DEF Sends
  <2>2. CleanFrom(up, k, n) /\ (EndedFrom(up, k) \/ Goes(n))
    BY Zenon DEF Follows
  <2>3. /\ CleanFrom(Append(up, m), k, n)
        /\ EndedFrom(Append(up, m), k) <=> EndedFrom(up, k) \/ IsLogout(m)
    BY <1>1, <2>1, <2>2, CleanAppend
  <2>4. CleanFrom(up', k, n) /\ (EndedFrom(up', k) \/ Goes(n)')
    BY <2>1, <2>2, <2>3, Zenon
  <2> QED
    BY <2>4, Zenon DEF Follows, CleanFrom, EndedFrom
<1>3. CASE up' = up /\ \A l : Goes(l) => Goes(l)'
  BY <1>3 DEF Follows, CleanFrom, EndedFrom
<1> QED
  BY <1>2, <1>3, FrameSends

LEMMA StatusesFrame == ASSUME TypeInv, Frame, StatusSessions PROVE StatusSessions'
<1>1. up \in Seq(UpMsg) /\ Len(up) \in Nat /\ DOMAIN up = 1 .. Len(up)
  BY DEF TypeInv, ChannelTypes
<1>2. ASSUME NEW i \in DOMAIN up, IsStatus(up[i]), ~IsLogout(up[i]) PROVE Follows(i, up[i].from)'
                                                                         \/ up'[i] # up[i]
  <2>1. PICK n : n = up[i].from
    OBVIOUS
  <2>2. Follows(i, n)
    BY <1>2, <2>1 DEF StatusSessions
  <2>3. Follows(i, n)'
    BY <1>1, <2>2, FollowsFrame
  <2>4. up'[i] = up[i] => up'[i].from = n
    BY <2>1
  <2> QED
    BY <2>3, <2>4, Zenon
<1>3. ASSUME NEW m \in UpMsg, Sends(m) PROVE StatusSessions'
  <2>1. up' = Append(up, m) /\ (IsStatus(m) => IsLogout(m) \/ Goes(m.from)')
    BY <1>3, Zenon DEF Sends
  <2>2. DOMAIN up' = 1 .. Len(up) + 1 /\ up'[Len(up) + 1] = m /\ \A i \in DOMAIN up : up'[i] = up[i]
    BY <1>1, <2>1
  <2>3. ASSUME NEW i \in DOMAIN up', IsStatus(up'[i]), ~IsLogout(up'[i]) PROVE Follows(i, up[i].from)'
    <3>1. CASE i \in DOMAIN up
      BY <1>2, <2>2, <2>3, <3>1
    <3>2. CASE i = Len(up) + 1
      <4>1. Goes(m.from)' /\ up'[i] = m
        BY <2>1, <2>2, <2>3, <3>2
      <4>2. \A n : CleanFrom(up', i, n)
        BY <1>1, <2>2, <3>2 DEF CleanFrom
      <4>3. CleanFrom(up', i, m.from) /\ Goes(m.from)'
        BY <4>1, <4>2
      <4>4. Follows(i, m.from)'
        BY <4>3, Zenon DEF Follows, CleanFrom
      <4> QED
        BY <4>1, <4>4, Zenon
    <3> QED
      BY <1>1, <2>2, <3>1, <3>2
  <2> QED
    BY <2>3 DEF StatusSessions, IsStatus, IsLogout
<1>4. CASE up' = up
  BY <1>2, <1>4 DEF StatusSessions, IsStatus, IsLogout
<1> QED
  BY <1>3, <1>4, FrameSends

LEMMA SessionFrame == ASSUME SessionInv, Frame, MentionInv' PROVE SessionInv'
<1>1. UNCHANGED <<authStatus, ports, doc, told, queries, heard, toPage>>
  BY Zenon DEF Frame, FrameStarts, FrameLoads, LogOut, Unload, BootloaderAnswers, KernelRefuses, KernelOpens,
     KernelRelaysUpdate, ModuleUpdates, ModuleResponds, backVars, pageVars
<1>2. TypeInv /\ 0 \in 0 .. Len(up)
  BY DEF SessionInv, MentionInv, TypeInv, ChannelTypes
<1>3. \A n : Follows(0, n) => Follows(0, n)'
  BY <1>2, FollowsFrame
<1>4. StatusSessions'
  BY <1>2, StatusesFrame DEF SessionInv
<1>5. BackSession'
  <2>1. PICK n : n = authStatus.from
    OBVIOUS
  <2>2. authStatus'.from = n
    BY <1>1, <2>1
  <2>3. IF authStatus = Unknown THEN Follows(0, 1) ELSE IsLogout(authStatus) \/ Follows(0, n)
    BY <2>1 DEF SessionInv, BackSession
  <2>4. IF authStatus' = Unknown THEN Follows(0, 1)' ELSE IsLogout(authStatus)' \/ Follows(0, n)'
    BY <1>1, <1>3, <2>3 DEF IsLogout, IsStatus
  <2> QED
    BY <2>2, <2>4 DEF BackSession, Unknown
<1>6. DocSessions'
  <2>1. \A d \in Docs, n \in Session : InSession(d, n) => InSession(d, n)'
    BY <1>1, <1>3 DEF InSession, CleanFrom, EndedFrom
  <2> QED
    BY <1>1, <2>1 DEF SessionInv, DocSessions
<1>7. AnswersInSession'
  BY <1>1 DEF SessionInv, AnswersInSession
<1> QED
  BY <1>4, <1>5, <1>6, <1>7 DEF SessionInv

\* When the background takes a message, what it had seen so far tells what
\* session follows.
LEMMA FollowsTaken ==
  ASSUME TypeInv, up # <<>>, up' = Tail(up), UNCHANGED <<frame, session>>
  PROVE  /\ \A n : Follows(0, n) => IsLogout(Head(up)) \/ (Head(up).from = n /\ Follows(0, n)')
         /\ \A n : \A k \in Nat : Follows(k + 1, n) => Follows(k, n)'
<1>1. up \in Seq(UpMsg)
  BY DEF TypeInv, ChannelTypes
<1>2. \A n : Goes(n) <=> Goes(n)'
  BY DEF Goes
<1>3. ASSUME NEW n, Follows(0, n), ~IsLogout(Head(up)) PROVE Head(up).from = n /\ Follows(0, n)'
  <2>1. CleanFrom(up, 0, n) /\ (EndedFrom(up, 0) \/ Goes(n))
    BY <1>3, Zenon DEF Follows
  <2>2. Head(up).from = n /\ CleanFrom(Tail(up), 0, n) /\ (EndedFrom(up, 0) => EndedFrom(Tail(up), 0))
    BY <1>1, <1>3, <2>1, CleanHead
  <2>3. CleanFrom(up', 0, n) /\ (EndedFrom(up', 0) \/ Goes(n)')
    BY <1>2, <2>1, <2>2, Zenon
  <2> QED
    BY <2>2, <2>3, Zenon DEF Follows, CleanFrom, EndedFrom
<1>4. ASSUME NEW k \in Nat, NEW n, Follows(k + 1, n) PROVE Follows(k, n)'
  <2>1. CleanFrom(up, k + 1, n) /\ (EndedFrom(up, k + 1) \/ Goes(n))
    BY <1>4, Zenon DEF Follows
  <2>2. CleanFrom(Tail(up), k, n) /\ (EndedFrom(up, k + 1) => EndedFrom(Tail(up), k))
    BY <1>1, <2>1, CleanTail
  <2>3. CleanFrom(up', k, n) /\ (EndedFrom(up', k) \/ Goes(n)')
    BY <1>2, <2>1, <2>2, Zenon
  <2> QED
    BY <2>3, Zenon DEF Follows, CleanFrom, EndedFrom
<1> QED
  BY <1>3, <1>4

LEMMA StatusesTaken ==
  ASSUME TypeInv, up # <<>>, up' = Tail(up), UNCHANGED <<frame, session>>, StatusSessions
  PROVE  /\ StatusSessions'
         /\ \A n : IsStatus(Head(up)) /\ Head(up).from = n => IsLogout(Head(up)) \/ Follows(0, n)'
<1>1. /\ up \in Seq(UpMsg) /\ Len(up) \in Nat /\ DOMAIN up = 1 .. Len(up) /\ Len(up) >= 1 /\ Head(up) = up[1]
      /\ DOMAIN up' = 1 .. Len(up) - 1 /\ \A i \in 1 .. Len(up) - 1 : up'[i] = up[i + 1]
  BY DEF TypeInv, ChannelTypes
<1>2. ASSUME NEW i \in DOMAIN up', IsStatus(up'[i]), ~IsLogout(up'[i]) PROVE Follows(i, up[i].from)'
  <2>1. PICK n : n = up'[i].from
    OBVIOUS
  <2>2. i + 1 \in DOMAIN up /\ up'[i] = up[i + 1] /\ i \in Nat
    BY <1>1
  <2>3. Follows(i + 1, n)
    BY <1>2, <2>1, <2>2 DEF StatusSessions
  <2>4. Follows(i, n)'
    BY <2>2, <2>3, FollowsTaken
  <2> QED
    BY <2>1, <2>4, Zenon
<1>3. StatusSessions'
  BY <1>2 DEF StatusSessions, IsStatus, IsLogout
<1>4. ASSUME NEW n, IsStatus(Head(up)), Head(up).from = n, ~IsLogout(Head(up)) PROVE Follows(0, n)'
  <2>1. Follows(1, n)
    BY <1>1, <1>4 DEF StatusSessions
  <2>2. 0 + 1 = 1 /\ 0 \in Nat
    OBVIOUS
  <2> QED
    BY <2>1, <2>2, FollowsTaken
<1> QED
  BY <1>3, <1>4

\* What a document is sent, once or twice, leaves its channel clean.
LEMMA CleanSend ==
  ASSUME NEW s \in Seq(UpMsg), NEW m \in UpMsg, NEW n, CleanFrom(s, 0, n),
         EndedFrom(s, 0) \/ m.from = n \/ IsLogout(m),
         NEW t, t = s \o <<m>> \/ t = s \o <<m, m>>
  PROVE  /\ CleanFrom(t, 0, n)
         /\ EndedFrom(s, 0) \/ IsLogout(m) => EndedFrom(t, 0)
<1> DEFINE once == Append(s, m)
<1>1. once \in Seq(UpMsg) /\ 0 \in 0 .. Len(s) /\ 0 \in 0 .. Len(once)
  OBVIOUS
<1>2. CleanFrom(once, 0, n) /\ (EndedFrom(once, 0) <=> EndedFrom(s, 0) \/ IsLogout(m))
  BY <1>1, CleanAppend
<1>3. t = once \/ t = Append(once, m)
  BY SendIsAppend
<1> HIDE DEF once
<1>4. CASE t = Append(once, m)
  <2>1. EndedFrom(once, 0) \/ m.from = n \/ IsLogout(m)
    BY <1>2
  <2>2. CleanFrom(t, 0, n) /\ (EndedFrom(t, 0) <=> EndedFrom(once, 0) \/ IsLogout(m))
    BY <1>1, <1>2, <1>4, <2>1, CleanAppend
  <2> QED
    BY <1>2, <2>2
<1> QED
  BY <1>2, <1>3, <1>4

\* The background sends on what it takes to open ports, and closes them after a logout.
LEMMA SessionTaken ==
  ASSUME SessionInv, up # <<>>, up' = Tail(up), UNCHANGED <<frame, session, doc, told>>,
         NEW m, m = Head(up),
         NEW D, D \subseteq OpenPorts,
         IsLogout(m) => \A d \in Docs : ports'[d] # "open",
         \A d \in Docs : ports'[d] = "open" => ports[d] = "open",
         \A d \in Docs : \/ toPage'[d] = toPage[d]
                         \/ d \in D /\ (toPage'[d] = toPage[d] \o <<m>> \/ toPage'[d] = toPage[d] \o <<m, m>>)
  PROVE  DocSessions'
<1>1. TypeInv /\ m \in UpMsg
  BY TailIsSeq DEF SessionInv, MentionInv, TypeInv, ChannelTypes
<1>2. ASSUME NEW d \in Docs, NEW n \in Session, InSession(d, n) PROVE InSession(d, n)'
  <2>1. toPage[d] \in Seq(UpMsg) /\ CleanFrom(toPage[d], 0, n)
    BY <1>1, <1>2 DEF TypeInv, ChannelTypes, InSession
  <2>2. CASE ports[d] # "open"
    <3>1. ports'[d] # "open" /\ toPage'[d] = toPage[d]
      BY <2>2 DEF OpenPorts
    <3> QED
      BY <1>2, <3>1 DEF InSession, CleanFrom
  <2>3. CASE ports[d] = "open"
    <3>1. EndedFrom(toPage[d], 0) \/ Follows(0, n)
      BY <1>2, <2>3 DEF InSession
    <3>2. Follows(0, n) => IsLogout(m) \/ (m.from = n /\ Follows(0, n)')
      BY <1>1, FollowsTaken
    <3>3. EndedFrom(toPage[d], 0) \/ m.from = n \/ IsLogout(m)
      BY <3>1, <3>2
    <3>4. CleanFrom(toPage'[d], 0, n) /\ (EndedFrom(toPage[d], 0) => EndedFrom(toPage'[d], 0))
      BY <1>1, <2>1, <3>3, CleanSend
    <3>5. ports'[d] = "open" => EndedFrom(toPage'[d], 0) \/ Follows(0, n)'
      BY <3>1, <3>2, <3>4
    <3>6. told'[d] # 0 => told'[d] = n
      BY <1>2 DEF InSession
    <3> QED
      BY <3>4, <3>5, <3>6, Zenon DEF InSession, CleanFrom, EndedFrom
  <2> QED
    BY <2>2, <2>3
<1> QED
  BY <1>2 DEF SessionInv, DocSessions

LEMMA SessionBackground == ASSUME SessionInv, Background, MentionInv' PROVE SessionInv'
<1>1. TypeInv
  BY DEF SessionInv, MentionInv
<1>2. UNCHANGED <<frame, session, told, queries, heard>>
  BY Zenon DEF Background, HandleAuthStatus, HandleReply, Connect, HandleBridgeMessage, PortDisconnected,
     pageVars, frameVars
<1>3. \A n : Goes(n)' <=> Goes(n)
  BY <1>2 DEF Goes
<1>4. ASSUME UNCHANGED up PROVE StatusSessions' /\ \A n : Follows(0, n)' <=> Follows(0, n)
  <2>1. \A k, n : Follows(k, n)' <=> Follows(k, n)
    BY <1>3, <1>4 DEF Follows
  <2> QED
    BY <1>4, <2>1 DEF SessionInv, StatusSessions
<1>5. ASSUME UNCHANGED <<up, authStatus>> PROVE BackSession'
  <2>1. PICK n : n = authStatus.from
    OBVIOUS
  <2> QED
    BY <1>4, <1>5, <2>1 DEF SessionInv, BackSession, Unknown
<1>6. ASSUME UNCHANGED doc PROVE AnswersInSession'
  BY <1>2, <1>6 DEF SessionInv, AnswersInSession
<1>7. CASE HandleAuthStatus
  <2>1. PICK m : m = Head(up)
    OBVIOUS
  <2>2. /\ up # <<>> /\ m.method = "kernelAuthStatus" /\ up' = Tail(up) /\ authStatus' = m /\ UNCHANGED doc
        /\ SendTo(OpenPorts, <<m, m>>) \/ SendTo(OpenPorts, <<m>>)
        /\ ClosePorts
    BY <1>7, <2>1, Zenon DEF HandleAuthStatus, TakeUp, pageVars
  <2>3. m \in UpMsg
    BY <1>1, <2>1, <2>2, TailIsSeq DEF TypeInv, ChannelTypes
  <2>4. StatusSessions' /\ \A n : m.from = n => IsLogout(m) \/ Follows(0, n)'
    BY <1>1, <1>2, <2>1, <2>2, StatusesTaken DEF SessionInv, IsStatus
  <2>5. BackSession'
    <3>1. PICK n : n = m.from
      OBVIOUS
    <3>2. m # Unknown
      BY <2>2 DEF Unknown
    <3>3. IsLogout(m) \/ Follows(0, n)'
      BY <2>4, <3>1
    <3> QED
      BY <2>2, <3>1, <3>2, <3>3 DEF BackSession, Unknown, IsLogout, IsStatus
  <2>6. /\ IsLogout(m) => \A d \in Docs : ports'[d] # "open"
        /\ \A d \in Docs : ports'[d] = "open" => ports[d] = "open"
    <3>1. m.data.logout => ports' = [d \in Docs |-> IF d \in OpenPorts THEN "closed" ELSE ports[d]]
      BY <2>1, <2>2 DEF ClosePorts
    <3>2. ~m.data.logout => ports' = ports
      BY <2>1, <2>2 DEF ClosePorts
    <3> QED
      BY <3>1, <3>2 DEF OpenPorts, IsLogout
  <2>7. \A d \in Docs : \/ toPage'[d] = toPage[d]
                        \/ d \in OpenPorts /\ (toPage'[d] = toPage[d] \o <<m>> \/ toPage'[d] = toPage[d] \o <<m, m>>)
    BY <2>2, Zenon DEF SendTo
  <2>8. DocSessions'
    BY <1>2, <2>1, <2>2, <2>6, <2>7, SessionTaken
  <2> QED
    BY <1>6, <2>2, <2>4, <2>5, <2>8 DEF SessionInv
<1>8. CASE HandleReply
  <2>1. PICK m : m = Head(up)
    OBVIOUS
  <2> DEFINE D == OpenPorts \cap {queries[m.nonce].owner}
  <2>2. /\ up # <<>> /\ m.method # "kernelAuthStatus" /\ up' = Tail(up) /\ UNCHANGED <<authStatus, ports, doc>>
        /\ SendTo(D, <<m>>) \/ UNCHANGED toPage
    BY <1>8, <2>1, Zenon DEF HandleReply, TakeUp, pageVars
  <2>3. ~IsLogout(m)
    BY <2>2 DEF IsLogout, IsStatus
  <2>4. StatusSessions'
    BY <1>1, <1>2, <2>1, <2>2, StatusesTaken DEF SessionInv
  <2>5. \A n : Follows(0, n) => Follows(0, n)'
    BY <1>1, <1>2, <2>1, <2>2, <2>3, FollowsTaken
  <2>6. BackSession'
    <3>1. PICK n : n = authStatus.from
      OBVIOUS
    <3> QED
      BY <2>2, <2>5, <3>1 DEF SessionInv, BackSession, Unknown, IsLogout, IsStatus
  <2>7. D \subseteq OpenPorts
    OBVIOUS
  <2> HIDE DEF D
  <2>8. \A d \in Docs : toPage'[d] = toPage[d] \/ (d \in D /\ toPage'[d] = toPage[d] \o <<m>>)
    BY <2>2, Zenon DEF SendTo
  <2>9. DocSessions'
    BY <1>2, <2>1, <2>2, <2>3, <2>7, <2>8, SessionTaken
  <2> QED
    BY <1>6, <2>2, <2>4, <2>6, <2>9 DEF SessionInv
<1>9. ASSUME NEW d \in Docs, Connect(d) PROVE SessionInv'
  <2>1. /\ doc[d] = "new" /\ doc' = [doc EXCEPT ![d] = "live"] /\ ports' = [ports EXCEPT ![d] = "open"]
        /\ UNCHANGED <<up, authStatus>>
        /\ toPage' = IF authStatus = Unknown
                     THEN toPage ELSE [toPage EXCEPT ![d] = Append(@, authStatus)]
    BY <1>9, Zenon DEF Connect
  <2>2. told[d] = 0 /\ toPage[d] = <<>>
    BY <2>1 DEF SessionInv, MentionInv, NewDocs
  <2>3. \A e \in Docs \ {d} : doc'[e] = doc[e] /\ ports'[e] = ports[e] /\ toPage'[e] = toPage[e]
    BY <1>1, <2>1 DEF TypeInv, PageTypes, BackTypes, ChannelTypes
  <2>4. \A e \in Docs \ {d}, n \in Session : InSession(e, n) => InSession(e, n)'
    BY <1>2, <1>4, <2>1, <2>3 DEF InSession
  <2>5. \E n \in Session : InSession(d, n)'
    <3>1. CASE authStatus = Unknown
      <4>1. toPage'[d] = <<>> /\ told'[d] = 0 /\ 1 \in Session /\ CleanFrom(<<>>, 0, 1)
        BY <1>2, <2>1, <2>2, <3>1, CleanStart DEF Session
      <4>2. Follows(0, 1)'
        BY <1>4, <2>1, <3>1 DEF SessionInv, BackSession
      <4> QED
        BY <4>1, <4>2 DEF InSession
    <3>2. CASE authStatus # Unknown
      <4>1. PICK n \in Session : n = authStatus.from
        BY <1>1, <3>2 DEF TypeInv, BackTypes, StatusMsg
      <4>2. toPage'[d] = Append(<<>>, authStatus) /\ told'[d] = 0 /\ authStatus \in StatusMsg
        BY <1>1, <1>2, <2>1, <2>2, <3>2 DEF TypeInv, ChannelTypes, BackTypes
      <4>3. /\ CleanFrom(toPage'[d], 0, n)
            /\ IsLogout(authStatus) => EndedFrom(toPage'[d], 0)
        <5>1. <<>> \in Seq(StatusMsg) /\ 0 \in 0 .. Len(<<>>) /\ CleanFrom(<<>>, 0, n)
          BY CleanStart
        <5> QED
          BY <4>1, <4>2, <5>1, CleanAppend, Zenon
      <4>4. IsLogout(authStatus) \/ Follows(0, n)'
        BY <1>4, <2>1, <3>2, <4>1 DEF SessionInv, BackSession
      <4> QED
        BY <4>2, <4>3, <4>4 DEF InSession, CleanFrom, EndedFrom
    <3> QED
      BY <3>1, <3>2
  <2>6. DocSessions'
    BY <2>3, <2>4, <2>5 DEF SessionInv, DocSessions
  <2>7. AnswersInSession'
    <3>1. ASSUME NEW q \in Calls, heard[q] # <<>> PROVE doc'[queries[q].owner] = doc[queries[q].owner]
      <4>1. q \in SentCalls /\ queries[q].owner \in Docs /\ told[queries[q].owner] # 0
        BY <3>1 DEF SessionInv, MentionInv, PageMentions, SentCalls, TypeInv, PageTypes, QueriesOwned
      <4> QED
        BY <2>2, <2>3, <4>1
    <3>2. ASSUME NEW q \in Calls, NEW i \in DOMAIN heard[q] PROVE heard[q] # <<>>
      BY <3>2
    <3> QED
      BY <1>2, <3>1, <3>2 DEF SessionInv, AnswersInSession
  <2> QED
    BY <1>4, <1>5, <2>1, <2>6, <2>7 DEF SessionInv
<1>10. ASSUME NEW d \in Docs, HandleBridgeMessage(d) \/ PortDisconnected(d) PROVE SessionInv'
  <2>1. /\ UNCHANGED <<up, authStatus, doc, toPage>>
        /\ ports' = ports \/ ports' = [ports EXCEPT ![d] = "closed"]
    BY <1>10, Zenon DEF HandleBridgeMessage, PortDisconnected, pageVars
  <2>2. \A e \in Docs : ports'[e] = "open" => ports[e] = "open"
    BY <1>1, <2>1 DEF TypeInv, BackTypes
  <2>3. DocSessions'
    <3>1. \A e \in Docs, n \in Session : InSession(e, n) => InSession(e, n)'
      BY <1>2, <1>4, <2>1, <2>2 DEF InSession
    <3> QED
      BY <2>1, <3>1 DEF SessionInv, DocSessions
  <2> QED
    BY <1>4, <1>5, <1>6, <2>1, <2>3 DEF SessionInv
<1> QED
  BY <1>7, <1>8, <1>9, <1>10, Zenon DEF Background

\* A page step leaves the frame and the background alone.
LEMMA SessionPage ==
  ASSUME SessionInv, MentionInv', UNCHANGED <<frameVars, backVars, up>>,
         \A d \in Docs : doc'[d] = "live" => doc[d] = "live",
         \A d \in Docs, n \in Session : doc'[d] = "live" /\ InSession(d, n) => InSession(d, n)',
         AnswersInSession'
  PROVE  SessionInv'
<1>1. UNCHANGED <<frame, session, authStatus>>
  BY DEF frameVars, backVars
<1>2. \A k, n : Follows(k, n)' <=> Follows(k, n)
  BY <1>1 DEF Follows, Goes
<1>3. StatusSessions'
  BY <1>2 DEF SessionInv, StatusSessions
<1>4. BackSession'
  <2>1. PICK n : n = authStatus.from
    OBVIOUS
  <2> QED
    BY <1>1, <1>2, <2>1 DEF SessionInv, BackSession, Unknown
<1>5. DocSessions'
  BY DEF SessionInv, DocSessions
<1> QED
  BY <1>3, <1>4, <1>5 DEF SessionInv

LEMMA InSessionKept ==
  ASSUME NEW d, NEW n, InSession(d, n), UNCHANGED <<frame, session, ports, up>>,
         told'[d] = told[d], toPage'[d] = toPage[d]
  PROVE  InSession(d, n)'
<1>1. Follows(0, n)' <=> Follows(0, n)
  BY DEF Follows, Goes
<1> QED
  BY <1>1 DEF InSession, CleanFrom, EndedFrom

\* The next message of a live document in session n, unless it is a logout, is from n.
LEMMA InSessionTaken ==
  ASSUME TypeInv, NEW d \in Docs, NEW n, InSession(d, n), UNCHANGED <<frame, session, ports, up>>,
         toPage[d] # <<>>, toPage' = [toPage EXCEPT ![d] = Tail(@)], ~IsLogout(Head(toPage[d]))
  PROVE  /\ Head(toPage[d]).from = n
         /\ told'[d] = told[d] \/ told'[d] = n => InSession(d, n)'
<1>1. toPage[d] \in Seq(UpMsg) /\ toPage'[d] = Tail(toPage[d])
  BY DEF TypeInv, ChannelTypes
<1>2. CleanFrom(toPage[d], 0, n)
  BY DEF InSession
<1>3. /\ Head(toPage[d]).from = n
      /\ CleanFrom(Tail(toPage[d]), 0, n)
      /\ EndedFrom(toPage[d], 0) => EndedFrom(Tail(toPage[d]), 0)
  BY <1>1, <1>2, CleanHead
<1>4. Follows(0, n)' <=> Follows(0, n)
  BY DEF Follows, Goes
<1>5. CleanFrom(toPage'[d], 0, n) /\ (EndedFrom(toPage[d], 0) => EndedFrom(toPage'[d], 0))
  BY <1>1, <1>3, Zenon
<1>6. ASSUME told'[d] = told[d] \/ told'[d] = n PROVE InSession(d, n)'
  BY <1>4, <1>5, <1>6 DEF InSession, CleanFrom, EndedFrom
<1> QED
  BY <1>3, <1>6

LEMMA SessionRequests ==
  ASSUME SessionInv, MentionInv',
         \/ \E d \in Docs, q \in Calls, updates \in BOOLEAN : NewKernelQuery(d, q, updates)
         \/ \E q \in Calls : SendUpdate(q)
  PROVE  SessionInv'
<1>1. UNCHANGED <<frameVars, backVars, up, doc, told, toPage, heard>>
  BY Zenon DEF NewKernelQuery, SendUpdate
<1>2. \A q \in Calls : heard[q] # <<>> => queries'[q].owner = queries[q].owner
  <2>1. ASSUME NEW d \in Docs, NEW q \in Calls, NEW updates \in BOOLEAN, NewKernelQuery(d, q, updates)
        PROVE  \A p \in Calls : heard[p] # <<>> => queries'[p].owner = queries[p].owner
    <3>1. q \notin SentCalls /\ \E r : queries' = [queries EXCEPT ![q] = r]
      BY <2>1 DEF NewKernelQuery, SentCalls
    <3>2. \A p \in Calls : heard[p] # <<>> => p # q
      BY <3>1 DEF SessionInv, MentionInv, PageMentions
    <3> QED
      BY <3>1, <3>2 DEF SessionInv, MentionInv, TypeInv, PageTypes
  <2>2. ASSUME NEW q \in Calls, SendUpdate(q) PROVE \A p \in Calls : queries'[p].owner = queries[p].owner
    <3> DEFINE new == [queries[q] EXCEPT !.held = Append(@, asked[q] + 1)]
    <3>1. queries' = queries \/ queries' = [queries EXCEPT ![q] = new]
      BY <2>2, Zenon DEF SendUpdate
    <3>2. queries[q] \in Query /\ asked[q] + 1 \in Nat
      BY Successor DEF SessionInv, MentionInv, TypeInv, PageTypes
    <3>3. new.owner = queries[q].owner
      BY <3>2, QueryTypes
    <3> HIDE DEF new
    <3> QED
      BY <3>1, <3>3 DEF SessionInv, MentionInv, TypeInv, PageTypes
  <2> QED
    BY <2>1, <2>2
<1>3. AnswersInSession'
  <2>1. ASSUME NEW q \in Calls, NEW i \in DOMAIN heard[q] PROVE heard[q] # <<>>
    BY <2>1
  <2> QED
    BY <1>1, <1>2, <2>1 DEF SessionInv, AnswersInSession
<1>4. UNCHANGED <<frame, session, ports>>
  BY <1>1 DEF frameVars, backVars
<1> QED
  BY <1>1, <1>3, <1>4, SessionPage, InSessionKept

LEMMA SessionStatus ==
  ASSUME SessionInv, MentionInv', NEW d \in Docs, HandleStatus(d)
  PROVE  SessionInv'
<1> DEFINE m == Head(toPage[d])
<1>0. TypeInv
  BY DEF SessionInv, MentionInv
<1>1. /\ Runs(d) /\ toPage[d] # <<>> /\ m.method = "kernelAuthStatus" /\ toPage' = [toPage EXCEPT ![d] = Tail(@)]
      /\ UNCHANGED <<frameVars, backVars, asked, heard, up, down>>
      /\ doc' = IF m.data.logout THEN [doc EXCEPT ![d] = "reloading"] ELSE doc
      /\ UNCHANGED told \/ (told[d] = 0 /\ told' = [told EXCEPT ![d] = m.from])
  BY Zenon DEF HandleStatus, TakePage, ObeyLogout, Resolves
<1>2. UNCHANGED <<frame, session, ports>>
  BY <1>1 DEF frameVars, backVars
<1>3. \A e \in Docs \ {d} : told'[e] = told[e] /\ toPage'[e] = toPage[e] /\ doc'[e] = doc[e]
  BY <1>0, <1>1 DEF TypeInv, PageTypes, ChannelTypes
<1>4. doc'[d] = "live" => doc[d] = "live" /\ ~IsLogout(m)
  BY <1>0, <1>1 DEF TypeInv, PageTypes, IsLogout
<1>5. told'[d] = told[d] \/ told'[d] = m.from
  BY <1>0, <1>1 DEF TypeInv, PageTypes
<1>6. ASSUME NEW n \in Session, doc'[d] = "live", InSession(d, n) PROVE InSession(d, n)'
  BY <1>0, <1>1, <1>2, <1>4, <1>5, <1>6, InSessionTaken
<1>7. \A e \in Docs, n \in Session : doc'[e] = "live" /\ InSession(e, n) => InSession(e, n)'
  BY <1>1, <1>2, <1>3, <1>6, InSessionKept
<1> HIDE DEF m
<1>8. \A q \in Calls : queries'[q].owner = queries[q].owner
  <2>1. \/ UNCHANGED queries
        \/ queries' = [q \in Calls |-> IF Contains(waiting[d], q)
                                       THEN [queries[q] EXCEPT !.phase = "open"] ELSE queries[q]]
    BY Zenon DEF HandleStatus
  <2>2. \A q \in Calls : [queries[q] EXCEPT !.phase = "open"].owner = queries[q].owner
    BY <1>0, QueryTypes DEF TypeInv, PageTypes
  <2> QED
    BY <2>1, <2>2
<1>9. AnswersInSession'
  <2> SUFFICES ASSUME NEW q \in Calls, NEW i \in DOMAIN heard[q], doc'[queries[q].owner] = "live"
               PROVE  heard[q][i].from = told'[queries[q].owner]
    BY <1>1, <1>8 DEF AnswersInSession
  <2>1. heard[q] # <<>>
    OBVIOUS
  <2>2. queries[q].owner \in Docs /\ told[queries[q].owner] # 0
    BY <2>1 DEF SessionInv, MentionInv, PageMentions, SentCalls, TypeInv, PageTypes, QueriesOwned
  <2>3. told'[queries[q].owner] = told[queries[q].owner]
    BY <1>1, <1>3, <2>2
  <2>4. doc[queries[q].owner] = "live"
    BY <1>3, <1>4, <2>2
  <2> QED
    BY <2>3, <2>4 DEF SessionInv, AnswersInSession
<1>10. \A e \in Docs : doc'[e] = "live" => doc[e] = "live"
  BY <1>3, <1>4
<1> QED
  BY <1>1, <1>7, <1>9, <1>10, SessionPage

LEMMA SessionReply ==
  ASSUME SessionInv, MentionInv', NEW d \in Docs,
         HandleResponse(d) \/ HandleResponseUpdate(d) \/ HandleResponseNonce(d)
  PROVE  SessionInv'
<1> DEFINE m == Head(toPage[d])
<1>0. TypeInv
  BY DEF SessionInv, MentionInv
<1>1. /\ toPage[d] # <<>> /\ m.method # "kernelAuthStatus" /\ toPage' = [toPage EXCEPT ![d] = Tail(@)]
      /\ UNCHANGED <<frameVars, backVars, doc, told, up>>
      /\ UNCHANGED heard \/ (Takes(m) /\ heard' = [heard EXCEPT ![m.nonce] = Append(@, m)])
  BY Zenon DEF HandleResponse, HandleResponseUpdate, HandleResponseNonce, TakePage, Hear
<1>2. UNCHANGED <<frame, session, ports>>
  BY <1>1 DEF frameVars, backVars
<1>3. ~IsLogout(m)
  BY <1>1 DEF IsLogout, IsStatus
<1>4. \A n : InSession(d, n) => m.from = n /\ InSession(d, n)'
  BY <1>0, <1>1, <1>2, <1>3, InSessionTaken
<1>5. \A e \in Docs \ {d} : toPage'[e] = toPage[e]
  BY <1>0, <1>1 DEF TypeInv, ChannelTypes
<1>6. \A e \in Docs, n \in Session : InSession(e, n) => InSession(e, n)'
  BY <1>1, <1>2, <1>4, <1>5, InSessionKept
<1>7. Takes(m) => m.nonce \in SentBy(d) /\ m \in ReplyMsg
  <2>1. m \in UpMsg
    BY <1>0, <1>1, TailIsSeq DEF TypeInv, ChannelTypes
  <2>2. Takes(m) => m \in ReplyMsg
    BY <1>1, <2>1, WithData DEF Takes
  <2>3. m \in ReplyMsg => m.nonce \in Calls
    BY DEF ReplyMsg
  <2> QED
    BY <1>1, <2>2, <2>3, HeardIsSent DEF SessionInv
<1> HIDE DEF m
<1>8. \A q \in Calls : queries'[q].owner = queries[q].owner
  BY <1>0, RepliesKeep
<1>9. AnswersInSession'
  <2> SUFFICES ASSUME NEW q \in Calls, NEW i \in DOMAIN heard'[q], doc[queries[q].owner] = "live"
               PROVE  heard'[q][i].from = told[queries[q].owner]
    BY <1>1, <1>8 DEF AnswersInSession
  <2>1. CASE i \in DOMAIN heard[q] /\ heard'[q][i] = heard[q][i]
    BY <2>1 DEF SessionInv, AnswersInSession
  <2>2. CASE Takes(m) /\ q = m.nonce /\ heard'[q][i] = m
    <3>1. q \in SentCalls /\ queries[q].owner = d /\ told[d] # 0
      BY <1>7, <2>2 DEF SentBy, SessionInv, MentionInv, PageMentions
    <3>2. PICK n \in Session : InSession(d, n)
      BY <3>1 DEF SessionInv, DocSessions
    <3>3. m.from = n /\ told[d] = n
      BY <1>4, <3>1, <3>2 DEF InSession
    <3> QED
      BY <2>2, <3>1, <3>3
  <2>3. (i \in DOMAIN heard[q] /\ heard'[q][i] = heard[q][i]) \/ (Takes(m) /\ q = m.nonce /\ heard'[q][i] = m)
    <3>1. heard[q] \in Seq(ReplyMsg) /\ DOMAIN heard = Calls
      BY <1>0 DEF TypeInv, PageTypes
    <3>2. heard'[q] = heard[q] \/ (Takes(m) /\ q = m.nonce /\ m \in ReplyMsg /\ heard'[q] = Append(heard[q], m))
      BY <1>1, <1>7, <3>1
    <3> QED
      BY <3>1, <3>2, AppendElements
  <2> QED
    BY <2>1, <2>2, <2>3
<1> QED
  BY <1>1, <1>6, <1>9, SessionPage

LEMMA SessionLeave == ASSUME SessionInv, MentionInv', NEW d \in Docs, Leave(d) PROVE SessionInv'
<1>1. /\ doc' = [doc EXCEPT ![d] = "gone"] /\ toPage' = [toPage EXCEPT ![d] = <<>>]
      /\ UNCHANGED <<frameVars, backVars, told, queries, heard, up>>
  BY Zenon DEF Leave
<1>2. doc'[d] = "gone" /\ \A e \in Docs \ {d} : doc'[e] = doc[e] /\ toPage'[e] = toPage[e]
  BY <1>1 DEF SessionInv, MentionInv, TypeInv, PageTypes, ChannelTypes
<1>3. UNCHANGED <<frame, session, ports>>
  BY <1>1 DEF frameVars, backVars
<1>4. \A e \in Docs, n \in Session : doc'[e] = "live" /\ InSession(e, n) => InSession(e, n)'
  BY <1>1, <1>2, <1>3, InSessionKept
<1>5. AnswersInSession'
  <2> SUFFICES ASSUME NEW q \in Calls, NEW i \in DOMAIN heard[q], doc'[queries[q].owner] = "live"
               PROVE  heard[q][i].from = told[queries[q].owner]
    BY <1>1 DEF AnswersInSession
  <2>1. doc[queries[q].owner] = "live"
    BY <1>1 DEF SessionInv, MentionInv, TypeInv, PageTypes
  <2> QED
    BY <2>1 DEF SessionInv, AnswersInSession
<1>6. \A e \in Docs : doc'[e] = "live" => doc[e] = "live"
  BY <1>2
<1> QED
  BY <1>1, <1>4, <1>5, <1>6, SessionPage

LEMMA SessionNext == ASSUME SessionInv, [Next]_vars PROVE SessionInv'
<1>1. MentionInv'
  BY MentionNext DEF SessionInv
<1>2. CASE UNCHANGED vars
  <2>1. \A d \in Docs, n \in Session : InSession(d, n) => InSession(d, n)'
    BY <1>2, InSessionKept DEF vars, frameVars, backVars, pageVars
  <2>2. AnswersInSession'
    BY <1>2 DEF vars, pageVars, SessionInv, AnswersInSession
  <2> QED
    BY <1>1, <1>2, <2>1, <2>2, SessionPage DEF vars, pageVars
<1>3. CASE Page
  BY <1>1, <1>3, SessionRequests, SessionStatus, SessionReply, SessionLeave, Zenon DEF Page, Reloads, Closes
<1> QED
  BY <1>1, <1>2, <1>3, SessionFrame, SessionBackground DEF Next

\* AnswersInSession: a page that has not been told of a logout has heard only
\* the kernel of the session it was told of, whatever its query has reached.
THEOREM PagesHearTheirSession == Spec => []AnswersInSession
<1>1. SessionInv => AnswersInSession
  BY DEF SessionInv
<1> QED
  BY <1>1, SessionInit, SessionNext, PTL DEF Spec

(***************************************************************************)
(* Each query is one run of QueryProtocol.  A query is called once: while   *)
(* its call is on the way, nothing answers it.  A responseNonce goes before *)
(* every other reply to its query, wherever the two are.                    *)
(***************************************************************************)
IsCall(m, q) == m.method = "moduleCall" /\ m.nonce = q

IsNonce(m, q) == m.method = "responseNonce" /\ m.nonce = q

NoCallIn(s, q) == \A i \in DOMAIN s : ~IsCall(s[i], q)

OneCall(s, q) == \A i, j \in DOMAIN s : IsCall(s[i], q) /\ IsCall(s[j], q) => i = j

NoReply(s, q) == \A i \in DOMAIN s : s[i].nonce # q

NoNonce(s, q) == \A i \in DOMAIN s : ~IsNonce(s[i], q)

NonceFirst(s, q) == \A i, j \in DOMAIN s : IsNonce(s[i], q) /\ s[j].nonce = q => i <= j

Serves(q) == \E g \in kernelQueries : g.call = q

Quiet(q) ==
    /\ NoReply(up, q)
    /\ \A d \in Docs : NoReply(toPage[d], q)
    /\ heard[q] = <<>>
    /\ ~Serves(q)

CallOnce(q) ==
    /\ OneCall(down, q)
    /\ \A d \in Docs : OneCall(fromPage[d], q)
    /\ NoCallIn(down, q) \/ (Quiet(q) /\ \A d \in Docs : NoCallIn(fromPage[d], q))
    /\ \A d \in Docs : NoCallIn(fromPage[d], q) \/ Quiet(q)

NonceOnce(q) ==
    /\ NonceFirst(up, q)
    /\ \A d \in Docs : NonceFirst(toPage[d], q)
    /\ NoNonce(up, q) \/ (heard[q] = <<>> /\ \A d \in Docs : NoReply(toPage[d], q))
    /\ \A d \in Docs : NoNonce(toPage[d], q) \/ heard[q] = <<>>

WaitOnce == \A d \in Docs : \A i, j \in DOMAIN waiting[d] : waiting[d][i] = waiting[d][j] => i = j

OnceInv == MentionInv /\ WaitOnce /\ \A q \in Calls : CallOnce(q) /\ NonceOnce(q)

LEMMA OnceEmpty ==
  ASSUME NEW s, s = <<>>, NEW q
  PROVE  NoCallIn(s, q) /\ OneCall(s, q) /\ NoReply(s, q) /\ NoNonce(s, q) /\ NonceFirst(s, q)
  BY DEF NoCallIn, OneCall, NoReply, NoNonce, NonceFirst

LEMMA OnceAppend ==
  ASSUME NEW S, NEW s \in Seq(S), NEW e \in S, NEW q
  PROVE  /\ NoCallIn(Append(s, e), q) <=> NoCallIn(s, q) /\ ~IsCall(e, q)
         /\ NoReply(Append(s, e), q) <=> NoReply(s, q) /\ e.nonce # q
         /\ NoNonce(Append(s, e), q) <=> NoNonce(s, q) /\ ~IsNonce(e, q)
         /\ NonceFirst(s, q) /\ (NoReply(s, q) \/ ~IsNonce(e, q)) => NonceFirst(Append(s, e), q)
         /\ OneCall(s, q) /\ (NoCallIn(s, q) \/ ~IsCall(e, q)) => OneCall(Append(s, e), q)
<1> DEFINE t == Append(s, e)
           z == Len(s)
<1>1. /\ z \in Nat /\ DOMAIN s = 1 .. z /\ DOMAIN t = 1 .. z + 1
      /\ \A i \in 1 .. z : t[i] = s[i]
      /\ t[z + 1] = e
  OBVIOUS
<1> HIDE DEF t, z
<1>2. DOMAIN s \subseteq DOMAIN t /\ z + 1 \in DOMAIN t /\ \A i \in DOMAIN t : i \in DOMAIN s \/ i = z + 1
  BY <1>1
<1>3. NoCallIn(t, q) <=> NoCallIn(s, q) /\ ~IsCall(e, q)
  BY <1>1, <1>2 DEF NoCallIn
<1>4. NoReply(t, q) <=> NoReply(s, q) /\ e.nonce # q
  BY <1>1, <1>2 DEF NoReply
<1>5. NoNonce(t, q) <=> NoNonce(s, q) /\ ~IsNonce(e, q)
  BY <1>1, <1>2 DEF NoNonce
<1>6. NonceFirst(s, q) /\ (NoReply(s, q) \/ ~IsNonce(e, q)) => NonceFirst(t, q)
  BY <1>1, <1>2 DEF NonceFirst, NoReply, IsNonce
<1>7. OneCall(s, q) /\ (NoCallIn(s, q) \/ ~IsCall(e, q)) => OneCall(t, q)
  BY <1>1, <1>2 DEF OneCall, NoCallIn
<1> QED
  BY <1>3, <1>4, <1>5, <1>6, <1>7 DEF t

LEMMA OnceTail ==
  ASSUME NEW S, NEW s \in Seq(S), s # <<>>, NEW q
  PROVE  /\ NoCallIn(s, q) => NoCallIn(Tail(s), q) /\ ~IsCall(Head(s), q)
         /\ NoReply(s, q) => NoReply(Tail(s), q) /\ Head(s).nonce # q
         /\ NoNonce(s, q) => NoNonce(Tail(s), q) /\ ~IsNonce(Head(s), q)
         /\ NonceFirst(s, q) => NonceFirst(Tail(s), q) /\ (Head(s).nonce = q => NoNonce(Tail(s), q))
         /\ OneCall(s, q) => OneCall(Tail(s), q) /\ (IsCall(Head(s), q) => NoCallIn(Tail(s), q))
<1> DEFINE t == Tail(s)
           z == Len(s)
<1>1. /\ z \in Nat /\ z >= 1 /\ DOMAIN s = 1 .. z /\ DOMAIN t = 1 .. z - 1
      /\ \A i \in 1 .. z - 1 : t[i] = s[i + 1]
      /\ Head(s) = s[1]
  OBVIOUS
<1> HIDE DEF t, z
<1>2. 1 \in DOMAIN s /\ \A i \in DOMAIN t : i + 1 \in DOMAIN s /\ t[i] = s[i + 1] /\ i \in Nat /\ i + 1 # 1
  BY <1>1
<1>3. NoCallIn(s, q) => NoCallIn(t, q) /\ ~IsCall(Head(s), q)
  BY <1>1, <1>2 DEF NoCallIn
<1>4. NoReply(s, q) => NoReply(t, q) /\ Head(s).nonce # q
  BY <1>1, <1>2 DEF NoReply
<1>5. NoNonce(s, q) => NoNonce(t, q) /\ ~IsNonce(Head(s), q)
  BY <1>1, <1>2 DEF NoNonce
<1>6. ASSUME NonceFirst(s, q) PROVE NonceFirst(t, q) /\ (Head(s).nonce = q => NoNonce(t, q))
  <2>1. ASSUME NEW i \in DOMAIN t, NEW j \in DOMAIN t, IsNonce(t[i], q), t[j].nonce = q PROVE i <= j
    <3>1. i + 1 <= j + 1
      BY <1>2, <1>6, <2>1 DEF NonceFirst
    <3> QED
      BY <1>2, <3>1
  <2>2. ASSUME NEW i \in DOMAIN t, IsNonce(t[i], q), Head(s).nonce = q PROVE FALSE
    <3>1. i + 1 <= 1
      BY <1>1, <1>2, <1>6, <2>2 DEF NonceFirst
    <3> QED
      BY <1>1, <3>1
  <2> QED
    BY <2>1, <2>2 DEF NonceFirst, NoNonce
<1>7. ASSUME OneCall(s, q) PROVE OneCall(t, q) /\ (IsCall(Head(s), q) => NoCallIn(t, q))
  <2>1. ASSUME NEW i \in DOMAIN t, NEW j \in DOMAIN t, IsCall(t[i], q), IsCall(t[j], q) PROVE i = j
    <3>1. i + 1 = j + 1
      BY <1>2, <1>7, <2>1 DEF OneCall
    <3> QED
      BY <1>2, <3>1
  <2>2. ASSUME NEW i \in DOMAIN t, IsCall(t[i], q), IsCall(Head(s), q) PROVE FALSE
    BY <1>1, <1>2, <1>7, <2>2 DEF OneCall
  <2> QED
    BY <2>1, <2>2 DEF OneCall, NoCallIn
<1> QED
  BY <1>3, <1>4, <1>5, <1>6, <1>7 DEF t

LEMMA OnceConcat ==
  ASSUME NEW S, NEW s \in Seq(S), NEW r \in Seq(S), NEW q
  PROVE  /\ NoCallIn(s, q) /\ NoCallIn(r, q) => NoCallIn(s \o r, q)
         /\ OneCall(s, q) /\ NoCallIn(r, q) => OneCall(s \o r, q)
         /\ NoCallIn(s, q) /\ OneCall(r, q) => OneCall(s \o r, q)
<1> DEFINE t == s \o r
           z == Len(s)
           y == Len(r)
<1>1. /\ z \in Nat /\ y \in Nat /\ DOMAIN s = 1 .. z /\ DOMAIN r = 1 .. y /\ DOMAIN t = 1 .. z + y
      /\ \A i \in 1 .. z : t[i] = s[i]
      /\ \A i \in 1 .. z + y : i > z => t[i] = r[i - z]
  OBVIOUS
<1> HIDE DEF t, z, y
<1>2. \A i \in DOMAIN t : (i \in DOMAIN s /\ t[i] = s[i]) \/ (i - z \in DOMAIN r /\ t[i] = r[i - z] /\ i \in Int)
  BY <1>1
<1>3. NoCallIn(s, q) /\ NoCallIn(r, q) => NoCallIn(t, q)
  BY <1>2 DEF NoCallIn
<1>4. OneCall(s, q) /\ NoCallIn(r, q) => OneCall(t, q)
  BY <1>2 DEF NoCallIn, OneCall
<1>5. ASSUME NoCallIn(s, q), OneCall(r, q), NEW i \in DOMAIN t, NEW j \in DOMAIN t,
             IsCall(t[i], q), IsCall(t[j], q)
      PROVE  i = j
  <2>1. i - z \in DOMAIN r /\ j - z \in DOMAIN r /\ t[i] = r[i - z] /\ t[j] = r[j - z] /\ i \in Int /\ j \in Int
    BY <1>2, <1>5 DEF NoCallIn
  <2>2. i - z = j - z
    BY <1>5, <2>1 DEF OneCall
  <2> QED
    BY <1>1, <2>1, <2>2
<1>6. NoCallIn(s, q) /\ OneCall(r, q) => OneCall(t, q)
  BY <1>5 DEF OneCall
<1> QED
  BY <1>3, <1>4, <1>6 DEF t

Taken(q) == down # <<>> /\ IsCall(Head(down), q) /\ down' = Tail(down)

\* What the frame does for a query: it takes its call, or goes on to serve it.
FrameTurn(q) ==
    /\ down' = down \/ down' = <<>> \/ (down # <<>> /\ down' = Tail(down))
    /\ \/ up' = up
       \/ \E m \in UpMsg : /\ up' = Append(up, m)
                           /\ m.nonce = q => Taken(q) \/ (Serves(q) /\ ~IsNonce(m, q))
    /\ Serves(q)' => Serves(q) \/ Taken(q)

LEMMA AppendIsInjective ==
  ASSUME NEW S, NEW s \in Seq(S), NEW a, NEW b, Append(s, a) = Append(s, b)
  PROVE  a = b
<1>1. s \in Seq(S \cup {a, b})
  BY SeqWider
<1>2. Append(s, a)[Len(s) + 1] = a /\ Append(s, b)[Len(s) + 1] = b
  BY <1>1
<1> QED
  BY <1>2

LEMMA FrameTurns == ASSUME TypeInv, Frame, NEW q \in Calls PROVE FrameTurn(q)
<1>1. down' = down \/ down' = <<>> \/ (down # <<>> /\ down' = Tail(down))
  BY Zenon DEF Frame, FrameStarts, FrameLoads, LogOut, Unload, BootloaderAnswers, KernelRefuses, KernelOpens,
     KernelRelaysUpdate, ModuleUpdates, ModuleResponds, Take
<1>2. up' = up \/ \E m \in UpMsg : up' = Append(up, m)
  BY FrameSends, Zenon DEF Sends
<1>3. \A m, n : up' = Append(up, m) /\ up' = Append(up, n) => m = n
  <2>1. up \in Seq(UpMsg)
    BY DEF TypeInv, ChannelTypes
  <2> QED
    BY <2>1, AppendIsInjective
<1>4. q # NoCall
  BY ExtensionRelayAssumption DEF ExtensionRelayAssumption
<1>5. ASSUME NEW m, up' = Append(up, m), m.nonce = q => Taken(q) \/ (Serves(q) /\ ~IsNonce(m, q)),
             Serves(q)' => Serves(q) \/ Taken(q)
      PROVE  FrameTurn(q)
  <2>1. up' = up \/ m \in UpMsg
    BY <1>2, <1>3, <1>5
  <2> QED
    BY <1>1, <1>5, <2>1 DEF FrameTurn
<1>6. ASSUME UNCHANGED up, Serves(q)' => Serves(q) \/ Taken(q) PROVE FrameTurn(q)
  BY <1>1, <1>6, Zenon DEF FrameTurn
<1>7. UNCHANGED kernelQueries => (Serves(q)' => Serves(q))
  BY DEF Serves
<1>8. Taken(q) <=> down # <<>> /\ Head(down).method = "moduleCall" /\ Head(down).nonce = q /\ down' = Tail(down)
  BY DEF Taken, IsCall
<1>9. CASE FrameStarts
  <2>1. UNCHANGED kernelQueries /\ up' = Append(up, [Status("not yet", FALSE) EXCEPT !.from = session'])
    BY <1>9, Zenon DEF FrameStarts
  <2>2. [Status("not yet", FALSE) EXCEPT !.from = session'].nonce # q
    BY <1>4 DEF Status, Message
  <2>3. PICK m : up' = Append(up, m) /\ m.nonce # q
    BY <2>1, <2>2
  <2> QED
    BY <1>5, <1>7, <2>1, <2>3
<1>10. ASSUME NEW loaded, NEW logout, UNCHANGED kernelQueries, up' = Append(up, Status(loaded, logout))
       PROVE  FrameTurn(q)
  <2>1. Status(loaded, logout).nonce # q
    BY <1>4 DEF Status, Message
  <2>2. PICK m : up' = Append(up, m) /\ m.nonce # q
    BY <1>10, <2>1
  <2> QED
    BY <1>5, <1>7, <1>10, <2>2
<1>11. ASSUME NEW loaded, FrameLoads(loaded) PROVE FrameTurn(q)
  BY <1>10, <1>11, Zenon DEF FrameLoads
<1>12. CASE LogOut
  BY <1>10, <1>12, Zenon DEF LogOut
<1>13. CASE Unload
  <2>1. UNCHANGED up /\ kernelQueries' = {}
    BY <1>13, Zenon DEF Unload
  <2> QED
    BY <1>6, <2>1 DEF Serves
<1>14. CASE BootloaderAnswers
  <2> DEFINE n == IF Head(down).method = "moduleCall" THEN Head(down).nonce ELSE NoCall
  <2>1. UNCHANGED kernelQueries /\ down # <<>> /\ down' = Tail(down) /\ up' = Append(up, Error(n))
    BY <1>14, Zenon DEF BootloaderAnswers, Take, frameVars
  <2>2. n = q => Taken(q)
    BY <1>4, <1>8, <2>1
  <2>3. Error(n).nonce = n
    BY DEF Error
  <2> HIDE DEF n
  <2>4. PICK m : up' = Append(up, m) /\ m.nonce = n
    BY <2>1, <2>3
  <2> QED
    BY <1>5, <1>7, <2>1, <2>2, <2>4
<1>15. CASE KernelRefuses
  <2>1. /\ UNCHANGED kernelQueries /\ down # <<>> /\ down' = Tail(down) /\ Head(down).method = "moduleCall"
        /\ up' = Append(up, Message("response", Head(down).nonce, 0))
    BY <1>15, Zenon DEF KernelRefuses, Take, frameVars
  <2>2. Message("response", Head(down).nonce, 0).nonce = Head(down).nonce
    BY DEF Message
  <2>3. PICK m : up' = Append(up, m) /\ m.nonce = Head(down).nonce
    BY <2>1, <2>2
  <2> QED
    BY <1>5, <1>7, <1>8, <2>1, <2>3
<1>16. CASE KernelOpens
  <2> DEFINE k == kernelNonces + 1
             c == Head(down).nonce
  <2>1. /\ down # <<>> /\ down' = Tail(down) /\ Head(down).method = "moduleCall"
        /\ kernelQueries' = kernelQueries \cup {[nonce |-> k, call |-> c]}
        /\ up' = up \/ up' = Append(up, Message("responseNonce", c, k))
    BY <1>16, Zenon DEF KernelOpens, Take
  <2>2. Message("responseNonce", c, k).nonce = c
    BY DEF Message
  <2>3. c = q => Taken(q)
    BY <1>8, <2>1
  <2>4. Serves(q)' => Serves(q) \/ Taken(q)
    <3> HIDE DEF k
    <3>1. ASSUME NEW g \in kernelQueries', g.call = q PROVE g \in kernelQueries \/ c = q
      BY <2>1, <3>1
    <3> QED
      BY <2>3, <3>1 DEF Serves
  <2> HIDE DEF c
  <2>5. CASE up' # up
    <3>1. PICK m : up' = Append(up, m) /\ m.nonce = c
      BY <2>1, <2>2, <2>5
    <3> QED
      BY <1>5, <2>3, <2>4, <3>1
  <2> QED
    BY <1>6, <2>4, <2>5
<1>17. CASE KernelRelaysUpdate
  <2>1. UNCHANGED <<up, kernelQueries>>
    BY <1>17, Zenon DEF KernelRelaysUpdate
  <2> QED
    BY <1>6, <1>7, <2>1
<1>18. ASSUME NEW g \in kernelQueries, ModuleUpdates(g) \/ ModuleResponds(g) PROVE FrameTurn(q)
  <2>1. /\ kernelQueries' \subseteq kernelQueries
        /\ \E n : up' = Append(up, Message("responseUpdate", g.call, n)) \/ up' = Append(up, Message("response", g.call, n))
    <3>1. \E n : up' = Append(up, Message("responseUpdate", g.call, n)) \/ up' = Append(up, Message("response", g.call, n))
      BY <1>18, Zenon DEF ModuleUpdates, ModuleResponds
    <3>2. kernelQueries' = kernelQueries \/ kernelQueries' = kernelQueries \ {g}
      BY <1>18, Zenon DEF ModuleUpdates, ModuleResponds
    <3> QED
      BY <3>1, <3>2
  <2>2. \A n : /\ Message("responseUpdate", g.call, n).nonce = g.call
               /\ Message("response", g.call, n).nonce = g.call
               /\ Message("responseUpdate", g.call, n).method # "responseNonce"
               /\ Message("response", g.call, n).method # "responseNonce"
    BY DEF Message
  <2>3. PICK m : up' = Append(up, m) /\ m.nonce = g.call /\ m.method # "responseNonce"
    BY <2>1, <2>2
  <2>4. m.nonce = q => Serves(q) /\ ~IsNonce(m, q)
    BY <2>3 DEF Serves, IsNonce
  <2>5. Serves(q)' => Serves(q)
    BY <2>1 DEF Serves
  <2> QED
    BY <1>5, <2>3, <2>4, <2>5
<1> QED
  BY <1>9, <1>11, <1>12, <1>13, <1>14, <1>15, <1>16, <1>17, <1>18, Zenon DEF Frame

LEMMA OnceFrame ==
  ASSUME TypeInv, NEW q \in Calls, CallOnce(q), NonceOnce(q), FrameTurn(q),
         UNCHANGED <<toPage, fromPage, heard>>
  PROVE  CallOnce(q)' /\ NonceOnce(q)'
<1>1. up \in Seq(UpMsg) /\ down \in Seq(DownMsg)
  BY DEF TypeInv, ChannelTypes
<1>2. \A d \in Docs : /\ NoCallIn(fromPage[d], q)' <=> NoCallIn(fromPage[d], q)
                      /\ OneCall(fromPage[d], q)' <=> OneCall(fromPage[d], q)
                      /\ NoReply(toPage[d], q)' <=> NoReply(toPage[d], q)
                      /\ NoNonce(toPage[d], q)' <=> NoNonce(toPage[d], q)
                      /\ NonceFirst(toPage[d], q)' <=> NonceFirst(toPage[d], q)
  BY DEF NoCallIn, OneCall, NoReply, NoNonce, NonceFirst
<1>3. OneCall(down', q) /\ (NoCallIn(down, q) => NoCallIn(down', q))
  <2>1. OneCall(down, q)
    BY DEF CallOnce
  <2>2. CASE down' = <<>>
    BY <2>2, OnceEmpty
  <2>3. CASE down # <<>> /\ down' = Tail(down)
    <3>1. OneCall(Tail(down), q) /\ (NoCallIn(down, q) => NoCallIn(Tail(down), q))
      BY <1>1, <2>1, <2>3, OnceTail
    <3> QED
      BY <2>3, <3>1
  <2> QED
    BY <2>1, <2>2, <2>3 DEF FrameTurn
<1>4. CASE Taken(q)
  <2>1. down # <<>> /\ IsCall(Head(down), q) /\ down' = Tail(down)
    BY <1>4, Zenon DEF Taken
  <2>2. ~NoCallIn(down, q) /\ NoCallIn(down', q)
    BY <1>1, <2>1, OnceTail, Zenon DEF CallOnce
  <2>3. Quiet(q) /\ \A d \in Docs : NoCallIn(fromPage[d], q)
    BY <2>2, Zenon DEF CallOnce
  <2>4. NonceFirst(up', q)
    <3>1. NonceFirst(up, q) /\ NoReply(up, q)
      BY <2>3 DEF Quiet, NonceOnce
    <3>2. \A m \in UpMsg : NonceFirst(Append(up, m), q)
      BY <1>1, <3>1, OnceAppend
    <3> QED
      BY <3>1, <3>2 DEF FrameTurn
  <2>5. CallOnce(q)'
    BY <1>2, <1>3, <2>2, <2>3 DEF CallOnce, NoCallIn, OneCall
  <2>6. /\ \A d \in Docs : NonceFirst(toPage[d], q)' /\ NoReply(toPage[d], q)'
        /\ heard'[q] = <<>>
    BY <1>2, <2>3 DEF NonceOnce, Quiet
  <2>7. NonceOnce(q)'
    BY <2>4, <2>6 DEF NonceOnce, NonceFirst
  <2> QED
    BY <2>5, <2>7
<1>5. CASE ~Taken(q)
  <2>1. up' = up \/ \E m \in UpMsg : up' = Append(up, m) /\ (m.nonce = q => Serves(q) /\ ~IsNonce(m, q))
    BY <1>5, Zenon DEF FrameTurn
  <2>2. NonceFirst(up', q) /\ (NoNonce(up, q) => NoNonce(up', q)) /\ (~Serves(q) /\ NoReply(up, q) => NoReply(up', q))
    <3>1. CASE up' = up
      BY <3>1 DEF NonceOnce
    <3>2. ASSUME NEW m \in UpMsg, up' = Append(up, m), m.nonce = q => Serves(q) /\ ~IsNonce(m, q)
          PROVE  NonceFirst(up', q) /\ (NoNonce(up, q) => NoNonce(up', q)) /\ (~Serves(q) /\ NoReply(up, q) => NoReply(up', q))
      <4>1. ~IsNonce(m, q)
        BY <3>2 DEF IsNonce
      <4>2. NonceFirst(up, q)
        BY DEF NonceOnce
      <4> QED
        BY <1>1, <3>2, <4>1, <4>2, OnceAppend, Zenon
    <3> QED
      BY <2>1, <3>1, <3>2
  <2>3. Quiet(q) => NoReply(up', q) /\ ~Serves(q)' /\ heard'[q] = <<>> /\ \A d \in Docs : NoReply(toPage[d], q)'
    BY <1>2, <1>5, <2>2 DEF Quiet, FrameTurn
  <2>4. Quiet(q) => Quiet(q)'
    BY <2>3 DEF Quiet, NoReply
  <2>5. CallOnce(q)'
    <3>1. NoCallIn(down', q) \/ (Quiet(q)' /\ \A d \in Docs : NoCallIn(fromPage[d], q)')
      BY <1>2, <1>3, <2>4, Zenon DEF CallOnce
    <3>2. \A d \in Docs : OneCall(fromPage[d], q)' /\ (NoCallIn(fromPage[d], q)' \/ Quiet(q)')
      BY <1>2, <2>4, Zenon DEF CallOnce
    <3> QED
      BY <1>3, <3>1, <3>2 DEF CallOnce, OneCall, NoCallIn
  <2>6. NonceOnce(q)'
    <3>1. NoNonce(up', q) \/ (heard'[q] = <<>> /\ \A d \in Docs : NoReply(toPage[d], q)')
      BY <1>2, <2>2 DEF NonceOnce
    <3>2. \A d \in Docs : NonceFirst(toPage[d], q)' /\ (NoNonce(toPage[d], q)' \/ heard'[q] = <<>>)
      BY <1>2 DEF NonceOnce
    <3> QED
      BY <2>2, <3>1, <3>2 DEF NonceOnce, NonceFirst, NoNonce
  <2> QED
    BY <2>5, <2>6
<1> QED
  BY <1>4, <1>5

\* The background takes a message and passes it on.
LEMMA OncePassed ==
  ASSUME TypeInv, NEW q \in Calls, CallOnce(q), NonceOnce(q),
         UNCHANGED <<down, fromPage, heard, kernelQueries>>,
         up # <<>>, up' = Tail(up), NEW m \in UpMsg, m = Head(up),
         \A d \in Docs : \/ toPage'[d] = toPage[d]
                         \/ toPage'[d] = Append(toPage[d], m)
                         \/ m.nonce # q /\ toPage'[d] = Append(Append(toPage[d], m), m)
  PROVE  CallOnce(q)' /\ NonceOnce(q)'
<1>1. up \in Seq(UpMsg) /\ \A d \in Docs : toPage[d] \in Seq(UpMsg) /\ Append(toPage[d], m) \in Seq(UpMsg)
  BY AppendIsSeq DEF TypeInv, ChannelTypes
<1>2. Serves(q)' <=> Serves(q)
  BY DEF Serves
<1>3. /\ NonceFirst(up', q) /\ (NoNonce(up, q) => NoNonce(up', q)) /\ (NoReply(up, q) => NoReply(up', q) /\ m.nonce # q)
      /\ m.nonce = q => NoNonce(up', q)
      /\ IsNonce(m, q) => ~NoNonce(up, q)
  BY <1>1, OnceTail, Zenon DEF NonceOnce
<1>4. \A d \in Docs : NoReply(toPage[d], q) /\ m.nonce # q => NoReply(toPage'[d], q)
  <2>1. ASSUME NEW d \in Docs, NoReply(toPage[d], q), m.nonce # q
        PROVE  NoReply(Append(toPage[d], m), q) /\ NoReply(Append(Append(toPage[d], m), m), q)
    BY <1>1, <2>1, OnceAppend
  <2> QED
    BY <2>1
<1>5. \A d \in Docs : NoNonce(toPage[d], q) /\ ~IsNonce(m, q) => NoNonce(toPage'[d], q)
  <2>1. ASSUME NEW d \in Docs, NoNonce(toPage[d], q), ~IsNonce(m, q)
        PROVE  NoNonce(Append(toPage[d], m), q) /\ NoNonce(Append(Append(toPage[d], m), m), q)
    BY <1>1, <2>1, OnceAppend
  <2> QED
    BY <2>1
<1>6. ASSUME NEW d \in Docs PROVE NonceFirst(toPage'[d], q)
  <2>1. NonceFirst(toPage[d], q)
    BY DEF NonceOnce
  <2>2. NoReply(toPage[d], q) \/ ~IsNonce(m, q)
    BY <1>3 DEF NonceOnce
  <2>3. NonceFirst(Append(toPage[d], m), q)
    BY <1>1, <2>1, <2>2, OnceAppend
  <2>4. m.nonce # q => NonceFirst(Append(Append(toPage[d], m), m), q)
    <3>1. m.nonce # q => ~IsNonce(m, q)
      BY DEF IsNonce
    <3> QED
      BY <1>1, <2>3, <3>1, OnceAppend
  <2> QED
    BY <2>1, <2>3, <2>4
<1>7. Quiet(q) => Quiet(q)'
  <2>1. Quiet(q) => NoReply(up', q) /\ heard'[q] = <<>> /\ \A d \in Docs : NoReply(toPage'[d], q)
    BY <1>3, <1>4 DEF Quiet
  <2> QED
    BY <1>2, <2>1 DEF Quiet, NoReply
<1>8. CallOnce(q)'
  BY <1>7 DEF CallOnce, NoCallIn, OneCall
<1>9. NoNonce(up', q) \/ (heard'[q] = <<>> /\ \A d \in Docs : NoReply(toPage'[d], q))
  <2>1. CASE NoNonce(up, q) \/ m.nonce = q
    BY <1>3, <2>1
  <2>2. CASE ~NoNonce(up, q) /\ m.nonce # q
    BY <1>4, <2>2 DEF NonceOnce
  <2> QED
    BY <2>1, <2>2
<1>10. \A d \in Docs : NoNonce(toPage'[d], q) \/ heard'[q] = <<>>
  <2>1. CASE IsNonce(m, q)
    BY <1>3, <2>1 DEF NonceOnce
  <2>2. CASE ~IsNonce(m, q)
    BY <1>5, <2>2 DEF NonceOnce
  <2> QED
    BY <2>1, <2>2
<1>11. NonceOnce(q)'
  BY <1>3, <1>6, <1>9, <1>10 DEF NonceOnce, NonceFirst, NoNonce, NoReply
<1> QED
  BY <1>8, <1>11

\* The bridge's port takes a message of the document: a call goes on or is lost.
LEMMA OnceBridged ==
  ASSUME MentionInv, NEW q \in Calls, CallOnce(q), NonceOnce(q),
         UNCHANGED <<up, toPage, heard, kernelQueries>>,
         NEW d \in Docs, fromPage[d] # <<>>, fromPage' = [fromPage EXCEPT ![d] = Tail(@)],
         NEW m, m = Head(fromPage[d]), down' = down \/ down' = Append(down, m)
  PROVE  CallOnce(q)' /\ NonceOnce(q)'
<1>0. MentionInv /\ TypeInv
  BY DEF MentionInv
<1>1. down \in Seq(DownMsg) /\ fromPage[d] \in Seq(DownMsg) /\ m \in DownMsg
  BY <1>0, TailIsSeq DEF TypeInv, ChannelTypes
<1>2. fromPage'[d] = Tail(fromPage[d]) /\ \A e \in Docs \ {d} : fromPage'[e] = fromPage[e]
  BY <1>0 DEF TypeInv, ChannelTypes
<1>3. \A e \in Docs : OneCall(fromPage[e], q) /\ (NoCallIn(fromPage[e], q) \/ Quiet(q))
  BY DEF CallOnce
<1>4. OneCall(down, q) /\ (NoCallIn(down, q) \/ (Quiet(q) /\ \A e \in Docs : NoCallIn(fromPage[e], q)))
  BY DEF CallOnce
<1>5. Quiet(q)' <=> Quiet(q)
  BY DEF Quiet, Serves
<1>6. /\ OneCall(fromPage'[d], q) /\ (NoCallIn(fromPage[d], q) => NoCallIn(fromPage'[d], q) /\ ~IsCall(m, q))
      /\ IsCall(m, q) => NoCallIn(fromPage'[d], q)
  <2>1. /\ NoCallIn(fromPage[d], q) => NoCallIn(Tail(fromPage[d]), q) /\ ~IsCall(Head(fromPage[d]), q)
        /\ OneCall(fromPage[d], q) =>
               /\ OneCall(Tail(fromPage[d]), q)
               /\ IsCall(Head(fromPage[d]), q) => NoCallIn(Tail(fromPage[d]), q)
    BY <1>1, OnceTail
  <2> QED
    BY <1>2, <1>3, <2>1
<1>7. \A e \in Docs : OneCall(fromPage'[e], q) /\ (NoCallIn(fromPage[e], q) => NoCallIn(fromPage'[e], q))
  BY <1>2, <1>3, <1>6
<1>8. IsCall(m, q) => NoCallIn(down, q) /\ Quiet(q) /\ \A e \in Docs : NoCallIn(fromPage'[e], q)
  <2> SUFFICES ASSUME IsCall(m, q) PROVE NoCallIn(down, q) /\ Quiet(q) /\ \A e \in Docs : NoCallIn(fromPage'[e], q)
    OBVIOUS
  <2>1. ~NoCallIn(fromPage[d], q)
    BY <1>6
  <2>2. NoCallIn(down, q) /\ Quiet(q)
    BY <1>3, <1>4, <2>1
  <2>3. fromPage[d] \in Seq(CallsOf(SentBy(d)))
    BY <1>0 DEF MentionInv, ChannelMentions
  <2>4. queries[q].owner = d
    <3>1. m \in CallsOf(SentBy(d)) /\ m.method = "moduleCall" /\ m.nonce = q
      BY <2>3, TailIsSeq DEF IsCall
    <3> QED
      BY <3>1, CallMention DEF SentBy
  <2>5. ASSUME NEW e \in Docs \ {d} PROVE NoCallIn(fromPage[e], q)
    <3>1. fromPage[e] \in Seq(CallsOf(SentBy(e)))
      BY <1>0 DEF MentionInv, ChannelMentions
    <3>2. ASSUME NEW i \in DOMAIN fromPage[e], IsCall(fromPage[e][i], q) PROVE FALSE
      <4>1. fromPage[e][i] \in CallsOf(SentBy(e)) /\ fromPage[e][i].method = "moduleCall" /\ fromPage[e][i].nonce = q
        BY <3>1, <3>2 DEF IsCall
      <4> QED
        BY <2>4, <4>1, CallMention DEF SentBy
    <3> QED
      BY <3>2 DEF NoCallIn
  <2> QED
    BY <1>6, <1>2, <2>2, <2>5
<1>9. OneCall(down', q)
  <2>1. OneCall(Append(down, m), q)
    BY <1>1, <1>4, <1>8, OnceAppend, Zenon
  <2> QED
    BY <1>4, <2>1
<1>10. NoCallIn(down', q) \/ (Quiet(q) /\ \A e \in Docs : NoCallIn(fromPage'[e], q))
  <2>1. CASE IsCall(m, q)
    BY <1>8, <2>1
  <2>2. CASE ~IsCall(m, q)
    <3>1. NoCallIn(down, q) => NoCallIn(Append(down, m), q)
      BY <1>1, <2>2, OnceAppend
    <3> QED
      BY <1>4, <1>7, <3>1
  <2> QED
    BY <2>1, <2>2
<1>11. \A e \in Docs : NoCallIn(fromPage'[e], q) \/ Quiet(q)
  BY <1>3, <1>7
<1>12. CallOnce(q)'
  BY <1>5, <1>7, <1>9, <1>10, <1>11 DEF CallOnce, OneCall, NoCallIn
<1>13. NonceOnce(q)'
  BY DEF NonceOnce
<1> QED
  BY <1>12, <1>13

\* A new document hears the last status.
LEMMA OnceConnect ==
  ASSUME TypeInv, NEW q \in Calls, CallOnce(q), NonceOnce(q),
         UNCHANGED <<up, down, fromPage, heard, kernelQueries>>,
         \A d \in Docs : toPage'[d] = toPage[d] \/ \E m \in UpMsg : m.nonce # q /\ toPage'[d] = Append(toPage[d], m)
  PROVE  CallOnce(q)' /\ NonceOnce(q)'
<1>1. ASSUME NEW d \in Docs
      PROVE  /\ NoReply(toPage[d], q) => NoReply(toPage'[d], q)
             /\ NoNonce(toPage[d], q) => NoNonce(toPage'[d], q)
             /\ NonceFirst(toPage'[d], q)
  <2>1. toPage[d] \in Seq(UpMsg) /\ NonceFirst(toPage[d], q)
    BY DEF TypeInv, ChannelTypes, NonceOnce
  <2>2. ASSUME NEW m \in UpMsg, m.nonce # q
        PROVE  /\ NoReply(toPage[d], q) => NoReply(Append(toPage[d], m), q)
               /\ NoNonce(toPage[d], q) => NoNonce(Append(toPage[d], m), q)
               /\ NonceFirst(Append(toPage[d], m), q)
    <3>1. ~IsNonce(m, q)
      BY <2>2 DEF IsNonce
    <3> QED
      BY <2>1, <2>2, <3>1, OnceAppend
  <2> QED
    BY <2>1, <2>2
<1>2. Quiet(q) => Quiet(q)'
  BY <1>1 DEF Quiet, Serves, NoReply
<1>3. CallOnce(q)'
  BY <1>2 DEF CallOnce, OneCall, NoCallIn
<1>4. NonceOnce(q)'
  BY <1>1 DEF NonceOnce, NonceFirst, NoNonce, NoReply
<1> QED
  BY <1>3, <1>4

LEMMA OnceBackground ==
  ASSUME MentionInv, Background, NEW q \in Calls, CallOnce(q), NonceOnce(q)
  PROVE  CallOnce(q)' /\ NonceOnce(q)'
<1>0. TypeInv
  BY DEF MentionInv
<1>1. UNCHANGED <<heard, kernelQueries>>
  BY Zenon DEF Background, HandleAuthStatus, HandleReply, Connect, HandleBridgeMessage, PortDisconnected,
     pageVars, frameVars
<1>2. \A m \in StatusMsg : m.nonce # q /\ m \in UpMsg
  BY ExtensionRelayAssumption DEF ExtensionRelayAssumption, StatusMsg, UpMsg
<1>3. up # <<>> => Head(up) \in UpMsg
  BY <1>0, TailIsSeq DEF TypeInv, ChannelTypes
<1>4. \A d \in Docs : toPage[d] \in Seq(UpMsg)
  BY <1>0 DEF TypeInv, ChannelTypes
<1>5. CASE HandleAuthStatus
  <2>1. PICK m : m = Head(up)
    OBVIOUS
  <2>2. /\ up # <<>> /\ m.method = "kernelAuthStatus" /\ up' = Tail(up) /\ UNCHANGED <<down, fromPage>>
        /\ SendTo(OpenPorts, <<m, m>>) \/ SendTo(OpenPorts, <<m>>)
    BY <1>5, <2>1, Zenon DEF HandleAuthStatus, TakeUp
  <2>3. m \in UpMsg /\ m.nonce # q
    BY <1>2, <1>3, <2>1, <2>2, UpMessages
  <2>4. \A d \in Docs : toPage'[d] = toPage[d] \/ toPage'[d] = toPage[d] \o <<m>> \/ toPage'[d] = toPage[d] \o <<m, m>>
    BY <2>2, Zenon DEF SendTo
  <2>5. \A d \in Docs : toPage[d] \o <<m>> = Append(toPage[d], m) /\ toPage[d] \o <<m, m>> = Append(Append(toPage[d], m), m)
    BY <1>4, <2>3, SendIsAppend
  <2>6. \A d \in Docs : \/ toPage'[d] = toPage[d]
                        \/ toPage'[d] = Append(toPage[d], m)
                        \/ m.nonce # q /\ toPage'[d] = Append(Append(toPage[d], m), m)
    BY <2>3, <2>4, <2>5
  <2> QED
    BY <1>0, <1>1, <2>1, <2>2, <2>3, <2>6, OncePassed
<1>6. CASE HandleReply
  <2>1. PICK m : m = Head(up)
    OBVIOUS
  <2> DEFINE D == OpenPorts \cap {queries[m.nonce].owner}
  <2>2. /\ up # <<>> /\ up' = Tail(up) /\ UNCHANGED <<down, fromPage>>
        /\ SendTo(D, <<m>>) \/ UNCHANGED toPage
    BY <1>6, <2>1, Zenon DEF HandleReply, TakeUp
  <2>3. m \in UpMsg
    BY <1>3, <2>1, <2>2
  <2>4. \A d \in Docs : toPage'[d] = toPage[d] \/ toPage'[d] = toPage[d] \o <<m>>
    BY <2>2, Zenon DEF SendTo
  <2>5. \A d \in Docs : toPage[d] \o <<m>> = Append(toPage[d], m)
    BY <1>4, <2>3, SendIsAppend
  <2>6. \A d \in Docs : \/ toPage'[d] = toPage[d]
                        \/ toPage'[d] = Append(toPage[d], m)
                        \/ m.nonce # q /\ toPage'[d] = Append(Append(toPage[d], m), m)
    BY <2>4, <2>5
  <2> QED
    BY <1>0, <1>1, <2>1, <2>2, <2>3, <2>6, OncePassed
<1>7. ASSUME NEW d \in Docs, Connect(d) PROVE CallOnce(q)' /\ NonceOnce(q)'
  <2>1. /\ UNCHANGED <<up, down, fromPage>>
        /\ toPage' = toPage \/ (authStatus # Unknown /\ toPage' = [toPage EXCEPT ![d] = Append(@, authStatus)])
    BY <1>7, Zenon DEF Connect
  <2>2. PICK m : m = authStatus
    OBVIOUS
  <2>3. authStatus # Unknown => m \in UpMsg /\ m.nonce # q
    BY <1>0, <1>2, <2>2 DEF TypeInv, BackTypes
  <2>4. \A e \in Docs : toPage'[e] = toPage[e] \/ (authStatus # Unknown /\ toPage'[e] = Append(toPage[e], m))
    BY <1>0, <2>1, <2>2 DEF TypeInv, ChannelTypes
  <2>5. \A e \in Docs : toPage'[e] = toPage[e] \/ \E n \in UpMsg : n.nonce # q /\ toPage'[e] = Append(toPage[e], n)
    BY <2>3, <2>4
  <2> QED
    BY <1>0, <1>1, <2>1, <2>5, OnceConnect
<1>8. ASSUME NEW d \in Docs, HandleBridgeMessage(d) PROVE CallOnce(q)' /\ NonceOnce(q)'
  <2>1. PICK m : m = Head(fromPage[d])
    OBVIOUS
  <2>2. /\ fromPage[d] # <<>> /\ fromPage' = [fromPage EXCEPT ![d] = Tail(@)] /\ UNCHANGED <<up, toPage>>
        /\ down' = down \/ down' = Append(down, m)
    BY <1>8, <2>1, Zenon DEF HandleBridgeMessage
  <2> QED
    BY <1>1, <2>1, <2>2, OnceBridged
<1>9. ASSUME NEW d \in Docs, PortDisconnected(d) PROVE CallOnce(q)' /\ NonceOnce(q)'
  <2>1. UNCHANGED <<up, down, toPage, fromPage>>
    BY <1>9, Zenon DEF PortDisconnected
  <2>2. Quiet(q)' <=> Quiet(q)
    BY <1>1, <2>1 DEF Quiet, Serves
  <2> QED
    BY <1>1, <2>1, <2>2 DEF CallOnce, NonceOnce
<1> QED
  BY <1>5, <1>6, <1>7, <1>8, <1>9, Zenon DEF Background

Unsent(q) == Quiet(q) /\ NoCallIn(down, q) /\ \A d \in Docs : NoCallIn(fromPage[d], q)

\* A step of a page: it posts the call of a query it had not sent, or none, and
\* may hear the first reply on its way.
LEMMA OncePage ==
  ASSUME TypeInv, NEW q \in Calls, CallOnce(q), NonceOnce(q), UNCHANGED <<up, down, kernelQueries>>,
         \A d \in Docs : OneCall(fromPage'[d], q),
         Unsent(q) \/ \A d \in Docs : NoCallIn(fromPage[d], q) => NoCallIn(fromPage'[d], q),
         \A d \in Docs : \/ toPage'[d] = toPage[d] \/ toPage'[d] = <<>>
                         \/ (toPage[d] # <<>> /\ toPage'[d] = Tail(toPage[d])),
         \/ heard'[q] = heard[q]
         \/ \E d \in Docs : /\ toPage[d] # <<>> /\ Head(toPage[d]).nonce = q /\ toPage'[d] = Tail(toPage[d])
                            /\ \A e \in Docs \ {d} : NoReply(toPage[e], q)
  PROVE  CallOnce(q)' /\ NonceOnce(q)'
<1>1. ASSUME NEW d \in Docs
      PROVE  /\ NoReply(toPage[d], q) => NoReply(toPage'[d], q)
             /\ NoNonce(toPage[d], q) => NoNonce(toPage'[d], q)
             /\ NonceFirst(toPage'[d], q)
  <2>1. toPage[d] \in Seq(UpMsg) /\ NonceFirst(toPage[d], q)
    BY DEF TypeInv, ChannelTypes, NonceOnce
  <2>2. toPage[d] # <<>> => /\ NoReply(toPage[d], q) => NoReply(Tail(toPage[d]), q)
                            /\ NoNonce(toPage[d], q) => NoNonce(Tail(toPage[d]), q)
                            /\ NonceFirst(Tail(toPage[d]), q)
    BY <2>1, OnceTail
  <2>3. toPage'[d] = <<>> => NoReply(toPage'[d], q) /\ NoNonce(toPage'[d], q) /\ NonceFirst(toPage'[d], q)
    BY OnceEmpty
  <2> QED
    BY <2>1, <2>2, <2>3
<1>2. \A s : NoReply(s, q) => NoNonce(s, q)
  BY DEF NoReply, NoNonce, IsNonce
<1>3. CASE heard'[q] = heard[q]
  <2>1. Quiet(q) => Quiet(q)'
    BY <1>1, <1>3 DEF Quiet, Serves, NoReply
  <2>2. CallOnce(q)'
    <3>1. NoCallIn(down', q) \/ (Quiet(q)' /\ \A d \in Docs : NoCallIn(fromPage'[d], q))
      BY <2>1 DEF CallOnce, Unsent
    <3>2. \A d \in Docs : NoCallIn(fromPage'[d], q) \/ Quiet(q)'
      BY <2>1 DEF CallOnce, Unsent
    <3>3. OneCall(down', q)
      BY DEF CallOnce
    <3> QED
      BY <3>1, <3>2, <3>3 DEF CallOnce, OneCall, NoCallIn
  <2>3. NonceOnce(q)'
    BY <1>1, <1>3 DEF NonceOnce, NonceFirst, NoNonce, NoReply
  <2> QED
    BY <2>2, <2>3
<1>4. ASSUME NEW d \in Docs, toPage[d] # <<>>, Head(toPage[d]).nonce = q, toPage'[d] = Tail(toPage[d]),
             \A e \in Docs \ {d} : NoReply(toPage[e], q)
      PROVE  CallOnce(q)' /\ NonceOnce(q)'
  <2>1. toPage[d] \in Seq(UpMsg) /\ NonceFirst(toPage[d], q)
    BY DEF TypeInv, ChannelTypes, NonceOnce
  <2>2. ~NoReply(toPage[d], q) /\ NoNonce(Tail(toPage[d]), q)
    BY <1>4, <2>1, OnceTail
  <2>3. ~Quiet(q)
    BY <2>2 DEF Quiet
  <2>4. NoCallIn(down, q) /\ \A e \in Docs : NoCallIn(fromPage[e], q)
    BY <2>3 DEF CallOnce
  <2>5. \A e \in Docs : NoCallIn(fromPage'[e], q)
    BY <2>3, <2>4 DEF Unsent
  <2>6. CallOnce(q)'
    BY <2>4, <2>5 DEF CallOnce, OneCall, NoCallIn
  <2>7. NoNonce(up, q)
    BY <2>2 DEF NonceOnce
  <2>8. \A e \in Docs : NoNonce(toPage'[e], q)
    <3>1. ASSUME NEW e \in Docs, e # d PROVE NoNonce(toPage'[e], q)
      BY <1>1, <1>2, <1>4, <3>1
    <3> QED
      BY <1>4, <2>2, <3>1
  <2>9. NonceOnce(q)'
    BY <1>1, <2>7, <2>8 DEF NonceOnce, NonceFirst, NoNonce
  <2> QED
    BY <2>6, <2>9
<1> QED
  BY <1>3, <1>4

\* What a document posts comes last.
LEMMA OncePost ==
  ASSUME TypeInv, NEW q \in Calls, CallOnce(q), NEW d \in Docs, NEW ms \in Seq(DownMsg), Post(d, ms),
         NoCallIn(ms, q) \/ (OneCall(ms, q) /\ Unsent(q))
  PROVE  /\ \A e \in Docs : OneCall(fromPage'[e], q)
         /\ Unsent(q) \/ \A e \in Docs : NoCallIn(fromPage[e], q) => NoCallIn(fromPage'[e], q)
<1>1. fromPage[d] \in Seq(DownMsg) /\ DOMAIN fromPage = Docs /\ fromPage' = [fromPage EXCEPT ![d] = fromPage[d] \o ms]
  BY DEF TypeInv, ChannelTypes, Post
<1>2. fromPage'[d] = fromPage[d] \o ms /\ \A e \in Docs \ {d} : fromPage'[e] = fromPage[e]
  BY <1>1
<1>3. \A e \in Docs : OneCall(fromPage[e], q)
  BY DEF CallOnce
<1>4. /\ NoCallIn(fromPage[d], q) /\ NoCallIn(ms, q) => NoCallIn(fromPage[d] \o ms, q)
      /\ OneCall(fromPage[d], q) /\ NoCallIn(ms, q) => OneCall(fromPage[d] \o ms, q)
      /\ NoCallIn(fromPage[d], q) /\ OneCall(ms, q) => OneCall(fromPage[d] \o ms, q)
  BY <1>1, OnceConcat, Zenon
<1>5. Unsent(q) => NoCallIn(fromPage[d], q)
  BY DEF Unsent
<1>6. OneCall(fromPage[d] \o ms, q)
  BY <1>3, <1>4, <1>5
<1>7. Unsent(q) \/ (NoCallIn(fromPage[d], q) => NoCallIn(fromPage[d] \o ms, q))
  BY <1>4
<1> QED
  BY <1>2, <1>3, <1>6, <1>7

\* A query that was not sent is mentioned nowhere.
LEMMA UnsentCalls ==
  ASSUME MentionInv, NEW q \in Calls, q \notin SentCalls PROVE Unsent(q)
<1>1. /\ up \in Seq(RepliesTo(SentCalls)) /\ down \in Seq(CallsOf(SentCalls))
      /\ \A d \in Docs : toPage[d] \in Seq(RepliesTo(SentBy(d)))
      /\ \A d \in Docs : fromPage[d] \in Seq(CallsOf(SentBy(d)))
  BY DEF MentionInv, ChannelMentions
<1>2. \A d : q \notin SentBy(d)
  BY DEF SentBy
<1>3. \A Q : q \notin Q => \A s \in Seq(RepliesTo(Q)) : NoReply(s, q)
  BY DEF NoReply, RepliesTo
<1>4. \A Q : q \notin Q => \A s \in Seq(CallsOf(Q)) : NoCallIn(s, q)
  BY DEF NoCallIn, CallsOf, IsCall
<1>5. NoReply(up, q) /\ \A d \in Docs : NoReply(toPage[d], q)
  BY <1>1, <1>2, <1>3
<1>6. NoCallIn(down, q) /\ \A d \in Docs : NoCallIn(fromPage[d], q)
  BY <1>1, <1>2, <1>4
<1>7. heard[q] = <<>> /\ ~Serves(q)
  BY DEF MentionInv, PageMentions, MapMentions, Serves
<1> QED
  BY <1>5, <1>6, <1>7 DEF Unsent, Quiet

LEMMA OnceSingle ==
  ASSUME NEW m, NEW q PROVE OneCall(<<m>>, q) /\ (~IsCall(m, q) => NoCallIn(<<m>>, q))
<1>1. DOMAIN <<m>> = {1} /\ <<m>>[1] = m
  OBVIOUS
<1> QED
  BY <1>1 DEF OneCall, NoCallIn

LEMMA NoPost ==
  ASSUME NEW q, CallOnce(q), UNCHANGED fromPage
  PROVE  /\ \A e \in Docs : OneCall(fromPage'[e], q)
         /\ Unsent(q) \/ \A e \in Docs : NoCallIn(fromPage[e], q) => NoCallIn(fromPage'[e], q)
  BY DEF CallOnce

LEMMA OnceNewQuery ==
  ASSUME OnceInv, NEW d \in Docs, NEW q \in Calls, NEW updates \in BOOLEAN, NewKernelQuery(d, q, updates)
  PROVE  WaitOnce' /\ \A p \in Calls : CallOnce(p)' /\ NonceOnce(p)'
<1>0. MentionInv /\ TypeInv
  BY DEF OnceInv, MentionInv
<1>1. PICK m : m = Request("moduleCall", q, updates)
  OBVIOUS
<1>2. /\ queries[q].phase = "idle"
      /\ UNCHANGED <<up, down, toPage, heard, kernelQueries>>
      /\ \/ waiting' = [waiting EXCEPT ![d] = Append(@, q)] /\ UNCHANGED fromPage
         \/ Post(d, <<m>>) /\ UNCHANGED waiting
  BY <1>1, Zenon DEF NewKernelQuery, frameVars
<1>3. m \in DownMsg /\ m.method = "moduleCall" /\ m.nonce = q
  BY <1>1, MadeRequests DEF Request, DownMsg
<1>4. q \notin SentCalls /\ q \notin WaitsIn(d)
  BY <1>2 DEF SentCalls, WaitsIn
<1>5. ASSUME NEW p \in Calls PROVE CallOnce(p)' /\ NonceOnce(p)'
  <2>1. CallOnce(p) /\ NonceOnce(p)
    BY DEF OnceInv
  <2>2. /\ \A e \in Docs : OneCall(fromPage'[e], p)
        /\ Unsent(p) \/ \A e \in Docs : NoCallIn(fromPage[e], p) => NoCallIn(fromPage'[e], p)
    <3>1. CASE UNCHANGED fromPage
      BY <2>1, <3>1, NoPost
    <3>2. CASE Post(d, <<m>>)
      <4>1. <<m>> \in Seq(DownMsg)
        BY <1>3
      <4>2. NoCallIn(<<m>>, p) \/ (OneCall(<<m>>, p) /\ Unsent(p))
        <5>1. p = q => Unsent(p)
          BY <1>0, <1>4, UnsentCalls
        <5>2. p # q => ~IsCall(m, p)
          BY <1>3 DEF IsCall
        <5> QED
          BY <5>1, <5>2, OnceSingle
      <4> QED
        BY <1>0, <2>1, <3>2, <4>1, <4>2, OncePost
    <3> QED
      BY <1>2, <3>1, <3>2
  <2> QED
    BY <1>0, <1>2, <2>1, <2>2, OncePage
<1>6. WaitOnce'
  <2>1. WaitOnce
    BY DEF OnceInv
  <2>2. CASE UNCHANGED waiting
    BY <2>1, <2>2 DEF WaitOnce
  <2>3. CASE waiting' = [waiting EXCEPT ![d] = Append(@, q)]
    <3>1. waiting[d] \in Seq(Calls) /\ DOMAIN waiting = Docs
      BY <1>0 DEF TypeInv, PageTypes
    <3>2. waiting'[d] = Append(waiting[d], q) /\ \A e \in Docs \ {d} : waiting'[e] = waiting[e]
      BY <2>3, <3>1
    <3>3. \A i \in DOMAIN waiting[d] : waiting[d][i] # q
      <4>1. waiting[d] \in Seq(WaitsIn(d))
        BY <1>0 DEF MentionInv, PageMentions
      <4> QED
        BY <1>4, <4>1
    <3>4. ASSUME NEW i \in DOMAIN Append(waiting[d], q), NEW j \in DOMAIN Append(waiting[d], q),
                 Append(waiting[d], q)[i] = Append(waiting[d], q)[j]
          PROVE  i = j
      <4> DEFINE s == waiting[d]
                 z == Len(s)
      <4>1. /\ z \in Nat /\ DOMAIN s = 1 .. z /\ DOMAIN Append(s, q) = 1 .. z + 1
            /\ \A k \in 1 .. z : Append(s, q)[k] = s[k]
            /\ Append(s, q)[z + 1] = q
        BY <3>1
      <4>2. \A k, l \in DOMAIN s : s[k] = s[l] => k = l
        BY <2>1 DEF WaitOnce
      <4>3. \A k \in DOMAIN Append(s, q) : (k \in DOMAIN s /\ Append(s, q)[k] = s[k]) \/ (k = z + 1 /\ Append(s, q)[k] = q)
        BY <4>1
      <4> HIDE DEF z
      <4> QED
        BY <3>3, <3>4, <4>2, <4>3
    <3> QED
      BY <2>1, <3>2, <3>4 DEF WaitOnce
  <2> QED
    BY <1>2, <2>2, <2>3
<1> QED
  BY <1>5, <1>6

LEMMA OnceUpdate ==
  ASSUME OnceInv, NEW q \in Calls, SendUpdate(q)
  PROVE  WaitOnce' /\ \A p \in Calls : CallOnce(p)' /\ NonceOnce(p)'
<1>0. MentionInv /\ TypeInv
  BY DEF OnceInv, MentionInv
<1>1. PICK d \in Docs : d = queries[q].owner
  BY <1>0 DEF SendUpdate, TypeInv, PageTypes, QueriesOwned
<1>2. PICK m : m = QueryUpdate(q, queries[q].kernelNonce, asked[q] + 1)
  OBVIOUS
<1>3. /\ UNCHANGED <<up, down, toPage, heard, kernelQueries, waiting>>
      /\ UNCHANGED fromPage \/ Post(d, <<m>>)
  BY <1>1, <1>2, Zenon DEF SendUpdate, frameVars
<1>4. m \in DownMsg /\ m.method = "queryUpdate"
  <2>1. queries[q].kernelNonce \in Nat /\ asked[q] + 1 \in Nat
    BY <1>0, Successor DEF TypeInv, PageTypes, Query
  <2>2. m \in UpdateMsg
    BY <1>2, <2>1, MadeRequests
  <2> QED
    BY <2>2 DEF UpdateMsg, DownMsg
<1>5. ASSUME NEW p \in Calls PROVE CallOnce(p)' /\ NonceOnce(p)'
  <2>1. CallOnce(p) /\ NonceOnce(p)
    BY DEF OnceInv
  <2>2. /\ \A e \in Docs : OneCall(fromPage'[e], p)
        /\ Unsent(p) \/ \A e \in Docs : NoCallIn(fromPage[e], p) => NoCallIn(fromPage'[e], p)
    <3>1. CASE UNCHANGED fromPage
      BY <2>1, <3>1, NoPost
    <3>2. CASE Post(d, <<m>>)
      <4>1. <<m>> \in Seq(DownMsg) /\ NoCallIn(<<m>>, p)
        BY <1>4, OnceSingle DEF IsCall
      <4> QED
        BY <1>0, <2>1, <3>2, <4>1, OncePost
    <3> QED
      BY <1>3, <3>1, <3>2
  <2> QED
    BY <1>0, <1>3, <2>1, <2>2, OncePage
<1>6. WaitOnce'
  BY <1>3 DEF OnceInv, WaitOnce
<1> QED
  BY <1>5, <1>6

\* The queries that waited are called, each once.
LEMMA OnceStatus ==
  ASSUME OnceInv, NEW d \in Docs, HandleStatus(d)
  PROVE  WaitOnce' /\ \A p \in Calls : CallOnce(p)' /\ NonceOnce(p)'
<1>0. MentionInv /\ TypeInv
  BY DEF OnceInv, MentionInv
<1>1. PICK s : s = waiting[d]
  OBVIOUS
<1>2. PICK ms : ms = [i \in DOMAIN s |-> Call(s[i])]
  OBVIOUS
<1>3. /\ UNCHANGED <<up, down, heard, kernelQueries>>
      /\ toPage[d] # <<>> /\ toPage' = [toPage EXCEPT ![d] = Tail(@)]
      /\ waiting' = waiting \/ waiting' = [waiting EXCEPT ![d] = <<>>]
      /\ UNCHANGED fromPage \/ Post(d, ms)
  BY <1>1, <1>2, Zenon DEF HandleStatus, TakePage, frameVars
<1>4. ms \in Seq(DownMsg) /\ DOMAIN ms = DOMAIN s
  <2>1. \A e \in Docs : [i \in DOMAIN waiting[e] |-> Call(waiting[e][i])] \in Seq(DownMsg)
    BY <1>0, PostedTypes DEF TypeInv
  <2> QED
    BY <1>1, <1>2, <2>1
<1>5. s \in Seq(Calls) /\ s \in Seq(WaitsIn(d)) /\ \A i, j \in DOMAIN s : s[i] = s[j] => i = j
  BY <1>0, <1>1 DEF OnceInv, WaitOnce, MentionInv, PageMentions, TypeInv, PageTypes
<1>6. \A i \in DOMAIN s : ms[i].nonce = s[i]
  BY <1>2 DEF Call, Request
<1>7. \A e \in Docs : toPage'[e] = toPage[e] \/ (toPage[e] # <<>> /\ toPage'[e] = Tail(toPage[e]))
  BY <1>0, <1>3 DEF TypeInv, ChannelTypes
<1>8. ASSUME NEW p \in Calls PROVE CallOnce(p)' /\ NonceOnce(p)'
  <2>1. CallOnce(p) /\ NonceOnce(p)
    BY DEF OnceInv
  <2>2. OneCall(ms, p)
    BY <1>4, <1>5, <1>6 DEF OneCall, IsCall
  <2>3. NoCallIn(ms, p) \/ Unsent(p)
    <3>1. CASE \E i \in DOMAIN s : s[i] = p
      <4>1. p \in WaitsIn(d)
        BY <1>5, <3>1
      <4>2. p \notin SentCalls
        BY <4>1 DEF WaitsIn, SentCalls
      <4> QED
        BY <1>0, <4>2, UnsentCalls
    <3>2. CASE ~ \E i \in DOMAIN s : s[i] = p
      BY <1>4, <1>6, <3>2 DEF NoCallIn, IsCall
    <3> QED
      BY <3>1, <3>2
  <2>4. /\ \A e \in Docs : OneCall(fromPage'[e], p)
        /\ Unsent(p) \/ \A e \in Docs : NoCallIn(fromPage[e], p) => NoCallIn(fromPage'[e], p)
    <3>1. CASE UNCHANGED fromPage
      BY <2>1, <3>1, NoPost
    <3>2. CASE Post(d, ms)
      BY <1>0, <1>4, <2>1, <2>2, <2>3, <3>2, OncePost
    <3> QED
      BY <1>3, <3>1, <3>2
  <2> QED
    BY <1>0, <1>3, <1>7, <2>1, <2>4, OncePage
<1>9. WaitOnce'
  <2>1. \A e \in Docs : waiting'[e] = waiting[e] \/ waiting'[e] = <<>>
    BY <1>0, <1>3 DEF TypeInv, PageTypes
  <2>2. DOMAIN (<<>>) = {}
    OBVIOUS
  <2> QED
    BY <2>1, <2>2 DEF OnceInv, WaitOnce
<1> QED
  BY <1>8, <1>9

LEMMA OnceReply ==
  ASSUME OnceInv, NEW d \in Docs, HandleResponse(d) \/ HandleResponseUpdate(d) \/ HandleResponseNonce(d)
  PROVE  WaitOnce' /\ \A p \in Calls : CallOnce(p)' /\ NonceOnce(p)'
<1>0. MentionInv /\ TypeInv
  BY DEF OnceInv, MentionInv
<1>1. PICK m : m = Head(toPage[d])
  OBVIOUS
<1>2. PICK q : q = m.nonce
  OBVIOUS
<1>3. PICK ms : ms = [i \in DOMAIN queries[q].held |-> QueryUpdate(q, m.data, queries[q].held[i])]
  OBVIOUS
<1>4. /\ toPage[d] # <<>> /\ toPage' = [toPage EXCEPT ![d] = Tail(@)] /\ m.method # "kernelAuthStatus"
      /\ UNCHANGED <<up, down, kernelQueries, waiting>>
      /\ UNCHANGED heard \/ (Takes(m) /\ heard' = [heard EXCEPT ![q] = Append(@, m)])
      /\ UNCHANGED fromPage \/ (Takes(m) /\ Post(d, ms))
  BY <1>1, <1>2, <1>3, Zenon
  DEF HandleResponse, HandleResponseUpdate, HandleResponseNonce, TakePage, Hear, frameVars
<1>5. Takes(m) => q \in SentBy(d) /\ q \in Calls /\ m.data \in Nat
  <2>1. m \in UpMsg
    BY <1>0, <1>1, <1>4, TailIsSeq DEF TypeInv, ChannelTypes
  <2>2. Takes(m) => m \in ReplyMsg
    BY <1>4, <2>1, WithData DEF Takes
  <2>3. m \in ReplyMsg => q \in Calls /\ m.data \in Nat
    BY <1>2 DEF ReplyMsg
  <2> QED
    BY <1>0, <1>1, <1>2, <1>4, <2>2, <2>3, HeardIsSent
<1>6. toPage'[d] = Tail(toPage[d]) /\ \A e \in Docs \ {d} : toPage'[e] = toPage[e]
  BY <1>0, <1>4 DEF TypeInv, ChannelTypes
<1>7. \A e \in Docs : toPage'[e] = toPage[e] \/ (toPage[e] # <<>> /\ toPage'[e] = Tail(toPage[e]))
  BY <1>4, <1>6
<1>8. Takes(m) => ms \in Seq(DownMsg) /\ \A p : NoCallIn(ms, p)
  <2>1. Takes(m) => ms \in Seq(DownMsg)
    BY <1>0, <1>3, <1>5, PostedTypes DEF TypeInv
  <2>2. \A i \in DOMAIN ms : ms[i].method = "queryUpdate"
    BY <1>3 DEF QueryUpdate, Request
  <2> QED
    BY <2>1, <2>2 DEF NoCallIn, IsCall
<1>9. ASSUME NEW p \in Calls PROVE CallOnce(p)' /\ NonceOnce(p)'
  <2>1. CallOnce(p) /\ NonceOnce(p)
    BY DEF OnceInv
  <2>2. /\ \A e \in Docs : OneCall(fromPage'[e], p)
        /\ Unsent(p) \/ \A e \in Docs : NoCallIn(fromPage[e], p) => NoCallIn(fromPage'[e], p)
    <3>1. CASE UNCHANGED fromPage
      BY <2>1, <3>1, NoPost
    <3>2. CASE Takes(m) /\ Post(d, ms)
      BY <1>0, <1>8, <2>1, <3>2, OncePost
    <3> QED
      BY <1>4, <3>1, <3>2
  <2>3. heard'[p] = heard[p] \/ (p = q /\ Takes(m))
    BY <1>0, <1>4 DEF TypeInv, PageTypes
  <2>4. p = q /\ Takes(m) => \A e \in Docs \ {d} : NoReply(toPage[e], p)
    <3> SUFFICES ASSUME p = q, Takes(m), NEW e \in Docs, e # d PROVE NoReply(toPage[e], p)
      OBVIOUS
    <3>1. p \notin SentBy(e)
      BY <1>5 DEF SentBy
    <3>2. toPage[e] \in Seq(RepliesTo(SentBy(e)))
      BY <1>0 DEF MentionInv, ChannelMentions
    <3>3. PICK Q : Q = SentBy(e)
      OBVIOUS
    <3>4. toPage[e] \in Seq(RepliesTo(Q)) /\ p \notin Q
      BY <3>1, <3>2, <3>3
    <3> QED
      BY <3>4 DEF NoReply, RepliesTo
  <2>5. \/ heard'[p] = heard[p]
        \/ \E e \in Docs : /\ toPage[e] # <<>> /\ Head(toPage[e]).nonce = p /\ toPage'[e] = Tail(toPage[e])
                           /\ \A f \in Docs \ {e} : NoReply(toPage[f], p)
    BY <1>1, <1>2, <1>4, <1>6, <2>3, <2>4
  <2> QED
    BY <1>0, <1>4, <1>7, <2>1, <2>2, <2>5, OncePage
<1>10. WaitOnce'
  BY <1>4 DEF OnceInv, WaitOnce
<1> QED
  BY <1>9, <1>10

LEMMA OnceLeave ==
  ASSUME OnceInv, NEW d \in Docs, Leave(d)
  PROVE  WaitOnce' /\ \A p \in Calls : CallOnce(p)' /\ NonceOnce(p)'
<1>0. MentionInv /\ TypeInv
  BY DEF OnceInv, MentionInv
<1>1. PICK n \in 0 .. Len(fromPage[d]) : fromPage' = [fromPage EXCEPT ![d] = SubSeq(@, 1, n)]
  BY Zenon DEF Leave
<1>2. toPage' = [toPage EXCEPT ![d] = <<>>] /\ UNCHANGED <<up, down, heard, kernelQueries, waiting>>
  BY Zenon DEF Leave, frameVars
<1>3. \A e \in Docs : toPage'[e] = toPage[e] \/ toPage'[e] = <<>>
  BY <1>0, <1>2 DEF TypeInv, ChannelTypes
<1>4. PICK t : t = SubSeq(fromPage[d], 1, n)
  OBVIOUS
<1>5. \A i \in DOMAIN t : i \in DOMAIN fromPage[d] /\ t[i] = fromPage[d][i]
  <2>1. fromPage[d] \in Seq(DownMsg)
    BY <1>0 DEF TypeInv, ChannelTypes
  <2> QED
    BY <1>4, <2>1, PrefixIsSeq
<1>6. fromPage'[d] = t /\ \A e \in Docs \ {d} : fromPage'[e] = fromPage[e]
  BY <1>0, <1>1, <1>4 DEF TypeInv, ChannelTypes
<1>7. ASSUME NEW p \in Calls PROVE CallOnce(p)' /\ NonceOnce(p)'
  <2>1. CallOnce(p) /\ NonceOnce(p)
    BY DEF OnceInv
  <2>2. OneCall(t, p) /\ (NoCallIn(fromPage[d], p) => NoCallIn(t, p))
    BY <1>5, <2>1 DEF CallOnce, OneCall, NoCallIn
  <2>3. \A e \in Docs : OneCall(fromPage'[e], p) /\ (NoCallIn(fromPage[e], p) => NoCallIn(fromPage'[e], p))
    BY <1>6, <2>1, <2>2 DEF CallOnce
  <2> QED
    BY <1>0, <1>2, <1>3, <2>1, <2>3, OncePage
<1>8. WaitOnce'
  BY <1>2 DEF OnceInv, WaitOnce
<1> QED
  BY <1>7, <1>8

LEMMA OnceInit == ASSUME Init PROVE OnceInv
<1>1. MentionInv
  BY MentionInit
<1>2. WaitOnce
  <2>1. DOMAIN (<<>>) = {}
    OBVIOUS
  <2> QED
    BY <2>1 DEF Init, WaitOnce
<1>3. ASSUME NEW q \in Calls PROVE CallOnce(q) /\ NonceOnce(q)
  <2>1. q \notin SentCalls
    BY <1>3 DEF Init, NoQuery, SentCalls
  <2>2. Unsent(q)
    BY <1>1, <2>1, UnsentCalls
  <2>3. up = <<>> /\ down = <<>> /\ \A d \in Docs : toPage[d] = <<>> /\ fromPage[d] = <<>>
    BY DEF Init
  <2> QED
    BY <2>2, <2>3, OnceEmpty DEF CallOnce, NonceOnce, Unsent, Quiet
<1> QED
  BY <1>1, <1>2, <1>3 DEF OnceInv

LEMMA OnceNext == ASSUME OnceInv, [Next]_vars PROVE OnceInv'
<1>0. MentionInv /\ TypeInv
  BY DEF OnceInv, MentionInv
<1>1. MentionInv'
  BY <1>0, MentionNext
<1>2. CASE UNCHANGED vars
  <2>1. UNCHANGED <<up, down, toPage, fromPage, heard, kernelQueries, waiting>>
    BY <1>2 DEF vars, frameVars, pageVars
  <2>2. \A q : Quiet(q)' <=> Quiet(q)
    BY <2>1 DEF Quiet, Serves
  <2>3. \A q : (CallOnce(q)' <=> CallOnce(q)) /\ (NonceOnce(q)' <=> NonceOnce(q))
    BY <2>1, <2>2 DEF CallOnce, NonceOnce
  <2> QED
    BY <1>1, <2>1, <2>3 DEF OnceInv, WaitOnce
<1>3. CASE Frame
  <2>1. UNCHANGED <<toPage, fromPage, heard, waiting>>
    BY <1>3, Zenon DEF Frame, FrameStarts, FrameLoads, LogOut, Unload, BootloaderAnswers, KernelRefuses, KernelOpens,
       KernelRelaysUpdate, ModuleUpdates, ModuleResponds, pageVars
  <2>2. ASSUME NEW q \in Calls PROVE CallOnce(q)' /\ NonceOnce(q)'
    BY <1>0, <1>3, <2>1, FrameTurns, OnceFrame DEF OnceInv
  <2> QED
    BY <1>1, <2>1, <2>2 DEF OnceInv, WaitOnce
<1>4. CASE Background
  <2>1. UNCHANGED waiting
    BY <1>4, Zenon DEF Background, HandleAuthStatus, HandleReply, Connect, HandleBridgeMessage, PortDisconnected, pageVars
  <2>2. ASSUME NEW q \in Calls PROVE CallOnce(q)' /\ NonceOnce(q)'
    BY <1>0, <1>4, OnceBackground DEF OnceInv
  <2> QED
    BY <1>1, <2>1, <2>2 DEF OnceInv, WaitOnce
<1>5. CASE Page
  <2>1. WaitOnce' /\ \A p \in Calls : CallOnce(p)' /\ NonceOnce(p)'
    BY <1>5, OnceNewQuery, OnceUpdate, OnceStatus, OnceReply, OnceLeave, Zenon DEF Page, Reloads, Closes
  <2> QED
    BY <1>1, <2>1 DEF OnceInv
<1> QED
  BY <1>2, <1>3, <1>4, <1>5 DEF Next

----------------------------------------------------------------------------
(* The phase and the replies that QueryProtocol sees.                      *)

AskedPhase(q) == IF queries[q].phase = "waiting" THEN "open" ELSE queries[q].phase

phases == [q \in Calls |-> AskedPhase(q)]

MethodsOf(s) == [i \in DOMAIN s |-> s[i].method]

answers == [q \in Calls |-> MethodsOf(heard[q])]

\* What is heard is seen by its method.
LEMMA MethodsAppend ==
  ASSUME NEW s \in Seq(ReplyMsg), NEW m \in ReplyMsg
  PROVE  MethodsOf(Append(s, m)) = Append(MethodsOf(s), m.method)
<1> DEFINE t == Append(s, m)
           z == Len(s)
           S == {m.method} \cup {s[i].method : i \in DOMAIN s}
           a == [i \in DOMAIN s |-> s[i].method]
           b == [i \in DOMAIN t |-> t[i].method]
<1>1. /\ z \in Nat /\ DOMAIN s = 1 .. z /\ DOMAIN t = 1 .. z + 1
      /\ \A i \in 1 .. z : t[i] = s[i]
      /\ t[z + 1] = m
  OBVIOUS
<1>2. a \in Seq(S) /\ DOMAIN a = DOMAIN s
  <2>1. a = [i \in DOMAIN s |-> a[i]] /\ \A i \in DOMAIN s : a[i] \in S
    OBVIOUS
  <2> HIDE DEF a, S
  <2> QED
    BY <2>1, MappedIsSeq
<1>3. Len(a) = z
  BY <1>1, <1>2
<1>4. DOMAIN b = 1 .. z + 1 /\ \A i \in 1 .. z + 1 : b[i] = t[i].method
  BY <1>1
<1>5. /\ DOMAIN Append(a, m.method) = 1 .. z + 1
      /\ \A i \in 1 .. z : Append(a, m.method)[i] = a[i]
      /\ Append(a, m.method)[z + 1] = m.method
  <2>1. PICK e : e = m.method
    OBVIOUS
  <2>2. a \in Seq(S \cup {e})
    BY <1>2, SeqWider
  <2> HIDE DEF a, S
  <2>3. /\ DOMAIN Append(a, e) = 1 .. Len(a) + 1
        /\ \A i \in 1 .. Len(a) : Append(a, e)[i] = a[i]
        /\ Append(a, e)[Len(a) + 1] = e
    BY <2>2
  <2> QED
    BY <1>3, <2>1, <2>3
<1>6. \A i \in 1 .. z : b[i] = a[i]
  BY <1>1, <1>4
<1>7. b[z + 1] = m.method
  BY <1>1, <1>4
<1>8. \A i \in 1 .. z + 1 : i \in 1 .. z \/ i = z + 1
  BY <1>1
<1>9. b = [i \in 1 .. z + 1 |-> b[i]] /\ Append(a, m.method) = [i \in 1 .. z + 1 |-> Append(a, m.method)[i]]
  BY <1>1, <1>2, <1>4, <1>5
<1> HIDE DEF a, b, z, t, S
<1>10. \A i \in 1 .. z + 1 : b[i] = Append(a, m.method)[i]
  BY <1>5, <1>6, <1>7, <1>8
<1>11. b = Append(a, m.method)
  BY <1>9, <1>10
<1> QED
  BY <1>11 DEF a, b, t, MethodsOf

LEMMA AnswersStep ==
  ASSUME TypeInv, NEW q \in Calls, NEW m \in ReplyMsg, heard' = [heard EXCEPT ![q] = Append(@, m)]
  PROVE  answers' = [answers EXCEPT ![q] = Append(@, m.method)]
<1>1. heard[q] \in Seq(ReplyMsg) /\ DOMAIN heard = Calls
  BY DEF TypeInv, PageTypes
<1>2. heard'[q] = Append(heard[q], m) /\ \A p \in Calls \ {q} : heard'[p] = heard[p]
  BY <1>1
<1>3. MethodsOf(heard'[q]) = Append(answers[q], m.method)
  BY <1>1, <1>2, MethodsAppend DEF answers
<1>4. \A p \in Calls \ {q} : MethodsOf(heard'[p]) = answers[p]
  BY <1>2 DEF answers
<1>5. answers' = [p \in Calls |-> MethodsOf(heard'[p])] /\ answers = [p \in Calls |-> answers[p]]
  BY DEF answers, MethodsOf
<1> QED
  BY <1>3, <1>4, <1>5

LEMMA PhasesStep ==
  ASSUME NEW q \in Calls, NEW p, p # "waiting", queries'[q].phase = p \/ (queries'[q].phase = "waiting" /\ p = "open"),
         \A r \in Calls \ {q} : queries'[r].phase = queries[r].phase
  PROVE  phases' = [phases EXCEPT ![q] = p]
<1>1. AskedPhase(q)' = p /\ \A r \in Calls \ {q} : AskedPhase(r)' = AskedPhase(r)
  BY DEF AskedPhase
<1> QED
  BY <1>1 DEF phases

LEMMA PhasesKept ==
  ASSUME \A q \in Calls : \/ queries'[q].phase = queries[q].phase
                          \/ queries[q].phase = "waiting" /\ queries'[q].phase = "open"
  PROVE  phases' = phases
<1>1. \A q \in Calls : AskedPhase(q)' = AskedPhase(q)
  BY DEF AskedPhase
<1> QED
  BY <1>1 DEF phases

LEMMA ProtocolSteps ==
  ASSUME NEW q \in Calls
  PROVE  /\ phases[q] = "idle" /\ phases' = [phases EXCEPT ![q] = "open"] /\ answers' = answers => Protocol!Next
         /\ phases[q] = "open" /\ phases' = phases /\ answers[q] = <<>>
              /\ answers' = [answers EXCEPT ![q] = Append(@, "responseNonce")] => Protocol!Next
         /\ phases[q] = "open" /\ phases' = phases
              /\ answers' = [answers EXCEPT ![q] = Append(@, "responseUpdate")] => Protocol!Next
         /\ phases[q] = "open" /\ phases' = [phases EXCEPT ![q] = "closed"]
              /\ answers' = [answers EXCEPT ![q] = Append(@, "response")] => Protocol!Next
<1>1. phases[q] = "idle" /\ phases' = [phases EXCEPT ![q] = "open"] /\ answers' = answers => Protocol!Ask(q)
  BY DEF Protocol!Ask, Protocol!Become, phases, AskedPhase, answers, MethodsOf
<1>2. phases[q] = "open" /\ phases' = phases /\ answers[q] = <<>>
        /\ answers' = [answers EXCEPT ![q] = Append(@, "responseNonce")] => Protocol!TellNonce(q)
  BY DEF Protocol!TellNonce, Protocol!Hear, phases, AskedPhase, answers, MethodsOf
<1>3. phases[q] = "open" /\ phases' = phases
        /\ answers' = [answers EXCEPT ![q] = Append(@, "responseUpdate")] => Protocol!Update(q)
  BY DEF Protocol!Update, Protocol!Hear, phases, AskedPhase, answers, MethodsOf
<1>4. phases[q] = "open" /\ phases' = [phases EXCEPT ![q] = "closed"]
        /\ answers' = [answers EXCEPT ![q] = Append(@, "response")] => Protocol!Respond(q)
  BY DEF Protocol!Respond, Protocol!Hear, Protocol!Become, phases, AskedPhase, answers, MethodsOf
<1> QED
  BY <1>1, <1>2, <1>3, <1>4 DEF Protocol!Next

LEMMA AskImplements ==
  ASSUME TypeInv, NEW d \in Docs, NEW q \in Calls, NEW updates \in BOOLEAN, NewKernelQuery(d, q, updates)
  PROVE  Protocol!Next
<1> DEFINE new == [NoQuery EXCEPT !.owner = d, !.sendUpdates = updates]
           waits == [new EXCEPT !.phase = "waiting"]
           opens == [new EXCEPT !.phase = "open"]
<1>1. /\ queries[q].phase = "idle" /\ UNCHANGED heard
      /\ queries' = [queries EXCEPT ![q] = waits] \/ queries' = [queries EXCEPT ![q] = opens]
  BY Zenon DEF NewKernelQuery
<1>2. waits.phase = "waiting" /\ opens.phase = "open"
  BY DEF NoQuery
<1>3. DOMAIN queries = Calls
  BY DEF TypeInv, PageTypes
<1> HIDE DEF waits, opens
<1>4. /\ queries'[q].phase = "waiting" \/ queries'[q].phase = "open"
      /\ \A p \in Calls \ {q} : queries'[p].phase = queries[p].phase
  BY <1>1, <1>2, <1>3
<1>5. phases' = [phases EXCEPT ![q] = "open"]
  BY <1>4, PhasesStep
<1>6. answers' = answers
  BY <1>1 DEF answers
<1>7. phases[q] = "idle"
  BY <1>1 DEF phases, AskedPhase
<1> QED
  BY <1>5, <1>6, <1>7, ProtocolSteps

LEMMA ReplyImplements ==
  ASSUME OnceInv, NEW d \in Docs, HandleResponse(d) \/ HandleResponseUpdate(d) \/ HandleResponseNonce(d)
  PROVE  Protocol!Next \/ UNCHANGED <<phases, answers>>
<1>0. MentionInv /\ TypeInv
  BY DEF OnceInv, MentionInv
<1>1. PICK m : m = Head(toPage[d])
  OBVIOUS
<1>2. PICK q : q = m.nonce
  OBVIOUS
<1>3. toPage[d] # <<>> /\ m.method \in {"response", "responseUpdate", "responseNonce"}
  BY <1>1, Zenon DEF HandleResponse, HandleResponseUpdate, HandleResponseNonce, TakePage
<1>4. CASE ~Takes(m)
  <2>1. UNCHANGED <<heard, queries>>
    BY <1>1, <1>4, Zenon DEF HandleResponse, HandleResponseUpdate, HandleResponseNonce
  <2> QED
    BY <2>1 DEF phases, answers, AskedPhase
<1>5. CASE Takes(m)
  <2>1. m \in ReplyMsg
    <3>1. m \in UpMsg
      BY <1>0, <1>1, <1>3, TailIsSeq DEF TypeInv, ChannelTypes
    <3> QED
      BY <1>3, <1>5, <3>1, WithData DEF Takes
  <2>2. q \in Calls /\ m.data \in Nat
    BY <1>2, <2>1 DEF ReplyMsg
  <2>3. queries[q].phase = "open" /\ phases[q] = "open"
    BY <1>2, <1>5, <2>2 DEF Takes, phases, AskedPhase
  <2>4. queries[q] \in Query /\ DOMAIN queries = Calls
    BY <1>0, <2>2 DEF TypeInv, PageTypes
  <2>5. Hear(m) => answers' = [answers EXCEPT ![q] = Append(@, m.method)]
    BY <1>0, <1>2, <2>1, <2>2, AnswersStep DEF Hear
  <2>6. CASE HandleResponse(d)
    <3> DEFINE new == [queries[q] EXCEPT !.phase = "closed"]
    <3>1. m.method = "response" /\ Hear(m) /\ queries' = [queries EXCEPT ![q].phase = "closed"]
      BY <1>1, <1>2, <1>5, <2>6, Zenon DEF HandleResponse, TakePage
    <3>2. queries' = [queries EXCEPT ![q] = new] /\ new.phase = "closed"
      BY <2>4, <3>1 DEF Query
    <3> HIDE DEF new
    <3>3. queries'[q].phase = "closed" /\ \A p \in Calls \ {q} : queries'[p].phase = queries[p].phase
      BY <2>2, <2>4, <3>2
    <3>4. phases' = [phases EXCEPT ![q] = "closed"]
      BY <2>2, <3>3, PhasesStep
    <3>5. answers' = [answers EXCEPT ![q] = Append(@, "response")]
      BY <2>5, <3>1, Zenon
    <3> QED
      BY <2>2, <2>3, <3>4, <3>5, ProtocolSteps
  <2>7. CASE HandleResponseUpdate(d)
    <3>1. m.method = "responseUpdate" /\ UNCHANGED queries /\ (Hear(m) \/ UNCHANGED heard)
      BY <1>1, <2>7, Zenon DEF HandleResponseUpdate, TakePage
    <3>2. phases' = phases
      BY <3>1 DEF phases, AskedPhase
    <3>3. UNCHANGED heard => answers' = answers
      BY DEF answers
    <3>4. Hear(m) => answers' = [answers EXCEPT ![q] = Append(@, "responseUpdate")]
      BY <2>5, <3>1, Zenon
    <3> QED
      BY <2>2, <2>3, <3>1, <3>2, <3>3, <3>4, ProtocolSteps
  <2>8. CASE HandleResponseNonce(d)
    <3> DEFINE new == [queries[q] EXCEPT !.kernelNonce = m.data, !.held = <<>>]
    <3>1. /\ m.method = "responseNonce" /\ Hear(m)
          /\ queries' = [queries EXCEPT ![q].kernelNonce = m.data, ![q].held = <<>>]
      BY <1>1, <1>2, <1>5, <2>8, Zenon DEF HandleResponseNonce, TakePage
    <3>2. queries' = [queries EXCEPT ![q] = new] /\ new.phase = queries[q].phase
      <4>1. new.phase = queries[q].phase
        BY <2>2, <2>4, QueryTypes
      <4> QED
        BY <2>2, <2>4, <3>1, <4>1
    <3> HIDE DEF new
    <3>3. \A p \in Calls : queries'[p].phase = queries[p].phase
      BY <2>2, <2>4, <3>2
    <3>4. phases' = phases
      BY <3>3, PhasesKept
    <3>5. answers' = [answers EXCEPT ![q] = Append(@, "responseNonce")]
      BY <2>5, <3>1, Zenon
    <3>6. answers[q] = <<>>
      <4>1. toPage[d] \in Seq(UpMsg) /\ IsNonce(Head(toPage[d]), q)
        BY <1>0, <1>1, <1>2, <3>1 DEF TypeInv, ChannelTypes, IsNonce
      <4>2. ~NoNonce(toPage[d], q)
        BY <1>3, <4>1, OnceTail
      <4>3. heard[q] = <<>>
        BY <2>2, <4>2 DEF OnceInv, NonceOnce
      <4>4. MethodsOf(<<>>) = <<>>
        BY DEF MethodsOf
      <4> QED
        BY <2>2, <4>3, <4>4 DEF answers
    <3> QED
      BY <2>2, <2>3, <3>4, <3>5, <3>6, ProtocolSteps
  <2> QED
    BY <2>6, <2>7, <2>8
<1> QED
  BY <1>4, <1>5

LEMMA RelayImplementsStep ==
  ASSUME OnceInv, [Next]_vars
  PROVE  Protocol!Next \/ UNCHANGED <<phases, answers>>
<1>0. MentionInv /\ TypeInv
  BY DEF OnceInv, MentionInv
<1>1. ASSUME UNCHANGED <<queries, heard>> PROVE UNCHANGED <<phases, answers>>
  BY <1>1 DEF phases, answers, AskedPhase
<1>2. CASE UNCHANGED vars
  BY <1>1, <1>2 DEF vars, pageVars
<1>3. CASE Frame \/ Background
  BY <1>1, <1>3, Zenon
  DEF Frame, FrameStarts, FrameLoads, LogOut, Unload, BootloaderAnswers, KernelRefuses, KernelOpens,
     KernelRelaysUpdate, ModuleUpdates, ModuleResponds, Background, HandleAuthStatus, HandleReply, Connect,
     HandleBridgeMessage, PortDisconnected, pageVars
<1>4. ASSUME NEW q \in Calls, SendUpdate(q) PROVE UNCHANGED <<phases, answers>>
  <2> DEFINE new == [queries[q] EXCEPT !.held = Append(@, asked[q] + 1)]
  <2>1. UNCHANGED heard /\ (queries' = queries \/ queries' = [queries EXCEPT ![q] = new])
    BY <1>4, Zenon DEF SendUpdate
  <2>2. queries[q] \in Query /\ asked[q] + 1 \in Nat /\ DOMAIN queries = Calls
    BY <1>0, Successor DEF TypeInv, PageTypes
  <2>3. new.phase = queries[q].phase
    BY <2>2, QueryTypes
  <2> HIDE DEF new
  <2>4. phases' = phases
    BY <2>1, <2>2, <2>3, PhasesKept
  <2> QED
    BY <2>1, <2>4 DEF answers
<1>5. ASSUME NEW d \in Docs, HandleStatus(d) PROVE UNCHANGED <<phases, answers>>
  <2>1. /\ UNCHANGED heard
        /\ \/ UNCHANGED queries
           \/ queries' = [q \in Calls |-> IF Contains(waiting[d], q)
                                          THEN [queries[q] EXCEPT !.phase = "open"] ELSE queries[q]]
    BY <1>5, Zenon DEF HandleStatus
  <2>2. \A q \in Calls : Contains(waiting[d], q) => queries[q].phase = "waiting"
    <3>1. waiting[d] \in Seq(WaitsIn(d))
      BY <1>0 DEF MentionInv, PageMentions
    <3>2. \A q \in Calls : Contains(waiting[d], q) => q \in WaitsIn(d)
      BY <3>1 DEF Contains
    <3> QED
      BY <3>2 DEF WaitsIn
  <2>3. \A q \in Calls : [queries[q] EXCEPT !.phase = "open"].phase = "open"
    BY <1>0 DEF TypeInv, PageTypes, Query
  <2>4. \A q \in Calls : \/ queries'[q].phase = queries[q].phase
                         \/ queries[q].phase = "waiting" /\ queries'[q].phase = "open"
    BY <2>1, <2>2, <2>3
  <2>5. phases' = phases
    BY <2>4, PhasesKept
  <2> QED
    BY <2>1, <2>5 DEF answers
<1>6. ASSUME NEW d \in Docs, Leave(d) PROVE UNCHANGED <<phases, answers>>
  <2>1. UNCHANGED <<queries, heard>>
    BY <1>6, Zenon DEF Leave
  <2> QED
    BY <1>1, <2>1
<1>7. CASE Page
  BY <1>0, <1>4, <1>5, <1>6, <1>7, AskImplements, ReplyImplements, Zenon DEF Page, Reloads, Closes
<1> QED
  BY <1>2, <1>3, <1>7 DEF Next

\* ImplementsProtocol: seen from a page, whatever the extension, its logouts and
\* reloads do to what is on the way, each query is one run of QueryProtocol.
THEOREM RelayImplementsProtocol == Spec => ImplementsProtocol
<1>1. Init => Protocol!Init
  <2> SUFFICES ASSUME Init PROVE Protocol!Init
    OBVIOUS
  <2>1. phases = [q \in Calls |-> "idle"]
    BY DEF Init, NoQuery, phases, AskedPhase
  <2>2. answers = [q \in Calls |-> <<>>]
    <3>1. MethodsOf(<<>>) = <<>>
      BY DEF MethodsOf
    <3>2. \A q \in Calls : MethodsOf(heard[q]) = <<>>
      BY <3>1 DEF Init
    <3> QED
      BY <3>2 DEF answers
  <2> QED
    BY <2>1, <2>2 DEF Protocol!Init, phases, AskedPhase, answers, MethodsOf
<1>2. OnceInv /\ [Next]_vars => [Protocol!Next]_<<phases, answers>>
  BY RelayImplementsStep
<1>3. Spec => []OnceInv
  BY OnceInit, OnceNext, PTL DEF Spec
<1> QED
  BY <1>1, <1>2, <1>3, PTL DEF Spec, ImplementsProtocol, Protocol!Spec, phases, AskedPhase, answers, MethodsOf

(***************************************************************************)
(* The faithful relay.  A queue s carries the elements of E numbered from  *)
(* a up to b, one each and in order, between those of everybody else.      *)
(***************************************************************************)
At(s, E) == {i \in DOMAIN s : s[i] \in E}

Numbers(s, E, N, a, b) ==
    /\ a <= b
    /\ \A i \in At(s, E) : a < N[s[i]] /\ N[s[i]] <= b
    /\ \A i, j \in At(s, E) : i < j => N[s[i]] < N[s[j]]
    /\ \A n \in a + 1 .. b : \E i \in At(s, E) : N[s[i]] = n

IsUpdate(m, q) == m.method = "responseUpdate" /\ m.nonce = q

IsResponse(m, q) == m.method = "response" /\ m.nonce = q

NoUpdate(s, q) == \A i \in DOMAIN s : ~IsUpdate(s[i], q)

NoResponse(s, q) == \A i \in DOMAIN s : ~IsResponse(s[i], q)

Ended(s, q) == \A i, j \in DOMAIN s : IsUpdate(s[i], q) /\ IsResponse(s[j], q) => i < j

UpdatesOf(q) == {m \in ReplyMsg : IsUpdate(m, q)}

DataOf(q) == [m \in UpdatesOf(q) |-> m.data]

\* Every response of s to q says that n updates came before it.
Totals(s, q, n) == \A i \in DOMAIN s : IsResponse(s[i], q) /\ s[i] \in ReplyMsg => s[i].data = n

\* A response ends a query: of what was heard (h), is on the way to the page (t)
\* and on the way to the background (u), no update comes after a response, and
\* if there is one the kernel does not serve the query.
EndsOnce(h, t, u, q, serves) ==
    /\ serves => NoResponse(h, q) /\ NoResponse(t, q) /\ NoResponse(u, q)
    /\ Ended(t, q) /\ Ended(u, q)
    /\ NoResponse(t, q) \/ NoUpdate(u, q)
    /\ NoResponse(h, q) \/ (NoUpdate(t, q) /\ NoUpdate(u, q))

\* Of the n updates of q, those up to a were heard and those up to b sent to the
\* page; as long as it can be reached, the rest is on the way to the background.
UpRun(h, t, u, q, reachable, n) ==
    \E a, b \in Nat :
        /\ Numbers(h, UpdatesOf(q), DataOf(q), 0, a) /\ Totals(h, q, a)
        /\ Numbers(t, UpdatesOf(q), DataOf(q), a, b) /\ Totals(t, q, b)
        /\ reachable => Numbers(u, UpdatesOf(q), DataOf(q), b, n) /\ Totals(u, q, n)

Reachable(d) == ports[d] = "open" /\ doc[d] # "gone"

RelayRun(h, t, u, q, serves, reachable, sends, n) ==
    EndsOnce(h, t, u, q, serves) /\ (sends => UpRun(h, t, u, q, reachable, n))

AnswersOf(q) ==
    LET d == queries[q].owner
    IN  q \in SentCalls => RelayRun(heard[q], toPage[d], up, q, Serves(q), Reachable(d),
                                    queries[q].sendUpdates, posted[q])

\* The background knows whose the updates are, and libkernel what it heard.
KnownInv(q) ==
    /\ Serves(q) \/ ~NoUpdate(up, q) \/ ~NoCallIn(down, q) => q \in bgQueries
    /\ queries[q].phase = "closed" => heard[q] # <<>> /\ IsResponse(heard[q][Len(heard[q])], q)
    /\ queries[q].sendUpdates \/ NoUpdate(heard[q], q)
    /\ \A i \in DOMAIN heard[q] : heard[q][i].nonce = q
    /\ q \notin SentCalls => posted[q] = 0

KernelInv ==
    /\ kernelQueries # {} => kernelLoaded = "success"
    /\ \A g \in kernelQueries : g.nonce <= kernelNonces
    /\ \A g, h \in kernelQueries : g.call = h.call \/ g.nonce = h.nonce => g = h

AnswersInv == \A q \in Calls : AnswersOf(q) /\ KnownInv(q)

\* A nonce is that of the query it was given to, until the session ends, and
\* that query has no other.
GoodNonce(m) ==
    /\ m.data # 0 /\ m.from <= session
    /\ m.from = session /\ frame # "absent" =>
           /\ m.data <= kernelNonces
           /\ \A g \in kernelQueries : g.nonce = m.data => g.call = m.nonce
    /\ \A g \in kernelQueries : g.call = m.nonce => g.nonce = m.data

GoodNonces(s) == \A i \in DOMAIN s : s[i].method = "responseNonce" => GoodNonce(s[i])

NoncesInv ==
    /\ GoodNonces(up)
    /\ \A d \in Docs : GoodNonces(toPage[d])
    /\ \A q \in Calls : GoodNonces(heard[q])

\* The first message heard of a query is its nonce; until then, updates are held.
HeldInv(q) ==
    /\ IF queries[q].kernelNonce = 0
       THEN Len(queries[q].held) = asked[q] /\ \A i \in DOMAIN queries[q].held : queries[q].held[i] = i
       ELSE heard[q] # <<>> /\ IsNonce(heard[q][1], q) /\ heard[q][1].data = queries[q].kernelNonce
    /\ queries[q].phase = "idle" => queries[q] = NoQuery /\ asked[q] = 0
    /\ \A i \in DOMAIN heard[q] : heard[q][i].nonce = q

IsOwn(m) == queries[m.data.of].kernelNonce # 0 /\ m.nonce = queries[m.data.of].kernelNonce

OwnMsgs == {m \in DownMsg : m.method = "queryUpdate" => IsOwn(m)}

OwnedBy(d) == {m \in OwnMsgs : m.method = "queryUpdate" => queries[m.data.of].owner = d}

\* An update is sent with the nonce of its query, by the document of that query.
SentInv ==
    /\ down \in Seq(OwnMsgs)
    /\ \A d \in Docs : fromPage[d] \in Seq(OwnedBy(d))

Delivered == [of : Calls, number : Nat, session : Nat]

DeliveredInv ==
    /\ delivered \in [Calls -> Seq(Delivered)]
    /\ \A q \in Calls : \A i \in DOMAIN delivered[q] :
           LET u == delivered[q][i]
           IN  queries[u.of].kernelNonce # 0 /\ (u.of # q => heard[u.of][1].from < u.session)

SentFor(q) == {m \in UpdateMsg : m.data.of = q}

NumberOf(q) == [m \in SentFor(q) |-> m.data.number]

DeliveredFor(q) == {u \in Delivered : u.of = q}

NumberIn(q) == [u \in DeliveredFor(q) |-> u.number]

\* Of the updates to q, those up to a were delivered (v); as long as q is served,
\* those up to b are on the way to the frame (n), and as long as the port is open,
\* those up to c on the way to the background (f), which are all but those held.
DownRun(v, n, f, q, serves, open, here, sent) ==
    \E a, b, c \in Nat :
        /\ Numbers(v, DeliveredFor(q), NumberIn(q), 0, a)
        /\ serves => /\ Numbers(n, SentFor(q), NumberOf(q), a, b)
                     /\ open => /\ Numbers(f, SentFor(q), NumberOf(q), b, c)
                                /\ here => c = sent

Sent(q) == IF queries[q].kernelNonce = 0 THEN 0 ELSE asked[q]

UpdatesTo(q) ==
    LET d == queries[q].owner
    IN  DownRun(delivered[q], down, fromPage[d], q, Serves(q), ports[d] = "open", doc[d] # "gone", Sent(q))

UpdatesInv ==
    /\ NoncesInv /\ SentInv /\ DeliveredInv
    /\ \A q \in Calls : HeldInv(q) /\ UpdatesTo(q)

LEMMA NumbersNone ==
  ASSUME NEW s, NEW E, NEW N, NEW a \in Nat, NEW b \in Nat, \A i \in DOMAIN s : s[i] \notin E
  PROVE  /\ Numbers(s, E, N, a, a)
         /\ Numbers(s, E, N, a, b) => a = b
<1>1. At(s, E) = {}
  BY DEF At
<1>2. Numbers(s, E, N, a, a)
  BY <1>1 DEF Numbers
<1>3. ASSUME Numbers(s, E, N, a, b) PROVE a = b
  <2>1. a <= b /\ ~(\E n \in a + 1 .. b : TRUE)
    BY <1>1, <1>3 DEF Numbers
  <2>2. a < b => a + 1 \in a + 1 .. b
    OBVIOUS
  <2> QED
    BY <2>1, <2>2
<1> QED
  BY <1>2, <1>3

LEMMA NumbersAppend ==
  ASSUME NEW S, NEW s \in Seq(S), NEW e \in S, NEW E, NEW N \in [E -> Nat],
         NEW a \in Nat, NEW b \in Nat, Numbers(s, E, N, a, b)
  PROVE  /\ e \notin E => Numbers(Append(s, e), E, N, a, b)
         /\ e \in E /\ N[e] = b + 1 => Numbers(Append(s, e), E, N, a, b + 1)
<1> DEFINE t == Append(s, e)
           z == Len(s)
<1>1. /\ z \in Nat /\ DOMAIN s = 1 .. z /\ DOMAIN t = 1 .. z + 1
      /\ \A i \in 1 .. z : t[i] = s[i]
      /\ t[z + 1] = e
  OBVIOUS
<1> HIDE DEF t, z
<1>2. \A i : i \in At(t, E) <=> (i \in At(s, E) /\ t[i] = s[i]) \/ (i = z + 1 /\ e \in E)
  BY <1>1 DEF At
<1>3. \A i \in At(s, E) : i \in Nat /\ i < z + 1 /\ t[i] = s[i] /\ s[i] \in E /\ N[s[i]] \in Nat
  BY <1>1 DEF At
<1>4. /\ a <= b
      /\ \A i \in At(s, E) : a < N[s[i]] /\ N[s[i]] <= b
      /\ \A i, j \in At(s, E) : i < j => N[s[i]] < N[s[j]]
      /\ \A n \in a + 1 .. b : \E i \in At(s, E) : N[s[i]] = n
  BY DEF Numbers
<1>5. CASE e \notin E
  <2>1. At(t, E) = At(s, E)
    BY <1>2, <1>3, <1>5
  <2>2. \A i \in At(s, E) : t[i] = s[i]
    BY <1>3
  <2> QED
    BY <1>4, <1>5, <2>1, <2>2 DEF Numbers, t
<1>6. CASE e \in E /\ N[e] = b + 1
  <2>1. \A i \in At(t, E) : a < N[t[i]] /\ N[t[i]] <= b + 1
    <3>1. \A i \in At(s, E) : a < N[t[i]] /\ N[t[i]] <= b + 1
      BY <1>3, <1>4
    <3>2. a < N[t[z + 1]] /\ N[t[z + 1]] <= b + 1
      BY <1>1, <1>4, <1>6
    <3> QED
      BY <1>2, <3>1, <3>2
  <2>2. ASSUME NEW i \in At(t, E), NEW j \in At(t, E), i < j
        PROVE  N[t[i]] < N[t[j]]
    <3>1. i \in At(s, E)
      BY <1>1, <1>2, <1>3, <2>2
    <3>2. CASE j \in At(s, E)
      BY <1>3, <1>4, <2>2, <3>1, <3>2
    <3>3. CASE j = z + 1
      <4>1. N[t[i]] \in Nat /\ N[t[i]] <= b /\ N[t[j]] = b + 1
        BY <1>1, <1>3, <1>4, <1>6, <3>1, <3>3
      <4> QED
        BY <4>1
    <3> QED
      BY <1>2, <3>2, <3>3
  <2>3. ASSUME NEW n \in a + 1 .. b + 1
        PROVE  \E i \in At(t, E) : N[t[i]] = n
    <3>1. CASE n \in a + 1 .. b
      BY <1>2, <1>3, <1>4, <3>1
    <3>2. CASE n = b + 1
      BY <1>1, <1>2, <1>6, <3>2
    <3> QED
      BY <3>1, <3>2
  <2>4. a <= b + 1
    BY <1>4
  <2>5. Numbers(t, E, N, a, b + 1)
    BY <2>1, <2>2, <2>3, <2>4 DEF Numbers
  <2> QED
    BY <1>6, <2>5 DEF t
<1> QED
  BY <1>5, <1>6

LEMMA NumbersTail ==
  ASSUME NEW S, NEW s \in Seq(S), s # <<>>, NEW E, NEW N \in [E -> Nat],
         NEW a \in Nat, NEW b \in Nat, Numbers(s, E, N, a, b)
  PROVE  /\ Head(s) \notin E => Numbers(Tail(s), E, N, a, b)
         /\ Head(s) \in E => N[Head(s)] = a + 1 /\ Numbers(Tail(s), E, N, a + 1, b)
<1> DEFINE t == Tail(s)
           z == Len(s)
           e == Head(s)
<1>1. /\ z \in Nat /\ z >= 1 /\ DOMAIN s = 1 .. z /\ DOMAIN t = 1 .. z - 1
      /\ \A i \in 1 .. z - 1 : t[i] = s[i + 1]
      /\ e = s[1]
  OBVIOUS
<1> HIDE DEF t, z, e
<1>2. \A i \in At(t, E) : i \in Nat /\ i + 1 \in At(s, E) /\ t[i] = s[i + 1] /\ i + 1 # 1
  BY <1>1 DEF At
<1>3. \A i \in At(s, E) : i = 1 \/ (i \in Nat /\ i - 1 \in At(t, E) /\ t[i - 1] = s[i])
  <2>1. \A i \in 1 .. z : i = 1 \/ (i \in Nat /\ i - 1 \in 1 .. z - 1 /\ (i - 1) + 1 = i)
    BY <1>1
  <2> QED
    BY <1>1, <2>1 DEF At
<1>4. \A i \in At(s, E) : s[i] \in E /\ N[s[i]] \in Nat /\ i \in Nat /\ i >= 1
  BY <1>1 DEF At
<1>5. /\ a <= b
      /\ \A i \in At(s, E) : a < N[s[i]] /\ N[s[i]] <= b
      /\ \A i, j \in At(s, E) : i < j => N[s[i]] < N[s[j]]
      /\ \A n \in a + 1 .. b : \E i \in At(s, E) : N[s[i]] = n
  BY DEF Numbers
<1>6. \A i, j \in At(t, E) : i < j => N[t[i]] < N[t[j]]
  <2>1. \A i, j \in At(t, E) : i < j => i + 1 < j + 1
    BY <1>2
  <2> QED
    BY <1>2, <1>5, <2>1
<1>7. CASE e \notin E
  <2>1. 1 \notin At(s, E)
    BY <1>1, <1>7 DEF At
  <2>2. \A i \in At(t, E) : a < N[t[i]] /\ N[t[i]] <= b
    BY <1>2, <1>5
  <2>3. \A n \in a + 1 .. b : \E i \in At(t, E) : N[t[i]] = n
    BY <1>3, <1>5, <2>1
  <2> QED
    BY <1>5, <1>6, <1>7, <2>2, <2>3 DEF Numbers, t, e
<1>8. CASE e \in E
  <2>1. 1 \in At(s, E) /\ s[1] = e
    BY <1>1, <1>8 DEF At
  <2>2. a < N[e] /\ N[e] <= b /\ N[e] \in Nat
    BY <1>4, <1>5, <2>1
  <2>3. PICK i \in At(s, E) : N[s[i]] = a + 1
    <3>1. a + 1 \in a + 1 .. b
      BY <2>2
    <3> QED
      BY <1>5, <3>1
  <2>4. i = 1
    <3>1. i # 1 => 1 < i
      BY <1>4
    <3>2. i # 1 => N[e] < a + 1
      BY <1>5, <2>1, <2>3, <3>1
    <3> QED
      BY <2>2, <3>2
  <2>5. N[e] = a + 1
    BY <2>1, <2>3, <2>4
  <2>6. ASSUME NEW j \in At(t, E) PROVE a + 1 < N[t[j]] /\ N[t[j]] <= b
    <3>1. j + 1 \in At(s, E) /\ t[j] = s[j + 1] /\ 1 < j + 1
      BY <1>2, <1>4
    <3> QED
      BY <1>5, <2>1, <2>5, <3>1
  <2>7. ASSUME NEW n \in (a + 1) + 1 .. b PROVE \E j \in At(t, E) : N[t[j]] = n
    <3>1. n \in a + 1 .. b /\ n # a + 1
      OBVIOUS
    <3>2. PICK j \in At(s, E) : N[s[j]] = n
      BY <1>5, <3>1
    <3>3. j # 1
      BY <2>1, <2>5, <3>1, <3>2
    <3> QED
      BY <1>3, <3>2, <3>3
  <2>8. a + 1 <= b
    BY <2>2
  <2>9. Numbers(t, E, N, a + 1, b)
    BY <1>6, <2>6, <2>7, <2>8 DEF Numbers
  <2> QED
    BY <1>8, <2>5, <2>9 DEF t, e
<1> QED
  BY <1>7, <1>8 DEF e

LEMMA NumbersConcat ==
  ASSUME NEW S, NEW s \in Seq(S), NEW r \in Seq(S), NEW E, NEW N \in [E -> Nat],
         NEW a \in Nat, NEW b \in Nat, NEW c \in Nat, Numbers(s, E, N, a, b), Numbers(r, E, N, b, c)
  PROVE  Numbers(s \o r, E, N, a, c)
<1> DEFINE t == s \o r
           z == Len(s)
           y == Len(r)
<1>1. /\ z \in Nat /\ y \in Nat /\ DOMAIN s = 1 .. z /\ DOMAIN r = 1 .. y /\ DOMAIN t = 1 .. z + y
      /\ \A i \in 1 .. z : t[i] = s[i]
      /\ \A i \in 1 .. y : t[z + i] = r[i]
  OBVIOUS
<1> HIDE DEF t, z, y
<1>2. \A i \in At(s, E) : i \in At(t, E) /\ t[i] = s[i] /\ i \in 1 .. z /\ N[s[i]] \in Nat
  BY <1>1 DEF At
<1>3. \A i \in At(r, E) : z + i \in At(t, E) /\ t[z + i] = r[i] /\ i \in 1 .. y /\ N[r[i]] \in Nat
  BY <1>1 DEF At
<1>4. \A i \in At(t, E) : i \in At(s, E) \/ \E j \in At(r, E) : i = z + j
  <2>1. ASSUME NEW i \in At(t, E), i \notin 1 .. z
        PROVE  \E j \in At(r, E) : i = z + j
    <3>1. i \in 1 .. z + y
      BY <1>1 DEF At
    <3>2. i - z \in 1 .. y /\ i = z + (i - z)
      BY <1>1, <2>1, <3>1
    <3>3. PICK j \in 1 .. y : i = z + j
      BY <3>2
    <3> QED
      BY <1>1, <3>3 DEF At
  <2>2. \A i \in At(t, E) : i \in 1 .. z => i \in At(s, E)
    BY <1>1 DEF At
  <2> QED
    BY <2>1, <2>2
<1>5. /\ a <= b
      /\ \A i \in At(s, E) : a < N[s[i]] /\ N[s[i]] <= b
      /\ \A i, j \in At(s, E) : i < j => N[s[i]] < N[s[j]]
      /\ \A n \in a + 1 .. b : \E i \in At(s, E) : N[s[i]] = n
  BY DEF Numbers
<1>6. /\ b <= c
      /\ \A i \in At(r, E) : b < N[r[i]] /\ N[r[i]] <= c
      /\ \A i, j \in At(r, E) : i < j => N[r[i]] < N[r[j]]
      /\ \A n \in b + 1 .. c : \E i \in At(r, E) : N[r[i]] = n
  BY DEF Numbers
<1>7. \A i \in At(s, E) : a < N[t[i]] /\ N[t[i]] <= b /\ b <= c /\ N[t[i]] \in Nat /\ N[t[i]] = N[s[i]]
  BY <1>2, <1>5, <1>6
<1>8. \A i \in At(r, E) : a < N[t[z + i]] /\ b < N[t[z + i]] /\ N[t[z + i]] <= c /\ N[t[z + i]] \in Nat
                          /\ N[t[z + i]] = N[r[i]]
  BY <1>3, <1>5, <1>6
<1>9. \A i \in At(t, E) : a < N[t[i]] /\ N[t[i]] <= c
  BY <1>4, <1>7, <1>8
<1>10. ASSUME NEW i \in At(t, E), NEW j \in At(t, E), i < j
       PROVE  N[t[i]] < N[t[j]]
  <2>1. CASE i \in At(s, E) /\ j \in At(s, E)
    BY <1>5, <1>7, <1>10, <2>1
  <2>2. ASSUME NEW k \in At(r, E), j = z + k, i \in At(s, E)
        PROVE  N[t[i]] < N[t[j]]
    BY <1>7, <1>8, <2>2
  <2>3. ASSUME NEW k \in At(r, E), NEW l \in At(r, E), i = z + k, j = z + l
        PROVE  N[t[i]] < N[t[j]]
    <3>1. k < l
      BY <1>1, <1>3, <1>10, <2>3
    <3> QED
      BY <1>6, <1>8, <2>3, <3>1
  <2>4. ASSUME NEW k \in At(r, E), i = z + k, j \in At(s, E)
        PROVE  FALSE
    BY <1>1, <1>2, <1>3, <1>10, <2>4
  <2> QED
    BY <1>4, <2>1, <2>2, <2>3, <2>4
<1>11. ASSUME NEW n \in a + 1 .. c
       PROVE  \E i \in At(t, E) : N[t[i]] = n
  <2>1. CASE n \in a + 1 .. b
    <3>1. PICK i \in At(s, E) : N[s[i]] = n
      BY <1>5, <2>1
    <3>2. i \in At(t, E) /\ t[i] = s[i]
      BY <1>2
    <3> QED
      BY <3>1, <3>2
  <2>2. CASE n \in b + 1 .. c
    <3>1. PICK i \in At(r, E) : N[r[i]] = n
      BY <1>6, <2>2
    <3>2. z + i \in At(t, E) /\ t[z + i] = r[i]
      BY <1>3
    <3> QED
      BY <3>1, <3>2
  <2> QED
    BY <1>5, <1>6, <2>1, <2>2
<1>12. a <= c
  BY <1>5, <1>6
<1>13. Numbers(t, E, N, a, c)
  BY <1>9, <1>10, <1>11, <1>12 DEF Numbers
<1> QED
  BY <1>13 DEF t

LEMMA LeastNumber ==
  ASSUME NEW D \in SUBSET Nat, D # {}
  PROVE  \E n \in D : \A m \in D : n <= m
<1> DEFINE R == OpToRel(<, Nat)
<1>1. \A m, n \in Nat : m < n => <<m, n>> \in R
  BY DEF OpToRel
<1>2. IsWellFoundedOn(R, Nat)
  BY NatLessThanWellFounded
<1> HIDE DEF R
<1>3. PICK n \in D : \A m \in D : ~(<<m, n>> \in R)
  BY <1>2, WFMin
<1>4. \A m \in D : m \in Nat /\ n \in Nat /\ ~(m < n)
  BY <1>1, <1>3
<1> QED
  BY <1>4

LEMMA NumbersPrefix ==
  ASSUME NEW S, NEW s \in Seq(S), NEW z \in 0 .. Len(s), NEW E, NEW N \in [E -> Nat],
         NEW a \in Nat, NEW b \in Nat, Numbers(s, E, N, a, b)
  PROVE  \E c \in Nat : Numbers(SubSeq(s, 1, z), E, N, a, c)
<1> DEFINE t == SubSeq(s, 1, z)
<1>1. /\ DOMAIN t = 1 .. z /\ 1 .. z \subseteq DOMAIN s /\ \A i \in 1 .. z : t[i] = s[i]
      /\ DOMAIN s \subseteq Nat
  BY PrefixIsSeq
<1> HIDE DEF t
<1>2. /\ a <= b
      /\ \A i \in At(s, E) : a < N[s[i]] /\ N[s[i]] <= b
      /\ \A i, j \in At(s, E) : i < j => N[s[i]] < N[s[j]]
      /\ \A n \in a + 1 .. b : \E i \in At(s, E) : N[s[i]] = n
  BY DEF Numbers
<1>3. \A i \in At(t, E) : i \in At(s, E) /\ t[i] = s[i] /\ i \in 1 .. z
  BY <1>1 DEF At
<1>4. \A i \in At(s, E) : i <= z => i \in At(t, E) /\ t[i] = s[i]
  <2>1. \A i \in DOMAIN s : i <= z => i \in 1 .. z
    <3>1. DOMAIN s = 1 .. Len(s)
      OBVIOUS
    <3> QED
      BY <3>1
  <2> QED
    BY <1>1, <2>1 DEF At
<1>5. \A i \in At(s, E) : N[s[i]] \in Nat /\ i \in Nat
  BY <1>1 DEF At
<1>6. CASE At(t, E) = {}
  <2>1. \A i \in DOMAIN t : t[i] \notin E
    BY <1>6 DEF At
  <2> QED
    BY <2>1, NumbersNone DEF t
<1>7. CASE At(t, E) # {}
  <2> DEFINE M == {i \in At(t, E) : \A j \in At(t, E) : j <= i}
  <2>1. PICK l \in At(t, E) : \A j \in At(t, E) : j <= l
    <3>1. At(t, E) \subseteq 1 .. z /\ IsFiniteSet(1 .. z)
      BY <1>3, FS_Interval
    <3>2. IsFiniteSet(At(t, E))
      BY <3>1, FS_Subset
    <3>3. At(t, E) \in SUBSET Nat /\ z \in Nat /\ \A i \in At(t, E) : i <= z
      BY <3>1
    <3> DEFINE D == {z - i : i \in At(t, E)}
    <3>4. D \in SUBSET Nat /\ D # {}
      <4>1. \A i \in At(t, E) : z - i \in Nat
        BY <3>3
      <4> QED
        BY <1>7, <4>1
    <3>5. PICK n \in D : \A k \in D : n <= k
      BY <3>4, LeastNumber
    <3>7. PICK l \in At(t, E) : n = z - l
      OBVIOUS
    <3>8. \A j \in At(t, E) : j <= l
      <4>1. \A j \in At(t, E) : z - j \in D
        OBVIOUS
      <4>2. \A j \in At(t, E) : z - l <= z - j /\ j \in Nat /\ l \in Nat
        BY <3>3, <3>5, <3>7, <4>1
      <4> QED
        BY <3>3, <4>2
    <3> QED
      BY <3>8
  <2>2. PICK c \in Nat : c = N[t[l]]
    BY <1>3, <1>5
  <2>3. l \in At(s, E) /\ a < c /\ c <= b /\ N[s[l]] = c /\ l <= z /\ l \in Nat
    BY <1>2, <1>3, <2>2
  <2>4. ASSUME NEW i \in At(t, E) PROVE a < N[t[i]] /\ N[t[i]] <= c
    <3>1. i \in At(s, E) /\ t[i] = s[i] /\ i <= l /\ i \in Nat /\ N[s[i]] \in Nat
      BY <1>3, <1>5, <2>1
    <3>2. i < l \/ i = l
      BY <2>3, <3>1
    <3> QED
      BY <1>2, <2>3, <3>1, <3>2
  <2>5. \A i, j \in At(t, E) : i < j => N[t[i]] < N[t[j]]
    BY <1>2, <1>3
  <2>6. ASSUME NEW n \in a + 1 .. c PROVE \E i \in At(t, E) : N[t[i]] = n
    <3>1. n \in a + 1 .. b
      BY <2>3
    <3>2. PICK i \in At(s, E) : N[s[i]] = n
      BY <1>2, <3>1
    <3>3. ~(l < i)
      <4>1. l < i => c < n
        BY <1>2, <2>3, <3>2
      <4> QED
        BY <4>1
    <3>4. i <= z
      BY <1>5, <2>3, <3>3
    <3> QED
      BY <1>4, <3>2, <3>4
  <2>7. a <= c
    BY <2>3
  <2>8. Numbers(t, E, N, a, c)
    BY <2>4, <2>5, <2>6, <2>7 DEF Numbers
  <2> QED
    BY <2>8 DEF t
<1> QED
  BY <1>6, <1>7

\* What is posted of a list of numbers, from the first to the last.
LEMMA NumbersMade ==
  ASSUME NEW s, NEW z \in Nat, DOMAIN s = 1 .. z, NEW E, NEW N, \A i \in 1 .. z : s[i] \in E /\ N[s[i]] = i
  PROVE  Numbers(s, E, N, 0, z)
<1>1. At(s, E) = 1 .. z
  BY DEF At
<1>2. \A n \in 0 + 1 .. z : n \in 1 .. z
  OBVIOUS
<1>3. \A i \in 1 .. z : 0 < i /\ i <= z
  OBVIOUS
<1> QED
  BY <1>1, <1>2, <1>3 DEF Numbers

\* The elements of a run from its start are numbered by their places.
LEMMA NumbersCount ==
  ASSUME NEW S, NEW s \in Seq(S), NEW E, NEW N \in [E -> Nat], NEW b \in Nat, Numbers(s, E, N, 0, b)
  PROVE  /\ Cardinality(At(s, E)) = b
         /\ \A i \in At(s, E) : N[s[i]] = Cardinality({j \in At(s, E) : j <= i})
<1> DEFINE A == At(s, E)
<1>1. /\ \A i \in A : 0 < N[s[i]] /\ N[s[i]] <= b /\ N[s[i]] \in Nat
      /\ \A i, j \in A : i < j => N[s[i]] < N[s[j]]
      /\ \A n \in 1 .. b : \E i \in A : N[s[i]] = n
  <2>1. 0 + 1 = 1
    OBVIOUS
  <2> QED
    BY <2>1 DEF Numbers, At
<1>2. A \subseteq 1 .. Len(s) /\ Len(s) \in Nat
  BY DEF At
<1>3. IsFiniteSet(A) /\ A \subseteq Nat
  <2>1. IsFiniteSet(1 .. Len(s))
    BY <1>2, FS_Interval
  <2> QED
    BY <1>2, <2>1, FS_Subset
<1> HIDE DEF A
<1>4. ASSUME NEW n \in 0 .. b, NEW B, B = {j \in A : N[s[j]] <= n}
      PROVE  Cardinality(B) = n
  <2> DEFINE g == [j \in B |-> N[s[j]]]
  <2>1. IsFiniteSet(B)
    <3>1. B \subseteq A
      BY <1>4
    <3> QED
      BY <1>3, <3>1, FS_Subset
  <2>2. \A j \in B : N[s[j]] \in 1 .. n
    BY <1>1, <1>4
  <2>3. g \in [B -> 1 .. n]
    BY <2>2
  <2>4. ASSUME NEW i \in B, NEW j \in B, g[i] = g[j] PROVE i = j
    <3>1. i \in A /\ j \in A /\ i \in Nat /\ j \in Nat /\ N[s[i]] = N[s[j]] /\ N[s[i]] \in Nat
      BY <1>1, <1>3, <1>4, <2>4
    <3>2. ~(i < j) /\ ~(j < i)
      BY <1>1, <3>1
    <3> QED
      BY <3>1, <3>2
  <2>5. g \in Injection(B, 1 .. n)
    BY <2>3, <2>4 DEF Injection, IsInjective
  <2>6. ASSUME NEW m \in 1 .. n PROVE \E i \in B : g[i] = m
    <3>1. m \in 1 .. b /\ m <= n
      OBVIOUS
    <3>2. PICK i \in A : N[s[i]] = m
      BY <1>1, <3>1
    <3>3. i \in B
      BY <1>4, <3>1, <3>2
    <3> QED
      BY <3>2, <3>3
  <2>7. g \in Surjection(B, 1 .. n)
    BY <2>3, <2>6 DEF Surjection
  <2>8. ExistsBijection(B, 1 .. n)
    BY <2>5, <2>7 DEF ExistsBijection, Bijection
  <2>9. Cardinality(1 .. n) = n
    <3>1. n \in Int /\ 1 \in Int /\ (IF 1 > n THEN 0 ELSE n - 1 + 1) = n
      OBVIOUS
    <3> QED
      BY <3>1, FS_Interval
  <2> QED
    BY <2>1, <2>8, <2>9, FS_Bijection
<1>5. Cardinality(A) = b
  <2>1. A = {j \in A : N[s[j]] <= b}
    BY <1>1
  <2>2. b \in 0 .. b
    OBVIOUS
  <2> QED
    BY <1>4, <2>1, <2>2
<1>6. ASSUME NEW i \in A PROVE N[s[i]] = Cardinality({j \in A : j <= i})
  <2>1. N[s[i]] \in 0 .. b
    BY <1>1
  <2>2. \A j \in A : j <= i <=> N[s[j]] <= N[s[i]]
    <3>1. ASSUME NEW j \in A PROVE j <= i <=> N[s[j]] <= N[s[i]]
      <4>1. i \in Nat /\ j \in Nat /\ N[s[i]] \in Nat /\ N[s[j]] \in Nat
        BY <1>1, <1>3
      <4>2. (j < i => N[s[j]] < N[s[i]]) /\ (i < j => N[s[i]] < N[s[j]])
        BY <1>1
      <4> QED
        BY <4>1, <4>2
    <3> QED
      BY <3>1
  <2>3. {j \in A : j <= i} = {j \in A : N[s[j]] <= N[s[i]]}
    BY <2>2
  <2> QED
    BY <1>4, <2>1, <2>3
<1> QED
  BY <1>5, <1>6 DEF A

\* What is on the way, when one more message is sent.
LEMMA EndedAppend ==
  ASSUME NEW S, NEW s \in Seq(S), NEW e \in S, NEW q
  PROVE  /\ NoUpdate(Append(s, e), q) <=> NoUpdate(s, q) /\ ~IsUpdate(e, q)
         /\ NoResponse(Append(s, e), q) <=> NoResponse(s, q) /\ ~IsResponse(e, q)
         /\ Ended(s, q) /\ (NoResponse(s, q) \/ ~IsUpdate(e, q)) => Ended(Append(s, e), q)
         /\ \A n : Totals(s, q, n) /\ (IsResponse(e, q) /\ e \in ReplyMsg => e.data = n)
                       => Totals(Append(s, e), q, n)
<1> DEFINE t == Append(s, e)
           z == Len(s)
<1>1. /\ z \in Nat /\ DOMAIN s = 1 .. z /\ DOMAIN t = 1 .. z + 1
      /\ \A i \in 1 .. z : t[i] = s[i]
      /\ t[z + 1] = e
  OBVIOUS
<1> HIDE DEF t, z
<1>2. DOMAIN s \subseteq DOMAIN t /\ z + 1 \in DOMAIN t /\ \A i \in DOMAIN t : i \in DOMAIN s \/ i = z + 1
  BY <1>1
<1>3. NoUpdate(t, q) <=> NoUpdate(s, q) /\ ~IsUpdate(e, q)
  BY <1>1, <1>2 DEF NoUpdate
<1>4. NoResponse(t, q) <=> NoResponse(s, q) /\ ~IsResponse(e, q)
  BY <1>1, <1>2 DEF NoResponse
<1>5. ASSUME Ended(s, q), NoResponse(s, q) \/ ~IsUpdate(e, q) PROVE Ended(t, q)
  <2>1. ~(IsUpdate(e, q) /\ IsResponse(e, q))
    BY DEF IsUpdate, IsResponse
  <2>2. ASSUME NEW i \in DOMAIN t, NEW j \in DOMAIN t, IsUpdate(t[i], q), IsResponse(t[j], q) PROVE i < j
    <3>1. CASE i \in DOMAIN s /\ j \in DOMAIN s
      BY <1>1, <1>5, <2>2, <3>1 DEF Ended
    <3>2. CASE j = z + 1
      BY <1>1, <1>2, <2>1, <2>2, <3>2
    <3>3. CASE i = z + 1 /\ j \in DOMAIN s
      BY <1>1, <1>5, <2>2, <3>3 DEF NoResponse
    <3> QED
      BY <1>2, <3>1, <3>2, <3>3
  <2> QED
    BY <2>2 DEF Ended
<1>6. \A n : Totals(s, q, n) /\ (IsResponse(e, q) /\ e \in ReplyMsg => e.data = n) => Totals(t, q, n)
  BY <1>1, <1>2 DEF Totals
<1> QED
  BY <1>3, <1>4, <1>5, <1>6 DEF t

\* What is on the way, when the first message is taken.
LEMMA EndedTail ==
  ASSUME NEW S, NEW s \in Seq(S), s # <<>>, NEW q
  PROVE  /\ NoUpdate(s, q) <=> NoUpdate(Tail(s), q) /\ ~IsUpdate(Head(s), q)
         /\ NoResponse(s, q) <=> NoResponse(Tail(s), q) /\ ~IsResponse(Head(s), q)
         /\ Ended(s, q) => Ended(Tail(s), q) /\ (IsResponse(Head(s), q) => NoUpdate(s, q))
         /\ \A n : Totals(s, q, n)
                       => Totals(Tail(s), q, n) /\ (IsResponse(Head(s), q) /\ Head(s) \in ReplyMsg => Head(s).data = n)
<1> DEFINE t == Tail(s)
           z == Len(s)
<1>1. /\ z \in Nat /\ z >= 1 /\ DOMAIN s = 1 .. z /\ DOMAIN t = 1 .. z - 1
      /\ \A i \in 1 .. z - 1 : t[i] = s[i + 1]
      /\ Head(s) = s[1]
  OBVIOUS
<1> HIDE DEF t, z
<1>2. 1 \in DOMAIN s /\ \A i \in DOMAIN t : i + 1 \in DOMAIN s /\ t[i] = s[i + 1] /\ i \in Nat /\ i + 1 # 1
  BY <1>1
<1>3. \A i \in DOMAIN s : i = 1 \/ (i - 1 \in DOMAIN t /\ t[i - 1] = s[i])
  BY <1>1
<1>4. NoUpdate(s, q) <=> NoUpdate(t, q) /\ ~IsUpdate(Head(s), q)
  BY <1>1, <1>2, <1>3 DEF NoUpdate
<1>5. NoResponse(s, q) <=> NoResponse(t, q) /\ ~IsResponse(Head(s), q)
  BY <1>1, <1>2, <1>3 DEF NoResponse
<1>6. ASSUME Ended(s, q) PROVE Ended(t, q) /\ (IsResponse(Head(s), q) => NoUpdate(s, q))
  <2>1. ASSUME NEW i \in DOMAIN t, NEW j \in DOMAIN t, IsUpdate(t[i], q), IsResponse(t[j], q) PROVE i < j
    <3>1. i + 1 < j + 1
      BY <1>2, <1>6, <2>1 DEF Ended
    <3> QED
      BY <1>1, <3>1
  <2>2. ASSUME NEW i \in DOMAIN s, IsUpdate(s[i], q), IsResponse(Head(s), q) PROVE FALSE
    <3>1. i < 1
      BY <1>1, <1>2, <1>6, <2>2 DEF Ended
    <3> QED
      BY <1>1, <3>1
  <2> QED
    BY <2>1, <2>2 DEF Ended, NoUpdate
<1>7. \A n : Totals(s, q, n)
                => Totals(t, q, n) /\ (IsResponse(Head(s), q) /\ Head(s) \in ReplyMsg => Head(s).data = n)
  BY <1>1, <1>2 DEF Totals
<1> QED
  BY <1>4, <1>5, <1>6, <1>7 DEF t

LEMMA EndedNone ==
  ASSUME NEW s, NEW q
  PROVE  /\ NoReply(s, q) \/ s = <<>> => NoUpdate(s, q) /\ NoResponse(s, q)
         /\ NoUpdate(s, q) \/ NoResponse(s, q) => Ended(s, q)
         /\ NoResponse(s, q) => \A n : Totals(s, q, n)
         /\ NoUpdate(s, q) => \A i \in DOMAIN s : s[i] \notin UpdatesOf(q)
<1>1. NoReply(s, q) \/ s = <<>> => NoUpdate(s, q) /\ NoResponse(s, q)
  BY DEF NoReply, NoUpdate, NoResponse, IsUpdate, IsResponse
<1>2. NoUpdate(s, q) \/ NoResponse(s, q) => Ended(s, q)
  BY DEF NoUpdate, NoResponse, Ended
<1>3. NoResponse(s, q) => \A n : Totals(s, q, n)
  BY DEF NoResponse, Totals
<1>4. NoUpdate(s, q) => \A i \in DOMAIN s : s[i] \notin UpdatesOf(q)
  BY DEF NoUpdate, UpdatesOf
<1> QED
  BY <1>1, <1>2, <1>3, <1>4

LEMMA UpdateNumbers ==
  ASSUME NEW q
  PROVE  /\ DataOf(q) \in [UpdatesOf(q) -> Nat]
         /\ \A m \in UpdatesOf(q) : DataOf(q)[m] = m.data /\ IsUpdate(m, q) /\ m \in UpMsg
         /\ \A m \in UpMsg : IsUpdate(m, q) => m \in UpdatesOf(q)
<1>1. \A m \in ReplyMsg : m.data \in Nat /\ m \in UpMsg
  BY DEF ReplyMsg, UpMsg
<1>2. \A m \in UpMsg : IsUpdate(m, q) => m \in ReplyMsg
  BY UpMessages DEF IsUpdate
<1>3. \A m \in UpdatesOf(q) : m \in ReplyMsg /\ IsUpdate(m, q)
  BY DEF UpdatesOf
<1>4. \A m \in ReplyMsg : IsUpdate(m, q) => m \in UpdatesOf(q)
  BY DEF UpdatesOf
<1>5. DataOf(q) = [m \in UpdatesOf(q) |-> m.data]
  BY DEF DataOf
<1> HIDE DEF UpdatesOf
<1>6. \A m \in UpdatesOf(q) : m.data \in Nat
  BY <1>1, <1>3
<1>7. DataOf(q) \in [UpdatesOf(q) -> Nat] /\ \A m \in UpdatesOf(q) : DataOf(q)[m] = m.data
  BY <1>5, <1>6
<1> QED
  BY <1>1, <1>2, <1>3, <1>4, <1>7

(***************************************************************************)
(* What becomes of the answers of a query.                                 *)
(***************************************************************************)

\* A query that was only just sent has none.
LEMMA RunStarts ==
  ASSUME NEW h, NEW t, NEW u, NEW q, NoReply(h, q) \/ h = <<>>, NoReply(t, q) \/ t = <<>>, NoReply(u, q) \/ u = <<>>,
         NEW serves, NEW reachable, NEW sends
  PROVE  RelayRun(h, t, u, q, serves, reachable, sends, 0)
<1>1. /\ NoUpdate(h, q) /\ NoResponse(h, q) /\ NoUpdate(t, q) /\ NoResponse(t, q) /\ NoUpdate(u, q) /\ NoResponse(u, q)
      /\ Ended(t, q) /\ Ended(u, q) /\ Totals(h, q, 0) /\ Totals(t, q, 0) /\ Totals(u, q, 0)
  BY EndedNone
<1>2. EndsOnce(h, t, u, q, serves)
  BY <1>1 DEF EndsOnce
<1> DEFINE E == UpdatesOf(q)
           N == DataOf(q)
<1>3. \A s : NoUpdate(s, q) => \A i \in DOMAIN s : s[i] \notin E
  BY EndedNone
<1> HIDE DEF E, N
<1>4. Numbers(h, E, N, 0, 0) /\ Numbers(t, E, N, 0, 0) /\ Numbers(u, E, N, 0, 0)
  BY <1>1, <1>3, NumbersNone
<1>5. UpRun(h, t, u, q, reachable, 0)
  BY <1>1, <1>4 DEF UpRun, E, N
<1> QED
  BY <1>2, <1>5 DEF RelayRun

\* Less is asked of a query that is not served or whose page is not reached.
LEMMA RunWeakens ==
  ASSUME NEW h, NEW t, NEW u, NEW q, NEW n, NEW serves, NEW reachable, NEW sends,
         RelayRun(h, t, u, q, serves, reachable, sends, n),
         NEW serves2, NEW reachable2, serves2 => serves, reachable2 => reachable
  PROVE  RelayRun(h, t, u, q, serves2, reachable2, sends, n)
<1>1. EndsOnce(h, t, u, q, serves2)
  BY DEF RelayRun, EndsOnce
<1>2. sends => UpRun(h, t, u, q, reachable2, n)
  <2>1. sends => UpRun(h, t, u, q, reachable, n)
    BY DEF RelayRun
  <2> QED
    BY <2>1 DEF UpRun
<1> QED
  BY <1>1, <1>2 DEF RelayRun

\* The frame sends something that is no update of q, and a response only when
\* it stops serving q.
LEMMA RunSends ==
  ASSUME NEW h, NEW t, NEW u \in Seq(UpMsg), NEW q, NEW n \in Nat, NEW serves, NEW reachable, NEW sends,
         RelayRun(h, t, u, q, serves, reachable, sends, n),
         NEW e \in UpMsg, ~IsUpdate(e, q), IsResponse(e, q) /\ e \in ReplyMsg => e.data = n,
         NEW serves2, serves2 => serves /\ ~IsResponse(e, q)
  PROVE  RelayRun(h, t, Append(u, e), q, serves2, reachable, sends, n)
<1>1. /\ NoUpdate(Append(u, e), q) <=> NoUpdate(u, q)
      /\ NoResponse(Append(u, e), q) <=> NoResponse(u, q) /\ ~IsResponse(e, q)
      /\ Ended(u, q) => Ended(Append(u, e), q)
      /\ Totals(u, q, n) => Totals(Append(u, e), q, n)
  BY EndedAppend
<1>2. EndsOnce(h, t, Append(u, e), q, serves2)
  BY <1>1 DEF RelayRun, EndsOnce
<1> DEFINE E == UpdatesOf(q)
           N == DataOf(q)
<1>3. N \in [E -> Nat] /\ e \notin E
  BY UpdateNumbers
<1>4. ASSUME sends PROVE UpRun(h, t, Append(u, e), q, reachable, n)
  <2>1. PICK a, b \in Nat :
          /\ Numbers(h, E, N, 0, a) /\ Totals(h, q, a) /\ Numbers(t, E, N, a, b) /\ Totals(t, q, b)
          /\ reachable => Numbers(u, E, N, b, n) /\ Totals(u, q, n)
    BY <1>4 DEF RelayRun, UpRun
  <2> HIDE DEF E, N
  <2>2. reachable => Numbers(Append(u, e), E, N, b, n)
    BY <1>3, <2>1, NumbersAppend
  <2> QED
    BY <1>1, <2>1, <2>2 DEF UpRun, E, N
<1> QED
  BY <1>2, <1>4 DEF RelayRun

\* The next update of a query that is served.
LEMMA RunUpdates ==
  ASSUME NEW h, NEW t, NEW u \in Seq(UpMsg), NEW q, NEW n \in Nat, NEW reachable, NEW sends,
         RelayRun(h, t, u, q, TRUE, reachable, sends, n),
         NEW e \in UpdatesOf(q), e.data = n + 1, NEW serves2
  PROVE  RelayRun(h, t, Append(u, e), q, serves2, reachable, sends, n + 1)
<1> DEFINE E == UpdatesOf(q)
           N == DataOf(q)
<1>1. N \in [E -> Nat] /\ N[e] = n + 1 /\ IsUpdate(e, q) /\ e \in UpMsg
  BY UpdateNumbers
<1>2. ~IsResponse(e, q)
  BY <1>1 DEF IsUpdate, IsResponse
<1>3. NoResponse(h, q) /\ NoResponse(t, q) /\ NoResponse(u, q) /\ Ended(t, q)
  BY DEF RelayRun, EndsOnce
<1>4. NoResponse(Append(u, e), q)
  BY <1>1, <1>2, <1>3, EndedAppend
<1>5. Ended(Append(u, e), q) /\ Totals(Append(u, e), q, n + 1)
  BY <1>4, EndedNone
<1>6. EndsOnce(h, t, Append(u, e), q, serves2)
  BY <1>3, <1>4, <1>5 DEF EndsOnce
<1>7. ASSUME sends PROVE UpRun(h, t, Append(u, e), q, reachable, n + 1)
  <2>1. PICK a, b \in Nat :
          /\ Numbers(h, E, N, 0, a) /\ Totals(h, q, a) /\ Numbers(t, E, N, a, b) /\ Totals(t, q, b)
          /\ reachable => Numbers(u, E, N, b, n) /\ Totals(u, q, n)
    BY <1>7 DEF RelayRun, UpRun
  <2>2. e \in E
    OBVIOUS
  <2> HIDE DEF E, N
  <2>3. reachable => Numbers(Append(u, e), E, N, b, n + 1)
    BY <1>1, <2>1, <2>2, NumbersAppend
  <2> QED
    BY <1>5, <2>1, <2>3 DEF UpRun, E, N
<1> QED
  BY <1>6, <1>7 DEF RelayRun

\* The background passes a message on to the page.
LEMMA RunPasses ==
  ASSUME NEW h, NEW t \in Seq(UpMsg), NEW u \in Seq(UpMsg), u # <<>>, NEW q, NEW n \in Nat,
         NEW serves, NEW sends,
         RelayRun(h, t, u, q, serves, TRUE, sends, n), NEW reachable2
  PROVE  RelayRun(h, Append(t, Head(u)), Tail(u), q, serves, reachable2, sends, n)
<1> DEFINE E == UpdatesOf(q)
           N == DataOf(q)
           m == Head(u)
<1>1. N \in [E -> Nat] /\ m \in UpMsg /\ (m \in E => N[m] = m.data) /\ (m \in E <=> IsUpdate(m, q))
  BY TailIsSeq, UpdateNumbers
<1>2. ~(IsUpdate(m, q) /\ IsResponse(m, q))
  BY DEF IsUpdate, IsResponse
<1>3. /\ NoUpdate(u, q) <=> NoUpdate(Tail(u), q) /\ ~IsUpdate(m, q)
      /\ NoResponse(u, q) <=> NoResponse(Tail(u), q) /\ ~IsResponse(m, q)
      /\ Ended(u, q) => Ended(Tail(u), q) /\ (IsResponse(m, q) => NoUpdate(u, q))
      /\ \A k : Totals(u, q, k) => Totals(Tail(u), q, k) /\ (IsResponse(m, q) /\ m \in ReplyMsg => m.data = k)
  BY EndedTail
<1> HIDE DEF m
<1>4. /\ NoUpdate(Append(t, m), q) <=> NoUpdate(t, q) /\ ~IsUpdate(m, q)
      /\ NoResponse(Append(t, m), q) <=> NoResponse(t, q) /\ ~IsResponse(m, q)
      /\ Ended(t, q) /\ (NoResponse(t, q) \/ ~IsUpdate(m, q)) => Ended(Append(t, m), q)
      /\ \A k : Totals(t, q, k) /\ (IsResponse(m, q) /\ m \in ReplyMsg => m.data = k)
                       => Totals(Append(t, m), q, k)
  BY <1>1, EndedAppend
<1>5. EndsOnce(h, t, u, q, serves)
  BY DEF RelayRun
<1>6. IsUpdate(m, q) => NoResponse(t, q)
  BY <1>3, <1>5 DEF EndsOnce
<1>7. IsResponse(m, q) => NoUpdate(u, q)
  BY <1>3, <1>5 DEF EndsOnce
<1>8. EndsOnce(h, Append(t, m), Tail(u), q, serves)
  BY <1>3, <1>4, <1>5, <1>6, <1>7 DEF EndsOnce
<1>9. ASSUME sends PROVE UpRun(h, Append(t, m), Tail(u), q, reachable2, n)
  <2>1. PICK a, b \in Nat :
          /\ Numbers(h, E, N, 0, a) /\ Totals(h, q, a) /\ Numbers(t, E, N, a, b) /\ Totals(t, q, b)
          /\ Numbers(u, E, N, b, n) /\ Totals(u, q, n)
    BY <1>9 DEF RelayRun, UpRun
  <2>2. NoUpdate(u, q) => \A i \in DOMAIN u : u[i] \notin E
    BY EndedNone
  <2>3. \A k : NoResponse(Append(t, m), q) => Totals(Append(t, m), q, k)
    BY EndedNone
  <2> HIDE DEF E, N
  <2>4. CASE m \in E
    <3>1. N[m] = b + 1 /\ Numbers(Tail(u), E, N, b + 1, n)
      BY <1>1, <2>1, <2>4, NumbersTail DEF m
    <3>2. Numbers(Append(t, m), E, N, a, b + 1)
      BY <1>1, <2>1, <2>4, <3>1, NumbersAppend
    <3>3. Totals(Append(t, m), q, b + 1)
      BY <1>1, <1>2, <1>4, <1>6, <2>3, <2>4
    <3> QED
      BY <1>3, <2>1, <3>1, <3>2, <3>3 DEF UpRun, E, N
  <2>5. CASE m \notin E
    <3>1. Numbers(Tail(u), E, N, b, n)
      BY <1>1, <2>1, <2>5, NumbersTail DEF m
    <3>2. Numbers(Append(t, m), E, N, a, b)
      BY <1>1, <2>1, <2>5, NumbersAppend
    <3>3. IsResponse(m, q) => b = n
      BY <1>7, <2>1, <2>2, NumbersNone
    <3>4. Totals(Append(t, m), q, b)
      BY <1>3, <1>4, <2>1, <3>3
    <3> QED
      BY <1>3, <2>1, <3>1, <3>2, <3>4 DEF UpRun, E, N
  <2> QED
    BY <2>4, <2>5
<1> QED
  BY <1>8, <1>9 DEF RelayRun, m

\* The background takes a message and drops it, or sends it to others.
LEMMA RunDrops ==
  ASSUME NEW h, NEW t, NEW u \in Seq(UpMsg), u # <<>>, NEW q, NEW n \in Nat,
         NEW serves, NEW reachable, NEW sends,
         RelayRun(h, t, u, q, serves, reachable, sends, n), ~reachable \/ ~IsUpdate(Head(u), q)
  PROVE  RelayRun(h, t, Tail(u), q, serves, reachable, sends, n)
<1> DEFINE E == UpdatesOf(q)
           N == DataOf(q)
           m == Head(u)
<1>1. N \in [E -> Nat] /\ m \in UpMsg /\ (m \in E <=> IsUpdate(m, q))
  BY TailIsSeq, UpdateNumbers
<1>2. /\ NoUpdate(u, q) <=> NoUpdate(Tail(u), q) /\ ~IsUpdate(m, q)
      /\ NoResponse(u, q) <=> NoResponse(Tail(u), q) /\ ~IsResponse(m, q)
      /\ Ended(u, q) => Ended(Tail(u), q)
      /\ Totals(u, q, n) => Totals(Tail(u), q, n)
  BY EndedTail
<1>3. EndsOnce(h, t, Tail(u), q, serves)
  BY <1>2 DEF RelayRun, EndsOnce
<1>4. ASSUME sends PROVE UpRun(h, t, Tail(u), q, reachable, n)
  <2>1. PICK a, b \in Nat :
          /\ Numbers(h, E, N, 0, a) /\ Totals(h, q, a) /\ Numbers(t, E, N, a, b) /\ Totals(t, q, b)
          /\ reachable => Numbers(u, E, N, b, n) /\ Totals(u, q, n)
    BY <1>4 DEF RelayRun, UpRun
  <2> HIDE DEF E, N
  <2>2. reachable => Numbers(Tail(u), E, N, b, n)
    BY <1>1, <2>1, NumbersTail
  <2> QED
    BY <1>2, <2>1, <2>2 DEF UpRun, E, N
<1> QED
  BY <1>3, <1>4 DEF RelayRun

\* The page is sent something else.
LEMMA RunNotes ==
  ASSUME NEW h, NEW t \in Seq(UpMsg), NEW u, NEW q, NEW n \in Nat, NEW serves, NEW reachable, NEW sends,
         RelayRun(h, t, u, q, serves, reachable, sends, n),
         NEW e \in UpMsg, ~IsUpdate(e, q), ~IsResponse(e, q)
  PROVE  RelayRun(h, Append(t, e), u, q, serves, reachable, sends, n)
<1>1. /\ NoUpdate(Append(t, e), q) <=> NoUpdate(t, q)
      /\ NoResponse(Append(t, e), q) <=> NoResponse(t, q)
      /\ Ended(t, q) => Ended(Append(t, e), q)
      /\ \A k : Totals(t, q, k) => Totals(Append(t, e), q, k)
  BY EndedAppend
<1>2. EndsOnce(h, Append(t, e), u, q, serves)
  BY <1>1 DEF RelayRun, EndsOnce
<1> DEFINE E == UpdatesOf(q)
           N == DataOf(q)
<1>3. N \in [E -> Nat] /\ e \notin E
  BY UpdateNumbers
<1>4. ASSUME sends PROVE UpRun(h, Append(t, e), u, q, reachable, n)
  <2>1. PICK a, b \in Nat :
          /\ Numbers(h, E, N, 0, a) /\ Totals(h, q, a) /\ Numbers(t, E, N, a, b) /\ Totals(t, q, b)
          /\ reachable => Numbers(u, E, N, b, n) /\ Totals(u, q, n)
    BY <1>4 DEF RelayRun, UpRun
  <2> HIDE DEF E, N
  <2>2. Numbers(Append(t, e), E, N, a, b)
    BY <1>3, <2>1, NumbersAppend
  <2> QED
    BY <1>1, <2>1, <2>2 DEF UpRun, E, N
<1> QED
  BY <1>2, <1>4 DEF RelayRun

\* The page hears the next message.
LEMMA RunHears ==
  ASSUME NEW h \in Seq(ReplyMsg), NEW t \in Seq(UpMsg), t # <<>>, Head(t) \in ReplyMsg, NEW u, NEW q, NEW n \in Nat,
         NEW serves, NEW reachable, NEW sends,
         RelayRun(h, t, u, q, serves, reachable, sends, n)
  PROVE  RelayRun(Append(h, Head(t)), Tail(t), u, q, serves, reachable, sends, n)
<1> DEFINE E == UpdatesOf(q)
           N == DataOf(q)
           m == Head(t)
<1>1. N \in [E -> Nat] /\ m \in UpMsg /\ (m \in E => N[m] = m.data) /\ (m \in E <=> IsUpdate(m, q))
  BY TailIsSeq, UpdateNumbers
<1>2. ~(IsUpdate(m, q) /\ IsResponse(m, q))
  BY DEF IsUpdate, IsResponse
<1>3. /\ NoUpdate(t, q) <=> NoUpdate(Tail(t), q) /\ ~IsUpdate(m, q)
      /\ NoResponse(t, q) <=> NoResponse(Tail(t), q) /\ ~IsResponse(m, q)
      /\ Ended(t, q) => Ended(Tail(t), q) /\ (IsResponse(m, q) => NoUpdate(t, q))
      /\ \A k : Totals(t, q, k) => Totals(Tail(t), q, k) /\ (IsResponse(m, q) /\ m \in ReplyMsg => m.data = k)
  BY EndedTail
<1>m. m \in ReplyMsg
  OBVIOUS
<1> HIDE DEF m
<1>4. /\ NoResponse(Append(h, m), q) <=> NoResponse(h, q) /\ ~IsResponse(m, q)
      /\ \A k : Totals(h, q, k) /\ (IsResponse(m, q) => m.data = k) => Totals(Append(h, m), q, k)
  BY <1>m, EndedAppend
<1>5. EndsOnce(h, t, u, q, serves)
  BY DEF RelayRun
<1>6. IsUpdate(m, q) => NoResponse(h, q)
  BY <1>3, <1>5 DEF EndsOnce
<1>7. IsResponse(m, q) => NoUpdate(t, q) /\ NoUpdate(u, q)
  BY <1>3, <1>5 DEF EndsOnce
<1>8. EndsOnce(Append(h, m), Tail(t), u, q, serves)
  BY <1>3, <1>4, <1>5, <1>6, <1>7 DEF EndsOnce
<1>9. ASSUME sends PROVE UpRun(Append(h, m), Tail(t), u, q, reachable, n)
  <2>1. PICK a, b \in Nat :
          /\ Numbers(h, E, N, 0, a) /\ Totals(h, q, a) /\ Numbers(t, E, N, a, b) /\ Totals(t, q, b)
          /\ reachable => Numbers(u, E, N, b, n) /\ Totals(u, q, n)
    BY <1>9 DEF RelayRun, UpRun
  <2>2. NoUpdate(t, q) => \A i \in DOMAIN t : t[i] \notin E
    BY EndedNone
  <2>3. \A k : NoResponse(Append(h, m), q) => Totals(Append(h, m), q, k)
    BY EndedNone
  <2> HIDE DEF E, N
  <2>4. CASE m \in E
    <3>1. N[m] = a + 1 /\ Numbers(Tail(t), E, N, a + 1, b)
      BY <1>1, <2>1, <2>4, NumbersTail DEF m
    <3>2. Numbers(Append(h, m), E, N, 0, a + 1)
      BY <1>1, <1>m, <2>1, <2>4, <3>1, NumbersAppend
    <3>3. Totals(Append(h, m), q, a + 1)
      BY <1>1, <1>2, <1>4, <1>6, <2>3, <2>4
    <3> QED
      BY <1>3, <2>1, <3>1, <3>2, <3>3 DEF UpRun, E, N
  <2>5. CASE m \notin E
    <3>1. Numbers(Tail(t), E, N, a, b)
      BY <1>1, <2>1, <2>5, NumbersTail DEF m
    <3>2. Numbers(Append(h, m), E, N, 0, a)
      BY <1>1, <1>m, <2>1, <2>5, NumbersAppend
    <3>3. IsResponse(m, q) => a = b
      BY <1>7, <2>1, <2>2, NumbersNone
    <3>4. Totals(Append(h, m), q, a)
      BY <1>3, <1>4, <1>m, <2>1, <3>3
    <3> QED
      BY <1>3, <2>1, <3>1, <3>2, <3>4 DEF UpRun, E, N
  <2> QED
    BY <2>4, <2>5
<1> QED
  BY <1>8, <1>9 DEF RelayRun, m

\* The page drops the next message.
LEMMA RunIgnores ==
  ASSUME NEW h, NEW t \in Seq(UpMsg), t # <<>>, NEW u, NEW q, NEW n \in Nat, NEW serves, NEW reachable, NEW sends,
         RelayRun(h, t, u, q, serves, reachable, sends, n), ~sends \/ ~IsUpdate(Head(t), q)
  PROVE  RelayRun(h, Tail(t), u, q, serves, reachable, sends, n)
<1> DEFINE E == UpdatesOf(q)
           N == DataOf(q)
           m == Head(t)
<1>1. N \in [E -> Nat] /\ m \in UpMsg /\ (m \in E <=> IsUpdate(m, q))
  BY TailIsSeq, UpdateNumbers
<1>2. /\ NoUpdate(t, q) <=> NoUpdate(Tail(t), q) /\ ~IsUpdate(m, q)
      /\ NoResponse(t, q) <=> NoResponse(Tail(t), q) /\ ~IsResponse(m, q)
      /\ Ended(t, q) => Ended(Tail(t), q)
      /\ \A k : Totals(t, q, k) => Totals(Tail(t), q, k)
  BY EndedTail
<1>3. EndsOnce(h, Tail(t), u, q, serves)
  BY <1>2 DEF RelayRun, EndsOnce
<1>4. ASSUME sends PROVE UpRun(h, Tail(t), u, q, reachable, n)
  <2>1. PICK a, b \in Nat :
          /\ Numbers(h, E, N, 0, a) /\ Totals(h, q, a) /\ Numbers(t, E, N, a, b) /\ Totals(t, q, b)
          /\ reachable => Numbers(u, E, N, b, n) /\ Totals(u, q, n)
    BY <1>4 DEF RelayRun, UpRun
  <2> HIDE DEF E, N
  <2>2. Numbers(Tail(t), E, N, a, b)
    BY <1>1, <1>4, <2>1, NumbersTail
  <2> QED
    BY <1>2, <2>1, <2>2 DEF UpRun, E, N
<1> QED
  BY <1>3, <1>4 DEF RelayRun

\* The page is gone, with what it was sent.
LEMMA RunEnds ==
  ASSUME NEW h, NEW t, NEW u, NEW q, NEW n, NEW serves, NEW reachable, NEW sends,
         RelayRun(h, t, u, q, serves, reachable, sends, n)
  PROVE  RelayRun(h, <<>>, u, q, serves, FALSE, sends, n)
<1>1. NoUpdate(<<>>, q) /\ NoResponse(<<>>, q) /\ Ended(<<>>, q) /\ \A k : Totals(<<>>, q, k)
  BY EndedNone
<1>2. EndsOnce(h, <<>>, u, q, serves)
  BY <1>1 DEF RelayRun, EndsOnce
<1> DEFINE E == UpdatesOf(q)
           N == DataOf(q)
<1>3. ASSUME sends PROVE UpRun(h, <<>>, u, q, FALSE, n)
  <2>1. PICK a \in Nat : Numbers(h, E, N, 0, a) /\ Totals(h, q, a)
    BY <1>3 DEF RelayRun, UpRun
  <2>2. \A i \in DOMAIN <<>> : <<>>[i] \notin E
    BY <1>1, EndedNone
  <2> HIDE DEF E, N
  <2>3. Numbers(<<>>, E, N, a, a)
    BY <2>2, NumbersNone
  <2> QED
    BY <1>1, <2>1, <2>3 DEF UpRun, E, N
<1> QED
  BY <1>2, <1>3 DEF RelayRun

\* The call that the kernel takes is the only one, and unanswered.
LEMMA TakenIsQuiet ==
  ASSUME OnceInv, NEW q \in Calls, down # <<>>, Head(down).method = "moduleCall", Head(down).nonce = q
  PROVE  Quiet(q) /\ ~Serves(q) /\ q \in SentCalls /\ ~NoCallIn(down, q)
<1>1. down \in Seq(DownMsg) /\ down \in Seq(CallsOf(SentCalls))
  BY DEF OnceInv, MentionInv, TypeInv, ChannelTypes, ChannelMentions
<1>2. IsCall(Head(down), q)
  BY DEF IsCall
<1>3. ~NoCallIn(down, q)
  BY <1>1, <1>2, OnceTail
<1>4. Quiet(q)
  BY <1>3 DEF OnceInv, CallOnce
<1>5. q \in SentCalls
  BY <1>1, TailIsSeq, CallMention
<1> QED
  BY <1>3, <1>4, <1>5 DEF Quiet

\* The kernel serves queries only while it is loaded, each under a nonce of its own.
LEMMA KernelNext == ASSUME OnceInv, KernelInv, [Next]_vars PROVE KernelInv'
<1>1. /\ kernelQueries \subseteq [nonce : Nat, call : Calls] /\ kernelNonces \in Nat /\ down \in Seq(DownMsg)
  BY DEF OnceInv, MentionInv, TypeInv, FrameTypes, ChannelTypes
<1>2. ASSUME kernelQueries' \subseteq kernelQueries, kernelNonces' = kernelNonces \/ kernelQueries' = {},
             kernelLoaded' = kernelLoaded \/ kernelQueries' = {}
      PROVE  KernelInv'
  BY <1>2 DEF KernelInv
<1>3. ASSUME UNCHANGED <<kernelQueries, kernelNonces, kernelLoaded>> PROVE KernelInv'
  BY <1>2, <1>3
<1>4. CASE Background \/ Page \/ UNCHANGED vars
  <2>1. UNCHANGED frameVars
    BY <1>4, Zenon DEF Background, HandleAuthStatus, HandleReply, Connect, HandleBridgeMessage, PortDisconnected,
       Page, NewKernelQuery, SendUpdate, HandleStatus, HandleResponse, HandleResponseUpdate, HandleResponseNonce,
       Reloads, Closes, Leave, vars
  <2> QED
    BY <1>3, <2>1 DEF frameVars
<1>5. CASE FrameStarts \/ LogOut \/ BootloaderAnswers \/ KernelRefuses \/ KernelRelaysUpdate
  <2>1. UNCHANGED <<kernelQueries, kernelNonces, kernelLoaded>>
    BY <1>5, Zenon DEF FrameStarts, LogOut, BootloaderAnswers, KernelRefuses, KernelRelaysUpdate, frameVars
  <2> QED
    BY <1>3, <2>1
<1>6. ASSUME NEW loaded, FrameLoads(loaded) PROVE KernelInv'
  <2>1. kernelLoaded = "not yet" /\ UNCHANGED <<kernelQueries, kernelNonces>>
    BY <1>6, Zenon DEF FrameLoads
  <2>2. kernelQueries = {}
    BY <2>1 DEF KernelInv
  <2> QED
    BY <1>2, <2>1, <2>2
<1>7. CASE Unload
  <2>1. kernelQueries' = {}
    BY <1>7, Zenon DEF Unload
  <2> QED
    BY <1>2, <2>1
<1>8. ASSUME NEW g \in kernelQueries, ModuleUpdates(g) \/ ModuleResponds(g) PROVE KernelInv'
  <2>1. /\ kernelQueries' = kernelQueries \/ kernelQueries' = kernelQueries \ {g}
        /\ UNCHANGED <<kernelNonces, kernelLoaded>>
    BY <1>8, Zenon DEF ModuleUpdates, ModuleResponds
  <2> QED
    BY <1>2, <2>1
<1>9. CASE KernelOpens
  <2>1. PICK k, c : k = kernelNonces + 1 /\ c = Head(down).nonce
    OBVIOUS
  <2>2. /\ down # <<>> /\ Head(down).method = "moduleCall" /\ kernelLoaded = "success" /\ UNCHANGED kernelLoaded
        /\ kernelNonces' = k /\ kernelQueries' = kernelQueries \cup {[nonce |-> k, call |-> c]}
    BY <1>9, <2>1, Zenon DEF KernelOpens, Take
  <2>3. c \in Calls
    <3>1. down \in Seq(CallsOf(SentCalls))
      BY DEF OnceInv, MentionInv, ChannelMentions
    <3> QED
      BY <2>1, <2>2, <3>1, TailIsSeq, CallMention
  <2>4. ~Serves(c)
    BY <2>1, <2>2, <2>3, TakenIsQuiet
  <2>5. \A g \in kernelQueries : g.call # c /\ g.nonce \in Nat /\ g.nonce <= kernelNonces
    BY <1>1, <2>4 DEF Serves, KernelInv
  <2>6. \A g \in kernelQueries : g.nonce <= k /\ g.nonce # k
    BY <1>1, <2>1, <2>5
  <2>7. k \in Nat
    BY <1>1, <2>1
  <2>8. \A g \in kernelQueries' : g.nonce <= k
    BY <2>2, <2>6, <2>7
  <2>9. \A g, h \in kernelQueries' : g.call = h.call \/ g.nonce = h.nonce => g = h
    <3>1. \A g, h \in kernelQueries : g.call = h.call \/ g.nonce = h.nonce => g = h
      BY DEF KernelInv
    <3> QED
      BY <2>2, <2>5, <2>6, <3>1
  <2> QED
    BY <2>2, <2>8, <2>9 DEF KernelInv
<1> QED
  BY <1>4, <1>5, <1>6, <1>7, <1>8, <1>9, Zenon DEF Next, Frame

(***************************************************************************)
(* The answers: steps of the frame.                                        *)
(***************************************************************************)

\* The frame sends nothing, something else, the answer that ends the query, or its next update.
FrameReply(q) ==
    /\ Serves(q)' => Serves(q) \/ Taken(q)
    /\ \/ up' = up /\ posted'[q] = posted[q]
       \/ \E m \in UpMsg :
              /\ up' = Append(up, m) /\ posted'[q] = posted[q] /\ ~IsUpdate(m, q)
              /\ IsResponse(m, q) =>
                     /\ ~Serves(q)'
                     /\ m \in ReplyMsg => m.data = (IF Taken(q) THEN 0 ELSE posted[q])
       \/ \E m \in UpdatesOf(q) :
              /\ Serves(q) /\ up' = Append(up, m)
              /\ m.data = posted[q] + 1 /\ posted'[q] = posted[q] + 1

LEMMA FrameReplies == ASSUME OnceInv, KernelInv, Frame, NEW q \in Calls PROVE FrameReply(q)
<1>0. TypeInv
  BY DEF OnceInv, MentionInv
<1>1. FrameTurn(q)
  BY <1>0, FrameTurns
<1>2. Serves(q)' => Serves(q) \/ Taken(q)
  BY <1>1 DEF FrameTurn
<1>3. /\ kernelQueries \subseteq [nonce : Nat, call : Calls] /\ posted \in [Calls -> Nat] /\ up \in Seq(UpMsg)
      /\ frame = "absent" => kernelQueries = {}
  BY <1>0 DEF TypeInv, FrameTypes, ChannelTypes
<1>4. up' = up \/ \E m \in UpMsg : up' = Append(up, m)
  BY <1>0, FrameSends, Zenon DEF Sends
<1>5. \A m, n : up' = Append(up, m) /\ up' = Append(up, n) => m = n
  BY <1>3, AppendIsInjective
<1>6. q # NoCall
  BY ExtensionRelayAssumption DEF ExtensionRelayAssumption
<1>7. Taken(q) => ~Serves(q)
  BY TakenIsQuiet DEF Taken, IsCall
<1>8. ASSUME NEW m, up' = Append(up, m), UNCHANGED posted, ~IsUpdate(m, q),
             IsResponse(m, q) => /\ ~Serves(q)'
                                 /\ m \in ReplyMsg => m.data = (IF Taken(q) THEN 0 ELSE posted[q])
      PROVE  FrameReply(q)
  <2>1. up' # up
    <3>1. Len(up) \in Nat /\ Len(up') = Len(up) + 1
      BY <1>3, <1>8
    <3> QED
      BY <3>1
  <2>2. m \in UpMsg
    BY <1>4, <1>5, <1>8, <2>1
  <2>3. posted'[q] = posted[q]
    BY <1>8
  <2> QED
    BY <1>2, <1>8, <2>2, <2>3, Zenon DEF FrameReply
<1>9. ASSUME UNCHANGED <<up, posted>> PROVE FrameReply(q)
  BY <1>2, <1>9 DEF FrameReply
<1>10. ASSUME NEW m, up' = Append(up, m), UNCHANGED posted, m.nonce # q PROVE FrameReply(q)
  BY <1>8, <1>10 DEF IsUpdate, IsResponse
<1>11. CASE FrameStarts
  <2>1. UNCHANGED posted /\ up' = Append(up, [Status("not yet", FALSE) EXCEPT !.from = session'])
    BY <1>11, Zenon DEF FrameStarts
  <2>2. [Status("not yet", FALSE) EXCEPT !.from = session'].nonce # q
    BY <1>6 DEF Status, Message
  <2> QED
    BY <1>10, <2>1, <2>2
<1>12. ASSUME NEW loaded, NEW logout, UNCHANGED posted, up' = Append(up, Status(loaded, logout))
       PROVE  FrameReply(q)
  <2>1. Status(loaded, logout).nonce # q
    BY <1>6 DEF Status, Message
  <2> QED
    BY <1>10, <1>12, <2>1
<1>13. ASSUME NEW loaded, FrameLoads(loaded) PROVE FrameReply(q)
  BY <1>12, <1>13, Zenon DEF FrameLoads
<1>14. CASE LogOut
  BY <1>12, <1>14, Zenon DEF LogOut
<1>15. CASE Unload \/ KernelRelaysUpdate
  BY <1>9, <1>15, Zenon DEF Unload, KernelRelaysUpdate
<1>16. ASSUME UNCHANGED kernelQueries, NEW m, m.nonce = q => Taken(q), IsResponse(m, q),
              m \in ReplyMsg => m.data = 0
       PROVE  ~Serves(q)' /\ (m \in ReplyMsg => m.data = (IF Taken(q) THEN 0 ELSE posted[q]))
  BY <1>7, <1>16 DEF IsResponse, Serves
<1>17. CASE BootloaderAnswers
  <2>1. PICK n : n = IF Head(down).method = "moduleCall" THEN Head(down).nonce ELSE NoCall
    OBVIOUS
  <2>2. UNCHANGED <<kernelQueries, posted>> /\ down # <<>> /\ down' = Tail(down) /\ up' = Append(up, Error(n))
    BY <1>17, <2>1, Zenon DEF BootloaderAnswers, Take, frameVars
  <2>3. n = q => Taken(q)
    BY <1>6, <2>1, <2>2 DEF Taken, IsCall
  <2>4. PICK m : m = Error(n)
    OBVIOUS
  <2>5. m.nonce = n /\ ~IsUpdate(m, q) /\ m \notin ReplyMsg
    BY <2>4 DEF Error, IsUpdate, ReplyMsg
  <2>6. m.nonce = q => Taken(q)
    BY <2>3, <2>5
  <2> QED
    BY <1>8, <1>16, <2>2, <2>4, <2>5, <2>6
<1>18. CASE KernelRefuses
  <2>1. PICK m : m = Message("response", Head(down).nonce, 0)
    OBVIOUS
  <2>2. /\ UNCHANGED <<kernelQueries, posted>> /\ down # <<>> /\ down' = Tail(down) /\ Head(down).method = "moduleCall"
        /\ up' = Append(up, m)
    BY <1>18, <2>1, Zenon DEF KernelRefuses, Take, frameVars
  <2>3. m.nonce = Head(down).nonce /\ m.data = 0 /\ ~IsUpdate(m, q)
    BY <2>1 DEF Message, IsUpdate
  <2>4. m.nonce = q => Taken(q)
    BY <2>2, <2>3 DEF Taken, IsCall
  <2> QED
    BY <1>8, <1>16, <2>2, <2>3, <2>4
<1>19. CASE KernelOpens
  <2>1. PICK m : m = Message("responseNonce", Head(down).nonce, kernelNonces + 1)
    OBVIOUS
  <2>2. UNCHANGED posted /\ (up' = up \/ up' = Append(up, m))
    BY <1>19, <2>1, Zenon DEF KernelOpens
  <2>3. ~IsUpdate(m, q) /\ ~IsResponse(m, q)
    BY <2>1 DEF Message, IsUpdate, IsResponse
  <2> QED
    BY <1>8, <1>9, <2>2, <2>3
<1>20. ASSUME NEW g \in kernelQueries, ModuleUpdates(g) PROVE FrameReply(q)
  <2>1. PICK m : m = Message("responseUpdate", g.call, posted[g.call] + 1)
    OBVIOUS
  <2>2. posted' = [posted EXCEPT ![g.call] = posted[g.call] + 1] /\ up' = Append(up, m)
    BY <1>20, <2>1, Zenon DEF ModuleUpdates
  <2>3. m.nonce = g.call /\ m.data = posted[g.call] + 1 /\ m.method = "responseUpdate"
    BY <2>1 DEF Message
  <2>4. g.call \in Calls
    BY <1>3
  <2>5. CASE g.call = q
    <3>1. m \in ReplyMsg
      <4>1. frame # "absent" /\ posted[q] + 1 \in Nat
        BY <1>3, <1>20
      <4>2. FrameTypes
        BY <1>0 DEF TypeInv
      <4> QED
        BY <2>1, <2>5, <4>1, <4>2, MadeMessages
    <3>2. m \in UpdatesOf(q)
      BY <2>3, <2>5, <3>1 DEF UpdatesOf, IsUpdate
    <3>3. Serves(q) /\ posted'[q] = posted[q] + 1
      BY <1>3, <2>2, <2>5 DEF Serves
    <3> QED
      BY <1>2, <2>2, <2>3, <2>5, <3>2, <3>3, Zenon DEF FrameReply
  <2>6. CASE g.call # q
    <3>1. posted'[q] = posted[q] /\ m \in UpMsg
      <4>1. frame # "absent" /\ posted[g.call] + 1 \in Nat
        BY <1>3, <1>20, <2>4
      <4>2. m \in ReplyMsg
        BY <1>0, <2>1, <2>4, <4>1, MadeMessages DEF TypeInv
      <4> QED
        BY <1>3, <2>2, <2>4, <2>6, <4>2 DEF UpMsg
    <3>2. ~IsUpdate(m, q) /\ ~IsResponse(m, q)
      BY <2>3, <2>6 DEF IsUpdate, IsResponse
    <3> QED
      BY <1>2, <2>2, <3>1, <3>2, Zenon DEF FrameReply
  <2> QED
    BY <2>5, <2>6
<1>21. ASSUME NEW g \in kernelQueries, ModuleResponds(g) PROVE FrameReply(q)
  <2>1. PICK m : m = Message("response", g.call, posted[g.call])
    OBVIOUS
  <2>2. UNCHANGED posted /\ up' = Append(up, m) /\ kernelQueries' = kernelQueries \ {g}
    BY <1>21, <2>1, Zenon DEF ModuleResponds
  <2>3. m.nonce = g.call /\ m.data = posted[g.call] /\ ~IsUpdate(m, q)
    BY <2>1 DEF Message, IsUpdate
  <2>4. CASE g.call = q
    <3>1. ~Serves(q)'
      BY <2>2, <2>4 DEF Serves, KernelInv
    <3>2. ~Taken(q)
      BY <1>7, <2>4 DEF Serves
    <3> QED
      BY <1>8, <2>2, <2>3, <2>4, <3>1, <3>2
  <2>5. CASE g.call # q
    BY <1>10, <2>2, <2>3, <2>5
  <2> QED
    BY <2>4, <2>5
<1> QED
  BY <1>11, <1>13, <1>14, <1>15, <1>17, <1>18, <1>19, <1>20, <1>21, Zenon DEF Frame

\* A query that nothing has answered yet may be served.
LEMMA RunOpens ==
  ASSUME NEW h, NEW t, NEW u, NEW q, NEW n \in Nat, NEW serves, NEW reachable, NEW sends,
         RelayRun(h, t, u, q, serves, reachable, sends, n), h = <<>>, NoReply(t, q), NoReply(u, q)
  PROVE  /\ RelayRun(h, t, u, q, TRUE, reachable, sends, n)
         /\ reachable /\ sends => n = 0
<1>1. /\ NoUpdate(h, q) /\ NoResponse(h, q) /\ NoUpdate(t, q) /\ NoResponse(t, q) /\ NoUpdate(u, q) /\ NoResponse(u, q)
      /\ Ended(t, q) /\ Ended(u, q)
  BY EndedNone
<1>2. EndsOnce(h, t, u, q, TRUE)
  BY <1>1 DEF EndsOnce
<1> DEFINE E == UpdatesOf(q)
           N == DataOf(q)
<1>3. ASSUME reachable, sends PROVE n = 0
  <2>1. PICK a, b \in Nat : Numbers(h, E, N, 0, a) /\ Numbers(t, E, N, a, b) /\ Numbers(u, E, N, b, n)
    BY <1>3 DEF RelayRun, UpRun
  <2>2. \A s : NoUpdate(s, q) => \A i \in DOMAIN s : s[i] \notin E
    BY EndedNone
  <2> HIDE DEF E, N
  <2>3. 0 = a /\ a = b /\ b = n
    BY <1>1, <2>1, <2>2, NumbersNone
  <2> QED
    BY <2>3
<1> QED
  BY <1>2, <1>3 DEF RelayRun

\* A response with another number only matters as long as the page can be reached.
LEMMA RunRefuses ==
  ASSUME NEW h, NEW t, NEW u \in Seq(UpMsg), NEW q, NEW n \in Nat, NEW serves, NEW reachable, NEW sends,
         RelayRun(h, t, u, q, serves, reachable, sends, n),
         NEW e \in UpMsg, ~IsUpdate(e, q), ~(reachable /\ sends)
  PROVE  RelayRun(h, t, Append(u, e), q, FALSE, reachable, sends, n)
<1>1. /\ NoUpdate(Append(u, e), q) <=> NoUpdate(u, q)
      /\ NoResponse(Append(u, e), q) <=> NoResponse(u, q) /\ ~IsResponse(e, q)
      /\ Ended(u, q) => Ended(Append(u, e), q)
  BY EndedAppend
<1>2. EndsOnce(h, t, Append(u, e), q, FALSE)
  BY <1>1 DEF RelayRun, EndsOnce
<1>3. sends => UpRun(h, t, Append(u, e), q, reachable, n)
  BY DEF RelayRun, UpRun
<1> QED
  BY <1>2, <1>3 DEF RelayRun

LEMMA AnswersFrame ==
  ASSUME OnceInv, KernelInv, Frame, NEW q \in Calls, AnswersOf(q), KnownInv(q)
  PROVE  AnswersOf(q)' /\ KnownInv(q)'
<1>1. UNCHANGED <<ports, bgQueries, doc, queries, heard, toPage>>
  BY Zenon DEF Frame, FrameStarts, FrameLoads, LogOut, Unload, BootloaderAnswers, KernelRefuses, KernelOpens,
     KernelRelaysUpdate, ModuleUpdates, ModuleResponds, backVars, pageVars
<1>2. FrameReply(q)
  BY FrameReplies
<1>3. up \in Seq(UpMsg) /\ down \in Seq(DownMsg) /\ posted[q] \in Nat
  BY DEF OnceInv, MentionInv, TypeInv, ChannelTypes, FrameTypes
<1>4. SentCalls' = SentCalls
  BY <1>1, SentIsKept
<1>5. PICK d : d = queries[q].owner
  OBVIOUS
<1>6. Taken(q) => Quiet(q) /\ ~NoCallIn(down, q) /\ q \in SentCalls
  BY TakenIsQuiet DEF Taken, IsCall
<1>7. PICK h, t, serves, reachable, sends, n :
        /\ h = heard[q] /\ t = toPage[d] /\ serves = Serves(q) /\ reachable = Reachable(d)
        /\ sends = queries[q].sendUpdates /\ n = posted[q]
  OBVIOUS
<1>8. d \in Docs \/ q \notin SentCalls
  BY <1>5 DEF OnceInv, MentionInv, TypeInv, PageTypes, QueriesOwned, SentCalls
<1>9. reachable => reachable
  OBVIOUS
<1>10. AnswersOf(q)'
  <2> SUFFICES ASSUME q \in SentCalls PROVE RelayRun(h, t, up', q, Serves(q)', reachable, sends, posted'[q])
    BY <1>1, <1>4, <1>5, <1>7 DEF AnswersOf, Reachable
  <2>1. RelayRun(h, t, up, q, serves, reachable, sends, n)
    BY <1>5, <1>7 DEF AnswersOf
  <2>2. Taken(q) => /\ RelayRun(h, t, up, q, TRUE, reachable, sends, n)
                    /\ reachable /\ sends => n = 0
    <3>1. Taken(q) => h = <<>> /\ NoReply(t, q) /\ NoReply(up, q)
      BY <1>6, <1>7, <1>8 DEF Quiet
    <3> QED
      BY <1>3, <1>7, <2>1, <3>1, RunOpens, Zenon
  <2>3. Serves(q)' => serves \/ Taken(q)
    BY <1>2, <1>7 DEF FrameReply
  <2>4. PICK open : open = (serves \/ Taken(q)) /\ RelayRun(h, t, up, q, open, reachable, sends, n)
    <3>1. CASE Taken(q)
      BY <2>2, <3>1
    <3>2. CASE ~Taken(q)
      <4>1. PICK open : open = (serves \/ Taken(q))
        OBVIOUS
      <4>2. open => serves
        BY <3>2, <4>1
      <4>3. RelayRun(h, t, up, q, open, reachable, sends, n)
        BY <1>9, <2>1, <4>2, RunWeakens
      <4> QED
        BY <4>1, <4>3
    <3> QED
      BY <3>1, <3>2
  <2>5. PICK serves2 : serves2 = Serves(q)'
    OBVIOUS
  <2>6. serves2 => open
    BY <2>3, <2>4, <2>5
  <2>7. CASE up' = up /\ posted'[q] = posted[q]
    <3>1. RelayRun(h, t, up, q, serves2, reachable, sends, n)
      BY <1>9, <2>4, <2>6, RunWeakens, Zenon
    <3> QED
      BY <1>7, <2>5, <2>7, <3>1
  <2>8. ASSUME NEW m \in UpMsg, up' = Append(up, m), posted'[q] = posted[q], ~IsUpdate(m, q),
               IsResponse(m, q) =>
                     /\ ~Serves(q)'
                     /\ m \in ReplyMsg => m.data = (IF Taken(q) THEN 0 ELSE posted[q])
        PROVE  RelayRun(h, t, up', q, Serves(q)', reachable, sends, posted'[q])
    <3>1. n \in Nat
      BY <1>3, <1>7
    <3>2. CASE IsResponse(m, q) /\ Taken(q) /\ ~(reachable /\ sends)
      <4>1. PICK u, no : u = Append(up, m) /\ no = FALSE
        OBVIOUS
      <4>2. RelayRun(h, t, Append(up, m), q, FALSE, reachable, sends, n)
        BY <1>3, <2>4, <2>8, <3>1, <3>2, RunRefuses, Zenon
      <4>3. RelayRun(h, t, u, q, no, reachable, sends, n)
        BY <4>1, <4>2
      <4>4. serves2 => no
        BY <2>5, <2>8, <3>2
      <4>5. RelayRun(h, t, u, q, serves2, reachable, sends, n)
        BY <4>3, <4>4, RunWeakens
      <4> QED
        BY <1>7, <2>5, <2>8, <4>1, <4>5
    <3>3. CASE ~(IsResponse(m, q) /\ Taken(q)) \/ (reachable /\ sends)
      <4>1. IsResponse(m, q) /\ m \in ReplyMsg => m.data = n
        BY <1>7, <2>2, <2>8, <3>3
      <4>2. serves2 => open /\ ~IsResponse(m, q)
        BY <2>5, <2>6, <2>8
      <4>3. RelayRun(h, t, Append(up, m), q, serves2, reachable, sends, n)
        BY <1>3, <2>4, <2>8, <3>1, <4>1, <4>2, RunSends, Zenon
      <4> QED
        BY <1>7, <2>5, <2>8, <4>3
    <3> QED
      BY <3>2, <3>3
  <2>9. ASSUME NEW m \in UpdatesOf(q), Serves(q), up' = Append(up, m), m.data = posted[q] + 1,
               posted'[q] = posted[q] + 1
        PROVE  RelayRun(h, t, up', q, Serves(q)', reachable, sends, posted'[q])
    <3>1. n \in Nat /\ m.data = n + 1 /\ posted'[q] = n + 1
      BY <1>3, <1>7, <2>9
    <3>2. RelayRun(h, t, up, q, TRUE, reachable, sends, n)
      BY <1>7, <2>1, <2>9, RunWeakens
    <3>3. RelayRun(h, t, Append(up, m), q, serves2, reachable, sends, n + 1)
      BY <1>3, <3>1, <3>2, RunUpdates, Zenon
    <3> QED
      BY <2>5, <2>9, <3>1, <3>3
  <2> QED
    BY <1>2, <2>7, <2>8, <2>9, Zenon DEF FrameReply
<1>11. KnownInv(q)'
  <2>1. NoUpdate(up, q) => NoUpdate(up', q) \/ Serves(q)
    <3>1. ASSUME NEW m \in UpMsg, up' = Append(up, m), ~IsUpdate(m, q), NoUpdate(up, q) PROVE NoUpdate(up', q)
      BY <1>3, <3>1, EndedAppend
    <3> QED
      BY <1>2, <3>1, Zenon DEF FrameReply
  <2>2. NoCallIn(down, q) => NoCallIn(down', q)
    <3>1. down' = down \/ down' = <<>> \/ (down # <<>> /\ down' = Tail(down))
      BY FrameTurns DEF OnceInv, MentionInv, FrameTurn
    <3>2. down # <<>> /\ NoCallIn(down, q) => NoCallIn(Tail(down), q)
      BY <1>3, OnceTail
    <3>3. NoCallIn(<<>>, q)
      BY OnceEmpty
    <3> QED
      BY <3>1, <3>2, <3>3
  <2>3. Serves(q)' => Serves(q) \/ ~NoCallIn(down, q)
    BY <1>2, <1>6 DEF FrameReply
  <2>4. Serves(q) \/ ~NoUpdate(up, q) \/ ~NoCallIn(down, q) => q \in bgQueries
    BY DEF KnownInv
  <2>5. Serves(q)' \/ ~NoUpdate(up', q) \/ ~NoCallIn(down', q) => q \in bgQueries'
    BY <1>1, <2>1, <2>2, <2>3, <2>4
  <2>6. q \notin SentCalls => posted'[q] = 0
    <3>1. Serves(q) => q \in SentCalls
      BY DEF OnceInv, MentionInv, MapMentions, Serves
    <3>2. posted'[q] # posted[q] => Serves(q)
      BY <1>2, Zenon DEF FrameReply
    <3> QED
      BY <3>1, <3>2 DEF KnownInv
  <2>7. /\ queries'[q].phase = "closed" => heard'[q] # <<>> /\ IsResponse(heard'[q][Len(heard'[q])], q)
        /\ queries'[q].sendUpdates \/ NoUpdate(heard'[q], q)
        /\ \A i \in DOMAIN heard'[q] : heard'[q][i].nonce = q
    BY <1>1 DEF KnownInv
  <2> QED
    BY <1>4, <2>5, <2>6, <2>7 DEF KnownInv
<1> QED
  BY <1>10, <1>11

\* The background takes a message that is no update of q and gives it, up to
\* twice, to the page of q, or does not.
LEMMA RunSpreads ==
  ASSUME NEW h, NEW t \in Seq(UpMsg), NEW u \in Seq(UpMsg), u # <<>>, NEW q, NEW n \in Nat,
         NEW serves, NEW reachable, NEW sends,
         RelayRun(h, t, u, q, serves, reachable, sends, n),
         NEW m, m = Head(u), ~IsUpdate(m, q), ~IsResponse(m, q),
         NEW t2, t2 = t \/ t2 = t \o <<m>> \/ t2 = t \o <<m, m>>,
         NEW reachable2, reachable2 => reachable
  PROVE  RelayRun(h, t2, Tail(u), q, serves, reachable2, sends, n)
<1>1. m \in UpMsg
  BY TailIsSeq
<1>2. t \o <<m>> = Append(t, m) /\ t \o <<m, m>> = Append(Append(t, m), m) /\ Append(t, m) \in Seq(UpMsg)
  BY <1>1, SendIsAppend, AppendIsSeq
<1>3. serves => serves
  OBVIOUS
<1>4. RelayRun(h, t, Tail(u), q, serves, reachable, sends, n)
  BY RunDrops
<1>5. RelayRun(h, t, Tail(u), q, serves, reachable2, sends, n)
  BY <1>3, <1>4, RunWeakens
<1>6. RelayRun(h, Append(t, m), Tail(u), q, serves, reachable2, sends, n)
  BY <1>1, <1>5, RunNotes
<1>7. RelayRun(h, Append(Append(t, m), m), Tail(u), q, serves, reachable2, sends, n)
  BY <1>1, <1>2, <1>6, RunNotes
<1> QED
  BY <1>2, <1>5, <1>6, <1>7

LEMMA AnswersBackground ==
  ASSUME OnceInv, Background, NEW q \in Calls, AnswersOf(q), KnownInv(q)
  PROVE  AnswersOf(q)' /\ KnownInv(q)'
<1>0. TypeInv /\ MentionInv /\ CallOnce(q)
  BY DEF OnceInv, MentionInv
<1>1. UNCHANGED <<queries, heard, told, posted, kernelQueries>>
  BY Zenon DEF Background, HandleAuthStatus, HandleReply, Connect, HandleBridgeMessage, PortDisconnected,
     pageVars, frameVars
<1>2. SentCalls' = SentCalls /\ (Serves(q)' <=> Serves(q))
  BY <1>1, SentIsKept DEF Serves
<1>3. up \in Seq(UpMsg) /\ down \in Seq(DownMsg) /\ posted[q] \in Nat /\ \A d \in Docs : toPage[d] \in Seq(UpMsg)
  BY <1>0 DEF TypeInv, ChannelTypes, FrameTypes
<1>4. PICK d, h, t, serves, reachable, sends, n :
        /\ d = queries[q].owner /\ h = heard[q] /\ t = toPage[d] /\ serves = Serves(q) /\ reachable = Reachable(d)
        /\ sends = queries[q].sendUpdates /\ n = posted[q]
  OBVIOUS
<1>5. q \in SentCalls => d \in Docs /\ t \in Seq(UpMsg) /\ RelayRun(h, t, up, q, serves, reachable, sends, n)
  BY <1>0, <1>3, <1>4 DEF TypeInv, PageTypes, QueriesOwned, SentCalls, AnswersOf
<1>6. n \in Nat
  BY <1>3, <1>4
<1>7. ASSUME q \in SentCalls => RelayRun(h, toPage'[d], up', q, serves, Reachable(d)', sends, n) PROVE AnswersOf(q)'
  <2> SUFFICES ASSUME q \in SentCalls
               PROVE  RelayRun(h, toPage'[d], up', q, Serves(q)', Reachable(d)', sends, n)
    BY <1>1, <1>2, <1>4 DEF AnswersOf, Reachable
  <2>1. PICK reachable2 : reachable2 = Reachable(d)'
    OBVIOUS
  <2>2. PICK serves2 : serves2 = Serves(q)'
    OBVIOUS
  <2>3. (serves2 => serves) /\ (reachable2 => reachable2)
    BY <1>2, <1>4, <2>2
  <2>4. RelayRun(h, toPage'[d], up', q, serves, reachable2, sends, n)
    BY <1>7, <2>1
  <2>5. RelayRun(h, toPage'[d], up', q, serves2, reachable2, sends, n)
    BY <2>3, <2>4, RunWeakens
  <2> QED
    BY <2>1, <2>2, <2>5
<1>8. ASSUME ~NoUpdate(up', q) => ~NoUpdate(up, q), UNCHANGED <<down, bgQueries>> PROVE KnownInv(q)'
  BY <1>1, <1>2, <1>8 DEF KnownInv, NoUpdate, NoCallIn, IsUpdate
<1>9. up # <<>> => (~NoUpdate(Tail(up), q) => ~NoUpdate(up, q))
  BY <1>3, EndedTail
<1>10. CASE HandleAuthStatus
  <2>1. PICK m : m = Head(up)
    OBVIOUS
  <2>2. /\ up # <<>> /\ m.method = "kernelAuthStatus" /\ up' = Tail(up) /\ UNCHANGED <<down, fromPage, doc, bgQueries>>
        /\ SendTo(OpenPorts, <<m, m>>) \/ SendTo(OpenPorts, <<m>>)
        /\ ports' = ports \/ ports' = [e \in Docs |-> IF e \in OpenPorts THEN "closed" ELSE ports[e]]
    BY <1>10, <2>1, Zenon DEF HandleAuthStatus, TakeUp, ClosePorts, pageVars
  <2>3. ~IsUpdate(m, q) /\ ~IsResponse(m, q)
    BY <2>2 DEF IsUpdate, IsResponse
  <2>4. \A e \in Docs : toPage'[e] = toPage[e] \/ toPage'[e] = toPage[e] \o <<m>> \/ toPage'[e] = toPage[e] \o <<m, m>>
    BY <2>2, Zenon DEF SendTo
  <2>5. q \in SentCalls => (Reachable(d)' => reachable)
    BY <1>4, <1>5, <2>2 DEF Reachable, OpenPorts
  <2>6. ASSUME q \in SentCalls PROVE RelayRun(h, toPage'[d], up', q, serves, Reachable(d)', sends, n)
    <3>1. PICK t2, reachable2 : t2 = toPage'[d] /\ reachable2 = Reachable(d)'
      OBVIOUS
    <3>2. (t2 = t \/ t2 = t \o <<m>> \/ t2 = t \o <<m, m>>) /\ (reachable2 => reachable)
      BY <1>4, <1>5, <2>4, <2>5, <2>6, <3>1
    <3>3. RelayRun(h, t2, Tail(up), q, serves, reachable2, sends, n)
      BY <1>3, <1>5, <1>6, <2>1, <2>2, <2>3, <2>6, <3>2, RunSpreads, Zenon
    <3> QED
      BY <2>2, <3>1, <3>3
  <2> QED
    BY <1>7, <1>8, <1>9, <2>2, <2>6
<1>11. CASE HandleReply
  <2>1. PICK m : m = Head(up)
    OBVIOUS
  <2>2. PICK D : D = OpenPorts \cap {queries[m.nonce].owner}
    OBVIOUS
  <2>3. /\ up # <<>> /\ up' = Tail(up) /\ UNCHANGED <<down, fromPage, doc, ports>>
        /\ IF m.nonce \in bgQueries THEN Forgets(m) /\ SendTo(D, <<m>>) ELSE UNCHANGED <<bgQueries, toPage>>
    BY <1>11, <2>1, <2>2, Zenon DEF HandleReply, TakeUp, pageVars
  <2>4. m \in UpMsg
    BY <1>3, <2>1, <2>3, TailIsSeq
  <2>5. Reachable(d)' <=> reachable
    BY <1>4, <2>3 DEF Reachable
  <2>6. m.nonce # q => ~IsUpdate(m, q) /\ ~IsResponse(m, q)
    BY DEF IsUpdate, IsResponse
  <2>7. IsUpdate(m, q) => m.nonce = q /\ q \in bgQueries
    <3>1. IsUpdate(m, q) => ~NoUpdate(up, q)
      BY <1>3, <2>1, <2>3, EndedTail
    <3> QED
      BY <3>1 DEF KnownInv, IsUpdate
  <2>8. \A s \in Seq(UpMsg) : s \o <<m>> = Append(s, m)
    BY <2>4, SendIsAppend
  <2>9. PICK t2, reachable2 : t2 = toPage'[d] /\ reachable2 = Reachable(d)'
    OBVIOUS
  <2>10. serves => serves
    OBVIOUS
  <2>11. (reachable2 => reachable) /\ (reachable => reachable2)
    BY <2>5, <2>9
  <2>12. ASSUME q \in SentCalls PROVE RelayRun(h, t2, Tail(up), q, serves, reachable2, sends, n)
    <3>1. RelayRun(h, t, up, q, serves, reachable2, sends, n)
      BY <1>5, <2>10, <2>11, <2>12, RunWeakens
    <3>2. d \in Docs /\ t \in Seq(UpMsg) /\ t \o <<m>> = Append(t, m)
      BY <1>5, <2>8, <2>12
    <3>3. CASE t2 = t /\ (~reachable2 \/ ~IsUpdate(m, q))
      <4>1. RelayRun(h, t, Tail(up), q, serves, reachable2, sends, n)
        BY <1>3, <1>6, <2>1, <2>3, <3>1, <3>3, RunDrops
      <4> QED
        BY <3>3, <4>1
    <3>4. CASE t2 = t \o <<m>> /\ m.nonce # q
      BY <1>3, <1>6, <2>1, <2>3, <2>6, <2>11, <3>1, <3>2, <3>4, RunSpreads
    <3>5. CASE t2 = t \o <<m>> /\ reachable2
      <4>1. RelayRun(h, t, up, q, serves, TRUE, sends, n)
        BY <2>10, <3>1, <3>5, RunWeakens
      <4>2. RelayRun(h, Append(t, Head(up)), Tail(up), q, serves, reachable2, sends, n)
        BY <1>3, <1>6, <2>3, <3>2, <4>1, RunPasses
      <4> QED
        BY <2>1, <3>2, <3>5, <4>2
    <3>6. CASE m.nonce \in bgQueries
      <4>1. SendTo(D, <<m>>)
        BY <2>3, <3>6
      <4>2. t2 = (IF d \in D /\ doc[d] # "gone" THEN t \o <<m>> ELSE t)
        BY <1>4, <2>9, <3>2, <4>1 DEF SendTo
      <4>3. CASE m.nonce = q
        <5>1. d \in D <=> ports[d] = "open"
          BY <1>4, <2>2, <3>2, <4>3 DEF OpenPorts
        <5>2. reachable2 <=> d \in D /\ doc[d] # "gone"
          BY <1>4, <2>11, <5>1 DEF Reachable
        <5> QED
          BY <3>3, <3>5, <4>2, <5>2
      <4>4. CASE m.nonce # q
        BY <2>6, <3>3, <3>4, <4>2, <4>4
      <4> QED
        BY <4>3, <4>4
    <3>7. CASE m.nonce \notin bgQueries
      <4>1. t2 = t /\ ~IsUpdate(m, q)
        BY <1>4, <2>3, <2>7, <2>9, <3>7
      <4> QED
        BY <3>3, <4>1
    <3> QED
      BY <3>6, <3>7
  <2>13. KnownInv(q)'
    <3>1. CASE q \notin bgQueries \/ q \in bgQueries'
      <4>1. Serves(q)' \/ ~NoUpdate(up', q) \/ ~NoCallIn(down', q) => q \in bgQueries'
        BY <1>2, <1>9, <2>3, <3>1 DEF KnownInv
      <4> QED
        BY <1>1, <1>2, <4>1 DEF KnownInv, NoUpdate, IsUpdate
    <3>2. CASE q \in bgQueries /\ q \notin bgQueries'
      <4>1. m.method = "response" /\ m.nonce = q
        BY <2>3, <3>2 DEF Forgets
      <4>2. IsResponse(m, q)
        BY <4>1 DEF IsResponse
      <4>3. EndsOnce(h, t, up, q, serves)
        BY <1>0, <1>5, <3>2 DEF RelayRun, MentionInv, MapMentions
      <4>4. ~NoResponse(up, q) /\ (Ended(up, q) => NoUpdate(up, q))
        BY <1>3, <2>1, <2>3, <4>2, EndedTail
      <4>5. ~Serves(q) /\ NoUpdate(up, q)
        BY <1>4, <4>3, <4>4 DEF EndsOnce
      <4>6. NoUpdate(up', q)
        BY <1>9, <2>3, <4>5
      <4>7. NoCallIn(down, q)
        <5>1. ~NoReply(up, q)
          BY <1>3, <2>1, <2>3, <4>1, OnceTail
        <5> QED
          BY <1>0, <5>1 DEF CallOnce, Quiet
      <4>8. ~Serves(q)' /\ NoUpdate(up', q) /\ NoCallIn(down', q)
        BY <1>2, <2>3, <4>5, <4>6, <4>7
      <4> QED
        BY <1>1, <1>2, <4>8 DEF KnownInv, NoUpdate, IsUpdate
    <3> QED
      BY <3>1, <3>2
  <2> QED
    BY <1>7, <2>3, <2>9, <2>12, <2>13
<1>12. ASSUME NEW e \in Docs, Connect(e) PROVE AnswersOf(q)' /\ KnownInv(q)'
  <2>1. /\ doc[e] = "new" /\ UNCHANGED <<up, down, bgQueries>>
        /\ doc' = [doc EXCEPT ![e] = "live"] /\ ports' = [ports EXCEPT ![e] = "open"]
        /\ toPage' = toPage \/ toPage' = [toPage EXCEPT ![e] = Append(@, authStatus)]
    BY <1>12, Zenon DEF Connect
  <2>2. ASSUME q \in SentCalls PROVE d \in Docs /\ d # e
    <3>1. told[d] # 0
      BY <1>0, <1>4, <2>2 DEF MentionInv, PageMentions
    <3>2. told[e] = 0
      BY <1>0, <2>1 DEF MentionInv, NewDocs
    <3> QED
      BY <1>5, <2>2, <3>1, <3>2
  <2>3. q \in SentCalls => toPage'[d] = t /\ (Reachable(d)' <=> reachable)
    BY <1>0, <1>4, <2>1, <2>2 DEF TypeInv, ChannelTypes, BackTypes, PageTypes, Reachable
  <2>4. ASSUME q \in SentCalls PROVE RelayRun(h, toPage'[d], up', q, serves, Reachable(d)', sends, n)
    <3>1. PICK reachable2 : reachable2 = Reachable(d)'
      OBVIOUS
    <3>2. (reachable2 => reachable) /\ (serves => serves)
      BY <2>3, <2>4, <3>1
    <3>3. RelayRun(h, t, up, q, serves, reachable2, sends, n)
      BY <1>5, <2>4, <3>2, RunWeakens
    <3> QED
      BY <2>1, <2>3, <2>4, <3>1, <3>3
  <2> QED
    BY <1>7, <1>8, <2>1, <2>4
<1>13. ASSUME NEW e \in Docs, HandleBridgeMessage(e) PROVE AnswersOf(q)' /\ KnownInv(q)'
  <2>1. PICK m : m = Head(fromPage[e])
    OBVIOUS
  <2>2. /\ fromPage[e] # <<>> /\ UNCHANGED <<up, toPage, ports, doc>>
        /\ \/ UNCHANGED <<bgQueries, down>>
           \/ Registers(m) /\ (UNCHANGED down \/ down' = Append(down, m))
    BY <1>13, <2>1, Zenon DEF HandleBridgeMessage, pageVars
  <2>3. Reachable(d)' <=> reachable
    BY <1>4, <2>2 DEF Reachable
  <2>4. ASSUME q \in SentCalls PROVE RelayRun(h, toPage'[d], up', q, serves, Reachable(d)', sends, n)
    <3>1. PICK reachable2 : reachable2 = Reachable(d)'
      OBVIOUS
    <3>2. (reachable2 => reachable) /\ (serves => serves)
      BY <2>3, <3>1
    <3>3. RelayRun(h, t, up, q, serves, reachable2, sends, n)
      BY <1>5, <2>4, <3>2, RunWeakens
    <3> QED
      BY <1>4, <2>2, <3>1, <3>3
  <2>5. ~NoCallIn(down', q) => ~NoCallIn(down, q) \/ q \in bgQueries'
    <3>1. m \in DownMsg
      BY <1>0, <2>1, <2>2, TailIsSeq DEF TypeInv, ChannelTypes
    <3>2. NoCallIn(Append(down, m), q) <=> NoCallIn(down, q) /\ ~IsCall(m, q)
      BY <1>3, <3>1, OnceAppend
    <3> QED
      BY <2>2, <3>2 DEF Registers, IsCall
  <2>6. bgQueries \subseteq bgQueries'
    BY <2>2 DEF Registers
  <2>7. Serves(q)' \/ ~NoUpdate(up', q) \/ ~NoCallIn(down', q) => q \in bgQueries'
    BY <1>2, <2>2, <2>5, <2>6 DEF KnownInv
  <2>8. KnownInv(q)'
    BY <1>1, <1>2, <2>7 DEF KnownInv, NoUpdate, IsUpdate
  <2> QED
    BY <1>7, <2>4, <2>8
<1>14. ASSUME NEW e \in Docs, PortDisconnected(e) PROVE AnswersOf(q)' /\ KnownInv(q)'
  <2>1. UNCHANGED <<up, down, toPage, doc, bgQueries>> /\ ports' = [ports EXCEPT ![e] = "closed"]
    BY <1>14, Zenon DEF PortDisconnected, pageVars
  <2>2. q \in SentCalls => (Reachable(d)' => reachable)
    BY <1>0, <1>4, <1>5, <2>1 DEF TypeInv, BackTypes, Reachable
  <2>3. ASSUME q \in SentCalls PROVE RelayRun(h, toPage'[d], up', q, serves, Reachable(d)', sends, n)
    <3>1. PICK reachable2 : reachable2 = Reachable(d)'
      OBVIOUS
    <3>2. (reachable2 => reachable) /\ (serves => serves)
      BY <2>2, <2>3, <3>1
    <3>3. RelayRun(h, t, up, q, serves, reachable2, sends, n)
      BY <1>5, <2>3, <3>2, RunWeakens
    <3> QED
      BY <1>4, <2>1, <3>1, <3>3
  <2> QED
    BY <1>7, <1>8, <2>1, <2>3
<1> QED
  BY <1>10, <1>11, <1>12, <1>13, <1>14, Zenon DEF Background

\* A step of a page: what was sent stays so and its answers are accounted for,
\* and what is sent now has none yet.
LEMMA AnswersPageStep ==
  ASSUME OnceInv, NEW q \in Calls, AnswersOf(q), KnownInv(q), UNCHANGED <<frameVars, backVars, up, down>>,
         NEW d, d = queries[q].owner,
         q \in SentCalls =>
             /\ q \in SentCalls' /\ queries'[q].owner = d /\ queries'[q].sendUpdates = queries[q].sendUpdates
             /\ RelayRun(heard'[q], toPage'[d], up, q, Serves(q), Reachable(d)', queries[q].sendUpdates, posted[q]),
         q \notin SentCalls => heard'[q] = heard[q] /\ \A e \in Docs : NoReply(toPage[e], q) => NoReply(toPage'[e], q),
         q \in SentCalls' => queries'[q].owner \in Docs,
         queries'[q].phase = "closed" =>
             \/ queries[q].phase = "closed" /\ heard'[q] = heard[q]
             \/ heard'[q] # <<>> /\ IsResponse(heard'[q][Len(heard'[q])], q),
         \/ heard'[q] = heard[q]
         \/ \E m \in ReplyMsg : /\ heard'[q] = Append(heard[q], m) /\ m.nonce = q
                                /\ IsUpdate(m, q) => queries[q].sendUpdates
  PROVE  AnswersOf(q)' /\ KnownInv(q)'
<1>1. Serves(q)' <=> Serves(q)
  BY DEF frameVars, Serves
<1>2. CASE q \in SentCalls
  <2>1. AnswersOf(q)'
    <3>1. PICK serves, serves2, reachable, sends, n :
            /\ serves = Serves(q) /\ serves2 = Serves(q)' /\ reachable = Reachable(d)'
            /\ sends = queries[q].sendUpdates /\ n = posted[q]
      OBVIOUS
    <3>2. (serves2 => serves) /\ (reachable => reachable)
      BY <1>1, <3>1
    <3>3. RelayRun(heard'[q], toPage'[d], up, q, serves, reachable, sends, n)
      BY <1>2, <3>1
    <3>4. RelayRun(heard'[q], toPage'[d], up, q, serves2, reachable, sends, n)
      BY <3>2, <3>3, RunWeakens
    <3>5. posted' = posted /\ up' = up
      BY DEF frameVars
    <3> QED
      BY <1>2, <3>1, <3>4, <3>5 DEF AnswersOf, Reachable
  <2>2. KnownInv(q)'
    <3>1. Serves(q)' \/ ~NoUpdate(up', q) \/ ~NoCallIn(down', q) => q \in bgQueries'
      BY <1>1 DEF KnownInv, backVars
    <3>2. queries'[q].phase = "closed" => heard'[q] # <<>> /\ IsResponse(heard'[q][Len(heard'[q])], q)
      BY DEF KnownInv
    <3>3. heard[q] \in Seq(ReplyMsg)
      BY DEF OnceInv, MentionInv, TypeInv, PageTypes
    <3>4. ASSUME NEW m \in ReplyMsg, heard'[q] = Append(heard[q], m), m.nonce = q,
                 IsUpdate(m, q) => queries[q].sendUpdates
          PROVE  /\ queries'[q].sendUpdates \/ NoUpdate(heard'[q], q)
                 /\ \A i \in DOMAIN heard'[q] : heard'[q][i].nonce = q
      <4>1. NoUpdate(heard'[q], q) <=> NoUpdate(heard[q], q) /\ ~IsUpdate(m, q)
        BY <3>3, <3>4, EndedAppend
      <4>2. queries'[q].sendUpdates \/ NoUpdate(heard'[q], q)
        BY <1>2, <3>4, <4>1 DEF KnownInv
      <4>3. \A i \in DOMAIN heard'[q] : heard'[q][i] = m \/ (i \in DOMAIN heard[q] /\ heard'[q][i] = heard[q][i])
        BY <3>3, <3>4, AppendElements
      <4> QED
        BY <3>4, <4>2, <4>3 DEF KnownInv
    <3>5. heard'[q] = heard[q] => /\ queries'[q].sendUpdates \/ NoUpdate(heard'[q], q)
                                 /\ \A i \in DOMAIN heard'[q] : heard'[q][i].nonce = q
      BY <1>2 DEF KnownInv, NoUpdate, IsUpdate
    <3>6. /\ queries'[q].sendUpdates \/ NoUpdate(heard'[q], q)
          /\ \A i \in DOMAIN heard'[q] : heard'[q][i].nonce = q
      BY <3>4, <3>5
    <3>7. q \in SentCalls'
      BY <1>2
    <3> QED
      BY <3>1, <3>2, <3>6, <3>7 DEF KnownInv
  <2> QED
    BY <2>1, <2>2
<1>3. CASE q \notin SentCalls
  <2>1. Quiet(q) /\ posted[q] = 0
    BY <1>3, UnsentCalls DEF OnceInv, Unsent, KnownInv
  <2>2. heard'[q] = <<>> /\ NoReply(up, q) /\ \A e \in Docs : NoReply(toPage'[e], q)
    BY <1>3, <2>1 DEF Quiet
  <2>3. AnswersOf(q)'
    <3>e. PICK e : e = queries'[q].owner
      OBVIOUS
    <3> SUFFICES ASSUME q \in SentCalls'
                 PROVE  RelayRun(heard'[q], toPage'[e], up', q, Serves(q)', Reachable(e)', queries'[q].sendUpdates, posted'[q])
      BY <3>e DEF AnswersOf, Reachable
    <3>1. PICK serves, reachable, sends : serves = Serves(q)' /\ reachable = Reachable(e)' /\ sends = queries'[q].sendUpdates
      OBVIOUS
    <3>2. RelayRun(heard'[q], toPage'[e], up, q, serves, reachable, sends, 0)
      <4>1. NoReply(toPage'[e], q)
        BY <2>2, <3>e
      <4> QED
        BY <2>2, <4>1, RunStarts
    <3>3. posted'[q] = 0 /\ up' = up
      BY <2>1 DEF frameVars
    <3> QED
      BY <3>1, <3>2, <3>3
  <2>4. KnownInv(q)'
    <3>1. Serves(q)' \/ ~NoUpdate(up', q) \/ ~NoCallIn(down', q) => q \in bgQueries'
      BY <1>1 DEF KnownInv, backVars
    <3>2. NoUpdate(heard'[q], q) /\ \A i \in DOMAIN heard'[q] : heard'[q][i].nonce = q
      BY <2>2, EndedNone
    <3>3. queries'[q].phase = "closed" => FALSE
      <4>1. queries[q].phase # "closed"
        BY <1>3 DEF SentCalls
      <4> QED
        BY <2>2, <4>1
    <3>4. posted'[q] = 0
      BY <2>1 DEF frameVars
    <3> QED
      BY <3>1, <3>2, <3>3, <3>4 DEF KnownInv
  <2> QED
    BY <2>3, <2>4
<1> QED
  BY <1>2, <1>3

\* A step that leaves the answers of a query where they are.
LEMMA AnswersKept ==
  ASSUME OnceInv, NEW q \in Calls, AnswersOf(q), KnownInv(q), UNCHANGED <<frameVars, backVars, up, down>>,
         NEW d, d = queries[q].owner,
         q \in SentCalls => /\ q \in SentCalls'
                            /\ queries'[q].owner = d /\ queries'[q].sendUpdates = queries[q].sendUpdates
                            /\ toPage'[d] = toPage[d] /\ (doc'[d] = "gone" <=> doc[d] = "gone"),
         q \notin SentCalls => \A e \in Docs : NoReply(toPage[e], q) => NoReply(toPage'[e], q),
         q \in SentCalls' => queries'[q].owner \in Docs,
         queries'[q].phase = "closed" => queries[q].phase = "closed",
         heard'[q] = heard[q]
  PROVE  AnswersOf(q)' /\ KnownInv(q)'
<1>1. ASSUME q \in SentCalls
      PROVE  RelayRun(heard'[q], toPage'[d], up, q, Serves(q), Reachable(d)', queries[q].sendUpdates, posted[q])
  <2>1. PICK reachable, reachable2, sends, n, serves :
          /\ reachable = Reachable(d) /\ reachable2 = Reachable(d)' /\ sends = queries[q].sendUpdates
          /\ n = posted[q] /\ serves = Serves(q)
    OBVIOUS
  <2>2. (reachable2 => reachable) /\ (serves => serves)
    BY <1>1, <2>1 DEF Reachable, backVars
  <2>3. RelayRun(heard[q], toPage[d], up, q, serves, reachable, sends, n)
    BY <1>1, <2>1 DEF AnswersOf
  <2>4. RelayRun(heard[q], toPage[d], up, q, serves, reachable2, sends, n)
    BY <2>2, <2>3, RunWeakens
  <2> QED
    BY <1>1, <2>1, <2>4
<1> QED
  BY <1>1, AnswersPageStep, Zenon

(***************************************************************************)
(* What becomes of the queries in the steps of a page.                     *)
(***************************************************************************)

LEMMA AskedQueries ==
  ASSUME TypeInv, NEW d \in Docs, NEW q \in Calls, NEW updates \in BOOLEAN, NewKernelQuery(d, q, updates)
  PROVE  /\ \A p \in Calls \ {q} : queries'[p] = queries[p]
         /\ queries[q].phase = "idle"
         /\ queries'[q].phase \in {"waiting", "open"} /\ queries'[q].owner = d
         /\ queries'[q].kernelNonce = 0 /\ queries'[q].held = <<>>
<1>1. PICK new : new = [NoQuery EXCEPT !.owner = d, !.sendUpdates = updates]
  OBVIOUS
<1>2. /\ queries[q].phase = "idle"
      /\ \/ queries' = [queries EXCEPT ![q] = [new EXCEPT !.phase = "waiting"]]
         \/ queries' = [queries EXCEPT ![q] = [new EXCEPT !.phase = "open"]]
  BY <1>1, Zenon DEF NewKernelQuery
<1>3. new = [phase |-> "idle", owner |-> d, sendUpdates |-> updates, kernelNonce |-> 0, held |-> <<>>]
  BY <1>1 DEF NoQuery
<1>4. PICK waits, opens : waits = [new EXCEPT !.phase = "waiting"] /\ opens = [new EXCEPT !.phase = "open"]
  OBVIOUS
<1>5. /\ waits.phase = "waiting" /\ waits.owner = d /\ waits.kernelNonce = 0 /\ waits.held = <<>>
      /\ opens.phase = "open" /\ opens.owner = d /\ opens.kernelNonce = 0 /\ opens.held = <<>>
  BY <1>3, <1>4
<1>6. queries' = [queries EXCEPT ![q] = waits] \/ queries' = [queries EXCEPT ![q] = opens]
  BY <1>2, <1>4
<1>7. DOMAIN queries = Calls
  BY DEF TypeInv, PageTypes
<1> QED
  BY <1>2, <1>5, <1>6, <1>7

LEMMA UpdatedQueries ==
  ASSUME TypeInv, NEW q \in Calls, SendUpdate(q)
  PROVE  /\ \A p \in Calls \ {q} : queries'[p] = queries[p]
         /\ queries'[q].phase = queries[q].phase /\ queries'[q].owner = queries[q].owner
         /\ queries'[q].sendUpdates = queries[q].sendUpdates /\ queries'[q].kernelNonce = queries[q].kernelNonce
         /\ queries'[q].held = IF queries[q].kernelNonce = 0 THEN Append(queries[q].held, asked[q] + 1)
                               ELSE queries[q].held
<1>1. \/ UNCHANGED queries /\ queries[q].kernelNonce # 0
      \/ queries' = [queries EXCEPT ![q].held = Append(@, asked[q] + 1)] /\ queries[q].kernelNonce = 0
  BY Zenon DEF SendUpdate
<1>2. queries \in [Calls -> Query]
  BY DEF TypeInv, PageTypes
<1>3. CASE UNCHANGED queries /\ queries[q].kernelNonce # 0
  BY <1>3
<1>4. CASE queries' = [queries EXCEPT ![q].held = Append(@, asked[q] + 1)] /\ queries[q].kernelNonce = 0
  <2>1. PICK new : new = [queries[q] EXCEPT !.held = Append(queries[q].held, asked[q] + 1)]
    OBVIOUS
  <2>2. queries' = [queries EXCEPT ![q] = new]
    BY <1>2, <1>4, <2>1
  <2>3. queries[q] \in Query
    BY <1>2
  <2>4. /\ new.phase = queries[q].phase /\ new.owner = queries[q].owner
        /\ new.sendUpdates = queries[q].sendUpdates /\ new.kernelNonce = queries[q].kernelNonce
        /\ new.held = Append(queries[q].held, asked[q] + 1)
    BY <2>1, <2>3 DEF Query
  <2>5. queries'[q] = new /\ \A p \in Calls \ {q} : queries'[p] = queries[p]
    BY <1>2, <2>2
  <2> QED
    BY <1>4, <2>4, <2>5
<1> QED
  BY <1>1, <1>3, <1>4

LEMMA ToldQueries ==
  ASSUME MentionInv, NEW d \in Docs, HandleStatus(d), NEW p \in Calls
  PROVE  /\ queries'[p].phase = queries[p].phase \/ (queries[p].phase = "waiting" /\ queries'[p].phase = "open")
         /\ queries'[p].owner = queries[p].owner
         /\ queries'[p].sendUpdates = queries[p].sendUpdates /\ queries'[p].kernelNonce = queries[p].kernelNonce
         /\ queries'[p].held = queries[p].held
<1>1. \/ UNCHANGED queries
      \/ queries' = [q \in Calls |-> IF Contains(waiting[d], q) THEN [queries[q] EXCEPT !.phase = "open"] ELSE queries[q]]
  BY Zenon DEF HandleStatus
<1>2. queries[p] \in Query
  BY DEF MentionInv, TypeInv, PageTypes
<1>3. PICK new : new = [queries[p] EXCEPT !.phase = "open"]
  OBVIOUS
<1>4. /\ new.phase = "open" /\ new.owner = queries[p].owner /\ new.held = queries[p].held
      /\ new.sendUpdates = queries[p].sendUpdates /\ new.kernelNonce = queries[p].kernelNonce
  BY <1>2, <1>3 DEF Query
<1>5. Contains(waiting[d], p) => queries[p].phase = "waiting"
  <2>1. waiting[d] \in Seq(WaitsIn(d))
    BY DEF MentionInv, PageMentions
  <2>2. Contains(waiting[d], p) => p \in WaitsIn(d)
    BY <2>1 DEF Contains
  <2> QED
    BY <2>2 DEF WaitsIn
<1>6. queries'[p] = queries[p] \/ (Contains(waiting[d], p) /\ queries'[p] = new)
  <2>1. CASE UNCHANGED queries
    BY <2>1
  <2>2. CASE queries' = [q \in Calls |-> IF Contains(waiting[d], q) THEN [queries[q] EXCEPT !.phase = "open"] ELSE queries[q]]
    BY <1>3, <2>2, Zenon
  <2> QED
    BY <1>1, <2>1, <2>2
<1> QED
  BY <1>4, <1>5, <1>6

LEMMA RepliedQueries ==
  ASSUME TypeInv, NEW d \in Docs, NEW m, m = Head(toPage[d]),
         HandleResponse(d) \/ HandleResponseUpdate(d) \/ HandleResponseNonce(d), NEW p \in Calls
  PROVE  /\ queries'[p].owner = queries[p].owner /\ queries'[p].sendUpdates = queries[p].sendUpdates
         /\ CASE p = m.nonce /\ Takes(m) /\ m.method = "responseNonce" ->
                     /\ queries'[p].phase = queries[p].phase
                     /\ queries'[p].kernelNonce = m.data /\ queries'[p].held = <<>>
              [] p = m.nonce /\ Takes(m) /\ m.method = "response" ->
                     /\ queries'[p].phase = "closed"
                     /\ queries'[p].kernelNonce = queries[p].kernelNonce /\ queries'[p].held = queries[p].held
              [] OTHER -> queries'[p] = queries[p]
<1>0. queries \in [Calls -> Query] /\ queries[p] \in Query
  BY DEF TypeInv, PageTypes
<1>1. PICK q, k : q = m.nonce /\ k = m.data
  OBVIOUS
<1>2. \/ UNCHANGED queries /\ (~Takes(m) \/ m.method = "responseUpdate")
      \/ Takes(m) /\ m.method = "response" /\ queries' = [queries EXCEPT ![q].phase = "closed"]
      \/ /\ Takes(m) /\ m.method = "responseNonce"
         /\ queries' = [queries EXCEPT ![q].kernelNonce = k, ![q].held = <<>>]
  BY <1>1, Zenon DEF HandleResponse, HandleResponseUpdate, HandleResponseNonce, TakePage
<1>3. toPage[d] # <<>>
  BY Zenon DEF HandleResponse, HandleResponseUpdate, HandleResponseNonce, TakePage
<1>4. Takes(m) /\ m.method # "kernelAuthStatus" => q \in Calls
  <2>1. m \in UpMsg
    BY <1>3, TailIsSeq DEF TypeInv, ChannelTypes
  <2>2. Takes(m) /\ m.method # "kernelAuthStatus" => m \in ReplyMsg
    BY <2>1, WithData DEF Takes
  <2> QED
    BY <1>1, <2>2 DEF ReplyMsg
<1>5. PICK closes, gets : /\ closes = [queries[q] EXCEPT !.phase = "closed"]
                          /\ gets = [queries[q] EXCEPT !.kernelNonce = k, !.held = <<>>]
  OBVIOUS
<1>6. q \in Calls => /\ closes.phase = "closed" /\ closes.owner = queries[q].owner /\ closes.held = queries[q].held
                     /\ closes.sendUpdates = queries[q].sendUpdates /\ closes.kernelNonce = queries[q].kernelNonce
                     /\ gets.phase = queries[q].phase /\ gets.owner = queries[q].owner /\ gets.held = <<>>
                     /\ gets.sendUpdates = queries[q].sendUpdates /\ gets.kernelNonce = k
  BY <1>0, <1>5 DEF Query
<1>7. CASE UNCHANGED queries /\ (~Takes(m) \/ m.method = "responseUpdate")
  BY <1>7
<1>8. CASE Takes(m) /\ m.method = "response" /\ queries' = [queries EXCEPT ![q].phase = "closed"]
  <2>1. queries' = [queries EXCEPT ![q] = closes] /\ q \in Calls
    BY <1>0, <1>4, <1>5, <1>8
  <2>2. queries'[p] = IF p = q THEN closes ELSE queries[p]
    BY <1>0, <2>1, Zenon
  <2> QED
    BY <1>1, <1>6, <1>8, <2>1, <2>2
<1>9. CASE /\ Takes(m) /\ m.method = "responseNonce"
           /\ queries' = [queries EXCEPT ![q].kernelNonce = k, ![q].held = <<>>]
  <2>1. queries' = [queries EXCEPT ![q] = gets] /\ q \in Calls
    BY <1>0, <1>4, <1>5, <1>9
  <2>2. queries'[p] = IF p = q THEN gets ELSE queries[p]
    BY <1>0, <2>1
  <2> QED
    BY <1>1, <1>6, <1>9, <2>1, <2>2
<1> QED
  BY <1>2, <1>7, <1>8, <1>9

\* The replies that a page takes and drops.
LEMMA AnswersReply ==
  ASSUME OnceInv, NEW d \in Docs, HandleResponse(d) \/ HandleResponseUpdate(d) \/ HandleResponseNonce(d),
         NEW q \in Calls, AnswersOf(q), KnownInv(q)
  PROVE  AnswersOf(q)' /\ KnownInv(q)'
<1>0. TypeInv /\ MentionInv
  BY DEF OnceInv, MentionInv
<1>1. PICK m, p : m = Head(toPage[d]) /\ p = m.nonce
  OBVIOUS
<1>2. /\ UNCHANGED <<frameVars, backVars, up, down, doc>>
      /\ toPage[d] # <<>> /\ toPage' = [toPage EXCEPT ![d] = Tail(@)]
      /\ m.method \in {"response", "responseUpdate", "responseNonce"}
      /\ \/ /\ Takes(m) /\ heard' = [heard EXCEPT ![p] = Append(@, m)]
            /\ m.method = "responseUpdate" => queries[p].sendUpdates
         \/ /\ UNCHANGED heard
            /\ ~Takes(m) \/ (m.method = "responseUpdate" /\ ~queries[p].sendUpdates)
  BY <1>1, Zenon DEF HandleResponse, HandleResponseUpdate, HandleResponseNonce, TakePage, Hear
<1>3. /\ m \in UpMsg /\ toPage[d] \in Seq(UpMsg) /\ heard[q] \in Seq(ReplyMsg) /\ posted[q] \in Nat
      /\ DOMAIN heard = Calls
  BY <1>0, <1>1, <1>2, TailIsSeq DEF TypeInv, ChannelTypes, PageTypes, FrameTypes
<1>4. toPage'[d] = Tail(toPage[d]) /\ \A e \in Docs \ {d} : toPage'[e] = toPage[e]
  BY <1>0, <1>2 DEF TypeInv, ChannelTypes
<1>5. Takes(m) => m \in ReplyMsg
  BY <1>2, <1>3, WithData DEF Takes
<1>6. m \in ReplyMsg => p \in Calls /\ "data" \in DOMAIN m
  BY <1>1 DEF ReplyMsg
<1>7. p \in Calls => p \in SentBy(d)
  BY <1>0, <1>1, <1>2, HeardIsSent
<1>8. /\ queries'[q].owner = queries[q].owner /\ queries'[q].sendUpdates = queries[q].sendUpdates
      /\ \/ queries'[q].phase = queries[q].phase
         \/ q = p /\ Takes(m) /\ m.method = "response" /\ queries'[q].phase = "closed"
  BY <1>0, <1>1, RepliedQueries
<1>9. PICK e : e = queries[q].owner
  OBVIOUS
<1>10. heard'[q] = heard[q] \/ (q = p /\ Takes(m) /\ heard'[q] = Append(heard[q], m))
  BY <1>2, <1>3
<1>11. q = p => q \in SentCalls /\ e = d
  BY <1>7, <1>9 DEF SentBy
<1>12. q \in SentCalls => /\ q \in SentCalls'
                          /\ queries'[q].owner = e /\ queries'[q].sendUpdates = queries[q].sendUpdates
  BY <1>8, <1>9 DEF SentCalls
<1>13. Reachable(e)' <=> Reachable(e)
  BY <1>2 DEF Reachable, backVars
<1>14. ASSUME q \in SentCalls
       PROVE  RelayRun(heard'[q], toPage'[e], up, q, Serves(q), Reachable(e)', queries[q].sendUpdates, posted[q])
  <2>1. PICK h, t, u, serves, reachable, reachable2, sends, n :
          /\ h = heard[q] /\ t = toPage[e] /\ u = up /\ serves = Serves(q) /\ reachable = Reachable(e)
          /\ reachable2 = Reachable(e)' /\ sends = queries[q].sendUpdates /\ n = posted[q]
    OBVIOUS
  <2>2. (reachable2 => reachable) /\ (serves => serves)
    BY <1>13, <2>1
  <2>3. RelayRun(h, t, u, q, serves, reachable, sends, n)
    BY <1>9, <1>14, <2>1 DEF AnswersOf
  <2>4. RelayRun(h, t, u, q, serves, reachable2, sends, n)
    BY <2>2, <2>3, RunWeakens
  <2>5. h \in Seq(ReplyMsg) /\ n \in Nat
    BY <1>3, <2>1
  <2>6. PICK h2, t2 : h2 = heard'[q] /\ t2 = toPage'[e]
    OBVIOUS
  <2>7. CASE e # d
    <3>1. h2 = h
      BY <1>10, <1>11, <2>1, <2>6, <2>7
    <3>2. t2 = t
      <4>1. e \in Docs
        BY <1>0, <1>9, <1>14 DEF TypeInv, PageTypes, QueriesOwned, SentCalls
      <4> QED
        BY <1>4, <2>1, <2>6, <2>7, <4>1
    <3> QED
      BY <2>1, <2>4, <2>6, <3>1, <3>2
  <2>8. CASE e = d
    <3>1. /\ t \in Seq(UpMsg) /\ t # <<>> /\ Head(t) = m /\ t2 = Tail(t)
      BY <1>1, <1>2, <1>3, <1>4, <2>1, <2>6, <2>8
    <3>2. CASE q = p /\ Takes(m) /\ h2 = Append(h, m)
      <4>1. RelayRun(Append(h, Head(t)), Tail(t), u, q, serves, reachable2, sends, n)
        BY <1>5, <2>4, <2>5, <3>1, <3>2, RunHears
      <4> QED
        BY <2>1, <2>6, <3>1, <3>2, <4>1
    <3>3. CASE h2 = h /\ ~(q = p /\ Takes(m) /\ heard'[q] = Append(heard[q], m))
      <4>1. ~sends \/ ~IsUpdate(m, q)
        <5> SUFFICES ASSUME sends, IsUpdate(m, q) PROVE FALSE
          OBVIOUS
        <5>1. q = p /\ m.method = "responseUpdate"
          BY <1>1 DEF IsUpdate
        <5>2. m \in ReplyMsg
          BY <1>3, <5>1, UpMessages
        <5>3. ~Takes(m)
          <6>1. heard' = [heard EXCEPT ![p] = Append(@, m)] => heard'[q] = Append(heard[q], m)
            BY <1>3, <5>1
          <6> QED
            BY <1>2, <2>1, <3>3, <5>1, <6>1
        <5>4. queries[q].phase = "closed"
          <6>1. queries[q].phase # "open"
            BY <1>1, <1>6, <5>1, <5>2, <5>3 DEF Takes
          <6> QED
            BY <1>14, <6>1 DEF SentCalls
        <5>5. ~NoResponse(h, q)
          <6>1. h # <<>> /\ IsResponse(h[Len(h)], q)
            BY <2>1, <5>4 DEF KnownInv
          <6>2. Len(h) \in DOMAIN h
            BY <2>5, <6>1
          <6> QED
            BY <6>1, <6>2 DEF NoResponse
        <5>6. NoUpdate(t, q)
          BY <2>3, <5>5 DEF RelayRun, EndsOnce
        <5> QED
          BY <3>1, <5>6, EndedTail
      <4>2. RelayRun(h, Tail(t), u, q, serves, reachable2, sends, n)
        BY <2>4, <2>5, <3>1, <4>1, RunIgnores
      <4> QED
        BY <2>1, <2>6, <3>1, <3>3, <4>2
    <3>4. h2 = h \/ (q = p /\ Takes(m) /\ heard'[q] = Append(heard[q], m) /\ h2 = Append(h, m))
      BY <1>10, <2>1, <2>6
    <3>5. h2 # Append(h, m) \/ h2 # h
      <4>1. m \in ReplyMsg => Len(Append(h, m)) = Len(h) + 1 /\ Len(h) \in Nat
        BY <2>5
      <4>2. CASE m \in ReplyMsg
        BY <4>1, <4>2
      <4>3. CASE m \notin ReplyMsg
        <5>1. Append(h, m) # h
          <6>1. Len(Append(h, m)) = Len(h) + 1 /\ Len(h) \in Nat
            BY <2>5
          <6> QED
            BY <6>1
        <5> QED
          BY <5>1
      <4> QED
        BY <4>2, <4>3
    <3> QED
      BY <2>1, <2>6, <3>2, <3>3, <3>4, <3>5
  <2> QED
    BY <2>7, <2>8
<1>15. q \notin SentCalls => heard'[q] = heard[q] /\ \A f \in Docs : NoReply(toPage[f], q) => NoReply(toPage'[f], q)
  <2>1. NoReply(toPage[d], q) => NoReply(Tail(toPage[d]), q)
    BY <1>2, <1>3, OnceTail
  <2> QED
    BY <1>4, <1>10, <1>11, <2>1
<1>16. q \in SentCalls' => queries'[q].owner \in Docs
  <2>1. OnceInv'
    <3>1. Next
      BY Zenon DEF Next, Page
    <3> QED
      BY <3>1, OnceNext
  <2> QED
    BY <2>1 DEF OnceInv, MentionInv, TypeInv, PageTypes, QueriesOwned, SentCalls
<1>17. queries'[q].phase = "closed" =>
             \/ queries[q].phase = "closed" /\ heard'[q] = heard[q]
             \/ heard'[q] # <<>> /\ IsResponse(heard'[q][Len(heard'[q])], q)
  <2>1. Takes(m) /\ q = p => queries[q].phase = "open"
    BY <1>1 DEF Takes
  <2>2. CASE queries'[q].phase = queries[q].phase
    <3>1. queries[q].phase = "open" \/ heard'[q] = heard[q]
      BY <1>10, <2>1, Zenon
    <3> QED
      BY <2>2, <3>1
  <2>3. CASE q = p /\ Takes(m) /\ m.method = "response"
    <3>1. heard'[q] = Append(heard[q], m)
      BY <1>2, <1>3, <2>3
    <3>2. PICK s : s = Append(heard[q], m)
      OBVIOUS
    <3>3. s[Len(s)] = m /\ s # <<>>
      BY <1>3, <1>5, <2>3, <3>2
    <3>4. IsResponse(m, q)
      BY <1>1, <2>3, Zenon DEF IsResponse
    <3> QED
      BY <3>1, <3>2, <3>3, <3>4, Zenon
  <2> QED
    BY <1>8, <2>2, <2>3
<1>18. \/ heard'[q] = heard[q]
       \/ \E x \in ReplyMsg : /\ heard'[q] = Append(heard[q], x) /\ x.nonce = q
                              /\ IsUpdate(x, q) => queries[q].sendUpdates
  <2>1. CASE heard'[q] # heard[q]
    <3>1. q = p /\ Takes(m) /\ heard'[q] = Append(heard[q], m) /\ m \in ReplyMsg
      BY <1>5, <1>10, <2>1
    <3>2. m.method = "responseUpdate" => queries[p].sendUpdates
      BY <1>2, <2>1
    <3>3. m.nonce = q /\ (IsUpdate(m, q) => queries[q].sendUpdates)
      BY <1>1, <3>1, <3>2, Zenon DEF IsUpdate
    <3> QED
      BY <3>1, <3>3, Zenon
  <2> QED
    BY <2>1, Zenon
<1>19. AnswersOf(q)' /\ KnownInv(q)'
  BY <1>2, <1>9, <1>12, <1>14, <1>15, <1>16, <1>17, <1>18, AnswersPageStep, Zenon
<1> QED
  BY <1>19

LEMMA OwnersAreDocs ==
  ASSUME OnceInv, Page, NEW q \in Calls
  PROVE  q \in SentCalls' => queries'[q].owner \in Docs
<1>1. OnceInv'
  <2>1. Next
    BY Zenon DEF Next
  <2> QED
    BY <2>1, OnceNext
<1> QED
  BY <1>1 DEF OnceInv, MentionInv, TypeInv, PageTypes, QueriesOwned, SentCalls

\* The calls and the updates of a page, and the statuses it hears.
LEMMA AnswersRequests ==
  ASSUME OnceInv, Page, NEW q \in Calls, AnswersOf(q), KnownInv(q),
         \/ \E d \in Docs, p \in Calls, updates \in BOOLEAN : NewKernelQuery(d, p, updates)
         \/ \E p \in Calls : SendUpdate(p)
  PROVE  AnswersOf(q)' /\ KnownInv(q)'
<1>0. TypeInv
  BY DEF OnceInv, MentionInv
<1>1. /\ UNCHANGED <<frameVars, backVars, up, down, toPage, doc, heard>>
  BY Zenon DEF NewKernelQuery, SendUpdate
<1>2. \/ queries[q].phase = "idle" /\ queries'[q].phase # "closed"
      \/ /\ queries'[q].owner = queries[q].owner /\ queries'[q].sendUpdates = queries[q].sendUpdates
         /\ queries'[q].phase = queries[q].phase
  <2>1. ASSUME NEW d \in Docs, NEW p \in Calls, NEW updates \in BOOLEAN, NewKernelQuery(d, p, updates)
        PROVE  (queries[q].phase = "idle" /\ queries'[q].phase # "closed") \/ queries'[q] = queries[q]
    BY <1>0, <2>1, AskedQueries
  <2>2. ASSUME NEW p \in Calls, SendUpdate(p)
        PROVE  /\ queries'[q].owner = queries[q].owner /\ queries'[q].sendUpdates = queries[q].sendUpdates
               /\ queries'[q].phase = queries[q].phase
    BY <1>0, <2>2, UpdatedQueries
  <2> QED
    BY <2>1, <2>2
<1>3. PICK d : d = queries[q].owner
  OBVIOUS
<1>4. q \in SentCalls => /\ q \in SentCalls'
                         /\ queries'[q].owner = d /\ queries'[q].sendUpdates = queries[q].sendUpdates
                         /\ toPage'[d] = toPage[d] /\ (doc'[d] = "gone" <=> doc[d] = "gone")
  BY <1>1, <1>2, <1>3 DEF SentCalls
<1>5. q \notin SentCalls => \A e \in Docs : NoReply(toPage[e], q) => NoReply(toPage'[e], q)
  BY <1>1
<1>6. q \in SentCalls' => queries'[q].owner \in Docs
  BY OwnersAreDocs
<1>7. (queries'[q].phase = "closed" => queries[q].phase = "closed") /\ heard'[q] = heard[q]
  BY <1>1, <1>2
<1> QED
  BY <1>1, <1>3, <1>4, <1>5, <1>6, <1>7, AnswersKept, Zenon

\* A message goes to a page, or a page and its messages go.
LEMMA AnswersTurn ==
  ASSUME OnceInv, Page, NEW q \in Calls, AnswersOf(q), KnownInv(q), NEW d \in Docs, HandleStatus(d) \/ Leave(d)
  PROVE  AnswersOf(q)' /\ KnownInv(q)'
<1>0. TypeInv /\ MentionInv
  BY DEF OnceInv, MentionInv
<1>1. UNCHANGED <<frameVars, backVars, up, down, heard>>
  BY Zenon DEF HandleStatus, Leave
<1>2. PICK m : m = Head(toPage[d])
  OBVIOUS
<1>3. \/ /\ toPage[d] # <<>> /\ toPage' = [toPage EXCEPT ![d] = Tail(@)] /\ m.method = "kernelAuthStatus"
         /\ doc' = doc \/ doc' = [doc EXCEPT ![d] = "reloading"]
         /\ doc[d] # "gone"
      \/ toPage' = [toPage EXCEPT ![d] = <<>>] /\ doc' = [doc EXCEPT ![d] = "gone"]
  <2>1. CASE HandleStatus(d)
    <3>1. Runs(d) /\ toPage[d] # <<>> /\ toPage' = [toPage EXCEPT ![d] = Tail(@)] /\ m.method = "kernelAuthStatus"
      BY <1>2, <2>1, Zenon DEF HandleStatus, TakePage
    <3>2. doc' = doc \/ doc' = [doc EXCEPT ![d] = "reloading"]
      BY <2>1, Zenon DEF HandleStatus, ObeyLogout
    <3> QED
      BY <3>1, <3>2 DEF Runs
  <2>2. CASE Leave(d)
    BY <2>2, Zenon DEF Leave
  <2> QED
    BY <2>1, <2>2
<1>4. /\ queries'[q].phase = queries[q].phase \/ (queries[q].phase = "waiting" /\ queries'[q].phase = "open")
      /\ queries'[q].owner = queries[q].owner /\ queries'[q].sendUpdates = queries[q].sendUpdates
  <2>1. CASE HandleStatus(d)
    BY <1>0, <2>1, ToldQueries
  <2>2. CASE Leave(d)
    <3>1. UNCHANGED queries
      BY <2>2, Zenon DEF Leave
    <3> QED
      BY <3>1
  <2> QED
    BY <2>1, <2>2
<1>5. PICK e : e = queries[q].owner
  OBVIOUS
<1>6. q \in SentCalls => /\ q \in SentCalls' /\ e \in Docs
                         /\ queries'[q].owner = e /\ queries'[q].sendUpdates = queries[q].sendUpdates
  BY <1>0, <1>4, <1>5 DEF SentCalls, TypeInv, PageTypes, QueriesOwned
<1>7. /\ toPage[d] \in Seq(UpMsg) /\ up \in Seq(UpMsg) /\ posted[q] \in Nat
      /\ DOMAIN toPage = Docs /\ DOMAIN doc = Docs
  BY <1>0 DEF TypeInv, ChannelTypes, PageTypes, FrameTypes
<1>8. ASSUME q \in SentCalls
      PROVE  RelayRun(heard'[q], toPage'[e], up, q, Serves(q), Reachable(e)', queries[q].sendUpdates, posted[q])
  <2>1. PICK h, t, u, serves, reachable, reachable2, sends, n :
          /\ h = heard[q] /\ t = toPage[e] /\ u = up /\ serves = Serves(q) /\ reachable = Reachable(e)
          /\ reachable2 = Reachable(e)' /\ sends = queries[q].sendUpdates /\ n = posted[q]
    OBVIOUS
  <2>2. RelayRun(h, t, u, q, serves, reachable, sends, n)
    BY <1>5, <1>8, <2>1 DEF AnswersOf
  <2>3. serves => serves
    OBVIOUS
  <2>4. h = heard'[q] /\ n \in Nat
    BY <1>1, <1>7, <2>1
  <2>5. CASE e # d
    <3>1. toPage'[e] = t
      BY <1>3, <1>6, <1>7, <1>8, <2>1, <2>5
    <3>2. doc'[e] = doc[e] /\ ports' = ports
      BY <1>1, <1>3, <1>6, <1>7, <1>8, <2>5 DEF backVars
    <3>3. reachable2 => reachable
      BY <2>1, <3>2 DEF Reachable
    <3>4. RelayRun(h, t, u, q, serves, reachable2, sends, n)
      BY <2>2, <2>3, <3>3, RunWeakens
    <3> QED
      BY <2>1, <2>4, <3>1, <3>4
  <2>6. CASE e = d /\ toPage' = [toPage EXCEPT ![d] = <<>>] /\ doc' = [doc EXCEPT ![d] = "gone"]
    <3>1. toPage'[e] = <<>> /\ doc'[e] = "gone"
      BY <1>7, <2>6
    <3>2. reachable2 => FALSE
      BY <2>1, <3>1 DEF Reachable
    <3>3. RelayRun(h, <<>>, u, q, serves, FALSE, sends, n)
      BY <2>2, RunEnds
    <3>4. RelayRun(h, <<>>, u, q, serves, reachable2, sends, n)
      BY <2>3, <3>2, <3>3, RunWeakens
    <3> QED
      BY <2>1, <2>4, <3>1, <3>4
  <2>7. CASE /\ e = d /\ toPage[d] # <<>> /\ toPage' = [toPage EXCEPT ![d] = Tail(@)] /\ m.method = "kernelAuthStatus"
             /\ doc[d] # "gone"
    <3>1. toPage'[e] = Tail(t) /\ t # <<>> /\ t \in Seq(UpMsg) /\ Head(t) = m
      BY <1>2, <1>7, <2>1, <2>7
    <3>2. reachable2 => reachable
      BY <1>1, <2>1, <2>7 DEF Reachable, backVars
    <3>3. ~IsUpdate(m, q)
      BY <2>7 DEF IsUpdate
    <3>4. RelayRun(h, Tail(t), u, q, serves, reachable, sends, n)
      BY <2>2, <2>4, <3>1, <3>3, RunIgnores
    <3>5. RelayRun(h, Tail(t), u, q, serves, reachable2, sends, n)
      BY <2>3, <3>2, <3>4, RunWeakens
    <3> QED
      BY <2>1, <2>4, <3>1, <3>5
  <2> QED
    BY <1>3, <2>5, <2>6, <2>7
<1>9. q \notin SentCalls => heard'[q] = heard[q] /\ \A f \in Docs : NoReply(toPage[f], q) => NoReply(toPage'[f], q)
  <2>1. toPage[d] # <<>> => (NoReply(toPage[d], q) => NoReply(Tail(toPage[d]), q))
    BY <1>7, OnceTail
  <2>2. NoReply(<<>>, q)
    BY OnceEmpty
  <2>3. toPage'[d] = <<>> \/ (toPage[d] # <<>> /\ toPage'[d] = Tail(toPage[d]))
    BY <1>3, <1>7
  <2>4. \A f \in Docs \ {d} : toPage'[f] = toPage[f]
    BY <1>3, <1>7
  <2> QED
    BY <1>1, <2>1, <2>2, <2>3, <2>4
<1>10. q \in SentCalls' => queries'[q].owner \in Docs
  BY OwnersAreDocs
<1>11. queries'[q].phase = "closed" =>
           \/ queries[q].phase = "closed" /\ heard'[q] = heard[q]
           \/ heard'[q] # <<>> /\ IsResponse(heard'[q][Len(heard'[q])], q)
  BY <1>1, <1>4
<1>12. heard'[q] = heard[q]
  BY <1>1
<1> QED
  BY <1>1, <1>5, <1>6, <1>8, <1>9, <1>10, <1>11, <1>12, AnswersPageStep, Zenon

LEMMA AnswersInit == ASSUME Init PROVE AnswersInv /\ KernelInv
<1>1. /\ up = <<>> /\ down = <<>> /\ kernelQueries = {} /\ queries = [q \in Calls |-> NoQuery]
      /\ heard = [q \in Calls |-> <<>>] /\ posted = [q \in Calls |-> 0]
  BY Zenon DEF Init
<1>2. KernelInv
  BY <1>1 DEF KernelInv
<1>3. ASSUME NEW q \in Calls PROVE AnswersOf(q) /\ KnownInv(q)
  <2>1. queries[q].phase = "idle" /\ heard[q] = <<>> /\ posted[q] = 0
    BY <1>1 DEF NoQuery
  <2>2. q \notin SentCalls
    BY <2>1 DEF SentCalls
  <2>3. NoUpdate(up, q) /\ NoCallIn(down, q) /\ NoUpdate(heard[q], q)
    BY <1>1, <2>1, EndedNone, OnceEmpty
  <2>4. ~Serves(q)
    BY <1>1 DEF Serves
  <2>5. \A i \in DOMAIN heard[q] : heard[q][i].nonce = q
    <3>1. DOMAIN (<<>>) = {}
      OBVIOUS
    <3> QED
      BY <2>1, <3>1
  <2> QED
    BY <2>1, <2>2, <2>3, <2>4, <2>5 DEF AnswersOf, KnownInv
<1> QED
  BY <1>2, <1>3 DEF AnswersInv

LEMMA AnswersNext == ASSUME OnceInv, KernelInv, AnswersInv, [Next]_vars PROVE AnswersInv'
<1> SUFFICES ASSUME NEW q \in Calls PROVE AnswersOf(q)' /\ KnownInv(q)'
  BY DEF AnswersInv
<1>0. AnswersOf(q) /\ KnownInv(q)
  BY DEF AnswersInv
<1>1. CASE Frame
  BY <1>0, <1>1, AnswersFrame
<1>2. CASE Background
  BY <1>0, <1>2, AnswersBackground
<1>3. CASE Page
  <2>1. CASE \/ \E d \in Docs, p \in Calls, updates \in BOOLEAN : NewKernelQuery(d, p, updates)
             \/ \E p \in Calls : SendUpdate(p)
    BY <1>0, <1>3, <2>1, AnswersRequests
  <2>2. ASSUME NEW d \in Docs, HandleStatus(d) \/ Leave(d) PROVE AnswersOf(q)' /\ KnownInv(q)'
    BY <1>0, <1>3, <2>2, AnswersTurn
  <2>3. ASSUME NEW d \in Docs, HandleResponse(d) \/ HandleResponseUpdate(d) \/ HandleResponseNonce(d)
        PROVE  AnswersOf(q)' /\ KnownInv(q)'
    BY <1>0, <2>3, AnswersReply
  <2> QED
    BY <1>3, <2>1, <2>2, <2>3, Zenon DEF Page, Reloads, Closes
<1>4. CASE UNCHANGED vars
  <2>1. UNCHANGED <<frameVars, backVars, pageVars, up, down, toPage>>
    BY <1>4, Zenon DEF vars
  <2>2. UNCHANGED <<heard, queries, doc, ports, posted, kernelQueries, bgQueries>>
    BY <2>1 DEF frameVars, backVars, pageVars
  <2>3. (Serves(q)' <=> Serves(q)) /\ SentCalls' = SentCalls /\ \A d : (Reachable(d)' <=> Reachable(d))
    BY <2>2, SentIsKept DEF Serves, Reachable
  <2>4. KnownInv(q)'
    BY <1>0, <2>1, <2>2, <2>3 DEF KnownInv
  <2>5. PICK d : d = queries[q].owner
    OBVIOUS
  <2>6. q \in SentCalls' => RelayRun(heard'[q], toPage'[d], up', q, Serves(q)', Reachable(d)', queries'[q].sendUpdates, posted'[q])
    <3> SUFFICES ASSUME q \in SentCalls
                 PROVE  RelayRun(heard[q], toPage[d], up, q, Serves(q)', Reachable(d)', queries[q].sendUpdates, posted[q])
      BY <2>1, <2>2, <2>3
    <3>1. PICK serves, serves2, reachable, reachable2, sends, n :
            /\ serves = Serves(q) /\ serves2 = Serves(q)' /\ reachable = Reachable(d) /\ reachable2 = Reachable(d)'
            /\ sends = queries[q].sendUpdates /\ n = posted[q]
      OBVIOUS
    <3>2. (serves2 => serves) /\ (reachable2 => reachable)
      BY <2>3, <3>1
    <3>3. RelayRun(heard[q], toPage[d], up, q, serves, reachable, sends, n)
      BY <1>0, <2>5, <3>1 DEF AnswersOf
    <3>4. RelayRun(heard[q], toPage[d], up, q, serves2, reachable2, sends, n)
      BY <3>2, <3>3, RunWeakens
    <3> QED
      BY <3>1, <3>4
  <2>7. AnswersOf(q)'
    BY <2>2, <2>5, <2>6 DEF AnswersOf, Reachable
  <2> QED
    BY <2>4, <2>7
<1> QED
  BY <1>1, <1>2, <1>3, <1>4, Zenon DEF Next

(***************************************************************************)
(* The updates of a page: what one step does to their run to the module.   *)
(***************************************************************************)

LEMMA SentNumbers ==
  ASSUME NEW q
  PROVE  /\ NumberOf(q) \in [SentFor(q) -> Nat]
         /\ \A m \in SentFor(q) : NumberOf(q)[m] = m.data.number /\ m \in DownMsg
         /\ NumberIn(q) \in [DeliveredFor(q) -> Nat]
         /\ \A u \in DeliveredFor(q) : NumberIn(q)[u] = u.number
<1>1. \A m \in UpdateMsg : m.data.number \in Nat /\ m \in DownMsg
  BY DEF UpdateMsg, DownMsg
<1>2. \A u \in Delivered : u.number \in Nat
  BY DEF Delivered
<1>3. /\ SentFor(q) \subseteq UpdateMsg /\ NumberOf(q) = [m \in SentFor(q) |-> m.data.number]
      /\ DeliveredFor(q) \subseteq Delivered /\ NumberIn(q) = [u \in DeliveredFor(q) |-> u.number]
  BY DEF SentFor, DeliveredFor, NumberOf, NumberIn
<1>4. \A m \in SentFor(q) : m.data.number \in Nat /\ m \in DownMsg
  BY <1>1, <1>3
<1>5. \A u \in DeliveredFor(q) : u.number \in Nat
  BY <1>2, <1>3
<1> HIDE DEF SentFor, DeliveredFor
<1> QED
  BY <1>3, <1>4, <1>5

NoneFor(s, q) == \A i \in DOMAIN s : s[i] \notin SentFor(q)

\* Nothing was delivered or is on the way.
LEMMA DownStarts ==
  ASSUME NEW v, NEW n, NEW f, NEW q, \A i \in DOMAIN v : v[i] \notin DeliveredFor(q), NoneFor(n, q), NoneFor(f, q),
         NEW serves, NEW open, NEW here
  PROVE  DownRun(v, n, f, q, serves, open, here, 0)
<1>1. 0 \in Nat
  OBVIOUS
<1>2. /\ Numbers(v, DeliveredFor(q), NumberIn(q), 0, 0)
      /\ Numbers(n, SentFor(q), NumberOf(q), 0, 0) /\ Numbers(f, SentFor(q), NumberOf(q), 0, 0)
  BY <1>1, NumbersNone DEF NoneFor
<1> QED
  BY <1>1, <1>2 DEF DownRun

\* A query is no longer served, a port is closed or a document is unloaded.
LEMMA DownWeakens ==
  ASSUME NEW v, NEW n, NEW f, NEW q, NEW serves, NEW open, NEW here, NEW sent,
         DownRun(v, n, f, q, serves, open, here, sent),
         NEW n2, NEW f2, NEW serves2, NEW open2, NEW here2, NEW sent2,
         serves2 => serves /\ n2 = n /\ (open2 => open /\ f2 = f /\ (here2 => here /\ sent2 = sent))
  PROVE  DownRun(v, n2, f2, q, serves2, open2, here2, sent2)
<1>1. PICK a, b, c \in Nat :
        /\ Numbers(v, DeliveredFor(q), NumberIn(q), 0, a)
        /\ serves => /\ Numbers(n, SentFor(q), NumberOf(q), a, b)
                     /\ open => /\ Numbers(f, SentFor(q), NumberOf(q), b, c)
                                /\ here => c = sent
  BY DEF DownRun
<1>2. serves2 => /\ Numbers(n2, SentFor(q), NumberOf(q), a, b)
                 /\ open2 => /\ Numbers(f2, SentFor(q), NumberOf(q), b, c)
                             /\ here2 => c = sent2
  BY <1>1
<1> QED
  BY <1>1, <1>2 DEF DownRun

\* The kernel takes an update and delivers it, or takes something else.
LEMMA DownTakes ==
  ASSUME NEW v \in Seq(Delivered), NEW n \in Seq(DownMsg), n # <<>>, NEW f, NEW q,
         NEW serves, NEW open, NEW here, NEW sent,
         DownRun(v, n, f, q, serves, open, here, sent),
         NEW v2,
         \/ ~serves /\ v2 = v
         \/ Head(n) \notin SentFor(q) /\ v2 = v
         \/ Head(n) \notin SentFor(q) /\ \E u \in Delivered : v2 = Append(v, u) /\ u \notin DeliveredFor(q)
         \/ Head(n) \in SentFor(q) /\ serves
              /\ \E u \in DeliveredFor(q) : v2 = Append(v, u) /\ u.number = Head(n).data.number
  PROVE  DownRun(v2, Tail(n), f, q, serves, open, here, sent)
<1> DEFINE E == SentFor(q)
           N == NumberOf(q)
           F == DeliveredFor(q)
           M == NumberIn(q)
           m == Head(n)
<1>1. /\ N \in [E -> Nat] /\ (m \in E => N[m] = m.data.number)
      /\ M \in [F -> Nat] /\ \A u \in F : M[u] = u.number
  BY SentNumbers
<1>2. PICK a, b, c \in Nat :
        /\ Numbers(v, F, M, 0, a)
        /\ serves => /\ Numbers(n, E, N, a, b)
                     /\ open => /\ Numbers(f, E, N, b, c)
                                /\ here => c = sent
  BY DEF DownRun
<1>3. F \subseteq Delivered
  BY DEF DeliveredFor
<1> HIDE DEF E, N, F, M
<1>4. CASE ~serves /\ v2 = v
  BY <1>2, <1>4 DEF DownRun, E, N, F, M
<1>5. ASSUME m \notin E, Numbers(v2, F, M, 0, a) PROVE DownRun(v2, Tail(n), f, q, serves, open, here, sent)
  <2>1. serves => Numbers(Tail(n), E, N, a, b)
    BY <1>1, <1>2, <1>5, NumbersTail
  <2> QED
    BY <1>2, <1>5, <2>1 DEF DownRun, E, N, F, M
<1>6. ASSUME NEW u \in Delivered, v2 = Append(v, u), u \notin F PROVE Numbers(v2, F, M, 0, a)
  BY <1>1, <1>2, <1>6, NumbersAppend
<1>7. ASSUME m \in E, serves, NEW u \in F, v2 = Append(v, u), u.number = m.data.number
      PROVE  DownRun(v2, Tail(n), f, q, serves, open, here, sent)
  <2>1. N[m] = a + 1 /\ Numbers(Tail(n), E, N, a + 1, b)
    BY <1>1, <1>2, <1>7, NumbersTail
  <2>2. u \in Delivered /\ M[u] = a + 1
    BY <1>1, <1>3, <1>7, <2>1
  <2>3. Numbers(v2, F, M, 0, a + 1) /\ a + 1 \in Nat
    BY <1>1, <1>2, <1>7, <2>2, NumbersAppend
  <2> QED
    BY <1>2, <2>1, <2>3 DEF DownRun, E, N, F, M
<1> QED
  BY <1>2, <1>4, <1>5, <1>6, <1>7 DEF E, F

\* The background passes a message on to the frame.
LEMMA DownPasses ==
  ASSUME NEW v, NEW n \in Seq(DownMsg), NEW f \in Seq(DownMsg), f # <<>>, NEW q,
         NEW serves, NEW here, NEW sent,
         DownRun(v, n, f, q, serves, TRUE, here, sent)
  PROVE  DownRun(v, Append(n, Head(f)), Tail(f), q, serves, TRUE, here, sent)
<1> DEFINE E == SentFor(q)
           N == NumberOf(q)
           m == Head(f)
<1>1. N \in [E -> Nat] /\ m \in DownMsg
  BY SentNumbers, TailIsSeq
<1>2. PICK a, b, c \in Nat :
        /\ Numbers(v, DeliveredFor(q), NumberIn(q), 0, a)
        /\ serves => /\ Numbers(n, E, N, a, b) /\ Numbers(f, E, N, b, c)
                     /\ here => c = sent
  BY DEF DownRun
<1> HIDE DEF E, N
<1>3. \/ serves => Numbers(Append(n, m), E, N, a, b) /\ Numbers(Tail(f), E, N, b, c)
      \/ b + 1 \in Nat /\ (serves => Numbers(Append(n, m), E, N, a, b + 1) /\ Numbers(Tail(f), E, N, b + 1, c))
  <2>1. CASE m \notin E
    BY <1>1, <1>2, <2>1, NumbersTail, NumbersAppend
  <2>2. CASE m \in E
    <3>1. serves => N[m] = b + 1 /\ Numbers(Tail(f), E, N, b + 1, c)
      BY <1>1, <1>2, <2>2, NumbersTail
    <3>2. serves => Numbers(Append(n, m), E, N, a, b + 1)
      BY <1>1, <1>2, <2>2, <3>1, NumbersAppend
    <3> QED
      BY <3>1, <3>2
  <2> QED
    BY <2>1, <2>2
<1> QED
  BY <1>2, <1>3 DEF DownRun, E, N

\* A message of another document is passed on.
LEMMA DownNotes ==
  ASSUME NEW v, NEW n \in Seq(DownMsg), NEW f, NEW q, NEW serves, NEW open, NEW here, NEW sent,
         DownRun(v, n, f, q, serves, open, here, sent), NEW m \in DownMsg, m \notin SentFor(q)
  PROVE  DownRun(v, Append(n, m), f, q, serves, open, here, sent)
<1> DEFINE E == SentFor(q)
           N == NumberOf(q)
<1>1. N \in [E -> Nat]
  BY SentNumbers
<1>2. PICK a, b, c \in Nat :
        /\ Numbers(v, DeliveredFor(q), NumberIn(q), 0, a)
        /\ serves => /\ Numbers(n, E, N, a, b)
                     /\ open => /\ Numbers(f, E, N, b, c)
                                /\ here => c = sent
  BY DEF DownRun
<1> HIDE DEF E, N
<1>3. serves => Numbers(Append(n, m), E, N, a, b)
  BY <1>1, <1>2, NumbersAppend DEF E
<1> QED
  BY <1>2, <1>3 DEF DownRun, E, N

\* The document posts other messages.
LEMMA DownIgnores ==
  ASSUME NEW v, NEW n, NEW f \in Seq(DownMsg), NEW q, NEW serves, NEW open, NEW here, NEW sent,
         DownRun(v, n, f, q, serves, open, here, sent), NEW r \in Seq(DownMsg), NoneFor(r, q)
  PROVE  DownRun(v, n, f \o r, q, serves, open, here, sent)
<1> DEFINE E == SentFor(q)
           N == NumberOf(q)
<1>1. N \in [E -> Nat] /\ \A i \in DOMAIN r : r[i] \notin E
  BY SentNumbers DEF NoneFor
<1>2. PICK a, b, c \in Nat :
        /\ Numbers(v, DeliveredFor(q), NumberIn(q), 0, a)
        /\ serves => /\ Numbers(n, E, N, a, b)
                     /\ open => /\ Numbers(f, E, N, b, c)
                                /\ here => c = sent
  BY DEF DownRun
<1> HIDE DEF E, N
<1>3. Numbers(r, E, N, c, c)
  BY <1>1, <1>2, NumbersNone
<1>4. serves /\ open => Numbers(f \o r, E, N, b, c)
  BY <1>1, <1>2, <1>3, NumbersConcat
<1> QED
  BY <1>2, <1>4 DEF DownRun, E, N

\* The document posts the next update.
LEMMA DownPosts ==
  ASSUME NEW v, NEW n, NEW f \in Seq(DownMsg), NEW q, NEW serves, NEW open, NEW sent \in Nat,
         DownRun(v, n, f, q, serves, open, TRUE, sent),
         NEW m \in SentFor(q), m.data.number = sent + 1
  PROVE  DownRun(v, n, Append(f, m), q, serves, open, TRUE, sent + 1)
<1> DEFINE E == SentFor(q)
           N == NumberOf(q)
<1>1. N \in [E -> Nat] /\ m \in E /\ m \in DownMsg /\ N[m] = sent + 1
  BY SentNumbers
<1>2. PICK a, b, c \in Nat :
        /\ Numbers(v, DeliveredFor(q), NumberIn(q), 0, a)
        /\ serves => /\ Numbers(n, E, N, a, b)
                     /\ open => Numbers(f, E, N, b, c) /\ c = sent
  BY DEF DownRun
<1> HIDE DEF E, N
<1>3. serves /\ open => Numbers(Append(f, m), E, N, b, sent + 1)
  BY <1>1, <1>2, NumbersAppend
<1>4. sent + 1 \in Nat
  OBVIOUS
<1> QED
  BY <1>2, <1>3, <1>4 DEF DownRun, E, N

\* The document posts the updates it held.
LEMMA DownReleases ==
  ASSUME NEW v, NEW n, NEW f \in Seq(DownMsg), NEW q,
         \A i \in DOMAIN v : v[i] \notin DeliveredFor(q), NoneFor(n, q), NoneFor(f, q),
         NEW r \in Seq(DownMsg), NEW z \in Nat, DOMAIN r = 1 .. z,
         \A i \in 1 .. z : r[i] \in SentFor(q) /\ r[i].data.number = i,
         NEW serves, NEW open, NEW here
  PROVE  DownRun(v, n, f \o r, q, serves, open, here, z)
<1> DEFINE E == SentFor(q)
           N == NumberOf(q)
<1>1. N \in [E -> Nat] /\ 0 \in Nat
  BY SentNumbers
<1>2. /\ Numbers(v, DeliveredFor(q), NumberIn(q), 0, 0)
      /\ Numbers(n, E, N, 0, 0) /\ Numbers(f, E, N, 0, 0)
  BY <1>1, NumbersNone DEF NoneFor
<1>3. \A i \in 1 .. z : r[i] \in E /\ N[r[i]] = i
  BY SentNumbers
<1> HIDE DEF E, N
<1>4. Numbers(r, E, N, 0, z)
  BY <1>3, NumbersMade
<1>5. Numbers(f \o r, E, N, 0, z)
  BY <1>1, <1>2, <1>4, NumbersConcat
<1> QED
  BY <1>1, <1>2, <1>5 DEF DownRun, E, N

\* The document is unloaded, and its last messages may be lost.
LEMMA DownLeaves ==
  ASSUME NEW v, NEW n, NEW f \in Seq(DownMsg), NEW q, NEW serves, NEW open, NEW here, NEW sent,
         DownRun(v, n, f, q, serves, open, here, sent), NEW z \in 0 .. Len(f)
  PROVE  DownRun(v, n, SubSeq(f, 1, z), q, serves, open, FALSE, sent)
<1> DEFINE E == SentFor(q)
           N == NumberOf(q)
<1>1. N \in [E -> Nat]
  BY SentNumbers
<1>2. PICK a, b, c \in Nat :
        /\ Numbers(v, DeliveredFor(q), NumberIn(q), 0, a)
        /\ serves => /\ Numbers(n, E, N, a, b)
                     /\ open => Numbers(f, E, N, b, c)
  BY DEF DownRun
<1> HIDE DEF E, N
<1>3. (serves /\ open) => \E e \in Nat : Numbers(SubSeq(f, 1, z), E, N, b, e)
  BY <1>1, <1>2, NumbersPrefix
<1>4. PICK e \in Nat : serves /\ open => Numbers(SubSeq(f, 1, z), E, N, b, e)
  BY <1>2, <1>3
<1> QED
  BY <1>2, <1>4 DEF DownRun, E, N

(***************************************************************************)
(* The nonces.                                                             *)
(***************************************************************************)

LEMMA GoodSequences ==
  ASSUME NEW S, NEW s \in Seq(S)
  PROVE  /\ \A e \in S : GoodNonces(s) /\ (e.method = "responseNonce" => GoodNonce(e)) => GoodNonces(Append(s, e))
         /\ s # <<>> /\ GoodNonces(s) =>
                GoodNonces(Tail(s)) /\ (Head(s).method = "responseNonce" => GoodNonce(Head(s)))
         /\ s = <<>> => GoodNonces(s)
<1>1. ASSUME NEW e \in S, GoodNonces(s), e.method = "responseNonce" => GoodNonce(e)
      PROVE  GoodNonces(Append(s, e))
  <2>1. \A i \in DOMAIN Append(s, e) : Append(s, e)[i] = e \/ (i \in DOMAIN s /\ Append(s, e)[i] = s[i])
    BY <1>1, AppendElements
  <2> QED
    BY <1>1, <2>1 DEF GoodNonces
<1>2. ASSUME s # <<>>, GoodNonces(s)
      PROVE  GoodNonces(Tail(s)) /\ (Head(s).method = "responseNonce" => GoodNonce(Head(s)))
  <2>1. Head(s) = s[1] /\ 1 \in DOMAIN s /\ \A i \in DOMAIN Tail(s) : i + 1 \in DOMAIN s /\ Tail(s)[i] = s[i + 1]
    BY <1>2
  <2> QED
    BY <1>2, <2>1 DEF GoodNonces
<1>3. s = <<>> => GoodNonces(s)
  BY DEF GoodNonces
<1> QED
  BY <1>1, <1>2, <1>3

\* A nonce that was given out stays that of its query.
LEMMA NonceKept ==
  ASSUME TypeInv, Frame, NEW m \in ReplyMsg, GoodNonce(m), ~Taken(m.nonce)
  PROVE  GoodNonce(m)'
<1>0. /\ m.from \in Nat /\ session \in Nat /\ m.data \in Nat /\ kernelNonces \in Nat
      /\ frame = "absent" => kernelQueries = {}
  BY DEF TypeInv, FrameTypes, ReplyMsg, Session
<1>1. /\ m.data # 0 /\ m.from <= session
      /\ m.from = session /\ frame # "absent" =>
             /\ m.data <= kernelNonces
             /\ \A g \in kernelQueries : g.nonce = m.data => g.call = m.nonce
      /\ \A g \in kernelQueries : g.call = m.nonce => g.nonce = m.data
  BY DEF GoodNonce
<1>2. ASSUME session' = session, kernelNonces' = kernelNonces, kernelQueries' \subseteq kernelQueries, frame # "absent"
      PROVE  GoodNonce(m)'
  BY <1>1, <1>2 DEF GoodNonce
<1>3. CASE FrameStarts
  <2>1. session' = session + 1 /\ kernelQueries' = {}
    BY <1>0, <1>3, Zenon DEF FrameStarts
  <2>2. m.from <= session + 1 /\ m.from # session + 1
    BY <1>0, <1>1
  <2> QED
    BY <1>1, <2>1, <2>2 DEF GoodNonce
<1>4. CASE Unload
  <2>1. session' = session /\ kernelQueries' = {} /\ frame' = "absent"
    BY <1>4, Zenon DEF Unload
  <2> QED
    BY <1>1, <2>1 DEF GoodNonce
<1>5. CASE KernelOpens
  <2>1. PICK k, c : k = kernelNonces + 1 /\ c = Head(down).nonce
    OBVIOUS
  <2>2. /\ down # <<>> /\ Head(down).method = "moduleCall" /\ down' = Tail(down) /\ frame # "absent"
        /\ kernelNonces' = k /\ kernelQueries' = kernelQueries \cup {[nonce |-> k, call |-> c]}
        /\ session' = session /\ frame' = frame
    BY <1>5, <2>1, Zenon DEF KernelOpens, Take
  <2>3. m.nonce # c
    BY <2>1, <2>2 DEF Taken, IsCall
  <2>4. \A g \in kernelQueries' : g \in kernelQueries \/ (g.nonce = k /\ g.call = c)
    BY <2>2
  <2>5. m.data <= kernelNonces => m.data <= k /\ m.data # k
    BY <1>0, <2>1
  <2>6. m.from = session => m.data <= k /\ \A g \in kernelQueries' : g.nonce = m.data => g.call = m.nonce
    BY <1>1, <2>2, <2>4, <2>5
  <2>7. \A g \in kernelQueries' : g.call = m.nonce => g.nonce = m.data
    BY <1>1, <2>3, <2>4
  <2> QED
    BY <1>1, <2>2, <2>6, <2>7 DEF GoodNonce
<1>6. CASE LogOut \/ BootloaderAnswers \/ KernelRefuses \/ KernelRelaysUpdate
  <2>1. UNCHANGED <<session, kernelNonces, kernelQueries>> /\ frame # "absent"
    <3>1. "running" # "absent"
      OBVIOUS
    <3> QED
      BY <1>6, <3>1, Zenon DEF LogOut, BootloaderAnswers, KernelRefuses, KernelRelaysUpdate, Take, frameVars
  <2> QED
    BY <1>2, <2>1
<1>7. ASSUME NEW loaded, FrameLoads(loaded) PROVE GoodNonce(m)'
  <2>1. UNCHANGED <<session, kernelNonces, kernelQueries>> /\ frame # "absent"
    BY <1>7, Zenon DEF FrameLoads
  <2> QED
    BY <1>2, <2>1
<1>8. ASSUME NEW g \in kernelQueries, ModuleUpdates(g) \/ ModuleResponds(g) PROVE GoodNonce(m)'
  <2>1. /\ kernelQueries' = kernelQueries \/ kernelQueries' = kernelQueries \ {g}
        /\ UNCHANGED <<kernelNonces, session>> /\ frame # "absent"
    BY <1>0, <1>8, Zenon DEF ModuleUpdates, ModuleResponds
  <2> QED
    BY <1>2, <2>1
<1> QED
  BY <1>3, <1>4, <1>5, <1>6, <1>7, <1>8, Zenon DEF Frame

\* What the frame gives out is the nonce of that query.
LEMMA NonceGiven ==
  ASSUME OnceInv, KernelInv, Frame
  PROVE  up' = up \/ \E m \in UpMsg : up' = Append(up, m) /\ (m.method = "responseNonce" => GoodNonce(m)')
<1>0. TypeInv /\ up \in Seq(UpMsg) /\ session \in Nat /\ kernelNonces \in Nat
  BY DEF OnceInv, MentionInv, TypeInv, FrameTypes, ChannelTypes
<1>1. up' = up \/ \E m \in UpMsg : up' = Append(up, m)
  BY <1>0, FrameSends, Zenon DEF Sends
<1>2. \A m, n : up' = Append(up, m) /\ up' = Append(up, n) => m = n
  BY <1>0, AppendIsInjective
<1>3. ASSUME NEW m, up' = Append(up, m), m.method = "responseNonce" => GoodNonce(m)'
      PROVE  up' = up \/ \E n \in UpMsg : up' = Append(up, n) /\ (n.method = "responseNonce" => GoodNonce(n)')
  BY <1>1, <1>2, <1>3
<1>4. CASE FrameStarts
  <2> DEFINE m == [Status("not yet", FALSE) EXCEPT !.from = session']
  <2>1. up' = Append(up, m)
    BY <1>4, Zenon DEF FrameStarts
  <2>2. m.method # "responseNonce"
    BY DEF Status, Message
  <2> HIDE DEF m
  <2> QED
    BY <1>3, <2>1, <2>2
<1>5. ASSUME NEW loaded, NEW logout, up' = Append(up, Status(loaded, logout))
      PROVE  up' = up \/ \E n \in UpMsg : up' = Append(up, n) /\ (n.method = "responseNonce" => GoodNonce(n)')
  <2>1. Status(loaded, logout).method # "responseNonce"
    BY DEF Status, Message
  <2> QED
    BY <1>3, <1>5, <2>1
<1>6. ASSUME NEW nonce, up' = Append(up, Error(nonce))
      PROVE  up' = up \/ \E n \in UpMsg : up' = Append(up, n) /\ (n.method = "responseNonce" => GoodNonce(n)')
  <2>1. Error(nonce).method # "responseNonce"
    BY DEF Error
  <2> QED
    BY <1>3, <1>6, <2>1
<1>7. ASSUME NEW method, NEW nonce, NEW data, up' = Append(up, Message(method, nonce, data)), method # "responseNonce"
      PROVE  up' = up \/ \E n \in UpMsg : up' = Append(up, n) /\ (n.method = "responseNonce" => GoodNonce(n)')
  <2>1. Message(method, nonce, data).method # "responseNonce"
    BY <1>7 DEF Message
  <2> QED
    BY <1>3, <1>7, <2>1
<1>8. CASE LogOut
  BY <1>5, <1>8, Zenon DEF LogOut
<1>9. ASSUME NEW loaded, FrameLoads(loaded)
      PROVE  up' = up \/ \E n \in UpMsg : up' = Append(up, n) /\ (n.method = "responseNonce" => GoodNonce(n)')
  BY <1>5, <1>9, Zenon DEF FrameLoads
<1>10. CASE Unload \/ KernelRelaysUpdate
  BY <1>10, Zenon DEF Unload, KernelRelaysUpdate
<1>11. CASE BootloaderAnswers
  BY <1>6, <1>11, Zenon DEF BootloaderAnswers
<1>12. CASE KernelRefuses
  <2>1. up' = Append(up, Message("response", Head(down).nonce, 0)) /\ "response" # "responseNonce"
    BY <1>12 DEF KernelRefuses
  <2> QED
    BY <1>7, <2>1
<1>13. ASSUME NEW g \in kernelQueries, ModuleUpdates(g) \/ ModuleResponds(g)
       PROVE  up' = up \/ \E n \in UpMsg : up' = Append(up, n) /\ (n.method = "responseNonce" => GoodNonce(n)')
  <2>1. "response" # "responseNonce" /\ "responseUpdate" # "responseNonce"
    OBVIOUS
  <2>2. \/ up' = Append(up, Message("responseUpdate", g.call, posted[g.call] + 1))
        \/ up' = Append(up, Message("response", g.call, posted[g.call]))
    BY <1>13, Zenon DEF ModuleUpdates, ModuleResponds
  <2> QED
    BY <1>7, <2>1, <2>2
<1>14. CASE KernelOpens
  <2>1. PICK k, c : k = kernelNonces + 1 /\ c = Head(down).nonce
    OBVIOUS
  <2>2. /\ down # <<>> /\ Head(down).method = "moduleCall"
        /\ kernelNonces' = k /\ kernelQueries' = kernelQueries \cup {[nonce |-> k, call |-> c]}
        /\ up' = Append(up, Message("responseNonce", c, k)) \/ up' = up
        /\ session' = session
    BY <1>14, <2>1, Zenon DEF KernelOpens, Take
  <2>3. c \in Calls
    <3>1. down \in Seq(CallsOf(SentCalls))
      BY DEF OnceInv, MentionInv, ChannelMentions
    <3> QED
      BY <2>1, <2>2, <3>1, TailIsSeq, CallMention
  <2>4. ~Serves(c)
    BY <2>1, <2>2, <2>3, TakenIsQuiet
  <2>5. \A g \in kernelQueries : g.call # c /\ g.nonce \in Nat /\ g.nonce <= kernelNonces
    BY <1>0, <2>4 DEF Serves, KernelInv, TypeInv, FrameTypes
  <2>6. \A g \in kernelQueries : g.nonce # k
    BY <1>0, <2>1, <2>5
  <2>7. k \in Nat /\ k # 0 /\ k <= k /\ session <= session
    BY <1>0, <2>1
  <2>8. PICK m : m = Message("responseNonce", c, k)
    OBVIOUS
  <2>9. m.data = k /\ m.nonce = c /\ m.from = session
    BY <2>8 DEF Message
  <2>10. \A g \in kernelQueries' : g \in kernelQueries \/ (g.nonce = k /\ g.call = c)
    BY <2>2
  <2>11. GoodNonce(m)'
    BY <2>2, <2>5, <2>6, <2>7, <2>9, <2>10 DEF GoodNonce
  <2> QED
    BY <1>3, <2>2, <2>8, <2>11
<1> QED
  BY <1>4, <1>8, <1>9, <1>10, <1>11, <1>12, <1>13, <1>14, Zenon DEF Frame

LEMMA NoncesFrame ==
  ASSUME OnceInv, KernelInv, NoncesInv, Frame, \A q \in Calls : \A i \in DOMAIN heard[q] : heard[q][i].nonce = q
  PROVE  NoncesInv'
<1>0. TypeInv /\ up \in Seq(UpMsg)
  BY DEF OnceInv, MentionInv, TypeInv, ChannelTypes
<1>1. UNCHANGED <<toPage, pageVars>>
  BY Zenon DEF Frame, FrameStarts, FrameLoads, LogOut, Unload, BootloaderAnswers, KernelRefuses, KernelOpens,
     KernelRelaysUpdate, ModuleUpdates, ModuleResponds
<1>2. UNCHANGED <<toPage, heard>>
  BY <1>1 DEF pageVars
<1>3. ASSUME NEW s \in Seq(UpMsg), GoodNonces(s), \A q \in Calls : Taken(q) => NoReply(s, q)
      PROVE  GoodNonces(s)'
  <2>1. ASSUME NEW i \in DOMAIN s, s[i].method = "responseNonce" PROVE GoodNonce(s[i])'
    <3>1. PICK m \in UpMsg : m = s[i]
      BY <1>3, <2>1
    <3>2. m \in ReplyMsg /\ m.nonce \in Calls
      BY <2>1, <3>1, UpMessages DEF ReplyMsg
    <3>3. ~Taken(m.nonce)
      BY <1>3, <2>1, <3>1, <3>2 DEF NoReply
    <3>4. GoodNonce(m)
      BY <1>3, <2>1, <3>1 DEF GoodNonces
    <3>5. GoodNonce(m)'
      BY <1>0, <3>2, <3>3, <3>4, NonceKept
    <3> QED
      BY <3>1, <3>5
  <2> QED
    BY <2>1 DEF GoodNonces
<1>4. \A q \in Calls : Taken(q) => Quiet(q)
  BY TakenIsQuiet DEF Taken, IsCall
<1>5. GoodNonces(up)'
  <2>1. PICK s : s = up
    OBVIOUS
  <2>2. s \in Seq(UpMsg) /\ GoodNonces(s) /\ \A q \in Calls : Taken(q) => NoReply(s, q)
    BY <1>0, <1>4, <2>1 DEF NoncesInv, Quiet
  <2>3. GoodNonces(s)'
    BY <1>3, <2>2
  <2>4. CASE up' = up
    BY <2>1, <2>3, <2>4 DEF GoodNonces
  <2>5. ASSUME NEW m \in UpMsg, up' = Append(up, m), m.method = "responseNonce" => GoodNonce(m)'
        PROVE  GoodNonces(up)'
    <3>1. \A i \in DOMAIN up' : up'[i] = m \/ (i \in DOMAIN s /\ up'[i] = s[i])
      BY <2>1, <2>2, <2>5, AppendElements
    <3> QED
      BY <2>3, <2>5, <3>1 DEF GoodNonces
  <2> QED
    BY <2>4, <2>5, NonceGiven
<1>6. ASSUME NEW d \in Docs PROVE GoodNonces(toPage[d])'
  <2>1. PICK s : s = toPage[d]
    OBVIOUS
  <2>2. s \in Seq(UpMsg) /\ GoodNonces(s) /\ \A q \in Calls : Taken(q) => NoReply(s, q)
    BY <1>0, <1>4, <2>1 DEF NoncesInv, Quiet, TypeInv, ChannelTypes
  <2>3. GoodNonces(s)'
    BY <1>3, <2>2
  <2> QED
    BY <1>2, <2>1, <2>3 DEF GoodNonces
<1>7. ASSUME NEW p \in Calls PROVE GoodNonces(heard[p])'
  <2>1. PICK s : s = heard[p]
    OBVIOUS
  <2>2. GoodNonces(s)
    BY <2>1 DEF NoncesInv
  <2>3. s \in Seq(UpMsg)
    BY <1>0, <2>1, SeqWider DEF TypeInv, PageTypes, UpMsg
  <2>4. ASSUME NEW q \in Calls, Taken(q) PROVE NoReply(s, q)
    <3>1. heard[q] = <<>>
      BY <1>4, <2>4 DEF Quiet
    <3> QED
      BY <2>1, <3>1 DEF NoReply
  <2>5. GoodNonces(s)'
    BY <1>3, <2>2, <2>3, <2>4
  <2> QED
    BY <1>2, <2>1, <2>5 DEF GoodNonces
<1> QED
  BY <1>5, <1>6, <1>7 DEF NoncesInv

LEMMA GoodSame == ASSUME UNCHANGED frameVars, NEW s PROVE GoodNonces(s)' <=> GoodNonces(s)
<1>1. UNCHANGED <<session, frame, kernelNonces, kernelQueries>>
  BY DEF frameVars
<1>2. \A m : GoodNonce(m)' <=> GoodNonce(m)
  BY <1>1 DEF GoodNonce
<1> QED
  BY <1>2 DEF GoodNonces

LEMMA NoncesBackground == ASSUME TypeInv, NoncesInv, Background PROVE NoncesInv'
<1>1. UNCHANGED frameVars /\ UNCHANGED heard
  BY Zenon DEF Background, HandleAuthStatus, HandleReply, Connect, HandleBridgeMessage, PortDisconnected, pageVars
<1>2. up \in Seq(UpMsg) /\ toPage \in [Docs -> Seq(UpMsg)] /\ authStatus \in StatusMsg \cup {Unknown}
  BY DEF TypeInv, ChannelTypes, BackTypes
<1>3. GoodNonces(up) /\ \A d \in Docs : GoodNonces(toPage[d])
  BY DEF NoncesInv
<1>4. ASSUME NEW d \in Docs, NEW m \in UpMsg, m.method = "responseNonce" => GoodNonce(m),
             NEW t, t = toPage[d] \/ t = toPage[d] \o <<m>> \/ t = toPage[d] \o <<m, m>>
      PROVE  GoodNonces(t)
  <2>1. PICK s : s = toPage[d]
    OBVIOUS
  <2>2. s \in Seq(UpMsg) /\ GoodNonces(s)
    BY <1>2, <1>3, <2>1
  <2>3. Append(s, m) \in Seq(UpMsg) /\ GoodNonces(Append(s, m))
    BY <1>4, <2>2, GoodSequences, AppendIsSeq
  <2>4. GoodNonces(Append(Append(s, m), m))
    BY <1>4, <2>3, GoodSequences
  <2>5. s \o <<m>> = Append(s, m) /\ s \o <<m, m>> = Append(Append(s, m), m)
    BY <2>2
  <2> QED
    BY <1>4, <2>1, <2>2, <2>3, <2>4, <2>5
<1>5. up # <<>> => GoodNonces(Tail(up)) /\ Head(up) \in UpMsg
                   /\ (Head(up).method = "responseNonce" => GoodNonce(Head(up)))
  BY <1>2, <1>3, GoodSequences, TailIsSeq
<1>6. ASSUME GoodNonces(up'), \A d \in Docs : GoodNonces(toPage'[d]) PROVE NoncesInv'
  <2>1. GoodNonces(up)'
    <3>1. PICK s : s = up'
      OBVIOUS
    <3>2. GoodNonces(s)'
      BY <1>1, <1>6, <3>1, GoodSame
    <3> QED
      BY <3>1, <3>2
  <2>2. ASSUME NEW d \in Docs PROVE GoodNonces(toPage[d])'
    <3>1. PICK s : s = toPage'[d]
      OBVIOUS
    <3>2. GoodNonces(s)'
      BY <1>1, <1>6, <3>1, GoodSame
    <3> QED
      BY <3>1, <3>2
  <2>3. ASSUME NEW q \in Calls PROVE GoodNonces(heard[q])'
    <3>1. PICK s : s = heard[q]
      OBVIOUS
    <3>2. GoodNonces(s)'
      BY <1>1, <3>1, GoodSame DEF NoncesInv
    <3>3. s = heard'[q]
      BY <1>1, <3>1
    <3> QED
      BY <3>2, <3>3
  <2> QED
    BY <2>1, <2>2, <2>3 DEF NoncesInv
<1>7. CASE HandleAuthStatus
  <2>1. PICK m : m = Head(up)
    OBVIOUS
  <2>2. /\ up # <<>> /\ m.method = "kernelAuthStatus" /\ up' = Tail(up)
        /\ SendTo(OpenPorts, <<m, m>>) \/ SendTo(OpenPorts, <<m>>)
    BY <1>7, <2>1, Zenon DEF HandleAuthStatus, TakeUp
  <2>3. \A e \in Docs : toPage'[e] = toPage[e] \/ toPage'[e] = toPage[e] \o <<m>> \/ toPage'[e] = toPage[e] \o <<m, m>>
    BY <2>2, Zenon DEF SendTo
  <2>4. \A e \in Docs : GoodNonces(toPage'[e])
    BY <1>4, <1>5, <2>1, <2>2, <2>3
  <2> QED
    BY <1>5, <1>6, <2>2, <2>4
<1>8. CASE HandleReply
  <2>1. PICK m : m = Head(up)
    OBVIOUS
  <2>2. PICK D : D = OpenPorts \cap {queries[m.nonce].owner}
    OBVIOUS
  <2>3. /\ up # <<>> /\ up' = Tail(up)
        /\ SendTo(D, <<m>>) \/ UNCHANGED toPage
    BY <1>8, <2>1, <2>2, Zenon DEF HandleReply, TakeUp
  <2>4. \A e \in Docs : toPage'[e] = toPage[e] \/ toPage'[e] = toPage[e] \o <<m>>
    BY <2>3, Zenon DEF SendTo
  <2>5. \A e \in Docs : GoodNonces(toPage'[e])
    BY <1>4, <1>5, <2>1, <2>3, <2>4
  <2> QED
    BY <1>5, <1>6, <2>3, <2>5
<1>9. ASSUME NEW e \in Docs, Connect(e) PROVE NoncesInv'
  <2>1. /\ UNCHANGED up
        /\ toPage' = toPage \/ (authStatus # Unknown /\ toPage' = [toPage EXCEPT ![e] = Append(@, authStatus)])
    BY <1>9, Zenon DEF Connect
  <2>2. authStatus # Unknown => authStatus \in UpMsg /\ authStatus.method # "responseNonce"
    BY <1>2 DEF UpMsg, StatusMsg
  <2>3. ASSUME NEW d \in Docs PROVE GoodNonces(toPage'[d])
    <3>1. toPage'[d] = toPage[d] \/ (authStatus # Unknown /\ toPage'[d] = Append(toPage[d], authStatus))
      BY <1>2, <2>1
    <3> QED
      BY <1>2, <1>3, <2>2, <3>1, GoodSequences
  <2> QED
    BY <1>3, <1>6, <2>1, <2>3
<1>10. ASSUME NEW e \in Docs, HandleBridgeMessage(e) \/ PortDisconnected(e) PROVE NoncesInv'
  <2>1. UNCHANGED <<up, toPage>>
    BY <1>10, Zenon DEF HandleBridgeMessage, PortDisconnected
  <2> QED
    BY <1>3, <1>6, <2>1
<1> QED
  BY <1>7, <1>8, <1>9, <1>10, Zenon DEF Background

\* What a step of a page hears, and what it leaves to be heard.
LEMMA PageHears ==
  ASSUME TypeInv, Page
  PROVE  /\ UNCHANGED <<frameVars, backVars, up, down>>
         /\ \A d \in Docs : \/ toPage'[d] = toPage[d] \/ toPage'[d] = <<>>
                            \/ (toPage[d] # <<>> /\ toPage'[d] = Tail(toPage[d]))
         /\ \A q \in Calls : \/ heard'[q] = heard[q]
                             \/ \E d \in Docs : /\ toPage[d] # <<>> /\ Head(toPage[d]) \in ReplyMsg
                                                /\ Head(toPage[d]).nonce = q
                                                /\ heard'[q] = Append(heard[q], Head(toPage[d]))
<1>0. toPage \in [Docs -> Seq(UpMsg)] /\ heard \in [Calls -> Seq(ReplyMsg)]
  BY DEF TypeInv, ChannelTypes, PageTypes
<1>1. UNCHANGED <<frameVars, backVars, up, down>>
  BY Zenon DEF Page, NewKernelQuery, SendUpdate, HandleStatus, HandleResponse, HandleResponseUpdate,
     HandleResponseNonce, Reloads, Closes, Leave
<1>2. \/ UNCHANGED toPage
      \/ \E d \in Docs : \/ toPage[d] # <<>> /\ toPage' = [toPage EXCEPT ![d] = Tail(@)]
                         \/ toPage' = [toPage EXCEPT ![d] = <<>>]
  BY Zenon DEF Page, NewKernelQuery, SendUpdate, HandleStatus, HandleResponse, HandleResponseUpdate,
     HandleResponseNonce, Reloads, Closes, Leave, TakePage
<1>3. \A d \in Docs : \/ toPage'[d] = toPage[d] \/ toPage'[d] = <<>>
                      \/ (toPage[d] # <<>> /\ toPage'[d] = Tail(toPage[d]))
  BY <1>0, <1>2
<1>4. \/ UNCHANGED heard
      \/ \E d \in Docs : /\ toPage[d] # <<>> /\ Head(toPage[d]).method # "kernelAuthStatus"
                         /\ Takes(Head(toPage[d])) /\ Hear(Head(toPage[d]))
  <2>1. "response" # "kernelAuthStatus" /\ "responseUpdate" # "kernelAuthStatus" /\ "responseNonce" # "kernelAuthStatus"
    OBVIOUS
  <2> QED
    BY <2>1, Zenon DEF Page, NewKernelQuery, SendUpdate, HandleStatus, HandleResponse, HandleResponseUpdate,
     HandleResponseNonce, Reloads, Closes, Leave, TakePage
<1>5. ASSUME NEW d \in Docs, toPage[d] # <<>>, Head(toPage[d]).method # "kernelAuthStatus",
             Takes(Head(toPage[d])), Hear(Head(toPage[d])), NEW q \in Calls
      PROVE  heard'[q] = heard[q] \/ (Head(toPage[d]) \in ReplyMsg /\ Head(toPage[d]).nonce = q
                                      /\ heard'[q] = Append(heard[q], Head(toPage[d])))
  <2>1. PICK m : m = Head(toPage[d])
    OBVIOUS
  <2>2. m \in UpMsg
    BY <1>0, <1>5, <2>1, TailIsSeq
  <2>3. m \in ReplyMsg /\ heard' = [heard EXCEPT ![m.nonce] = Append(@, m)]
    BY <1>5, <2>1, <2>2, WithData DEF Takes, Hear
  <2> QED
    BY <1>0, <2>1, <2>3
<1>6. \A q \in Calls : \/ heard'[q] = heard[q]
                       \/ \E d \in Docs : /\ toPage[d] # <<>> /\ Head(toPage[d]) \in ReplyMsg
                                          /\ Head(toPage[d]).nonce = q
                                          /\ heard'[q] = Append(heard[q], Head(toPage[d]))
  BY <1>4, <1>5
<1> QED
  BY <1>1, <1>3, <1>6

LEMMA NoncesPage == ASSUME TypeInv, NoncesInv, Page PROVE NoncesInv'
<1>0. toPage \in [Docs -> Seq(UpMsg)] /\ heard \in [Calls -> Seq(ReplyMsg)]
  BY DEF TypeInv, ChannelTypes, PageTypes
<1>1. UNCHANGED frameVars /\ UNCHANGED up
  BY PageHears
<1>2. \A d \in Docs : GoodNonces(toPage[d])
  BY DEF NoncesInv
<1>3. GoodNonces(up)'
  <2>1. PICK s : s = up
    OBVIOUS
  <2>2. GoodNonces(s)'
    BY <1>1, <2>1, GoodSame DEF NoncesInv
  <2>3. s = up'
    BY <1>1, <2>1
  <2> QED
    BY <2>2, <2>3
<1>4. ASSUME NEW d \in Docs PROVE GoodNonces(toPage[d])'
  <2>1. PICK s : s = toPage'[d]
    OBVIOUS
  <2>2. GoodNonces(s)
    <3>1. GoodNonces(<<>>)
      BY EmptyIsSeq, GoodSequences
    <3>2. PICK t : t = toPage[d]
      OBVIOUS
    <3>3. t \in Seq(UpMsg) /\ GoodNonces(t) /\ (t # <<>> => GoodNonces(Tail(t)))
      BY <1>0, <1>2, <3>2, GoodSequences
    <3>4. s = t \/ s = <<>> \/ (t # <<>> /\ s = Tail(t))
      BY <2>1, <3>2, PageHears
    <3> QED
      BY <3>1, <3>3, <3>4
  <2>3. GoodNonces(s)'
    BY <1>1, <2>2, GoodSame
  <2> QED
    BY <2>1, <2>3
<1>5. ASSUME NEW q \in Calls PROVE GoodNonces(heard[q])'
  <2>1. PICK s : s = heard'[q]
    OBVIOUS
  <2>2. GoodNonces(heard[q]) /\ heard[q] \in Seq(ReplyMsg)
    BY <1>0 DEF NoncesInv
  <2>3. ASSUME s = heard[q] PROVE GoodNonces(s)
    BY <2>2, <2>3
  <2>4. ASSUME NEW d \in Docs, toPage[d] # <<>>, Head(toPage[d]) \in ReplyMsg, s = Append(heard[q], Head(toPage[d]))
        PROVE  GoodNonces(s)
    <3>1. Head(toPage[d]).method = "responseNonce" => GoodNonce(Head(toPage[d]))
      BY <1>0, <1>2, <2>4, GoodSequences
    <3> QED
      BY <2>2, <2>4, <3>1, GoodSequences
  <2>5. GoodNonces(s)
    <3>1. \/ s = heard[q]
          \/ \E d \in Docs : /\ toPage[d] # <<>> /\ Head(toPage[d]) \in ReplyMsg
                             /\ s = Append(heard[q], Head(toPage[d]))
      BY <2>1, PageHears
    <3> QED
      BY <2>3, <2>4, <3>1
  <2>6. GoodNonces(s)'
    BY <1>1, <2>5, GoodSame
  <2> QED
    BY <2>1, <2>6
<1> QED
  BY <1>3, <1>4, <1>5 DEF NoncesInv

(***************************************************************************)
(* Whose the updates are.                                                  *)
(***************************************************************************)

\* Whatever a query was given, it keeps.
Keeps ==
    \A q \in Calls : queries[q].kernelNonce # 0 =>
        queries'[q].kernelNonce = queries[q].kernelNonce /\ queries'[q].owner = queries[q].owner

LEMMA OwnKept ==
  ASSUME Keeps
  PROVE  OwnMsgs \subseteq OwnMsgs' /\ \A d : OwnedBy(d) \subseteq OwnedBy(d)'
<1>1. ASSUME NEW m \in DownMsg, m.method = "queryUpdate", IsOwn(m)
      PROVE  IsOwn(m)' /\ queries'[m.data.of].owner = queries[m.data.of].owner
  <2>1. m.data.of \in Calls
    BY <1>1 DEF DownMsg, CallMsg, UpdateMsg
  <2> QED
    BY <1>1, <2>1 DEF Keeps, IsOwn
<1>2. ASSUME NEW m \in OwnMsgs PROVE m \in OwnMsgs'
  BY <1>1, <1>2 DEF OwnMsgs
<1>3. ASSUME NEW d, NEW m \in OwnedBy(d) PROVE m \in OwnedBy(d)'
  <2>1. m \in OwnMsgs /\ m \in DownMsg /\ m \in OwnMsgs'
    BY <1>2, <1>3 DEF OwnedBy, OwnMsgs
  <2>2. m.method = "queryUpdate" => queries'[m.data.of].owner = d
    BY <1>1, <1>3, <2>1 DEF OwnedBy, OwnMsgs
  <2> QED
    BY <2>1, <2>2 DEF OwnedBy
<1> QED
  BY <1>2, <1>3

\* The nonce of a query is the first thing heard of it, and never changes.
LEMMA PageKeeps ==
  ASSUME OnceInv, \A q \in Calls : HeldInv(q), Page
  PROVE  Keeps
<1>0. TypeInv /\ MentionInv
  BY DEF OnceInv, MentionInv
<1>1. ASSUME NEW d \in Docs, NEW p \in Calls, NEW updates \in BOOLEAN, NewKernelQuery(d, p, updates) PROVE Keeps
  <2>1. queries[p].phase = "idle" /\ \A q \in Calls \ {p} : queries'[q] = queries[q]
    BY <1>0, <1>1, AskedQueries
  <2>2. queries[p].kernelNonce = 0
    BY <2>1 DEF HeldInv, NoQuery
  <2> QED
    BY <2>1, <2>2 DEF Keeps
<1>2. ASSUME NEW p \in Calls, SendUpdate(p) PROVE Keeps
  BY <1>0, <1>2, UpdatedQueries DEF Keeps
<1>3. ASSUME NEW d \in Docs, HandleStatus(d) PROVE Keeps
  BY <1>0, <1>3, ToldQueries DEF Keeps
<1>4. ASSUME NEW d \in Docs, HandleResponse(d) \/ HandleResponseUpdate(d) \/ HandleResponseNonce(d) PROVE Keeps
  <2>1. PICK m : m = Head(toPage[d])
    OBVIOUS
  <2>2. ASSUME NEW q \in Calls, queries[q].kernelNonce # 0, q = m.nonce, Takes(m), m.method = "responseNonce" PROVE FALSE
    <3>1. toPage[d] # <<>> /\ toPage[d] \in Seq(UpMsg)
      BY <1>0, <1>4, Zenon DEF HandleResponse, HandleResponseUpdate, HandleResponseNonce, TakePage, TypeInv, ChannelTypes
    <3>2. IsNonce(m, q)
      BY <2>2 DEF IsNonce
    <3>3. ~NoNonce(toPage[d], q)
      BY <2>1, <3>1, <3>2, OnceTail
    <3>4. heard[q] = <<>>
      BY <3>3 DEF OnceInv, NonceOnce
    <3> QED
      BY <2>2, <3>4 DEF HeldInv
  <2>3. ASSUME NEW q \in Calls, queries[q].kernelNonce # 0
        PROVE  queries'[q].kernelNonce = queries[q].kernelNonce /\ queries'[q].owner = queries[q].owner
    BY <1>0, <1>4, <2>1, <2>2, <2>3, RepliedQueries
  <2> QED
    BY <2>3 DEF Keeps
<1>5. ASSUME NEW d \in Docs, Leave(d) PROVE Keeps
  <2>1. UNCHANGED queries
    BY <1>5, Zenon DEF Leave
  <2> QED
    BY <2>1 DEF Keeps
<1> QED
  BY <1>1, <1>2, <1>3, <1>4, <1>5, Zenon DEF Page, Reloads, Closes

\* A query that has not heard its nonce has sent no update.
LEMMA NothingSent ==
  ASSUME SentInv, DeliveredInv, NEW q \in Calls, queries[q].kernelNonce = 0
  PROVE  /\ NoneFor(down, q) /\ \A d \in Docs : NoneFor(fromPage[d], q)
         /\ \A i \in DOMAIN delivered[q] : delivered[q][i] \notin DeliveredFor(q)
<1>1. \A m \in OwnMsgs : m \notin SentFor(q)
  BY DEF OwnMsgs, IsOwn, SentFor, UpdateMsg
<1>2. down \in Seq(OwnMsgs) /\ \A d \in Docs : fromPage[d] \in Seq(OwnedBy(d)) /\ OwnedBy(d) \subseteq OwnMsgs
  BY DEF SentInv, OwnedBy
<1>3. NoneFor(down, q) /\ \A d \in Docs : NoneFor(fromPage[d], q)
  BY <1>1, <1>2 DEF NoneFor
<1>4. ASSUME NEW i \in DOMAIN delivered[q] PROVE delivered[q][i] \notin DeliveredFor(q)
  BY DEF DeliveredInv, DeliveredFor
<1> QED
  BY <1>3, <1>4

LEMMA NothingSentYet ==
  ASSUME MentionInv', SentInv', DeliveredInv', NEW q \in Calls, queries'[q].kernelNonce = 0
  PROVE  UpdatesTo(q)'
<1>1. PICK d, serves, open, here :
        d = queries'[q].owner /\ serves = Serves(q)' /\ open = (ports'[d] = "open") /\ here = (doc'[d] # "gone")
  OBVIOUS
<1>2. \A m \in OwnMsgs' : m \notin SentFor(q)
  BY DEF OwnMsgs, IsOwn, SentFor, UpdateMsg
<1>3. down' \in Seq(OwnMsgs') /\ \A e \in Docs : fromPage'[e] \in Seq(OwnedBy(e)') /\ OwnedBy(e)' \subseteq OwnMsgs'
  BY DEF SentInv, OwnedBy
<1>4. NoneFor(down', q) /\ \A e \in Docs : NoneFor(fromPage'[e], q)
  BY <1>2, <1>3 DEF NoneFor
<1>5. ASSUME NEW i \in DOMAIN delivered'[q] PROVE delivered'[q][i] \notin DeliveredFor(q)
  BY DEF DeliveredInv, DeliveredFor
<1>6. serves => d \in Docs
  BY <1>1 DEF MentionInv, MapMentions, Serves, SentCalls, TypeInv, PageTypes, QueriesOwned
<1>7. Sent(q)' = 0
  BY DEF Sent
<1>8. DownRun(delivered'[q], down', fromPage'[d], q, serves, open, here, 0)
  <2>1. CASE serves
    BY <1>4, <1>5, <1>6, <2>1, DownStarts
  <2>2. CASE ~serves
    <3>1. NoneFor(<<>>, q)
      BY DEF NoneFor
    <3>2. DownRun(delivered'[q], <<>>, <<>>, q, serves, open, here, 0)
      BY <1>5, <3>1, DownStarts
    <3> QED
      BY <2>2, <3>2, DownWeakens
  <2> QED
    BY <2>1, <2>2
<1> QED
  BY <1>1, <1>7, <1>8 DEF UpdatesTo

(***************************************************************************)
(* The updates: steps of the frame.                                        *)
(***************************************************************************)

\* The kernel delivers an update to the query whose nonce it bears.
LEMMA RelayedUpdate ==
  ASSUME OnceInv, KernelInv, NoncesInv, SentInv, DeliveredInv, \A q \in Calls : HeldInv(q), KernelRelaysUpdate
  PROVE  /\ DeliveredInv'
         /\ \A q \in Calls :
                /\ down # <<>> /\ down' = Tail(down)
                /\ \/ ~Serves(q) /\ delivered'[q] = delivered[q]
                   \/ Head(down) \notin SentFor(q) /\ delivered'[q] = delivered[q]
                   \/ Head(down) \notin SentFor(q) /\ \E u \in Delivered :
                          delivered'[q] = Append(delivered[q], u) /\ u \notin DeliveredFor(q)
                   \/ Head(down) \in SentFor(q) /\ Serves(q) /\ \E u \in DeliveredFor(q) :
                          delivered'[q] = Append(delivered[q], u) /\ u.number = Head(down).data.number
<1>1. PICK m : m = Head(down)
  OBVIOUS
<1>2. PICK p, k, u : p = m.data.of /\ k = m.nonce /\ u = Delivery(m.data)
  OBVIOUS
<1>3. /\ down # <<>> /\ down' = Tail(down) /\ frame # "absent" /\ m.method = "queryUpdate"
      /\ delivered' = [q \in Calls |-> IF [nonce |-> k, call |-> q] \in kernelQueries
                                       THEN Append(delivered[q], u) ELSE delivered[q]]
      /\ UNCHANGED <<heard, queries>>
  BY <1>1, <1>2, Zenon DEF KernelRelaysUpdate, Take, pageVars
<1>4. m \in OwnMsgs
  BY <1>1, <1>3, TailIsSeq DEF SentInv
<1>5. m \in UpdateMsg
  BY <1>3, <1>4 DEF OwnMsgs, DownMsg, CallMsg
<1>6. p \in Calls /\ k \in Nat /\ m.data.number \in Nat /\ queries[p].kernelNonce # 0 /\ k = queries[p].kernelNonce
  BY <1>2, <1>3, <1>4, <1>5 DEF OwnMsgs, IsOwn, UpdateMsg
<1>7. session \in Nat /\ kernelQueries \subseteq [nonce : Nat, call : Calls] /\ heard[p] \in Seq(ReplyMsg)
  BY <1>6 DEF OnceInv, MentionInv, TypeInv, FrameTypes, PageTypes
<1>8. u.of = p /\ u.number = m.data.number /\ u.session = session /\ u \in Delivered
  BY <1>2, <1>6, <1>7 DEF Delivery, Delivered
<1>9. PICK g : g = heard[p][1]
  OBVIOUS
<1>10. heard[p] # <<>> /\ IsNonce(g, p) /\ g.data = k /\ 1 \in DOMAIN heard[p] /\ g \in ReplyMsg
  <2>1. heard[p] # <<>> /\ IsNonce(g, p) /\ g.data = k
    BY <1>6, <1>9 DEF HeldInv
  <2>2. 1 \in DOMAIN heard[p] /\ g \in ReplyMsg
    BY <1>7, <1>9, <2>1
  <2> QED
    BY <2>1, <2>2
<1>11. GoodNonce(g) /\ g.nonce = p
  BY <1>6, <1>9, <1>10 DEF NoncesInv, GoodNonces, IsNonce
<1>12. /\ g.from <= session /\ g.from \in Nat
       /\ g.from = session => \A h \in kernelQueries : h.nonce = k => h.call = p
       /\ \A h \in kernelQueries : h.call = p => h.nonce = k
  BY <1>3, <1>10, <1>11 DEF GoodNonce, ReplyMsg, Session
<1>13. ASSUME NEW q \in Calls, [nonce |-> k, call |-> q] \in kernelQueries, q # p PROVE g.from < session
  <2>1. PICK h \in kernelQueries : h.nonce = k /\ h.call = q
    BY <1>13
  <2>2. g.from # session
    BY <1>12, <1>13, <2>1
  <2> QED
    BY <1>7, <1>12, <2>2
<1>14. Serves(p) => [nonce |-> k, call |-> p] \in kernelQueries
  <2>1. ASSUME NEW h \in kernelQueries, h.call = p PROVE h = [nonce |-> k, call |-> p]
    BY <1>7, <1>12, <2>1
  <2> QED
    BY <2>1 DEF Serves
<1>15. ASSUME NEW q \in Calls PROVE delivered'[q] = delivered[q] \/ delivered'[q] = Append(delivered[q], u)
  BY <1>3
<1>16. delivered \in [Calls -> Seq(Delivered)]
  BY DEF DeliveredInv
<1>17. delivered' \in [Calls -> Seq(Delivered)]
  <2>1. \A q \in Calls : Append(delivered[q], u) \in Seq(Delivered) /\ delivered[q] \in Seq(Delivered)
    BY <1>8, <1>16, AppendIsSeq
  <2> QED
    BY <1>3, <2>1
<1>18. ASSUME NEW q \in Calls, NEW i \in DOMAIN delivered'[q], NEW w, w = delivered'[q][i]
       PROVE  queries[w.of].kernelNonce # 0 /\ (w.of # q => heard[w.of][1].from < w.session)
  <2>1. CASE i \in DOMAIN delivered[q] /\ w = delivered[q][i]
    BY <2>1 DEF DeliveredInv
  <2>2. CASE w = u /\ [nonce |-> k, call |-> q] \in kernelQueries
    BY <1>6, <1>8, <1>9, <1>13, <2>2
  <2>3. delivered[q] \in Seq(Delivered)
    BY <1>16
  <2>4. delivered'[q] = Append(delivered[q], u) => w = u \/ (i \in DOMAIN delivered[q] /\ w = delivered[q][i])
    BY <1>8, <1>18, <2>3, AppendElements
  <2> QED
    BY <1>3, <1>18, <2>1, <2>2, <2>4
<1>19. DeliveredInv'
  BY <1>3, <1>17, <1>18 DEF DeliveredInv
<1>20. ASSUME NEW q \in Calls
       PROVE  \/ ~Serves(q) /\ delivered'[q] = delivered[q]
              \/ m \notin SentFor(q) /\ delivered'[q] = delivered[q]
              \/ m \notin SentFor(q) /\ \E w \in Delivered :
                     delivered'[q] = Append(delivered[q], w) /\ w \notin DeliveredFor(q)
              \/ m \in SentFor(q) /\ Serves(q) /\ \E w \in DeliveredFor(q) :
                     delivered'[q] = Append(delivered[q], w) /\ w.number = m.data.number
  <2>1. m \in SentFor(q) <=> q = p
    BY <1>2, <1>5 DEF SentFor
  <2>2. u \in DeliveredFor(q) <=> q = p
    BY <1>8 DEF DeliveredFor
  <2>3. delivered'[q] = IF [nonce |-> k, call |-> q] \in kernelQueries
                        THEN Append(delivered[q], u) ELSE delivered[q]
    BY <1>3
  <2>4. [nonce |-> k, call |-> q] \in kernelQueries => Serves(q)
    BY DEF Serves
  <2> QED
    BY <1>8, <1>14, <2>1, <2>2, <2>3, <2>4
<1> QED
  BY <1>1, <1>3, <1>19, <1>20

\* Any other step of the frame delivers nothing, and takes no update of a query it serves.
LEMMA UnrelayedUpdates ==
  ASSUME OnceInv, KernelInv, Frame, ~KernelRelaysUpdate, NEW q \in Calls
  PROVE  /\ UNCHANGED delivered
         /\ \/ Taken(q)
            \/ ~Serves(q)'
            \/ /\ Serves(q)
               /\ down' = down \/ (down # <<>> /\ down' = Tail(down) /\ Head(down) \notin SentFor(q))
<1>1. UNCHANGED delivered
  BY Zenon DEF Frame, FrameStarts, FrameLoads, LogOut, Unload, BootloaderAnswers, KernelRefuses, KernelOpens,
     ModuleUpdates, ModuleResponds, frameVars
<1>2. Serves(q)' => Serves(q) \/ Taken(q)
  BY FrameTurns DEF OnceInv, MentionInv, FrameTurn
<1>3. Head(down).method = "moduleCall" => Head(down) \notin SentFor(q)
  BY DEF SentFor, UpdateMsg
<1>4. CASE Unload
  <2>1. kernelQueries' = {}
    BY <1>4, Zenon DEF Unload
  <2> QED
    BY <1>1, <2>1 DEF Serves
<1>5. CASE BootloaderAnswers
  <2>1. kernelLoaded # "success" /\ UNCHANGED frameVars
    <3>1. "bootloader" # "kernel"
      OBVIOUS
    <3> QED
      BY <1>5, <3>1, Zenon DEF BootloaderAnswers, Take
  <2>2. kernelQueries' = {}
    BY <2>1 DEF KernelInv, frameVars
  <2> QED
    BY <1>1, <2>2 DEF Serves
<1>6. CASE KernelRefuses \/ KernelOpens
  <2>1. down # <<>> /\ down' = Tail(down) /\ Head(down).method = "moduleCall"
    BY <1>6, Zenon DEF KernelRefuses, KernelOpens, Take
  <2> QED
    BY <1>1, <1>2, <1>3, <2>1
<1>7. CASE ~(Unload \/ BootloaderAnswers \/ KernelRefuses \/ KernelOpens)
  <2>1. UNCHANGED down
    BY <1>7, Zenon DEF Frame, FrameStarts, FrameLoads, LogOut, ModuleUpdates, ModuleResponds
  <2> QED
    BY <1>1, <1>2, <2>1
<1> QED
  BY <1>4, <1>5, <1>6, <1>7

LEMMA UpdatesFrame == ASSUME OnceInv, KernelInv, UpdatesInv, Frame PROVE UpdatesInv'
<1>0. /\ TypeInv /\ NoncesInv /\ SentInv /\ DeliveredInv
      /\ \A q \in Calls : HeldInv(q) /\ UpdatesTo(q)
  BY DEF OnceInv, MentionInv, UpdatesInv
<1>1. UNCHANGED <<backVars, pageVars, fromPage>>
  BY Zenon DEF Frame, FrameStarts, FrameLoads, LogOut, Unload, BootloaderAnswers, KernelRefuses, KernelOpens,
     KernelRelaysUpdate, ModuleUpdates, ModuleResponds
<1>2. UNCHANGED <<ports, doc, queries, asked, heard, fromPage>>
  BY <1>1 DEF backVars, pageVars
<1>3. NoncesInv'
  <2>1. \A q \in Calls : \A i \in DOMAIN heard[q] : heard[q][i].nonce = q
    BY <1>0 DEF HeldInv
  <2> QED
    BY <1>0, <2>1, NoncesFrame
<1>4. SentInv'
  <2>1. OwnMsgs' = OwnMsgs /\ \A d : OwnedBy(d)' = OwnedBy(d)
    BY <1>2 DEF OwnMsgs, OwnedBy, IsOwn
  <2>2. down \in Seq(OwnMsgs)
    BY <1>0 DEF SentInv
  <2>3. down' = down \/ down' = <<>> \/ (down # <<>> /\ down' = Tail(down))
    <3>1. CASE KernelRelaysUpdate
      BY <3>1, Zenon DEF KernelRelaysUpdate, Take
    <3>2. CASE ~KernelRelaysUpdate
      BY <3>2, Zenon DEF Frame, FrameStarts, FrameLoads, LogOut, Unload, BootloaderAnswers, KernelRefuses, KernelOpens,
         ModuleUpdates, ModuleResponds, Take
    <3> QED
      BY <3>1, <3>2
  <2>4. down' \in Seq(OwnMsgs)
    BY <2>2, <2>3, TailIsSeq, EmptyIsSeq
  <2> QED
    BY <1>0, <1>2, <2>1, <2>4 DEF SentInv
<1>5. DeliveredInv'
  <2>1. CASE KernelRelaysUpdate
    BY <1>0, <2>1, RelayedUpdate
  <2>2. CASE ~KernelRelaysUpdate
    <3>1. UNCHANGED delivered
      BY <2>2, UnrelayedUpdates, Zenon DEF Frame, FrameStarts, FrameLoads, LogOut, Unload, BootloaderAnswers,
         KernelRefuses, KernelOpens, ModuleUpdates, ModuleResponds, frameVars
    <3> QED
      BY <1>0, <1>2, <3>1 DEF DeliveredInv
  <2> QED
    BY <2>1, <2>2
<1>6. ASSUME NEW q \in Calls PROVE HeldInv(q)'
  BY <1>0, <1>2 DEF HeldInv
<1>7. ASSUME NEW q \in Calls PROVE UpdatesTo(q)'
  <2>1. PICK v, n, f, serves, open, here, sent :
          /\ v = delivered[q] /\ n = down /\ f = fromPage[queries[q].owner] /\ serves = Serves(q)
          /\ open = (ports[queries[q].owner] = "open") /\ here = (doc[queries[q].owner] # "gone") /\ sent = Sent(q)
    OBVIOUS
  <2>2. DownRun(v, n, f, q, serves, open, here, sent) /\ v \in Seq(Delivered) /\ n \in Seq(DownMsg)
    BY <1>0, <2>1 DEF UpdatesTo, DeliveredInv, TypeInv, ChannelTypes
  <2>3. PICK v2, n2, serves2 : v2 = delivered'[q] /\ n2 = down' /\ serves2 = Serves(q)'
    OBVIOUS
  <2>4. Sent(q)' = sent
    BY <1>2, <2>1 DEF Sent
  <2>5. ASSUME DownRun(v2, n2, f, q, serves2, open, here, sent) PROVE UpdatesTo(q)'
    BY <1>2, <2>1, <2>3, <2>4, <2>5 DEF UpdatesTo
  <2>6. CASE KernelRelaysUpdate
    <3>1. serves2 => serves
      <4>1. UNCHANGED kernelQueries
        BY <2>6, Zenon DEF KernelRelaysUpdate
      <4> QED
        BY <2>1, <2>3, <4>1 DEF Serves
    <3>2. /\ n # <<>> /\ n2 = Tail(n)
          /\ \/ ~serves /\ v2 = v
             \/ Head(n) \notin SentFor(q) /\ v2 = v
             \/ Head(n) \notin SentFor(q) /\ \E u \in Delivered : v2 = Append(v, u) /\ u \notin DeliveredFor(q)
             \/ Head(n) \in SentFor(q) /\ serves
                  /\ \E u \in DeliveredFor(q) : v2 = Append(v, u) /\ u.number = Head(n).data.number
      BY <1>0, <2>1, <2>3, <2>6, RelayedUpdate
    <3>3. DownRun(v2, Tail(n), f, q, serves, open, here, sent)
      BY <2>2, <3>2, DownTakes
    <3>4. DownRun(v2, n2, f, q, serves2, open, here, sent)
      BY <3>1, <3>2, <3>3, DownWeakens
    <3> QED
      BY <2>5, <3>4
  <2>7. CASE ~KernelRelaysUpdate
    <3>1. /\ v2 = v
          /\ \/ Taken(q) \/ ~serves2
             \/ serves /\ (n2 = n \/ (n # <<>> /\ n2 = Tail(n) /\ Head(n) \notin SentFor(q)))
      BY <2>1, <2>3, <2>7, UnrelayedUpdates
    <3>2. CASE Taken(q)
      <4>1. heard[q] = <<>>
        BY <3>2, TakenIsQuiet DEF Taken, IsCall, Quiet
      <4>2. queries'[q].kernelNonce = 0
        BY <1>0, <1>2, <4>1 DEF HeldInv
      <4>3. MentionInv'
        BY MentionNext DEF OnceInv, Next
      <4> QED
        BY <1>4, <1>5, <4>2, <4>3, NothingSentYet
    <3>3. CASE ~serves2
      BY <2>2, <2>5, <3>1, <3>3, DownWeakens
    <3>4. CASE serves /\ n2 = n
      BY <2>2, <2>5, <3>1, <3>4, DownWeakens
    <3>5. CASE serves /\ n # <<>> /\ n2 = Tail(n) /\ Head(n) \notin SentFor(q)
      <4>1. DownRun(v, n2, f, q, serves, open, here, sent)
        BY <2>2, <3>5, DownTakes
      <4>2. DownRun(v2, n2, f, q, serves2, open, here, sent)
        BY <3>1, <3>5, <4>1, DownWeakens
      <4> QED
        BY <2>5, <4>2
    <3> QED
      BY <3>1, <3>2, <3>3, <3>4, <3>5
  <2> QED
    BY <2>6, <2>7
<1> QED
  BY <1>3, <1>4, <1>5, <1>6, <1>7 DEF UpdatesInv

(***************************************************************************)
(* The updates: steps of the background.                                   *)
(***************************************************************************)

LEMMA ServedOwner ==
  ASSUME MentionInv, NEW q \in Calls, Serves(q)
  PROVE  queries[q].owner \in Docs /\ told[queries[q].owner] # 0 /\ frame # "absent"
<1>1. q \in SentCalls /\ kernelQueries # {}
  BY DEF MentionInv, MapMentions, Serves
<1> QED
  BY <1>1 DEF MentionInv, PageMentions, TypeInv, FrameTypes, PageTypes, QueriesOwned, SentCalls

LEMMA UpdatesBackground == ASSUME OnceInv, UpdatesInv, Background PROVE UpdatesInv'
<1>0. /\ TypeInv /\ MentionInv /\ NoncesInv /\ SentInv /\ DeliveredInv
      /\ \A q \in Calls : HeldInv(q) /\ UpdatesTo(q)
  BY DEF OnceInv, MentionInv, UpdatesInv
<1>1. UNCHANGED <<queries, heard, asked, told, delivered, kernelQueries>>
  BY Zenon DEF Background, HandleAuthStatus, HandleReply, Connect, HandleBridgeMessage, PortDisconnected,
     pageVars, frameVars
<1>2. NoncesInv'
  BY <1>0, NoncesBackground
<1>3. DeliveredInv' /\ \A q \in Calls : HeldInv(q)'
  BY <1>0, <1>1 DEF DeliveredInv, HeldInv
<1>4. OwnMsgs' = OwnMsgs /\ \A d : OwnedBy(d)' = OwnedBy(d)
  BY <1>1 DEF OwnMsgs, OwnedBy, IsOwn
<1>5. /\ down \in Seq(OwnMsgs) /\ down \in Seq(DownMsg) /\ fromPage \in [Docs -> Seq(DownMsg)]
      /\ \A d \in Docs : fromPage[d] \in Seq(OwnedBy(d))
      /\ ports \in [Docs -> {"none", "open", "closed"}] /\ DOMAIN doc = Docs
  BY <1>0 DEF SentInv, TypeInv, ChannelTypes, BackTypes, PageTypes
<1>6. ASSUME UNCHANGED <<down, fromPage>> PROVE SentInv'
  BY <1>0, <1>4, <1>6 DEF SentInv
<1>7. ASSUME NEW q \in Calls, NEW d, d = queries[q].owner,
             Serves(q) => \E open : /\ open = (ports'[d] = "open")
                                    /\ DownRun(delivered[q], down', fromPage'[d], q, TRUE, open, doc'[d] # "gone", Sent(q))
      PROVE  UpdatesTo(q)'
  <2>1. PICK serves, open, here : serves = Serves(q)' /\ open = (ports'[d] = "open") /\ here = (doc'[d] # "gone")
    OBVIOUS
  <2>2. Sent(q)' = Sent(q) /\ (serves <=> Serves(q))
    BY <1>1, <2>1 DEF Sent, Serves
  <2>3. CASE Serves(q)
    <3>1. DownRun(delivered[q], down', fromPage'[d], q, TRUE, open, here, Sent(q))
      BY <1>7, <2>1, <2>3
    <3>2. DownRun(delivered[q], down', fromPage'[d], q, serves, open, here, Sent(q))
      BY <3>1, DownWeakens
    <3> QED
      BY <1>1, <1>7, <2>1, <2>2, <3>2 DEF UpdatesTo
  <2>4. CASE ~Serves(q)
    <3>1. PICK v, n, f, serves1, open1, here1, sent1 : 
            /\ v = delivered[q] /\ n = down /\ f = fromPage[d] /\ serves1 = Serves(q)
            /\ open1 = (ports[d] = "open") /\ here1 = (doc[d] # "gone") /\ sent1 = Sent(q)
            /\ DownRun(v, n, f, q, serves1, open1, here1, sent1)
      BY <1>0, <1>7 DEF UpdatesTo
    <3>2. ~serves
      BY <2>2, <2>4
    <3>3. DownRun(v, down', fromPage'[d], q, serves, open, here, sent1)
      BY <3>1, <3>2, DownWeakens
    <3> QED
      BY <1>1, <1>7, <2>1, <2>2, <3>1, <3>3 DEF UpdatesTo
  <2> QED
    BY <2>3, <2>4
<1>8. ASSUME UNCHANGED <<down, fromPage>>,
             \A d \in Docs : told[d] # 0 => (ports'[d] = "open" => ports[d] = "open") /\ doc'[d] = doc[d]
      PROVE  UpdatesInv'
  <2>1. ASSUME NEW q \in Calls PROVE UpdatesTo(q)'
    <3>1. PICK d : d = queries[q].owner
      OBVIOUS
    <3>2. ASSUME Serves(q)
          PROVE  \E open : /\ open = (ports'[d] = "open")
                           /\ DownRun(delivered[q], down', fromPage'[d], q, TRUE, open, doc'[d] # "gone", Sent(q))
      <4>1. d \in Docs /\ told[d] # 0
        BY <1>0, <3>1, <3>2, ServedOwner
      <4>2. PICK v, n, f, serves1, open1, here1, sent1 : 
              /\ v = delivered[q] /\ n = down /\ f = fromPage[d] /\ serves1 = Serves(q)
              /\ open1 = (ports[d] = "open") /\ here1 = (doc[d] # "gone") /\ sent1 = Sent(q)
              /\ DownRun(v, n, f, q, serves1, open1, here1, sent1)
        BY <1>0, <3>1 DEF UpdatesTo
      <4>3. PICK open, here : open = (ports'[d] = "open") /\ here = (doc'[d] # "gone")
        OBVIOUS
      <4>4. serves1 /\ (open => open1) /\ (here => here1)
        BY <1>8, <3>2, <4>1, <4>2, <4>3
      <4>5. DownRun(v, n, f, q, TRUE, open, here, sent1)
        BY <4>2, <4>4, DownWeakens
      <4> QED
        BY <1>8, <4>2, <4>3, <4>5
    <3> QED
      BY <1>7, <3>1, <3>2
  <2> QED
    BY <1>2, <1>3, <1>6, <1>8, <2>1 DEF UpdatesInv
<1>9. CASE HandleAuthStatus
  <2>1. /\ UNCHANGED <<down, fromPage, doc>>
        /\ ports' = ports \/ ports' = [e \in Docs |-> IF e \in OpenPorts THEN "closed" ELSE ports[e]]
    BY <1>9, Zenon DEF HandleAuthStatus, ClosePorts, pageVars
  <2>2. \A d \in Docs : ports'[d] = "open" => ports[d] = "open"
    BY <2>1
  <2> QED
    BY <1>8, <2>1, <2>2
<1>10. CASE HandleReply
  <2>1. UNCHANGED <<down, fromPage, doc, ports>>
    BY <1>10, Zenon DEF HandleReply, pageVars
  <2> QED
    BY <1>8, <2>1
<1>11. ASSUME NEW e \in Docs, Connect(e) PROVE UpdatesInv'
  <2>1. /\ doc[e] = "new" /\ UNCHANGED <<down, fromPage>>
        /\ doc' = [doc EXCEPT ![e] = "live"] /\ ports' = [ports EXCEPT ![e] = "open"]
    BY <1>11, Zenon DEF Connect
  <2>2. told[e] = 0
    BY <1>0, <2>1 DEF MentionInv, NewDocs
  <2>3. \A d \in Docs : told[d] # 0 => ports'[d] = ports[d] /\ doc'[d] = doc[d]
    BY <1>5, <2>1, <2>2
  <2> QED
    BY <1>8, <2>1, <2>3
<1>12. ASSUME NEW e \in Docs, PortDisconnected(e) PROVE UpdatesInv'
  <2>1. UNCHANGED <<down, fromPage, doc>> /\ ports' = [ports EXCEPT ![e] = "closed"]
    BY <1>12, Zenon DEF PortDisconnected, pageVars
  <2>2. \A d \in Docs : ports'[d] = "open" => ports[d] = "open"
    BY <1>5, <2>1
  <2> QED
    BY <1>8, <2>1, <2>2
<1>13. ASSUME NEW e \in Docs, HandleBridgeMessage(e) PROVE UpdatesInv'
  <2>1. PICK m : m = Head(fromPage[e])
    OBVIOUS
  <2>2. /\ fromPage[e] # <<>> /\ fromPage' = [fromPage EXCEPT ![e] = Tail(@)] /\ UNCHANGED <<ports, doc>>
        /\ IF ports[e] = "open" THEN down' = (IF frame = "absent" THEN down ELSE Append(down, m)) ELSE UNCHANGED down
    BY <1>13, <2>1, Zenon DEF HandleBridgeMessage, pageVars
  <2>3. m \in OwnedBy(e) /\ Tail(fromPage[e]) \in Seq(OwnedBy(e)) /\ m \in OwnMsgs /\ m \in DownMsg
    BY <1>5, <2>1, <2>2, TailIsSeq DEF OwnedBy, OwnMsgs
  <2>4. /\ fromPage'[e] = Tail(fromPage[e]) /\ \A d \in Docs \ {e} : fromPage'[d] = fromPage[d]
    BY <1>5, <2>2
  <2>5. SentInv'
    <3>1. down' = down \/ down' = Append(down, m)
      BY <2>2
    <3>2. down' \in Seq(OwnMsgs)
      BY <1>5, <2>3, <3>1, AppendIsSeq
    <3>3. \A d \in Docs : fromPage'[d] \in Seq(OwnedBy(d))
      BY <1>5, <2>3, <2>4
    <3> QED
      BY <1>4, <3>2, <3>3 DEF SentInv
  <2>6. ASSUME NEW q \in Calls PROVE UpdatesTo(q)'
    <3>1. PICK d : d = queries[q].owner
      OBVIOUS
    <3>2. ASSUME Serves(q)
          PROVE  \E open : /\ open = (ports'[d] = "open")
                           /\ DownRun(delivered[q], down', fromPage'[d], q, TRUE, open, doc'[d] # "gone", Sent(q))
      <4>1. d \in Docs /\ frame # "absent"
        BY <1>0, <3>1, <3>2, ServedOwner
      <4>2. PICK v, n, f, serves1, open, here, sent :
              /\ v = delivered[q] /\ n = down /\ f = fromPage[d] /\ serves1 = Serves(q)
              /\ open = (ports[d] = "open") /\ here = (doc[d] # "gone") /\ sent = Sent(q)
              /\ DownRun(v, n, f, q, serves1, open, here, sent)
        BY <1>0, <3>1 DEF UpdatesTo
      <4>3. DownRun(v, n, f, q, TRUE, open, here, sent)
        BY <3>2, <4>2, DownWeakens
      <4>4. n \in Seq(DownMsg) /\ f \in Seq(DownMsg)
        BY <1>5, <4>1, <4>2
      <4>5. ASSUME DownRun(v, down', fromPage'[d], q, TRUE, open, here, sent)
            PROVE  \E o : /\ o = (ports'[d] = "open")
                          /\ DownRun(delivered[q], down', fromPage'[d], q, TRUE, o, doc'[d] # "gone", Sent(q))
        BY <2>2, <4>2, <4>5
      <4>6. CASE d = e /\ ports[e] = "open"
        <5>1. DownRun(v, n, f, q, TRUE, TRUE, here, sent)
          BY <4>2, <4>3, <4>6
        <5>2. f # <<>> /\ m = Head(f) /\ down' = Append(n, Head(f)) /\ fromPage'[d] = Tail(f)
          BY <2>1, <2>2, <2>4, <4>1, <4>2, <4>6
        <5>3. DownRun(v, Append(n, Head(f)), Tail(f), q, TRUE, TRUE, here, sent)
          BY <4>4, <5>1, <5>2, DownPasses
        <5> QED
          BY <4>2, <4>5, <4>6, <5>2, <5>3
      <4>7. CASE d = e /\ ports[e] # "open"
        <5>1. ~open /\ down' = n
          BY <2>2, <4>2, <4>7
        <5>2. DownRun(v, down', fromPage'[d], q, TRUE, open, here, sent)
          BY <4>3, <5>1, DownWeakens
        <5> QED
          BY <4>5, <5>2
      <4>8. CASE d # e
        <5>1. fromPage'[d] = f /\ (down' = n \/ down' = Append(n, m))
          BY <2>2, <2>4, <4>1, <4>2, <4>8
        <5>2. m \notin SentFor(q)
          BY <2>3, <3>1, <4>8 DEF OwnedBy, SentFor, UpdateMsg
        <5>3. DownRun(v, Append(n, m), f, q, TRUE, open, here, sent)
          BY <2>3, <4>3, <4>4, <5>2, DownNotes
        <5> QED
          BY <4>3, <4>5, <5>1, <5>3
      <4> QED
        BY <4>6, <4>7, <4>8
    <3> QED
      BY <1>7, <3>1, <3>2
  <2> QED
    BY <1>2, <1>3, <2>5, <2>6 DEF UpdatesInv
<1> QED
  BY <1>9, <1>10, <1>11, <1>12, <1>13, Zenon DEF Background

(***************************************************************************)
(* The updates: steps of the pages.                                        *)
(***************************************************************************)

LEMMA DeliveredPage ==
  ASSUME TypeInv, UpdatesInv, Page, Keeps
  PROVE  /\ DeliveredInv' /\ UNCHANGED <<delivered, down, ports, kernelQueries>>
         /\ \A q \in Calls : /\ heard[q] # <<>> => heard'[q] # <<>> /\ heard'[q][1] = heard[q][1]
                             /\ \A i \in DOMAIN heard'[q] : heard'[q][i].nonce = q
<1>1. UNCHANGED <<delivered, down, ports, kernelQueries>>
  BY PageHears DEF frameVars, backVars
<1>2. ASSUME NEW q \in Calls
      PROVE  /\ heard[q] # <<>> => heard'[q] # <<>> /\ heard'[q][1] = heard[q][1]
             /\ \A i \in DOMAIN heard'[q] : heard'[q][i].nonce = q
  <2>1. PICK h, h2 : h = heard[q] /\ h2 = heard'[q]
    OBVIOUS
  <2>2. h \in Seq(ReplyMsg) /\ \A i \in DOMAIN h : h[i].nonce = q
    BY <2>1 DEF TypeInv, PageTypes, UpdatesInv, HeldInv
  <2>3. h2 = h \/ \E m \in ReplyMsg : m.nonce = q /\ h2 = Append(h, m)
    BY <2>1, PageHears
  <2>4. ASSUME NEW m \in ReplyMsg, m.nonce = q, h2 = Append(h, m)
        PROVE  /\ h # <<>> => h2 # <<>> /\ h2[1] = h[1]
               /\ \A i \in DOMAIN h2 : h2[i].nonce = q
    <3>1. h # <<>> => h2 # <<>> /\ h2[1] = h[1]
      BY <2>2, <2>4
    <3>2. \A i \in DOMAIN h2 : h2[i].nonce = q
      BY <2>2, <2>4, AppendElements
    <3> QED
      BY <3>1, <3>2
  <2> QED
    BY <2>1, <2>2, <2>3, <2>4
<1>3. ASSUME NEW q \in Calls, NEW i \in DOMAIN delivered[q], NEW u, u = delivered[q][i]
      PROVE  queries'[u.of].kernelNonce # 0 /\ (u.of # q => heard'[u.of][1].from < u.session)
  <2>1. queries[u.of].kernelNonce # 0 /\ (u.of # q => heard[u.of][1].from < u.session)
    BY <1>3 DEF UpdatesInv, DeliveredInv
  <2>2. u.of \in Calls
    <3>1. delivered[q] \in Seq(Delivered)
      BY DEF UpdatesInv, DeliveredInv
    <3>2. u \in Delivered
      BY <1>3, <3>1
    <3> QED
      BY <3>2 DEF Delivered
  <2>3. heard[u.of] # <<>>
    BY <2>1, <2>2 DEF UpdatesInv, HeldInv
  <2> QED
    BY <1>2, <2>1, <2>2, <2>3 DEF Keeps
<1>4. DeliveredInv'
  BY <1>1, <1>3 DEF UpdatesInv, DeliveredInv
<1> QED
  BY <1>1, <1>2, <1>4

LEMMA HeldPage ==
  ASSUME TypeInv, UpdatesInv, Page, Keeps, NEW q \in Calls,
         queries'[q].kernelNonce = 0 =>
             /\ Len(queries'[q].held) = asked'[q]
             /\ \A i \in DOMAIN queries'[q].held : queries'[q].held[i] = i,
         queries[q].kernelNonce = 0 /\ queries'[q].kernelNonce # 0 =>
             heard'[q] # <<>> /\ IsNonce(heard'[q][1], q) /\ heard'[q][1].data = queries'[q].kernelNonce,
         queries'[q].phase = "idle" => queries'[q] = NoQuery /\ asked'[q] = 0
  PROVE  HeldInv(q)'
<1>1. \A i \in DOMAIN heard'[q] : heard'[q][i].nonce = q
  BY DeliveredPage
<1>2. ASSUME queries[q].kernelNonce # 0
      PROVE  heard'[q] # <<>> /\ IsNonce(heard'[q][1], q) /\ heard'[q][1].data = queries'[q].kernelNonce
  <2>1. heard[q] # <<>> /\ IsNonce(heard[q][1], q) /\ heard[q][1].data = queries[q].kernelNonce
    BY <1>2 DEF UpdatesInv, HeldInv
  <2> QED
    BY <1>2, <2>1, DeliveredPage DEF Keeps
<1> QED
  BY <1>1, <1>2 DEF HeldInv

\* What a step of a page does to the updates of a query that has its nonce.
PostsNothing(q, d) == asked'[q] = asked[q] /\ fromPage'[d] = fromPage[d]

PostsOthers(q, d) ==
    /\ asked'[q] = asked[q]
    /\ \E r \in Seq(DownMsg) : NoneFor(r, q) /\ fromPage'[d] = fromPage[d] \o r

PostsNext(q, d) ==
    /\ doc[d] # "gone" /\ asked'[q] = asked[q] + 1
    /\ \E m \in SentFor(q) : m.data.number = asked[q] + 1 /\ fromPage'[d] = Append(fromPage[d], m)

Unloads(d) ==
    doc'[d] = "gone" /\ \E z \in 0 .. Len(fromPage[d]) : fromPage'[d] = SubSeq(fromPage[d], 1, z)

PostsHeld(q) ==
    \E d \in Docs, r \in Seq(DownMsg) :
        /\ queries'[q].owner = d /\ fromPage'[d] = fromPage[d] \o r
        /\ DOMAIN r = 1 .. asked'[q] /\ \A i \in 1 .. asked'[q] : r[i] \in SentFor(q) /\ r[i].data.number = i

LEMMA UpdatesToPage ==
  ASSUME TypeInv, UpdatesInv, Page, Keeps, MentionInv', SentInv', NEW q \in Calls, NEW d, d = queries[q].owner,
         queries[q].kernelNonce # 0 =>
             \/ Unloads(d)
             \/ /\ doc'[d] = "gone" <=> doc[d] = "gone"
                /\ PostsNothing(q, d) \/ PostsOthers(q, d) \/ PostsNext(q, d),
         queries[q].kernelNonce = 0 /\ queries'[q].kernelNonce # 0 => PostsHeld(q)
  PROVE  UpdatesTo(q)'
<1>0. DeliveredInv' /\ UNCHANGED <<delivered, down, ports, kernelQueries>>
  BY DeliveredPage
<1>1. CASE queries'[q].kernelNonce = 0
  BY <1>0, <1>1, NothingSentYet
<1>2. CASE queries[q].kernelNonce = 0 /\ queries'[q].kernelNonce # 0
  <2>1. PICK e \in Docs, r \in Seq(DownMsg) :
          /\ queries'[q].owner = e /\ fromPage'[e] = fromPage[e] \o r
          /\ DOMAIN r = 1 .. asked'[q] /\ \A i \in 1 .. asked'[q] : r[i] \in SentFor(q) /\ r[i].data.number = i
    BY <1>2 DEF PostsHeld
  <2>2. PICK serves, open, here, z :
          serves = Serves(q)' /\ open = (ports'[e] = "open") /\ here = (doc'[e] # "gone") /\ z = asked'[q]
    OBVIOUS
  <2>3. /\ NoneFor(down, q) /\ NoneFor(fromPage[e], q)
        /\ \A i \in DOMAIN delivered[q] : delivered[q][i] \notin DeliveredFor(q)
    BY <1>2, NothingSent DEF UpdatesInv
  <2>4. fromPage[e] \in Seq(DownMsg) /\ z \in Nat
    BY <2>2 DEF TypeInv, ChannelTypes, MentionInv, PageTypes
  <2>5. DownRun(delivered[q], down, fromPage[e] \o r, q, serves, open, here, z)
    BY <2>1, <2>2, <2>3, <2>4, DownReleases
  <2>6. Sent(q)' = z
    BY <1>2, <2>2 DEF Sent
  <2> QED
    BY <1>0, <2>1, <2>2, <2>5, <2>6 DEF UpdatesTo
<1>3. CASE queries[q].kernelNonce # 0
  <2>0. queries'[q].kernelNonce # 0 /\ queries'[q].owner = d
    BY <1>3 DEF Keeps
  <2>1. d \in Docs /\ asked[q] \in Nat
    <3>1. queries[q].phase # "idle"
      BY <1>3 DEF UpdatesInv, HeldInv, NoQuery
    <3> QED
      BY <3>1 DEF TypeInv, PageTypes, QueriesOwned
  <2>2. PICK v, n, f, serves, open, here, sent :
          /\ v = delivered[q] /\ n = down /\ f = fromPage[d] /\ serves = Serves(q)
          /\ open = (ports[d] = "open") /\ here = (doc[d] # "gone") /\ sent = Sent(q)
          /\ DownRun(v, n, f, q, serves, open, here, sent)
    BY DEF UpdatesInv, UpdatesTo
  <2>3. f \in Seq(DownMsg) /\ sent = asked[q] /\ sent \in Nat /\ Sent(q)' = asked'[q]
    BY <1>3, <2>0, <2>1, <2>2 DEF TypeInv, ChannelTypes, Sent
  <2>4. (Serves(q)' <=> serves) /\ (ports'[d] = "open" <=> open)
    BY <1>0, <2>2 DEF Serves
  <2>5. PICK f2, serves2, open2, here2, sent2 :
          /\ f2 = fromPage'[d] /\ serves2 = Serves(q)' /\ open2 = (ports'[d] = "open") /\ here2 = (doc'[d] # "gone")
          /\ sent2 = asked'[q]
    OBVIOUS
  <2>6. ASSUME DownRun(v, n, f2, q, serves2, open2, here2, sent2) PROVE UpdatesTo(q)'
    BY <1>0, <2>0, <2>2, <2>3, <2>5, <2>6 DEF UpdatesTo
  <2>7. (serves2 => serves) /\ (open2 => open)
    BY <2>4, <2>5
  <2>8. CASE Unloads(d)
    <3>1. PICK z \in 0 .. Len(f) : f2 = SubSeq(f, 1, z)
      BY <2>2, <2>5, <2>8 DEF Unloads
    <3>2. ~here2
      BY <2>5, <2>8 DEF Unloads
    <3>3. PICK here3 : here3 = FALSE
      OBVIOUS
    <3>4. DownRun(v, n, f2, q, serves, open, here3, sent)
      BY <2>2, <2>3, <3>1, <3>3, DownLeaves
    <3>5. here2 => here3
      BY <3>2
    <3>6. DownRun(v, n, f2, q, serves2, open2, here2, sent2)
      BY <2>7, <3>2, <3>4, <3>5, DownWeakens
    <3> QED
      BY <2>6, <3>6
  <2>9. CASE (doc'[d] = "gone" <=> doc[d] = "gone") /\ PostsNothing(q, d)
    <3>1. (here2 => here) /\ f2 = f /\ sent2 = sent
      BY <2>2, <2>3, <2>5, <2>9 DEF PostsNothing
    <3>2. DownRun(v, n, f2, q, serves2, open2, here2, sent2)
      BY <2>2, <2>7, <3>1, DownWeakens
    <3> QED
      BY <2>6, <3>2
  <2>10. CASE (doc'[d] = "gone" <=> doc[d] = "gone") /\ PostsOthers(q, d)
    <3>0. asked'[q] = asked[q] /\ \E r \in Seq(DownMsg) : NoneFor(r, q) /\ fromPage'[d] = fromPage[d] \o r
      BY <2>10, Zenon DEF PostsOthers
    <3>1. (here2 => here) /\ sent2 = sent
      BY <2>2, <2>3, <2>5, <2>10, <3>0
    <3>2. PICK r \in Seq(DownMsg) : NoneFor(r, q) /\ f2 = f \o r
      BY <2>2, <2>5, <3>0, Zenon
    <3>3. DownRun(v, n, f2, q, serves, open, here, sent)
      BY <2>2, <2>3, <3>2, DownIgnores
    <3>4. DownRun(v, n, f2, q, serves2, open2, here2, sent2)
      BY <2>7, <3>1, <3>3, DownWeakens
    <3> QED
      BY <2>6, <3>4, Zenon
  <2>11. CASE PostsNext(q, d)
    <3>1. here /\ sent2 = sent + 1
      BY <2>2, <2>3, <2>5, <2>11 DEF PostsNext
    <3>2. PICK m \in SentFor(q) : m.data.number = sent + 1 /\ f2 = Append(f, m)
      BY <2>2, <2>3, <2>5, <2>11 DEF PostsNext
    <3>3. DownRun(v, n, f, q, serves, open, TRUE, sent)
      BY <2>2, <3>1
    <3>4. DownRun(v, n, f2, q, serves, open, TRUE, sent2)
      BY <2>3, <3>1, <3>2, <3>3, DownPosts
    <3>5. PICK here3 : here3 = TRUE
      OBVIOUS
    <3>6. DownRun(v, n, f2, q, serves, open, here3, sent2) /\ (here2 => here3)
      BY <3>4, <3>5
    <3>7. DownRun(v, n, f2, q, serves2, open2, here2, sent2)
      BY <2>7, <3>6, DownWeakens
    <3> QED
      BY <2>6, <3>7, Zenon
  <2> QED
    BY <1>3, <2>8, <2>9, <2>10, <2>11
<1> QED
  BY <1>1, <1>2, <1>3

LEMMA GivenOwner ==
  ASSUME TypeInv, NEW q \in Calls, HeldInv(q), queries[q].kernelNonce # 0
  PROVE  queries[q].owner \in Docs /\ queries[q].phase # "idle" /\ heard[q] # <<>>
<1>1. queries[q].phase # "idle"
  BY DEF HeldInv, NoQuery
<1> QED
  BY <1>1 DEF TypeInv, PageTypes, QueriesOwned, HeldInv

LEMMA QueryEqual ==
  ASSUME NEW x \in Query, NEW y \in Query, x.phase = y.phase, x.owner = y.owner, x.sendUpdates = y.sendUpdates,
         x.kernelNonce = y.kernelNonce, x.held = y.held
  PROVE  x = y
  BY DEF Query

\* Calls are posted, or nothing.
LEMMA PostsCalls ==
  ASSUME TypeInv, SentInv, Keeps, NEW d \in Docs, NEW ms \in Seq(CallMsg), Post(d, ms) \/ UNCHANGED fromPage,
         UNCHANGED <<down, asked>>
  PROVE  SentInv' /\ \A q \in Calls : \A e \in Docs : PostsNothing(q, e) \/ PostsOthers(q, e)
<1>1. \A m \in CallMsg : m.method # "queryUpdate" /\ m \in DownMsg
  BY DEF CallMsg, DownMsg
<1>2. CallMsg \subseteq OwnedBy(d)' /\ ms \in Seq(DownMsg)
  <2>1. CallMsg \subseteq OwnedBy(d)' /\ CallMsg \subseteq DownMsg
    BY <1>1 DEF OwnedBy, OwnMsgs
  <2> QED
    BY <2>1, SeqWider
<1>3. \A q \in Calls : NoneFor(ms, q)
  <2>1. \A q \in Calls : \A m \in CallMsg : m \notin SentFor(q)
    BY DEF CallMsg, SentFor, UpdateMsg
  <2> QED
    BY <2>1 DEF NoneFor
<1>4. fromPage \in [Docs -> Seq(DownMsg)]
  BY DEF TypeInv, ChannelTypes
<1>5. \/ UNCHANGED fromPage
      \/ fromPage'[d] = fromPage[d] \o ms /\ \A e \in Docs \ {d} : fromPage'[e] = fromPage[e]
  BY <1>4 DEF Post
<1>6. OwnMsgs \subseteq OwnMsgs' /\ \A e : OwnedBy(e) \subseteq OwnedBy(e)'
  BY OwnKept
<1>7. down' \in Seq(OwnMsgs')
  BY <1>6, SeqWider DEF SentInv
<1>8. ASSUME NEW e \in Docs PROVE fromPage'[e] \in Seq(OwnedBy(e)')
  <2>1. fromPage[e] \in Seq(OwnedBy(e)')
    <3>1. fromPage[e] \in Seq(OwnedBy(e)) /\ OwnedBy(e) \subseteq OwnedBy(e)'
      BY <1>6 DEF SentInv
    <3>2. PICK S, T : S = OwnedBy(e) /\ T = OwnedBy(e)'
      OBVIOUS
    <3> QED
      BY <3>1, <3>2, SeqWider
  <2>2. e = d => ms \in Seq(OwnedBy(e)')
    <3>1. PICK T : T = OwnedBy(d)'
      OBVIOUS
    <3> QED
      BY <1>2, <3>1, SeqWider
  <2>3. e = d => fromPage[e] \o ms \in Seq(OwnedBy(e)')
    <3>1. PICK T : T = OwnedBy(e)'
      OBVIOUS
    <3> QED
      BY <2>1, <2>2, <3>1, ConcatIsSeq
  <2> QED
    BY <1>5, <2>1, <2>3
<1>9. ASSUME NEW q \in Calls, NEW e \in Docs PROVE PostsNothing(q, e) \/ PostsOthers(q, e)
  BY <1>2, <1>3, <1>5 DEF PostsNothing, PostsOthers
<1> QED
  BY <1>7, <1>8, <1>9 DEF SentInv

\* A query is asked: it has no nonce, and holds nothing.
LEMMA UpdatesNewQuery ==
  ASSUME OnceInv, UpdatesInv, NEW d \in Docs, NEW p \in Calls, NEW updates \in BOOLEAN, NewKernelQuery(d, p, updates)
  PROVE  UpdatesInv'
<1>0. TypeInv /\ SentInv /\ Page /\ MentionInv' /\ \A q \in Calls : HeldInv(q)
  BY MentionNext, Zenon DEF OnceInv, MentionInv, UpdatesInv, Page, Next
<1>1. Keeps
  BY <1>0, PageKeeps
<1>2. /\ UNCHANGED <<down, asked, heard, doc>>
      /\ UNCHANGED fromPage \/ Post(d, <<Request("moduleCall", p, updates)>>)
  BY Zenon DEF NewKernelQuery
<1>3. PICK ms : ms = <<Request("moduleCall", p, updates)>>
  OBVIOUS
<1>4. ms \in Seq(CallMsg)
  BY <1>3, MadeRequests, SingleIsSeq
<1>5. SentInv' /\ \A q \in Calls : \A e \in Docs : PostsNothing(q, e) \/ PostsOthers(q, e)
  BY <1>0, <1>1, <1>2, <1>3, <1>4, PostsCalls
<1>6. /\ \A q \in Calls \ {p} : queries'[q] = queries[q]
      /\ queries[p].phase = "idle"
      /\ queries'[p].phase # "idle" /\ queries'[p].kernelNonce = 0 /\ queries'[p].held = <<>>
  BY <1>0, AskedQueries
<1>7. queries[p].kernelNonce = 0 /\ asked[p] = 0
  BY <1>0, <1>6 DEF HeldInv, NoQuery
<1>8. ASSUME NEW q \in Calls PROVE HeldInv(q)'
  <2>1. queries'[q].kernelNonce = 0 =>
            /\ Len(queries'[q].held) = asked'[q]
            /\ \A i \in DOMAIN queries'[q].held : queries'[q].held[i] = i
    <3>1. Len(<<>>) = 0 /\ \A i \in DOMAIN <<>> : <<>>[i] = i
      OBVIOUS
    <3> QED
      BY <1>0, <1>2, <1>6, <1>7, <3>1 DEF HeldInv
  <2>2. queries'[q].phase = "idle" => queries'[q] = NoQuery /\ asked'[q] = 0
    BY <1>0, <1>2, <1>6 DEF HeldInv
  <2>3. queries[q].kernelNonce = 0 => queries'[q].kernelNonce = 0
    BY <1>6
  <2> QED
    BY <1>0, <1>1, <2>1, <2>2, <2>3, HeldPage
<1>9. ASSUME NEW q \in Calls PROVE UpdatesTo(q)'
  <2>1. queries[q].kernelNonce = 0 => queries'[q].kernelNonce = 0
    BY <1>6
  <2>2. PICK e : e = queries[q].owner
    OBVIOUS
  <2>3. queries[q].kernelNonce # 0 =>
            (doc'[e] = "gone" <=> doc[e] = "gone") /\ (PostsNothing(q, e) \/ PostsOthers(q, e))
    BY <1>0, <1>2, <1>5, <2>2, GivenOwner
  <2> QED
    BY <1>0, <1>1, <1>5, <2>1, <2>2, <2>3, UpdatesToPage
<1>10. NoncesInv' /\ DeliveredInv'
  BY <1>0, <1>1, NoncesPage, DeliveredPage DEF UpdatesInv
<1> QED
  BY <1>5, <1>8, <1>9, <1>10 DEF UpdatesInv

\* kernelLoaded resolves: the queries that waited are sent.
LEMMA UpdatesStatus ==
  ASSUME OnceInv, UpdatesInv, NEW d \in Docs, HandleStatus(d)
  PROVE  UpdatesInv'
<1>0. TypeInv /\ SentInv /\ Page /\ MentionInv /\ MentionInv' /\ \A q \in Calls : HeldInv(q)
  BY MentionNext, Zenon DEF OnceInv, MentionInv, UpdatesInv, Page, Next
<1>1. Keeps
  BY <1>0, PageKeeps
<1>2. /\ UNCHANGED <<down, asked, heard>>
      /\ UNCHANGED fromPage \/ Post(d, [i \in DOMAIN waiting[d] |-> Call(waiting[d][i])])
      /\ doc' = doc \/ doc' = [doc EXCEPT ![d] = "reloading"]
      /\ Runs(d)
  BY Zenon DEF HandleStatus, ObeyLogout, TakePage
<1>3. PICK ms : ms = [i \in DOMAIN waiting[d] |-> Call(waiting[d][i])]
  OBVIOUS
<1>4. ms \in Seq(CallMsg)
  <2>1. waiting[d] \in Seq(Calls) /\ queries \in [Calls -> Query]
    BY <1>0 DEF TypeInv, PageTypes
  <2>2. \A q \in Calls : Call(q) \in CallMsg
    BY <2>1, MadeRequests DEF Call, Query
  <2>3. \A i \in DOMAIN waiting[d] : ms[i] \in CallMsg
    BY <1>3, <2>1, <2>2
  <2>4. ms = [i \in DOMAIN waiting[d] |-> ms[i]]
    BY <1>3
  <2> QED
    BY <2>1, <2>3, <2>4, MappedIsSeq
<1>5. SentInv' /\ \A q \in Calls : \A e \in Docs : PostsNothing(q, e) \/ PostsOthers(q, e)
  BY <1>0, <1>1, <1>2, <1>3, <1>4, PostsCalls
<1>6. \A q \in Calls :
         /\ queries'[q].phase = queries[q].phase \/ (queries[q].phase = "waiting" /\ queries'[q].phase = "open")
         /\ queries'[q].owner = queries[q].owner
         /\ queries'[q].sendUpdates = queries[q].sendUpdates /\ queries'[q].kernelNonce = queries[q].kernelNonce
         /\ queries'[q].held = queries[q].held
  BY <1>0, ToldQueries
<1>7. \A e \in Docs : doc'[e] = "gone" <=> doc[e] = "gone"
  BY <1>0, <1>2 DEF Runs, TypeInv, PageTypes
<1>8. ASSUME NEW q \in Calls PROVE HeldInv(q)'
  <2>1. queries'[q].kernelNonce = 0 =>
            /\ Len(queries'[q].held) = asked'[q]
            /\ \A i \in DOMAIN queries'[q].held : queries'[q].held[i] = i
    BY <1>0, <1>2, <1>6 DEF HeldInv
  <2>2. ASSUME queries'[q].phase = "idle" PROVE queries'[q] = NoQuery /\ asked'[q] = 0
    <3>1. queries[q].phase = "idle"
      BY <1>6, <2>2
    <3>2. queries[q] \in Query /\ queries'[q] \in Query
      BY <1>0 DEF MentionInv, TypeInv, PageTypes
    <3>3. queries'[q] = queries[q]
      BY <1>6, <2>2, <3>1, <3>2, QueryEqual
    <3> QED
      BY <1>0, <1>2, <3>1, <3>3 DEF HeldInv
  <2>3. queries[q].kernelNonce = 0 => queries'[q].kernelNonce = 0
    BY <1>6
  <2> QED
    BY <1>0, <1>1, <2>1, <2>2, <2>3, HeldPage
<1>9. ASSUME NEW q \in Calls PROVE UpdatesTo(q)'
  <2>1. queries[q].kernelNonce = 0 => queries'[q].kernelNonce = 0
    BY <1>6
  <2>2. PICK e : e = queries[q].owner
    OBVIOUS
  <2>3. queries[q].kernelNonce # 0 =>
            (doc'[e] = "gone" <=> doc[e] = "gone") /\ (PostsNothing(q, e) \/ PostsOthers(q, e))
    BY <1>0, <1>5, <1>7, <2>2, GivenOwner
  <2> QED
    BY <1>0, <1>1, <1>5, <2>1, <2>2, <2>3, UpdatesToPage
<1>10. NoncesInv' /\ DeliveredInv'
  BY <1>0, <1>1, NoncesPage, DeliveredPage DEF UpdatesInv
<1> QED
  BY <1>5, <1>8, <1>9, <1>10 DEF UpdatesInv

\* A page sends an update, or holds it.
LEMMA UpdatesSend ==
  ASSUME OnceInv, UpdatesInv, NEW p \in Calls, SendUpdate(p)
  PROVE  UpdatesInv'
<1>0. TypeInv /\ SentInv /\ Page /\ MentionInv' /\ \A q \in Calls : HeldInv(q)
  BY MentionNext, Zenon DEF OnceInv, MentionInv, UpdatesInv, Page, Next
<1>1. Keeps
  BY <1>0, PageKeeps
<1>2. PICK d, k, u, m : /\ d = queries[p].owner /\ k = queries[p].kernelNonce /\ u = asked[p] + 1
                        /\ m = QueryUpdate(p, k, u)
  OBVIOUS
<1>3. /\ queries[p].sendUpdates /\ Runs(d) /\ asked' = [asked EXCEPT ![p] = u]
      /\ IF k = 0 THEN UNCHANGED fromPage ELSE Post(d, <<m>>)
      /\ UNCHANGED <<down, heard, doc>>
  BY <1>2, Zenon DEF SendUpdate
<1>4. /\ asked \in [Calls -> Nat] /\ u \in Nat /\ k \in Nat
      /\ fromPage \in [Docs -> Seq(DownMsg)] /\ queries \in [Calls -> Query]
  BY <1>0, <1>2 DEF TypeInv, PageTypes, ChannelTypes, Query
<1>5. queries[p].phase # "idle" /\ d \in Docs /\ doc[d] # "gone"
  <2>1. queries[p].phase # "idle"
    BY <1>0, <1>3 DEF HeldInv, NoQuery
  <2> QED
    BY <1>0, <1>2, <1>3, <2>1 DEF TypeInv, PageTypes, QueriesOwned, Runs
<1>6. /\ \A q \in Calls \ {p} : queries'[q] = queries[q] /\ asked'[q] = asked[q]
      /\ queries'[p].phase = queries[p].phase /\ queries'[p].owner = d
      /\ queries'[p].kernelNonce = k
      /\ queries'[p].held = IF k = 0 THEN Append(queries[p].held, u) ELSE queries[p].held
      /\ asked'[p] = u
  BY <1>0, <1>2, <1>3, <1>4, UpdatedQueries
<1>7. m \in SentFor(p) /\ m.data.number = u /\ m \in DownMsg /\ \A q \in Calls \ {p} : m \notin SentFor(q)
  <2>1. m \in UpdateMsg /\ m.data.of = p /\ m.data.number = u
    BY <1>2, <1>4, MadeRequests DEF QueryUpdate, Request
  <2> QED
    BY <2>1 DEF SentFor, DownMsg
<1>8. k # 0 => /\ fromPage'[d] = fromPage[d] \o <<m>> /\ fromPage'[d] = Append(fromPage[d], m)
               /\ \A e \in Docs \ {d} : fromPage'[e] = fromPage[e]
  BY <1>3, <1>4, <1>5, <1>7 DEF Post
<1>9. SentInv'
  <2>1. OwnMsgs \subseteq OwnMsgs' /\ \A e : OwnedBy(e) \subseteq OwnedBy(e)'
    BY <1>1, OwnKept
  <2>2. down' \in Seq(OwnMsgs')
    BY <1>0, <1>3, <2>1, SeqWider DEF SentInv
  <2>3. \A e \in Docs : fromPage[e] \in Seq(OwnedBy(e)')
    <3> SUFFICES ASSUME NEW e \in Docs PROVE fromPage[e] \in Seq(OwnedBy(e)')
      OBVIOUS
    <3>1. PICK S, T : S = OwnedBy(e) /\ T = OwnedBy(e)'
      OBVIOUS
    <3>2. S \subseteq T /\ fromPage[e] \in Seq(S)
      BY <1>0, <2>1, <3>1 DEF SentInv
    <3> QED
      BY <3>1, <3>2, SeqWider
  <2>4. k # 0 => m \in OwnedBy(d)'
    <3>1. m.nonce = k /\ m.data.of = p
      BY <1>2 DEF QueryUpdate, Request
    <3> QED
      BY <1>6, <1>7, <3>1 DEF OwnedBy, OwnMsgs, IsOwn
  <2>5. k # 0 => Append(fromPage[d], m) \in Seq(OwnedBy(d)')
    <3>1. PICK T : T = OwnedBy(d)'
      OBVIOUS
    <3> QED
      BY <1>5, <2>3, <2>4, <3>1, AppendIsSeq
  <2>6. \A e \in Docs : fromPage'[e] \in Seq(OwnedBy(e)')
    BY <1>3, <1>8, <2>3, <2>5
  <2> QED
    BY <2>2, <2>6 DEF SentInv
<1>10. ASSUME NEW q \in Calls PROVE HeldInv(q)'
  <2>1. ASSUME queries'[q].kernelNonce = 0
        PROVE  /\ Len(queries'[q].held) = asked'[q]
               /\ \A i \in DOMAIN queries'[q].held : queries'[q].held[i] = i
    <3>1. CASE q # p
      BY <1>0, <1>6, <2>1, <3>1 DEF HeldInv
    <3>2. CASE q = p
      <4>1. PICK s, s2, n : s = queries[p].held /\ s2 = queries'[p].held /\ n = asked[p]
        OBVIOUS
      <4>2. k = 0
        BY <1>6, <2>1, <3>2
      <4>3. s \in Seq(Nat) /\ Len(s) = n /\ n \in Nat /\ (\A i \in DOMAIN s : s[i] = i) /\ s2 = Append(s, n + 1)
        BY <1>0, <1>2, <1>4, <1>6, <4>1, <4>2 DEF HeldInv, Query
      <4>4. Len(s2) = n + 1 /\ \A i \in DOMAIN s2 : s2[i] = i
        BY <4>3
      <4> QED
        BY <1>2, <1>6, <3>2, <4>1, <4>4
    <3> QED
      BY <3>1, <3>2
  <2>2. queries'[q].phase = "idle" => queries'[q] = NoQuery /\ asked'[q] = 0
    BY <1>0, <1>5, <1>6 DEF HeldInv
  <2>3. queries[q].kernelNonce = 0 => queries'[q].kernelNonce = 0
    BY <1>2, <1>6
  <2> QED
    BY <1>0, <1>1, <2>1, <2>2, <2>3, HeldPage
<1>11. ASSUME NEW q \in Calls PROVE UpdatesTo(q)'
  <2>1. queries[q].kernelNonce = 0 => queries'[q].kernelNonce = 0
    BY <1>2, <1>6
  <2>2. PICK e : e = queries[q].owner
    OBVIOUS
  <2>3. ASSUME queries[q].kernelNonce # 0
        PROVE  /\ doc'[e] = "gone" <=> doc[e] = "gone"
               /\ PostsNothing(q, e) \/ PostsOthers(q, e) \/ PostsNext(q, e)
    <3>1. e \in Docs
      BY <1>0, <2>2, <2>3, GivenOwner
    <3>2. CASE q = p
      BY <1>2, <1>3, <1>5, <1>6, <1>7, <1>8, <2>2, <2>3, <3>2 DEF PostsNext
    <3>3. CASE q # p /\ (k = 0 \/ e # d)
      BY <1>3, <1>6, <1>8, <3>1, <3>3 DEF PostsNothing
    <3>4. CASE q # p /\ k # 0 /\ e = d
      <4>1. NoneFor(<<m>>, q)
        BY <1>7, <3>4 DEF NoneFor
      <4>2. <<m>> \in Seq(DownMsg)
        BY <1>7
      <4> QED
        BY <1>3, <1>6, <1>8, <3>4, <4>1, <4>2 DEF PostsOthers
    <3> QED
      BY <3>2, <3>3, <3>4
  <2> QED
    BY <1>0, <1>1, <1>9, <2>1, <2>2, <2>3, UpdatesToPage
<1>12. NoncesInv' /\ DeliveredInv'
  BY <1>0, <1>1, NoncesPage, DeliveredPage DEF UpdatesInv
<1> QED
  BY <1>9, <1>10, <1>11, <1>12 DEF UpdatesInv

\* A page is unloaded.
LEMMA UpdatesLeave ==
  ASSUME OnceInv, UpdatesInv, Page, NEW d \in Docs, Leave(d)
  PROVE  UpdatesInv'
<1>0. TypeInv /\ SentInv /\ MentionInv' /\ \A q \in Calls : HeldInv(q)
  BY MentionNext, Zenon DEF OnceInv, MentionInv, UpdatesInv, Next
<1>1. Keeps
  BY <1>0, PageKeeps
<1>2. PICK z \in 0 .. Len(fromPage[d]) : fromPage' = [fromPage EXCEPT ![d] = SubSeq(@, 1, z)]
  BY Zenon DEF Leave
<1>3. doc' = [doc EXCEPT ![d] = "gone"] /\ UNCHANGED <<down, queries, asked, heard>>
  BY Zenon DEF Leave
<1>4. fromPage \in [Docs -> Seq(DownMsg)] /\ DOMAIN doc = Docs
  BY <1>0 DEF TypeInv, PageTypes, ChannelTypes
<1>5. /\ fromPage'[d] = SubSeq(fromPage[d], 1, z) /\ doc'[d] = "gone"
      /\ \A e \in Docs \ {d} : fromPage'[e] = fromPage[e] /\ doc'[e] = doc[e]
  BY <1>2, <1>3, <1>4
<1>6. SentInv'
  <2>1. OwnMsgs' = OwnMsgs /\ \A e : OwnedBy(e)' = OwnedBy(e)
    BY <1>3 DEF OwnMsgs, OwnedBy, IsOwn
  <2>2. ASSUME NEW e \in Docs PROVE fromPage'[e] \in Seq(OwnedBy(e))
    <3>1. PICK S : S = OwnedBy(e)
      OBVIOUS
    <3>2. fromPage[e] \in Seq(S)
      BY <1>0, <3>1 DEF SentInv
    <3>3. e = d => SubSeq(fromPage[d], 1, z) \in Seq(S)
      BY <3>2, PrefixIsSeq
    <3> QED
      BY <1>5, <3>1, <3>2, <3>3
  <2> QED
    BY <1>0, <1>3, <2>1, <2>2 DEF SentInv
<1>7. ASSUME NEW q \in Calls PROVE HeldInv(q)'
  BY <1>0, <1>3 DEF HeldInv
<1>8. ASSUME NEW q \in Calls PROVE UpdatesTo(q)'
  <2>1. queries[q].kernelNonce = 0 => queries'[q].kernelNonce = 0
    BY <1>3
  <2>2. PICK e : e = queries[q].owner
    OBVIOUS
  <2>3. ASSUME queries[q].kernelNonce # 0
        PROVE  \/ Unloads(e)
               \/ (doc'[e] = "gone" <=> doc[e] = "gone") /\ PostsNothing(q, e)
    <3>1. e \in Docs
      BY <1>0, <2>2, <2>3, GivenOwner
    <3>2. CASE e = d
      BY <1>5, <3>2 DEF Unloads
    <3>3. CASE e # d
      BY <1>3, <1>5, <3>1, <3>3 DEF PostsNothing
    <3> QED
      BY <3>2, <3>3
  <2> QED
    BY <1>0, <1>1, <1>6, <2>1, <2>2, <2>3, UpdatesToPage
<1>9. NoncesInv' /\ DeliveredInv'
  BY <1>0, <1>1, NoncesPage, DeliveredPage DEF UpdatesInv
<1> QED
  BY <1>6, <1>7, <1>8, <1>9 DEF UpdatesInv

\* A page hears a reply; with its nonce, a query sends what it held.
LEMMA UpdatesReply ==
  ASSUME OnceInv, UpdatesInv, Page, NEW d \in Docs,
         HandleResponse(d) \/ HandleResponseUpdate(d) \/ HandleResponseNonce(d)
  PROVE  UpdatesInv'
<1>0. TypeInv /\ SentInv /\ NoncesInv /\ MentionInv /\ MentionInv' /\ \A q \in Calls : HeldInv(q)
  BY MentionNext, Zenon DEF OnceInv, MentionInv, UpdatesInv, Next
<1>1. Keeps
  BY <1>0, PageKeeps
<1>2. PICK m, p, k : m = Head(toPage[d]) /\ p = m.nonce /\ k = m.data
  OBVIOUS
<1>3. PICK held, r : held = queries[p].held /\ r = [i \in DOMAIN held |-> QueryUpdate(p, k, held[i])]
  OBVIOUS
<1>4. /\ UNCHANGED <<down, doc, asked>>
      /\ toPage[d] # <<>>
      /\ \/ UNCHANGED fromPage /\ ~(Takes(m) /\ m.method = "responseNonce")
         \/ Takes(m) /\ m.method = "responseNonce" /\ Post(d, r) /\ Hear(m)
  <2>1. "response" # "responseNonce" /\ "responseUpdate" # "responseNonce"
    OBVIOUS
  <2> QED
    BY <1>2, <1>3, <2>1, Zenon DEF HandleResponse, HandleResponseUpdate, HandleResponseNonce, TakePage
<1>5. /\ toPage[d] \in Seq(UpMsg) /\ fromPage \in [Docs -> Seq(DownMsg)] /\ queries \in [Calls -> Query]
      /\ asked \in [Calls -> Nat] /\ heard \in [Calls -> Seq(ReplyMsg)]
  BY <1>0 DEF TypeInv, ChannelTypes, PageTypes
<1>6. NoncesInv' /\ DeliveredInv'
  BY <1>0, <1>1, NoncesPage, DeliveredPage DEF UpdatesInv
<1>7. ASSUME NEW q \in Calls
      PROVE  /\ queries'[q].owner = queries[q].owner
             /\ queries'[q].phase = "idle" => queries'[q] = queries[q]
             /\ ~(q = p /\ Takes(m) /\ m.method = "responseNonce") =>
                    queries'[q].kernelNonce = queries[q].kernelNonce /\ queries'[q].held = queries[q].held
             /\ q = p /\ Takes(m) /\ m.method = "responseNonce" => queries'[q].kernelNonce = k
  <2>1. Takes(m) /\ q = p => queries[q].phase = "open"
    BY <1>2 DEF Takes
  <2> QED
    BY <1>0, <1>2, <2>1, RepliedQueries
<1>8. ASSUME NEW q \in Calls,
             queries[q].kernelNonce = 0 /\ queries'[q].kernelNonce # 0 =>
                 heard'[q] # <<>> /\ IsNonce(heard'[q][1], q) /\ heard'[q][1].data = queries'[q].kernelNonce,
             queries'[q].kernelNonce = 0 => queries'[q].held = queries[q].held /\ queries[q].kernelNonce = 0
      PROVE  HeldInv(q)'
  <2>1. queries'[q].kernelNonce = 0 =>
            /\ Len(queries'[q].held) = asked'[q]
            /\ \A i \in DOMAIN queries'[q].held : queries'[q].held[i] = i
    BY <1>0, <1>4, <1>8 DEF HeldInv
  <2>2. queries'[q].phase = "idle" => queries'[q] = NoQuery /\ asked'[q] = 0
    BY <1>0, <1>4, <1>7 DEF HeldInv
  <2> QED
    BY <1>0, <1>1, <1>8, <2>1, <2>2, HeldPage
<1>9. CASE UNCHANGED fromPage /\ ~(Takes(m) /\ m.method = "responseNonce")
  <2>1. ASSUME NEW q \in Calls PROVE HeldInv(q)'
    <3>1. queries'[q].kernelNonce = queries[q].kernelNonce /\ queries'[q].held = queries[q].held
      BY <1>7, <1>9
    <3> QED
      BY <1>8, <3>1
  <2>2. SentInv'
    <3>1. <<>> \in Seq(CallMsg)
      OBVIOUS
    <3> QED
      BY <1>0, <1>1, <1>4, <1>9, <3>1, PostsCalls
  <2>3. ASSUME NEW q \in Calls PROVE UpdatesTo(q)'
    <3>1. queries'[q].kernelNonce = queries[q].kernelNonce
      BY <1>7, <1>9
    <3>2. PICK e : e = queries[q].owner
      OBVIOUS
    <3>3. (doc'[e] = "gone" <=> doc[e] = "gone") /\ PostsNothing(q, e)
      BY <1>4, <1>9 DEF PostsNothing
    <3> QED
      BY <1>0, <1>1, <2>2, <3>1, <3>2, <3>3, UpdatesToPage
  <2> QED
    BY <1>6, <2>1, <2>2, <2>3 DEF UpdatesInv
<1>10. CASE Takes(m) /\ m.method = "responseNonce" /\ Post(d, r) /\ Hear(m)
  <2>1. m \in ReplyMsg /\ p \in Calls /\ k \in Nat
    <3>1. m \in UpMsg
      BY <1>2, <1>4, <1>5, TailIsSeq
    <3>2. m \in ReplyMsg
      BY <1>10, <3>1, UpMessages
    <3> QED
      BY <1>2, <3>2 DEF ReplyMsg
  <2>2. queries[p].owner = d
    BY <1>0, <1>2, <1>4, <2>1, HeardIsSent DEF SentBy
  <2>3. heard[p] = <<>> /\ queries[p].kernelNonce = 0
    <3>1. IsNonce(m, p)
      BY <1>2, <1>10 DEF IsNonce
    <3>2. ~NoNonce(toPage[d], p)
      BY <1>2, <1>4, <1>5, <3>1, OnceTail
    <3>3. heard[p] = <<>>
      BY <2>1, <3>2 DEF OnceInv, NonceOnce
    <3> QED
      BY <1>0, <2>1, <3>3 DEF HeldInv
  <2>4. k # 0
    <3>1. GoodNonces(toPage[d])
      BY <1>0 DEF NoncesInv
    <3>2. GoodNonce(m)
      BY <1>2, <1>4, <1>5, <1>10, <3>1, GoodSequences
    <3> QED
      BY <1>2, <3>2 DEF GoodNonce
  <2>5. heard'[p] = <<m>> /\ heard'[p][1] = m /\ heard'[p] # <<>>
    <3>1. heard'[p] = Append(<<>>, m)
      BY <1>2, <1>5, <1>10, <2>1, <2>3 DEF Hear
    <3> QED
      BY <3>1
  <2>6. queries'[p].kernelNonce = k /\ \A q \in Calls \ {p} :
            queries'[q].kernelNonce = queries[q].kernelNonce /\ queries'[q].held = queries[q].held
    BY <1>7, <1>10, <2>1
  <2>7. ASSUME NEW q \in Calls PROVE HeldInv(q)'
    <3>1. CASE q = p
      <4>1. IsNonce(m, p) /\ m.data = k
        BY <1>2, <1>10 DEF IsNonce
      <4> QED
        BY <1>8, <2>1, <2>4, <2>5, <2>6, <3>1, <4>1
    <3>2. CASE q # p
      BY <1>8, <2>6, <3>2
    <3> QED
      BY <3>1, <3>2
  <2>8. PICK n : n = asked[p]
    OBVIOUS
  <2>9. n \in Nat /\ held \in Seq(Nat) /\ DOMAIN held = 1 .. n /\ \A i \in 1 .. n : held[i] = i
    <3>1. n \in Nat /\ held \in Seq(Nat) /\ Len(held) = n /\ \A i \in DOMAIN held : held[i] = i
      BY <1>0, <1>3, <1>5, <2>1, <2>3, <2>8 DEF HeldInv, Query
    <3> QED
      BY <3>1
  <2>10. DOMAIN r = 1 .. n /\ \A i \in 1 .. n : r[i] = QueryUpdate(p, k, i)
    BY <1>3, <2>9
  <2>11. ASSUME NEW i \in 1 .. n
         PROVE  /\ r[i] \in SentFor(p) /\ r[i].data.number = i /\ r[i].nonce = k /\ r[i].data.of = p /\ r[i] \in DownMsg
                /\ \A q \in Calls \ {p} : r[i] \notin SentFor(q)
    <3>1. PICK w : w = QueryUpdate(p, k, i)
      OBVIOUS
    <3>2. w \in UpdateMsg /\ w.data.of = p /\ w.data.number = i /\ w.nonce = k
      BY <2>1, <3>1, MadeRequests DEF QueryUpdate, Request
    <3>3. r[i] = w
      BY <2>10, <3>1
    <3> QED
      BY <3>2, <3>3 DEF SentFor, DownMsg
  <2>12. r = [i \in DOMAIN held |-> r[i]]
    BY <1>3
  <2>13. r \in Seq(DownMsg) /\ r \in Seq(OwnedBy(d)')
    <3>1. \A i \in 1 .. n : r[i] \in OwnedBy(d)'
      BY <1>7, <2>1, <2>2, <2>4, <2>6, <2>11 DEF OwnedBy, OwnMsgs, IsOwn
    <3>2. PICK T : T = OwnedBy(d)'
      OBVIOUS
    <3>3. r \in Seq(T) /\ r \in Seq(DownMsg)
      BY <2>9, <2>11, <2>12, <3>1, <3>2, MappedIsSeq
    <3> QED
      BY <3>2, <3>3
  <2>14. fromPage'[d] = fromPage[d] \o r /\ \A e \in Docs \ {d} : fromPage'[e] = fromPage[e]
    BY <1>5, <1>10 DEF Post
  <2>15. SentInv'
    <3>1. OwnMsgs \subseteq OwnMsgs' /\ \A e : OwnedBy(e) \subseteq OwnedBy(e)'
      BY <1>1, OwnKept
    <3>2. down' \in Seq(OwnMsgs')
      BY <1>0, <1>4, <3>1, SeqWider DEF SentInv
    <3>3. ASSUME NEW e \in Docs PROVE fromPage'[e] \in Seq(OwnedBy(e)')
      <4>1. PICK S, T : S = OwnedBy(e) /\ T = OwnedBy(e)'
        OBVIOUS
      <4>2. S \subseteq T /\ fromPage[e] \in Seq(S)
        BY <1>0, <3>1, <4>1 DEF SentInv
      <4>3. fromPage[e] \in Seq(T)
        BY <4>2, SeqWider
      <4>4. e = d => fromPage[e] \o r \in Seq(T)
        BY <2>13, <4>1, <4>3, ConcatIsSeq
      <4> QED
        BY <2>14, <4>1, <4>3, <4>4
    <3> QED
      BY <3>2, <3>3 DEF SentInv
  <2>16. ASSUME NEW q \in Calls PROVE UpdatesTo(q)'
    <3>1. PICK e : e = queries[q].owner
      OBVIOUS
    <3>2. ASSUME queries[q].kernelNonce # 0
          PROVE  /\ doc'[e] = "gone" <=> doc[e] = "gone"
                 /\ PostsNothing(q, e) \/ PostsOthers(q, e)
      <4>1. e \in Docs /\ q # p
        BY <1>0, <2>3, <3>1, <3>2, GivenOwner
      <4>2. NoneFor(r, q)
        BY <2>10, <2>11, <4>1 DEF NoneFor
      <4> QED
        BY <1>4, <2>13, <2>14, <4>1, <4>2 DEF PostsNothing, PostsOthers
    <3>3. queries[q].kernelNonce = 0 /\ queries'[q].kernelNonce # 0 => PostsHeld(q)
      <4>1. CASE q = p
        <5>1. queries'[q].owner = d /\ asked'[q] = n
          BY <1>4, <1>7, <2>2, <2>8, <4>1
        <5> QED
          BY <2>10, <2>11, <2>13, <2>14, <4>1, <5>1 DEF PostsHeld
      <4>2. CASE q # p
        BY <2>6, <4>2
      <4> QED
        BY <4>1, <4>2
    <3> QED
      BY <1>0, <1>1, <2>15, <3>1, <3>2, <3>3, UpdatesToPage
  <2> QED
    BY <1>6, <2>7, <2>15, <2>16 DEF UpdatesInv
<1> QED
  BY <1>4, <1>9, <1>10

LEMMA UpdatesInit == ASSUME Init PROVE UpdatesInv
<1>1. \A q \in Calls : /\ queries[q] = NoQuery /\ queries[q].kernelNonce = 0 /\ queries[q].held = <<>>
                       /\ heard[q] = <<>> /\ delivered[q] = <<>> /\ asked[q] = 0
  BY DEF Init, NoQuery
<1>2. up = <<>> /\ down = <<>> /\ \A d \in Docs : toPage[d] = <<>> /\ fromPage[d] = <<>>
  BY DEF Init
<1>3. NoncesInv
  BY <1>1, <1>2 DEF NoncesInv, GoodNonces
<1>4. SentInv
  BY <1>2, EmptyIsSeq DEF SentInv
<1>5. delivered \in [Calls -> Seq(Delivered)]
  BY EmptyIsSeq DEF Init
<1>6. DeliveredInv
  <2>1. DOMAIN <<>> = {}
    OBVIOUS
  <2> QED
    BY <1>1, <1>5, <2>1, Zenon DEF DeliveredInv
<1>7. ASSUME NEW q \in Calls PROVE HeldInv(q)
  <2>1. DOMAIN <<>> = {} /\ Len(<<>>) = 0
    OBVIOUS
  <2> QED
    BY <1>1, <2>1, Zenon DEF HeldInv
<1>8. ASSUME NEW q \in Calls PROVE UpdatesTo(q)
  <2>1. PICK d, serves, open, here :
          d = queries[q].owner /\ serves = Serves(q) /\ open = (ports[d] = "open") /\ here = (doc[d] # "gone")
    OBVIOUS
  <2>2. ~serves
    BY <2>1 DEF Init, Serves
  <2>3. NoneFor(<<>>, q) /\ \A i \in DOMAIN delivered[q] : delivered[q][i] \notin DeliveredFor(q)
    BY <1>1 DEF NoneFor
  <2>4. DownRun(delivered[q], <<>>, <<>>, q, serves, open, here, 0)
    BY <2>3, DownStarts
  <2>5. DownRun(delivered[q], down, fromPage[d], q, serves, open, here, Sent(q))
    BY <2>2, <2>4, DownWeakens
  <2> QED
    BY <2>1, <2>5 DEF UpdatesTo
<1> QED
  BY <1>3, <1>4, <1>6, <1>7, <1>8 DEF UpdatesInv

LEMMA UpdatesNext == ASSUME OnceInv, KernelInv, UpdatesInv, [Next]_vars PROVE UpdatesInv'
<1>1. CASE Frame
  BY <1>1, UpdatesFrame
<1>2. CASE Background
  BY <1>2, UpdatesBackground
<1>3. CASE Page
  <2>1. ASSUME NEW d \in Docs, NEW q \in Calls, NEW updates \in BOOLEAN, NewKernelQuery(d, q, updates)
        PROVE  UpdatesInv'
    BY <2>1, UpdatesNewQuery
  <2>2. ASSUME NEW q \in Calls, SendUpdate(q) PROVE UpdatesInv'
    BY <2>2, UpdatesSend
  <2>3. ASSUME NEW d \in Docs, HandleStatus(d) PROVE UpdatesInv'
    BY <2>3, UpdatesStatus
  <2>4. ASSUME NEW d \in Docs, HandleResponse(d) \/ HandleResponseUpdate(d) \/ HandleResponseNonce(d)
        PROVE  UpdatesInv'
    BY <1>3, <2>4, UpdatesReply
  <2>5. ASSUME NEW d \in Docs, Leave(d) PROVE UpdatesInv'
    BY <1>3, <2>5, UpdatesLeave
  <2> QED
    BY <1>3, <2>1, <2>2, <2>3, <2>4, <2>5, Zenon DEF Page, Reloads, Closes
<1>4. CASE UNCHANGED vars
  <2>1. UNCHANGED <<frameVars, backVars, pageVars, up, down, toPage, fromPage>>
    BY <1>4, Zenon DEF vars
  <2>2. UNCHANGED <<session, frame, kernelNonces, kernelQueries, delivered, ports, doc, queries, asked, heard>>
    BY <2>1 DEF frameVars, backVars, pageVars
  <2>3. NoncesInv' /\ SentInv' /\ DeliveredInv'
    <3>1. \A m : GoodNonce(m)' <=> GoodNonce(m)
      BY <2>2 DEF GoodNonce
    <3>2. PICK s, t, h : s = up /\ t = toPage /\ h = heard
      OBVIOUS
    <3>3. GoodNonces(s) /\ (\A d \in Docs : GoodNonces(t[d])) /\ \A q \in Calls : GoodNonces(h[q])
      BY <3>2, Zenon DEF UpdatesInv, NoncesInv
    <3>4. s = up' /\ t = toPage' /\ h = heard'
      BY <2>1, <2>2, <3>2
    <3>5. GoodNonces(s)' /\ (\A d \in Docs : GoodNonces(t[d])') /\ \A q \in Calls : GoodNonces(h[q])'
      BY <3>1, <3>3, Zenon DEF GoodNonces
    <3>6. NoncesInv'
      BY <3>4, <3>5, Zenon DEF NoncesInv, GoodNonces
    <3>7. OwnMsgs' = OwnMsgs /\ \A e : OwnedBy(e)' = OwnedBy(e)
      BY <2>2 DEF OwnMsgs, OwnedBy, IsOwn
    <3>8. SentInv'
      BY <2>1, <3>7 DEF UpdatesInv, SentInv
    <3>9. DeliveredInv'
      BY <2>2 DEF UpdatesInv, DeliveredInv
    <3> QED
      BY <3>6, <3>8, <3>9
  <2>4. \A q \in Calls : HeldInv(q)'
    BY <2>2 DEF UpdatesInv, HeldInv
  <2>5. ASSUME NEW q \in Calls PROVE UpdatesTo(q)'
    <3>1. PICK v, n, f, serves, open, here, sent :
            /\ v = delivered[q] /\ n = down /\ f = fromPage[queries[q].owner] /\ serves = Serves(q)
            /\ open = (ports[queries[q].owner] = "open") /\ here = (doc[queries[q].owner] # "gone") /\ sent = Sent(q)
      OBVIOUS
    <3>2. DownRun(v, n, f, q, serves, open, here, sent)
      BY <3>1 DEF UpdatesInv, UpdatesTo
    <3>3. (Serves(q)' <=> serves) /\ Sent(q)' = sent
      BY <2>2, <3>1 DEF Serves, Sent
    <3>4. PICK serves2 : serves2 = Serves(q)'
      OBVIOUS
    <3>5. DownRun(v, n, f, q, serves2, open, here, sent)
      BY <3>2, <3>3, <3>4, DownWeakens
    <3> QED
      BY <2>1, <2>2, <3>1, <3>3, <3>4, <3>5 DEF UpdatesTo
  <2> QED
    BY <2>3, <2>4, <2>5 DEF UpdatesInv
<1> QED
  BY <1>1, <1>2, <1>3, <1>4 DEF Next

\* The runs of a query and its updates, from their starts.
RelayInv == OnceInv /\ KernelInv /\ AnswersInv /\ UpdatesInv

LEMMA RelayInit == ASSUME Init PROVE RelayInv
  BY OnceInit, AnswersInit, UpdatesInit DEF RelayInv

LEMMA RelayNext == ASSUME RelayInv, [Next]_vars PROVE RelayInv'
  BY OnceNext, KernelNext, AnswersNext, UpdatesNext DEF RelayInv

\* What a page has heard of a query are its first updates, and all of them if
\* the query is closed.
LEMMA HeardInOrder ==
  ASSUME RelayInv, NEW q \in Calls
  PROVE  /\ \A i \in HeardUpdates(q) : heard[q][i].data = Cardinality({j \in HeardUpdates(q) : j <= i})
         /\ queries[q].phase = "closed" /\ queries[q].sendUpdates
                => Last(heard[q]).data = Cardinality(HeardUpdates(q))
<1>1. TypeInv /\ PageMentions /\ AnswersOf(q) /\ KnownInv(q)
  BY DEF RelayInv, OnceInv, MentionInv, AnswersInv
<1>2. PICK h : h = heard[q]
  OBVIOUS
<1>3. h \in Seq(ReplyMsg)
  BY <1>1, <1>2 DEF TypeInv, PageTypes
<1>4. \A i \in DOMAIN h : h[i] \in ReplyMsg /\ h[i].nonce = q
  BY <1>1, <1>2, <1>3 DEF KnownInv
<1>5. PICK A : A = HeardUpdates(q)
  OBVIOUS
<1>6. A = At(h, UpdatesOf(q))
  BY <1>2, <1>4, <1>5 DEF HeardUpdates, At, UpdatesOf, IsUpdate
<1>7. ASSUME queries[q].sendUpdates, q \in SentCalls
      PROVE  /\ \A i \in A : h[i].data = Cardinality({j \in A : j <= i})
             /\ queries[q].phase = "closed" => h[Len(h)].data = Cardinality(A)
  <2>1. PICK a \in Nat : Numbers(h, UpdatesOf(q), DataOf(q), 0, a) /\ Totals(h, q, a)
    <3>1. PICK d, sends : d = queries[q].owner /\ sends = queries[q].sendUpdates
      OBVIOUS
    <3>2. RelayRun(h, toPage[d], up, q, Serves(q), Reachable(d), sends, posted[q])
      BY <1>1, <1>2, <1>7, <3>1 DEF AnswersOf
    <3>3. UpRun(h, toPage[d], up, q, Reachable(d), posted[q])
      BY <1>7, <3>1, <3>2 DEF RelayRun
    <3> QED
      BY <3>3, Zenon DEF UpRun
  <2>2. DataOf(q) \in [UpdatesOf(q) -> Nat]
    BY UpdateNumbers
  <2>3. Cardinality(A) = a /\ \A i \in A : DataOf(q)[h[i]] = Cardinality({j \in A : j <= i})
    <3>1. PICK S, E, N : S = ReplyMsg /\ E = UpdatesOf(q) /\ N = DataOf(q)
      OBVIOUS
    <3>2. h \in Seq(S) /\ N \in [E -> Nat] /\ Numbers(h, E, N, 0, a)
      BY <1>3, <2>1, <2>2, <3>1
    <3>3. Cardinality(At(h, E)) = a /\ \A i \in At(h, E) : N[h[i]] = Cardinality({j \in At(h, E) : j <= i})
      BY <3>2, NumbersCount
    <3> QED
      BY <1>6, <3>1, <3>3, Zenon
  <2>4. \A i \in A : DataOf(q)[h[i]] = h[i].data
    BY <1>6, UpdateNumbers DEF At
  <2>5. ASSUME queries[q].phase = "closed" PROVE h[Len(h)].data = a
    <3>1. h # <<>> /\ IsResponse(h[Len(h)], q)
      BY <1>1, <1>2, <2>5 DEF KnownInv
    <3>2. Len(h) \in DOMAIN h
      BY <1>3, <3>1
    <3> QED
      BY <1>4, <2>1, <3>1, <3>2 DEF Totals
  <2> QED
    BY <2>3, <2>4, <2>5
<1>8. ASSUME ~queries[q].sendUpdates PROVE A = {}
  <2>1. NoUpdate(h, q)
    BY <1>1, <1>2, <1>8 DEF KnownInv
  <2> QED
    BY <1>6, <2>1 DEF NoUpdate, At, UpdatesOf
<1>9. ASSUME q \notin SentCalls PROVE A = {} /\ queries[q].phase # "closed"
  <2>1. h = <<>>
    BY <1>1, <1>2, <1>9 DEF PageMentions
  <2>2. DOMAIN h = {}
    BY <2>1
  <2> QED
    BY <1>6, <1>9, <2>2 DEF At, SentCalls
<1>10. Last(h) = h[Len(h)]
  BY DEF Last
<1> QED
  BY <1>2, <1>5, <1>7, <1>8, <1>9, <1>10

\* What a module was delivered of its query are its first updates.
LEMMA DeliveredInOrder ==
  ASSUME RelayInv, NEW q \in Calls
  PROVE  \A i \in OwnUpdates(q) : delivered[q][i].number = Cardinality({j \in OwnUpdates(q) : j <= i})
<1>1. PICK v : v = delivered[q]
  OBVIOUS
<1>2. v \in Seq(Delivered)
  BY <1>1 DEF RelayInv, UpdatesInv, DeliveredInv
<1>3. PICK A : A = OwnUpdates(q)
  OBVIOUS
<1>4. \A i \in DOMAIN v : v[i] \in Delivered
  BY <1>2
<1>5. A = At(v, DeliveredFor(q))
  BY <1>1, <1>3, <1>4 DEF OwnUpdates, At, DeliveredFor
<1>6. PICK a \in Nat : Numbers(v, DeliveredFor(q), NumberIn(q), 0, a)
  <2>1. PICK n, f, serves, open, here, sent : DownRun(v, n, f, q, serves, open, here, sent)
    BY <1>1, Zenon DEF RelayInv, UpdatesInv, UpdatesTo
  <2> QED
    BY <2>1, Zenon DEF DownRun
<1>7. NumberIn(q) \in [DeliveredFor(q) -> Nat]
  BY SentNumbers
<1>8. \A i \in A : NumberIn(q)[v[i]] = Cardinality({j \in A : j <= i})
  <2>1. PICK S, E, N : S = Delivered /\ E = DeliveredFor(q) /\ N = NumberIn(q)
    OBVIOUS
  <2>2. v \in Seq(S) /\ N \in [E -> Nat] /\ Numbers(v, E, N, 0, a)
    BY <1>2, <1>6, <1>7, <2>1
  <2>3. \A i \in At(v, E) : N[v[i]] = Cardinality({j \in At(v, E) : j <= i})
    BY <2>2, NumbersCount
  <2> QED
    BY <1>5, <2>1, <2>3, Zenon
<1>9. \A i \in A : NumberIn(q)[v[i]] = v[i].number
  BY <1>5, SentNumbers DEF At
<1> QED
  BY <1>1, <1>3, <1>8, <1>9

\* Only a later session can be delivered the update of another query.
LEMMA DeliveredToOthers ==
  ASSUME RelayInv, NEW q \in Calls, NEW i \in DOMAIN delivered[q], delivered[q][i].of # q
  PROVE  Head(heard[delivered[q][i].of]).from < delivered[q][i].session
<1>1. PICK u : u = delivered[q][i]
  OBVIOUS
<1>2. queries[u.of].kernelNonce # 0 /\ heard[u.of][1].from < u.session
  BY <1>1 DEF RelayInv, UpdatesInv, DeliveredInv
<1>3. PICK v : v = delivered[q] /\ v \in Seq(Delivered)
  BY DEF RelayInv, UpdatesInv, DeliveredInv
<1>4. u.of \in Calls
  <2>1. u \in Delivered
    BY <1>1, <1>3
  <2> QED
    BY <2>1 DEF Delivered
<1>5. PICK h : h = heard[u.of] /\ h \in Seq(ReplyMsg)
  BY <1>4 DEF RelayInv, OnceInv, MentionInv, TypeInv, PageTypes
<1>6. HeldInv(u.of)
  BY <1>4 DEF RelayInv, UpdatesInv
<1>7. h # <<>>
  BY <1>2, <1>5, <1>6 DEF HeldInv
<1>8. Head(h) = h[1]
  BY <1>5, <1>7
<1> QED
  BY <1>1, <1>2, <1>5, <1>8

\* RelayFaithful: what libkernel takes for the answer of a query is that of its
\* module, update by update, and what its module is sent is what the page sent
\* for it (src/extension/src/background.ts, src/libs/libkernel/src/queries.ts).
THEOREM RelaysFaithfully == Spec => []RelayFaithful
<1>1. RelayInv => RelayFaithful
  BY HeardInOrder, DeliveredInOrder, DeliveredToOthers, Zenon DEF RelayFaithful
<1>2. Init => RelayInv
  BY RelayInit
<1>3. RelayInv /\ [Next]_vars => RelayInv'
  BY RelayNext
<1> QED
  BY <1>1, <1>2, <1>3, PTL DEF Spec

====
