-------------------------- MODULE PortalFetch_proofs --------------------------
(***************************************************************************)
(* The record of failures and the choice of the response, for any list of    *)
(* portals, any calls and whatever the portals send; and that what was      *)
(* uploaded can be downloaded, for a file of any size.                      *)
(***************************************************************************)
EXTENDS PortalFetch, TLAPS, WellFoundedInduction

\* A sequence of whatever it holds.
IsSequence(s) == s \in Seq({s[i] : i \in DOMAIN s})

SequencesInv ==
    /\ "op" \in DOMAIN call
    /\ IsSequence(portalsFailed) /\ IsSequence(responsesFailed) /\ IsSequence(messagesFailed)
    /\ remainingPortals \in Seq(STRING)

\* What is true of the response on its way to being taken or dropped.
ResponseInv ==
    /\ step = "start" => fileDataPtr = NoData /\ responsesFailed = <<>>
    /\ step = "verify" => Accepted(response)
    /\ step = "text" => ~(Accepted(response) /\ Verifies(call, response))
    /\ ~IsDownload(call) => fileDataPtr = NoData

IInv == SequencesInv /\ FailuresInOrder /\ ResponseInv /\ FirstVerifiedWins

----------------------------------------------------------------------------
(* Sequences.                                                              *)

LEMMA AppendElements ==
    ASSUME NEW s, NEW r, IsSequence(s)
    PROVE  /\ IsSequence(Append(s, r))
           /\ Len(s) \in Nat /\ Len(Append(s, r)) = Len(s) + 1
           /\ \A i \in 1 .. Len(s) : Append(s, r)[i] = s[i]
           /\ Append(s, r)[Len(s) + 1] = r
<1> DEFINE S == {s[i] : i \in DOMAIN s} \cup {r}
<1>1. s \in Seq(S)
  BY DEF IsSequence
<1> DEFINE t == Append(s, r)
<1>2. /\ t \in Seq(S) /\ Len(s) \in Nat /\ Len(t) = Len(s) + 1
      /\ \A i \in 1 .. Len(s) : t[i] = s[i]
      /\ t[Len(s) + 1] = r
  BY <1>1
<1> HIDE DEF t
<1>3. IsSequence(t)
  BY <1>2 DEF IsSequence
<1> QED
  BY <1>2, <1>3 DEF t

LEMMA EmptySequence == IsSequence(<<>>) /\ Len(<<>>) = 0
BY DEF IsSequence

LEMMA HeadAndTail ==
    ASSUME NEW s \in Seq(STRING), s # <<>>
    PROVE  /\ Len(s) \in Nat /\ Len(s) > 0 /\ Tail(s) \in Seq(STRING) /\ Len(Tail(s)) = Len(s) - 1
           /\ Head(s) = s[1]
           /\ \A i \in 1 .. Len(Tail(s)) : Tail(s)[i] = s[i + 1]
OBVIOUS

----------------------------------------------------------------------------
(* The steps.                                                              *)


\* No response that failed would have been taken.
NonePassedOver ==
    \A i \in 1 .. Len(responsesFailed) :
        responsesFailed[i] # Null => ~(Accepted(responsesFailed[i]) /\ Verifies(call, responsesFailed[i]))

\* The failures so far are those of the first portals.
FailuresMatch ==
    /\ IsSequence(portalsFailed) /\ IsSequence(responsesFailed) /\ IsSequence(messagesFailed)
    /\ Len(responsesFailed) = Len(portalsFailed)
    /\ Len(messagesFailed) = Len(portalsFailed)
    /\ \A i \in 1 .. Len(portalsFailed) :
        /\ portalsFailed[i] = Portals[i]
        /\ messagesFailed[i] = IF responsesFailed[i] = Null THEN Null ELSE responsesFailed[i].content

\* The next portal is tried, or there is none.
LEMMA HelperInv ==
    ASSUME NEW portals \in Seq(STRING), remainingPortals \in Seq(STRING),
           ProgressiveFetchHelper(portals), fileDataPtr' = NoData,
           FailuresMatch', NonePassedOver',
           "op" \in DOMAIN call', Node(call) => Node(call'),
           Len(portalsFailed') + Len(portals) = Len(Portals),
           \A i \in 1 .. Len(portals) : portals[i] = Portals[Len(portalsFailed') + i]
    PROVE  IInv'
<1>1. Len(portalsFailed') \in Nat
  <2>1. \A s : IsSequence(s) => Len(s) \in Nat
    BY DEF IsSequence
  <2> QED
    BY <2>1 DEF FailuresMatch
<1>2. CASE portals = <<>>
  <2>1. /\ step' = "resolved" /\ success' = FALSE /\ remainingPortals' = remainingPortals
        /\ messages' = IF Node(call) THEN Null ELSE messagesFailed'
        /\ Len(portalsFailed') = Len(Portals)
    BY <1>1, <1>2 DEF ProgressiveFetchHelper
  <2>2. SequencesInv'
    BY <2>1 DEF SequencesInv, FailuresMatch
  <2>3. FailuresInOrder'
    BY <2>1 DEF FailuresInOrder, FailuresMatch, Trying
  <2>4. ResponseInv'
    BY <2>1 DEF ResponseInv
  <2>5. FirstVerifiedWins'
    BY <2>1 DEF FirstVerifiedWins, NonePassedOver, Trying
  <2> QED
    BY <2>2, <2>3, <2>4, <2>5 DEF IInv
<1>3. CASE portals # <<>>
  <2>1. /\ step' = "fetch" /\ portal' = Head(portals) /\ remainingPortals' = Tail(portals)
    BY <1>3 DEF ProgressiveFetchHelper
  <2>2. /\ Len(portals) \in Nat /\ Len(portals) > 0 /\ Tail(portals) \in Seq(STRING)
        /\ Len(Tail(portals)) = Len(portals) - 1 /\ Head(portals) = portals[1]
        /\ \A i \in 1 .. Len(Tail(portals)) : Tail(portals)[i] = portals[i + 1]
    BY <1>3, HeadAndTail
  <2>3. SequencesInv'
    BY <2>1, <2>2 DEF SequencesInv, FailuresMatch
  <2>4. /\ Len(portalsFailed') + 1 + Len(remainingPortals') = Len(Portals)
        /\ portal' = Portals[Len(portalsFailed') + 1]
    BY <1>1, <2>1, <2>2
  <2>5. \A i \in 1 .. Len(remainingPortals') : remainingPortals'[i] = Portals[Len(portalsFailed') + 1 + i]
    <3>1. SUFFICES ASSUME NEW i \in 1 .. Len(Tail(portals))
                   PROVE  Tail(portals)[i] = Portals[Len(portalsFailed') + 1 + i]
      BY <2>1
    <3>2. i + 1 \in 1 .. Len(portals) /\ Len(portalsFailed') + (i + 1) = Len(portalsFailed') + 1 + i
      BY <1>1, <2>2
    <3> QED
      BY <2>2, <3>2
  <2>6. FailuresInOrder'
    BY <2>1, <2>4, <2>5 DEF FailuresInOrder, FailuresMatch, Trying
  <2>7. ResponseInv'
    BY <2>1 DEF ResponseInv
  <2>8. FirstVerifiedWins'
    BY <2>1 DEF FirstVerifiedWins, NonePassedOver, Trying
  <2> QED
    BY <2>3, <2>6, <2>7, <2>8 DEF IInv
<1> QED
  BY <1>2, <1>3

\* A call begins, or begins again, with empty arrays and all the portals.
LEMMA BeginInv ==
    ASSUME Begin, fileDataPtr' = NoData, remainingPortals \in Seq(STRING),
           "op" \in DOMAIN call', Node(call) => Node(call')
    PROVE  IInv'
<1>1. /\ portalsFailed' = <<>> /\ responsesFailed' = <<>> /\ messagesFailed' = <<>>
      /\ ProgressiveFetchHelper(Portals)
  BY DEF Begin
<1>2. FailuresMatch' /\ NonePassedOver'
  BY <1>1, EmptySequence DEF FailuresMatch, NonePassedOver
<1>3. Portals \in Seq(STRING)
  BY PortalsAssumption
<1>4. /\ Len(portalsFailed') + Len(Portals) = Len(Portals)
      /\ \A i \in 1 .. Len(Portals) : Portals[i] = Portals[Len(portalsFailed') + i]
  BY <1>1, <1>3, EmptySequence
<1> QED
  BY <1>1, <1>2, <1>3, <1>4, HelperInv

\* An attempt has failed, with a response that would not have been taken or none.
LEMMA NextPortalInv ==
    ASSUME IInv, Trying, NEW r, NextPortal(r),
           r # Null => ~(Accepted(r) /\ Verifies(call, r))
    PROVE  IInv'
<1>1. /\ portalsFailed' = Append(portalsFailed, portal)
      /\ responsesFailed' = Append(responsesFailed, r)
      /\ messagesFailed' = Append(messagesFailed, IF r = Null THEN Null ELSE r.content)
      /\ ProgressiveFetchHelper(remainingPortals)
      /\ call' = call /\ fileDataPtr' = fileDataPtr
  BY DEF NextPortal
<1>2. /\ IsSequence(portalsFailed) /\ IsSequence(responsesFailed) /\ IsSequence(messagesFailed)
      /\ remainingPortals \in Seq(STRING)
  BY DEF IInv, SequencesInv
<1>3. /\ IsSequence(portalsFailed')
      /\ Len(portalsFailed) \in Nat /\ Len(portalsFailed') = Len(portalsFailed) + 1
      /\ \A i \in 1 .. Len(portalsFailed) : portalsFailed'[i] = portalsFailed[i]
      /\ portalsFailed'[Len(portalsFailed) + 1] = portal
  BY <1>1, <1>2, AppendElements
<1>4. /\ IsSequence(responsesFailed')
      /\ Len(responsesFailed) \in Nat /\ Len(responsesFailed') = Len(responsesFailed) + 1
      /\ \A i \in 1 .. Len(responsesFailed) : responsesFailed'[i] = responsesFailed[i]
      /\ responsesFailed'[Len(responsesFailed) + 1] = r
  BY <1>1, <1>2, AppendElements
<1>5. /\ IsSequence(messagesFailed')
      /\ Len(messagesFailed') = Len(messagesFailed) + 1
      /\ \A i \in 1 .. Len(messagesFailed) : messagesFailed'[i] = messagesFailed[i]
      /\ messagesFailed'[Len(messagesFailed) + 1] = IF r = Null THEN Null ELSE r.content
  BY <1>1, <1>2, AppendElements
<1>6. /\ Len(responsesFailed) = Len(portalsFailed)
      /\ Len(messagesFailed) = Len(portalsFailed)
      /\ \A i \in 1 .. Len(portalsFailed) :
            /\ portalsFailed[i] = Portals[i]
            /\ messagesFailed[i] = IF responsesFailed[i] = Null THEN Null ELSE responsesFailed[i].content
      /\ Len(portalsFailed) + 1 + Len(remainingPortals) = Len(Portals)
      /\ portal = Portals[Len(portalsFailed) + 1]
      /\ \A i \in 1 .. Len(remainingPortals) :
            remainingPortals[i] = Portals[Len(portalsFailed) + 1 + i]
  BY DEF IInv, FailuresInOrder
<1>7. FailuresMatch'
  <2>1. SUFFICES ASSUME NEW i \in 1 .. Len(portalsFailed')
                 PROVE  /\ portalsFailed'[i] = Portals[i]
                        /\ messagesFailed'[i] =
                            IF responsesFailed'[i] = Null THEN Null ELSE responsesFailed'[i].content
    BY <1>3, <1>4, <1>5, <1>6 DEF FailuresMatch
  <2>2. CASE i = Len(portalsFailed) + 1
    BY <1>3, <1>4, <1>5, <1>6, <2>2
  <2>3. CASE i # Len(portalsFailed) + 1
    <3>1. i \in 1 .. Len(portalsFailed)
      BY <1>3, <2>3
    <3> QED
      BY <1>3, <1>4, <1>5, <1>6, <3>1
  <2> QED
    BY <2>2, <2>3
<1>8. NonePassedOver'
  <2>1. \A i \in 1 .. Len(responsesFailed) :
            responsesFailed[i] # Null => ~(Accepted(responsesFailed[i]) /\ Verifies(call, responsesFailed[i]))
    BY DEF IInv, FirstVerifiedWins
  <2>2. \A i \in 1 .. Len(responsesFailed') : i \in 1 .. Len(responsesFailed) \/ responsesFailed'[i] = r
    BY <1>4
  <2>3. ASSUME NEW i \in 1 .. Len(responsesFailed'), responsesFailed'[i] # Null
        PROVE  ~(Accepted(responsesFailed'[i]) /\ Verifies(call, responsesFailed'[i]))
    BY <1>4, <2>1, <2>2, <2>3
  <2> QED
    BY <1>1, <2>3 DEF NonePassedOver
<1>9. fileDataPtr' = NoData
  BY <1>1 DEF IInv, FirstVerifiedWins
<1>10. /\ Len(portalsFailed') + Len(remainingPortals) = Len(Portals)
       /\ \A i \in 1 .. Len(remainingPortals) : remainingPortals[i] = Portals[Len(portalsFailed') + i]
  BY <1>2, <1>3, <1>6
<1>11. "op" \in DOMAIN call' /\ (Node(call) => Node(call'))
  BY <1>1 DEF IInv, SequencesInv
<1> QED
  BY <1>1, <1>2, <1>7, <1>8, <1>9, <1>10, <1>11, HelperInv

\* What changes neither the arrays nor the portals.
LEMMA SameFailures ==
    ASSUME IInv, UNCHANGED <<call, remainingPortals, failures, portal>>,
           step' \in {"fetch", "verify", "text"} => Trying,
           step' = "resolved" =>
                messages' = messagesFailed \/ (step = "resolved" /\ UNCHANGED <<success, messages>>)
    PROVE  SequencesInv' /\ FailuresInOrder' /\ NonePassedOver'
<1>1. UNCHANGED <<call, remainingPortals, portalsFailed, responsesFailed, messagesFailed, portal>>
  BY DEF failures
<1>2. SequencesInv'
  BY <1>1 DEF IInv, SequencesInv
<1>3. FailuresInOrder'
  BY <1>1 DEF IInv, FailuresInOrder, Trying
<1>4. NonePassedOver'
  BY <1>1 DEF IInv, FirstVerifiedWins, NonePassedOver
<1> QED
  BY <1>2, <1>3, <1>4

\* A call that is at its end changes nothing that matters here.
LEMMA EndsInv ==
    ASSUME IInv, step \in {"start", "resolved"},
           step' \in {"answered", "hung"},
           UNCHANGED <<call, remainingPortals, failures, attempt, fileDataPtr, result>>
    PROVE  IInv'
<1>1. UNCHANGED <<call, remainingPortals, failures, portal, response, fileDataPtr, success, messages>>
  BY DEF attempt, result
<1>2. SequencesInv' /\ FailuresInOrder' /\ NonePassedOver'
  BY <1>1, SameFailures
<1>3. ResponseInv'
  BY <1>1 DEF IInv, ResponseInv
<1>4. FirstVerifiedWins'
  BY <1>2 DEF NonePassedOver, FirstVerifiedWins, Trying
<1> QED
  BY <1>2, <1>3, <1>4 DEF IInv

LEMMA FetchAnswersInv ==
    ASSUME IInv, NEW r, FetchAnswers(r)
    PROVE  IInv'
<1>1. /\ step = "fetch" /\ response' = r /\ step' = IF Accepted(r) THEN "verify" ELSE "text"
      /\ UNCHANGED <<call, remainingPortals, portal, failures, fileDataPtr, success>>
  BY DEF FetchAnswers, result
<1>2. SequencesInv' /\ FailuresInOrder' /\ NonePassedOver'
  BY <1>1, SameFailures DEF Trying
<1>3. fileDataPtr' = NoData
  BY <1>1 DEF IInv, FirstVerifiedWins, Trying
<1>4. ResponseInv'
  <2>1. step' = "verify" => Accepted(response')
    BY <1>1
  <2>2. step' = "text" => ~Accepted(response')
    BY <1>1
  <2> QED
    BY <1>1, <1>3, <2>1, <2>2 DEF ResponseInv
<1>5. FirstVerifiedWins'
  BY <1>1, <1>2, <1>3 DEF NonePassedOver, FirstVerifiedWins
<1> QED
  BY <1>2, <1>4, <1>5 DEF IInv

LEMMA TextFailsInv == ASSUME IInv, TextFails PROVE IInv'
<1>1. /\ step' = "hung"
      /\ UNCHANGED <<call, remainingPortals, failures, portal, response, fileDataPtr, success, messages>>
  BY DEF TextFails, attempt, result
<1>2. SequencesInv' /\ FailuresInOrder' /\ NonePassedOver'
  BY <1>1, SameFailures
<1>3. ResponseInv'
  BY <1>1 DEF IInv, ResponseInv
<1>4. FirstVerifiedWins'
  BY <1>1, <1>2 DEF NonePassedOver, FirstVerifiedWins, Trying
<1> QED
  BY <1>2, <1>3, <1>4 DEF IInv

LEMMA VerifyRejectsInv == ASSUME IInv, VerifyRejects PROVE IInv'
<1>1. /\ step' = "hung"
      /\ UNCHANGED <<call, remainingPortals, failures, portal, response, fileDataPtr, success, messages>>
  BY DEF VerifyRejects, attempt, result
<1>2. SequencesInv' /\ FailuresInOrder' /\ NonePassedOver'
  BY <1>1, SameFailures
<1>3. ResponseInv'
  BY <1>1 DEF IInv, ResponseInv
<1>4. FirstVerifiedWins'
  BY <1>1, <1>2 DEF NonePassedOver, FirstVerifiedWins, Trying
<1> QED
  BY <1>2, <1>3, <1>4 DEF IInv

\* The file of a response is kept if and only if the response is taken.
LEMMA VerifyResolvesInv == ASSUME IInv, VerifyResolves PROVE IInv'
<1>1. /\ step = "verify" /\ fileDataPtr' = FileDataPtr
      /\ UNCHANGED <<call, remainingPortals, failures, portal, response>>
      /\ IF Verifies(call, response)
         THEN step' = "resolved" /\ success' = TRUE /\ messages' = messagesFailed
         ELSE step' = "text" /\ UNCHANGED success
  BY DEF VerifyResolves, attempt, result
<1>2. SequencesInv' /\ FailuresInOrder' /\ NonePassedOver'
  BY <1>1, SameFailures DEF Trying
<1>3. Accepted(response) /\ fileDataPtr = NoData
  BY <1>1 DEF IInv, ResponseInv, FirstVerifiedWins, Trying
<1>4. ~IsDownload(call) => fileDataPtr' = NoData
  BY <1>1, <1>3 DEF FileDataPtr
<1>5. CASE Verifies(call, response)
  <2>1. step' = "resolved" /\ success' = TRUE
    BY <1>1, <1>5
  <2>2. ResponseInv'
    BY <1>1, <1>4, <2>1 DEF ResponseInv
  <2>3. IsDownload(call) => fileDataPtr' = FileDataPtr'
    BY <1>1, <1>5 DEF FileDataPtr
  <2>4. FirstVerifiedWins'
    BY <1>1, <1>2, <1>3, <1>5, <2>1, <2>3 DEF NonePassedOver, FirstVerifiedWins, Trying
  <2> QED
    BY <1>2, <2>2, <2>4 DEF IInv
<1>6. CASE ~Verifies(call, response)
  <2>1. step' = "text" /\ fileDataPtr' = NoData
    BY <1>1, <1>3, <1>6 DEF FileDataPtr
  <2>2. ResponseInv'
    BY <1>1, <1>6, <2>1 DEF ResponseInv
  <2>3. FirstVerifiedWins'
    BY <1>2, <2>1 DEF NonePassedOver, FirstVerifiedWins
  <2> QED
    BY <1>2, <2>2, <2>3 DEF IInv
<1> QED
  BY <1>5, <1>6

LEMMA ProgressiveFetchInv == ASSUME IInv, ProgressiveFetch PROVE IInv'
<1>1. CASE FetchFails
  BY <1>1, NextPortalInv DEF FetchFails, Trying
<1>2. CASE TextRead
  <2>1. step = "text" /\ NextPortal(response) /\ Trying
    BY <1>2 DEF TextRead, Trying
  <2>2. ~(Accepted(response) /\ Verifies(call, response))
    BY <2>1 DEF IInv, ResponseInv
  <2> QED
    BY <2>1, <2>2, NextPortalInv
<1> QED
  BY <1>1, <1>2, FetchAnswersInv, TextFailsInv, VerifyResolvesInv, VerifyRejectsInv DEF ProgressiveFetch

----------------------------------------------------------------------------
(* The theorems.                                                           *)

LEMMA InitInv == ASSUME Init PROVE IInv
<1>1. /\ step = "start" /\ remainingPortals = <<>> /\ portalsFailed = <<>>
      /\ responsesFailed = <<>> /\ messagesFailed = <<>> /\ fileDataPtr = NoData
      /\ "op" \in DOMAIN call
  BY CallsAssumption DEF Init
<1> QED
  BY <1>1, EmptySequence DEF IInv, SequencesInv, FailuresInOrder, ResponseInv, FirstVerifiedWins, Trying

LEMMA NextInv == ASSUME IInv, [Next]_vars PROVE IInv'
<1>0. remainingPortals \in Seq(STRING) /\ "op" \in DOMAIN call
  BY DEF IInv, SequencesInv
<1>1. CASE UNCHANGED vars
  <2>1. UNCHANGED <<step, call, remainingPortals, failures, portal, response, fileDataPtr, success, messages>>
    BY <1>1 DEF vars, attempt, result
  <2>2. SequencesInv' /\ FailuresInOrder' /\ NonePassedOver'
    BY <2>1, SameFailures DEF Trying
  <2>3. ResponseInv'
    BY <2>1, <2>2 DEF IInv, ResponseInv, failures
  <2>4. FirstVerifiedWins'
    BY <2>1, <2>2 DEF IInv, NonePassedOver, FirstVerifiedWins, Trying, FileDataPtr, failures
  <2> QED
    BY <2>2, <2>3, <2>4 DEF IInv
<1>2. CASE Call
  <2>1. Begin /\ fileDataPtr' = fileDataPtr /\ step = "start" /\ call' = call
    BY <1>2 DEF Call
  <2>2. fileDataPtr' = NoData
    BY <2>1 DEF IInv, ResponseInv
  <2> QED
    BY <1>0, <2>1, <2>2, BeginInv
<1>3. CASE CallRefused
  BY <1>3, EndsInv DEF CallRefused, Hang, Reply
<1>4. CASE ProgressiveFetch
  BY <1>4, ProgressiveFetchInv
<1>5. ASSUME step = "resolved", Hang \/ \E kind, data : Reply(kind, data) PROVE IInv'
  BY <1>5, EndsInv DEF Hang, Reply
<1>6. CASE DownloadEnds
  BY <1>5, <1>6 DEF DownloadEnds
<1>7. CASE SecureUploadEnds
  BY <1>5, <1>7 DEF SecureUploadEnds
<1>8. CASE NodeUploadEnds
  BY <1>5, <1>8 DEF NodeUploadEnds
<1>9. CASE ReadEntryEnds
  BY <1>5, <1>9 DEF ReadEntryEnds, NoEntry
<1>10. CASE NodeReadEnds
  BY <1>5, <1>10 DEF NodeReadEnds, NoEntry
<1>11. CASE OverwriteGoesOn
  <2>1. CASE (success \/ (~NullBefore404 /\ Any404)) /\ EncodesU64(NextRevision)
    <3>1. /\ Begin /\ fileDataPtr' = fileDataPtr /\ call.op = "overwriteRead"
          /\ call' = [call EXCEPT !.op = "overwriteWrite", !.revision = NextRevision]
      BY <1>11, <2>1 DEF OverwriteGoesOn
    <3>2. fileDataPtr' = NoData
      BY <3>1 DEF IInv, ResponseInv, IsDownload
    <3>3. PICK revision : revision = NextRevision
      OBVIOUS
    <3>4. call' = [call EXCEPT !.op = "overwriteWrite", !.revision = revision]
      BY <3>1, <3>3
    <3>5. "op" \in DOMAIN call' /\ Node(call')
      BY <1>0, <3>4 DEF Node
    <3> QED
      BY <1>0, <3>1, <3>2, <3>5, BeginInv
  <2>2. CASE ~((success \/ (~NullBefore404 /\ Any404)) /\ EncodesU64(NextRevision))
    BY <1>5, <1>11, <2>2 DEF OverwriteGoesOn, NoEntry
  <2> QED
    BY <2>1, <2>2
<1>12. CASE WriteEnds
  BY <1>5, <1>12 DEF WriteEnds
<1> QED
  BY <1>1, <1>2, <1>3, <1>4, <1>6, <1>7, <1>8, <1>9, <1>10, <1>11, <1>12 DEF Next

LEMMA Invariant == Spec => []IInv
<1>1. Init => IInv
  BY InitInv
<1>2. IInv /\ [Next]_vars => IInv'
  BY NextInv
<1> QED
  BY <1>1, <1>2, PTL DEF Spec

\* The arrays of failures, the current portal and those that remain are in step,
\* for every list of portals and every mixture of failures.
THEOREM FailuresStayInOrder == Spec => []FailuresInOrder
<1>1. IInv => FailuresInOrder
  BY DEF IInv
<1> QED
  BY <1>1, Invariant, PTL

\* The response that is taken is the first that satisfies the verify function,
\* whatever that function is, and without one every portal was tried.
THEOREM FirstVerifiedTaken == Spec => []FirstVerifiedWins
<1>1. IInv => FirstVerifiedWins
  BY DEF IInv
<1> QED
  BY <1>1, Invariant, PTL

----------------------------------------------------------------------------
(***************************************************************************)
(* Recursion.  Every function that the model defines by recursion takes a  *)
(* value to a smaller one, or stops.                                       *)
(***************************************************************************)
LEMMA LeastOf ==
    ASSUME NEW S \in SUBSET Nat, S # {}
    PROVE  \E n \in S : \A m \in S : n <= m
<1> DEFINE R == OpToRel(<, Nat)
<1>1. \A x, y \in Nat : y < x => <<y, x>> \in R
  BY DEF OpToRel
<1>2. IsWellFoundedOn(R, Nat)
  BY NatLessThanWellFounded
<1> HIDE DEF R
<1>3. PICK n \in S : \A m \in S : ~(<<m, n>> \in R)
  BY <1>2, WFMin
<1>4. ASSUME NEW m \in S PROVE n <= m
  <2>1. n \in Nat /\ m \in Nat
    OBVIOUS
  <2>2. ~(m < n)
    BY <1>1, <1>3, <2>1
  <2> QED
    BY <2>1, <2>2
<1> QED
  BY <1>4

LEMMA StrongInduction ==
    ASSUME NEW S, \A n \in Nat : (\A m \in Nat : m < n => m \in S) => n \in S
    PROVE  Nat \subseteq S
<1>1. SUFFICES ASSUME Nat \ S # {} PROVE FALSE
  OBVIOUS
<1>2. PICK n \in Nat \ S : \A m \in Nat \ S : n <= m
  BY <1>1, LeastOf
<1>3. \A m \in Nat : m < n => m \in S
  BY <1>2
<1> QED
  BY <1>2, <1>3

\* The value that f gives to x if it takes what f gives to those after x.
Recurs(stop, out, next, after, f, x) == IF x \in stop THEN out[x] ELSE after[f[next[x]]]

Solves(D, size, R, stop, out, next, after, f, n) ==
    f \in [D -> R] /\ \A x \in D : size[x] <= n => f[x] = Recurs(stop, out, next, after, f, x)

Descends(D, R, size, stop, out, next, after) ==
    /\ size \in [D -> Nat] /\ out \in [D -> R] /\ next \in [D -> D] /\ after \in [R -> R]
    /\ \A x \in D \ stop : size[next[x]] < size[x]

\* A function whose recursion descends exists.
LEMMA RecursionOn ==
    ASSUME NEW D, NEW R, NEW size, NEW stop, NEW out, NEW next, NEW after,
           Descends(D, R, size, stop, out, next, after)
    PROVE  \E f \in [D -> R] : \A x \in D : f[x] = Recurs(stop, out, next, after, f, x)
<1>a. /\ size \in [D -> Nat] /\ out \in [D -> R] /\ next \in [D -> D] /\ after \in [R -> R]
      /\ \A x \in D \ stop : size[next[x]] < size[x]
  BY DEF Descends
<1> DEFINE Good(f, n) == Solves(D, size, R, stop, out, next, after, f, n)
           V(f, x) == Recurs(stop, out, next, after, f, x)
<1>0. \A f, n : Good(f, n) <=> f \in [D -> R] /\ \A x \in D : size[x] <= n => f[x] = V(f, x)
  BY DEF Solves
<1>1. \A f, x : V(f, x) = IF x \in stop THEN out[x] ELSE after[f[next[x]]]
  BY DEF Recurs
<1> HIDE DEF Good, V
<1>2. ASSUME NEW f, NEW g, NEW m \in Nat, NEW n \in Nat, Good(f, m), Good(g, n),
             NEW x \in D, size[x] <= m, size[x] <= n
      PROVE  f[x] = g[x]
  <2> DEFINE S == {k \in Nat : \E y \in D : size[y] = k /\ k <= m /\ k <= n /\ f[y] # g[y]}
  <2>1. SUFFICES ASSUME S # {} PROVE FALSE
    BY <1>a, <1>2
  <2>2. PICK k \in S : \A j \in S : k <= j
    <3>1. S \in SUBSET Nat
      OBVIOUS
    <3> HIDE DEF S
    <3> QED
      BY <2>1, <3>1, LeastOf
  <2>3. PICK y \in D : size[y] = k /\ k \in Nat /\ k <= m /\ k <= n /\ f[y] # g[y]
    OBVIOUS
  <2>4. f[y] = V(f, y) /\ g[y] = V(g, y)
    BY <1>0, <1>2, <2>3
  <2>5. y \notin stop
    BY <1>1, <2>3, <2>4
  <2>6. PICK z : z = next[y]
    OBVIOUS
  <2>7. z \in D /\ size[z] < k /\ size[z] \in Nat
    BY <1>a, <2>3, <2>5, <2>6
  <2>8. f[z] # g[z]
    BY <1>1, <2>3, <2>4, <2>5, <2>6
  <2>9. size[z] \in S
    BY <2>3, <2>7, <2>8
  <2> HIDE DEF S
  <2>10. k <= size[z]
    BY <2>2, <2>9
  <2> QED
    BY <2>3, <2>7, <2>10
<1>3. ASSUME NEW n \in Nat, n = 0 \/ \E f : Good(f, n - 1) PROVE \E f : Good(f, n)
  <2>1. CASE n = 0
    <3>1. \A x \in D : size[x] <= 0 => x \in stop
      BY <1>a
    <3>2. Good(out, n)
      BY <1>a, <1>0, <1>1, <2>1, <3>1
    <3> QED
      BY <3>2
  <2>2. ASSUME NEW f, Good(f, n - 1), n # 0 PROVE \E g : Good(g, n)
    <3>1. f \in [D -> R] /\ \A x \in D : size[x] <= n - 1 => f[x] = V(f, x)
      BY <1>0, <2>2
    <3> DEFINE g == [x \in D |-> V(f, x)]
    <3>2. \A x \in D : V(f, x) \in R
      BY <1>a, <1>1, <3>1
    <3>3. g \in [D -> R] /\ \A x \in D : g[x] = V(f, x)
      BY <3>2
    <3> HIDE DEF g
    <3>4. ASSUME NEW x \in D, size[x] <= n PROVE g[x] = V(g, x)
      <4>1. CASE x \in stop
        BY <1>1, <3>3, <4>1
      <4>2. CASE x \notin stop
        <5>1. PICK z : z = next[x]
          OBVIOUS
        <5>2. z \in D /\ size[z] < size[x] /\ size[z] \in Nat /\ size[x] \in Nat
          BY <1>a, <4>2, <5>1
        <5>3. size[z] <= n - 1
          BY <3>4, <5>2
        <5>4. g[z] = f[z]
          BY <3>1, <3>3, <5>2, <5>3
        <5> QED
          BY <1>1, <3>3, <4>2, <5>1, <5>4
      <4> QED
        BY <4>1, <4>2
    <3>5. Good(g, n)
      BY <1>0, <3>3, <3>4
    <3> QED
      BY <3>5
  <2> QED
    BY <1>3, <2>1, <2>2
<1>4. ASSUME NEW n \in Nat PROVE \E f : Good(f, n)
  <2> DEFINE S == {k \in Nat : \E f : Good(f, k)}
  <2>1. ASSUME NEW k \in Nat, \A m \in Nat : m < k => m \in S PROVE k \in S
    <3>1. k # 0 => k - 1 \in Nat /\ k - 1 < k
      OBVIOUS
    <3>2. k = 0 \/ \E f : Good(f, k - 1)
      BY <2>1, <3>1
    <3>3. \E f : Good(f, k)
      BY <1>3, <3>2
    <3> QED
      BY <3>3
  <2> HIDE DEF S
  <2>2. n \in S
    BY <2>1, StrongInduction
  <2> QED
    BY <2>2 DEF S
<1> DEFINE F(n) == CHOOSE f : Good(f, n)
           h == [x \in D |-> F(size[x])[x]]
<1>5. \A n \in Nat : Good(F(n), n)
  BY <1>4
<1> HIDE DEF F
<1>6. \A x \in D : size[x] \in Nat /\ h[x] = F(size[x])[x] /\ F(size[x]) \in [D -> R]
  BY <1>a, <1>0, <1>5
<1>7. h \in [D -> R]
  BY <1>6
<1> HIDE DEF h
<1>8. ASSUME NEW x \in D PROVE h[x] = V(h, x)
  <2>1. PICK f, n : f = F(size[x]) /\ n = size[x]
    OBVIOUS
  <2>2. n \in Nat /\ Good(f, n) /\ h[x] = f[x]
    BY <1>5, <1>6, <2>1
  <2>3. f[x] = V(f, x)
    BY <1>0, <2>1, <2>2
  <2>4. CASE x \in stop
    BY <1>1, <2>2, <2>3, <2>4
  <2>5. CASE x \notin stop
    <3>1. PICK z, g, m : z = next[x] /\ m = size[z] /\ g = F(m)
      OBVIOUS
    <3>2. z \in D /\ m < n /\ m \in Nat
      BY <1>a, <2>1, <2>5, <3>1
    <3>3. Good(g, m) /\ h[z] = g[z]
      BY <1>5, <1>6, <3>1, <3>2
    <3>4. g[z] = f[z]
      BY <1>2, <2>2, <3>1, <3>2, <3>3
    <3> QED
      BY <1>1, <2>2, <2>3, <2>5, <3>1, <3>3, <3>4
  <2> QED
    BY <2>4, <2>5
<1> QED
  BY <1>7, <1>8 DEF V

----------------------------------------------------------------------------
(***************************************************************************)
(* The sizes of subtrees: powers of two.                                   *)
(***************************************************************************)
LEMMA TreeSizesAre == TreeSizes = {1, 2, 4, 8, 16, 32, 64, 128, 256, 512, 1024}
<1>1. /\ 2^0 = 1 /\ 2^1 = 2 /\ 2^2 = 4 /\ 2^3 = 8 /\ 2^4 = 16 /\ 2^5 = 32
      /\ 2^6 = 64 /\ 2^7 = 128 /\ 2^8 = 256 /\ 2^9 = 512 /\ 2^10 = 1024
  BY SMT
<1>2. 0 .. 10 = {0, 1, 2, 3, 4, 5, 6, 7, 8, 9, 10}
  BY SMT
<1>3. {2^k : k \in 0 .. 10} = {2^k : k \in {0, 1, 2, 3, 4, 5, 6, 7, 8, 9, 10}}
  BY <1>2, Zenon
<1>4. {2^k : k \in {0, 1, 2, 3, 4, 5, 6, 7, 8, 9, 10}}
      = {2^0, 2^1, 2^2, 2^3, 2^4, 2^5, 2^6, 2^7, 2^8, 2^9, 2^10}
  BY SMT
<1> QED
  BY <1>1, <1>3, <1>4, SMT DEF TreeSizes

\* What one size says of a number.
LEMMA SizeParity ==
    ASSUME NEW s \in TreeSizes, NEW m \in Nat, NEW n \in Nat
    PROVE  /\ s \in Nat /\ s >= 1 /\ s <= 1024
           /\ (m % s = 0) /\ (n % s = 0) => (m + n) % s = 0
           /\ n % (2 * s) = 0 => n % s = 0 /\ (n + s) % (2 * s) # 0 /\ (n + s) % s = 0
           /\ s <= 512 => 2 * s \in TreeSizes
  BY TreeSizesAre, SMT

\* A larger size is a multiple of twice a smaller one.
LEMMA SizeOrder ==
    ASSUME NEW a \in TreeSizes, NEW b \in TreeSizes, a < b, NEW n \in Nat
    PROVE  2 * a <= b /\ (n % b = 0 => n % (2 * a) = 0)
  BY TreeSizesAre, SMT

LEMMA SectorBlocksIs == SectorBlocks = 1024
  BY SMT DEF SectorBlocks, SECTOR_SIZE, BlockSize

\* There is a subtree that begins where the known blocks of a sector end.
LEMMA NextSize ==
    ASSUME NEW k \in 0 .. 1023
    PROVE  /\ NextSubtreeSize(k, SectorBlocks) \in TreeSizes
           /\ k % NextSubtreeSize(k, SectorBlocks) = 0
           /\ k + NextSubtreeSize(k, SectorBlocks) <= 1024
<1> DEFINE fits(s) == (k % s) = 0 /\ s <= 1024 - k
<1>1. \E s \in TreeSizes : fits(s) /\ ~fits(2 * s)
  <2>1. fits(1) /\ ~fits(2 * 1024)
    BY SMT
  <2> QED
    BY <2>1, TreeSizesAre, SMT
<1>2. NextSubtreeSize(k, SectorBlocks) = CHOOSE s \in TreeSizes : fits(s) /\ ~fits(2 * s)
  BY SectorBlocksIs DEF NextSubtreeSize
<1>3. PICK s : s = NextSubtreeSize(k, SectorBlocks)
  OBVIOUS
<1>4. s \in TreeSizes /\ fits(s)
  BY <1>1, <1>2, <1>3
<1> QED
  BY <1>3, <1>4, SizeParity, SMT

LEMMA AppendIsSeq ==
    ASSUME NEW S, NEW s \in Seq(S), NEW e \in S
    PROVE  Append(s, e) \in Seq(S) /\ Len(Append(s, e)) = Len(s) + 1
  OBVIOUS

LEMMA PrefixIsSeq ==
    ASSUME NEW S, NEW s \in Seq(S), NEW n \in 0 .. Len(s)
    PROVE  /\ SubSeq(s, 1, n) \in Seq(S) /\ Len(SubSeq(s, 1, n)) = n
           /\ \A i \in 1 .. n : SubSeq(s, 1, n)[i] = s[i]
  OBVIOUS

LEMMA CombineIs ==
    ASSUME NEW x \in Subtree, NEW y \in Subtree
    PROVE  Combine(x, y) \in Subtree /\ Combine(x, y).size = 2 * x.size
<1>1. /\ x.size \in Nat /\ x.root \in (DOMAIN Layout \cup {""}) \X Nat \X Nat
      /\ y.root \in (DOMAIN Layout \cup {""}) \X Nat \X Nat
  BY DEF Subtree
<1>2. NoRoot \in (DOMAIN Layout \cup {""}) \X Nat \X Nat
  BY DEF NoRoot
<1>3. <<x.root[1], x.root[2], y.root[3]>> \in (DOMAIN Layout \cup {""}) \X Nat \X Nat
  BY <1>1
<1>4. PICK r : r \in (DOMAIN Layout \cup {""}) \X Nat \X Nat /\ Combine(x, y) = [size |-> 2 * x.size, root |-> r]
  <2>1. Combine(x, y) = [size |-> 2 * x.size,
                         root |-> IF x.root[1] = y.root[1] /\ x.root[3] = y.root[2]
                                  THEN <<x.root[1], x.root[2], y.root[3]>>
                                  ELSE NoRoot]
    BY DEF Combine
  <2> QED
    BY <1>2, <1>3, <2>1
<1>5. PICK roots, c, z : roots = (DOMAIN Layout \cup {""}) \X Nat \X Nat /\ c = Combine(x, y) /\ z = 2 * x.size
  OBVIOUS
<1>6. Subtree = [size : Nat, root : roots]
  BY <1>5, Zenon DEF Subtree
<1>7. c = [size |-> z, root |-> r] /\ r \in roots /\ z \in Nat
  <2>1. r \in roots /\ c = [size |-> z, root |-> r]
    BY <1>4, <1>5, Zenon
  <2>2. PICK a : a = x.size
    OBVIOUS
  <2>3. a \in Nat
    BY <1>1, <2>2, Zenon
  <2>4. z = 2 * a
    BY <1>5, <2>2, Zenon
  <2>5. z \in Nat
    BY <2>3, <2>4
  <2> QED
    BY <2>1, <2>5
<1>8. c \in [size : Nat, root : roots] /\ c.size = z
  BY <1>7
<1> QED
  BY <1>5, <1>6, <1>8

Merged(stack) ==
    LET n == Len(stack) IN Append(SubSeq(stack, 1, n - 2), Combine(stack[n - 1], stack[n]))

LEMMA MergedIs ==
    ASSUME NEW stack \in Seq(Subtree), Len(stack) >= 2
    PROVE  Merged(stack) \in Seq(Subtree) /\ Len(Merged(stack)) = Len(stack) - 1
<1> DEFINE n == Len(stack)
           c == Combine(stack[n - 1], stack[n])
           t == SubSeq(stack, 1, n - 2)
<1>1. n \in Nat /\ stack[n] \in Subtree /\ stack[n - 1] \in Subtree
  OBVIOUS
<1>2. c \in Subtree
  BY <1>1, CombineIs
<1>3. t \in Seq(Subtree) /\ Len(t) = n - 2
  <2>1. n - 2 \in 0 .. Len(stack)
    BY <1>1
  <2> QED
    BY <2>1, PrefixIsSeq
<1> HIDE DEF c, t
<1>4. Append(t, c) \in Seq(Subtree) /\ Len(Append(t, c)) = n - 1
  <2>1. Append(t, c) \in Seq(Subtree) /\ Len(Append(t, c)) = Len(t) + 1
    BY <1>2, <1>3, AppendIsSeq
  <2> QED
    BY <1>1, <1>3, <2>1
<1> QED
  BY <1>4 DEF Merged, c, t

\* No subtree is combined with the last: there is none, or it is larger, or
\* smaller, and then the stack is lost.
Settled(stack) == Len(stack) < 2 \/ stack[Len(stack)].size # stack[Len(stack) - 1].size

SettlesAs(stack) ==
    IF Len(stack) < 2 \/ stack[Len(stack)].size < stack[Len(stack) - 1].size THEN stack ELSE <<>>

LEMMA AddSubtreeIs ==
    /\ AddSubtreeToProofStack \in [Seq(Subtree) -> Seq(Subtree)]
    /\ \A stack \in Seq(Subtree) :
           AddSubtreeToProofStack[stack] =
               IF Settled(stack) THEN SettlesAs(stack) ELSE AddSubtreeToProofStack[Merged(stack)]
<1> DEFINE D == Seq(Subtree)
           stop == {stack \in D : Settled(stack)}
           size == [stack \in D |-> Len(stack)]
           out == [stack \in D |-> SettlesAs(stack)]
           next == [stack \in D |-> IF Settled(stack) THEN stack ELSE Merged(stack)]
           after == [stack \in D |-> stack]
           Body(f, stack) == LET n == Len(stack)
                                 sizeOf(i) == stack[i].size
                             IN  IF n < 2 \/ sizeOf(n) < sizeOf(n - 1)
                                 THEN stack
                                 ELSE IF sizeOf(n) > sizeOf(n - 1)
                                      THEN <<>>
                                      ELSE f[Append(SubSeq(stack, 1, n - 2), Combine(stack[n - 1], stack[n]))]
           B(f) == [stack \in Seq(Subtree) |-> Body(f, stack)]
<1>1. \A stack \in D : ~Settled(stack) => Merged(stack) \in D /\ Len(Merged(stack)) < Len(stack) /\ Len(stack) \in Nat
  BY MergedIs DEF Settled
<1>2. \A stack \in D : SettlesAs(stack) \in D
  BY DEF SettlesAs
<1>3. /\ size \in [D -> Nat] /\ out \in [D -> D] /\ next \in [D -> D] /\ after \in [D -> D]
      /\ \A x \in D \ stop : size[next[x]] < size[x]
  <2>1. size \in [D -> Nat] /\ out \in [D -> D] /\ next \in [D -> D] /\ after \in [D -> D]
    BY <1>1, <1>2
  <2>2. ASSUME NEW x \in D \ stop PROVE size[next[x]] < size[x]
    <3>1. x \in D /\ ~Settled(x) /\ next[x] = Merged(x) /\ Merged(x) \in D
      BY <1>1
    <3>2. size[Merged(x)] = Len(Merged(x)) /\ size[x] = Len(x)
      BY <3>1
    <3> QED
      BY <1>1, <3>1, <3>2
  <2> QED
    BY <2>1, <2>2
<1>4. \A f \in [D -> D] : \A x \in D : Recurs(stop, out, next, after, f, x)
                                       = IF Settled(x) THEN SettlesAs(x) ELSE f[Merged(x)]
  <2> SUFFICES ASSUME NEW f \in [D -> D], NEW x \in D
               PROVE  Recurs(stop, out, next, after, f, x) = IF Settled(x) THEN SettlesAs(x) ELSE f[Merged(x)]
    OBVIOUS
  <2>1. x \in stop <=> Settled(x)
    OBVIOUS
  <2>2. out[x] = SettlesAs(x) /\ (~Settled(x) => next[x] = Merged(x) /\ Merged(x) \in D)
    BY <1>1
  <2>3. ~Settled(x) => after[f[Merged(x)]] = f[Merged(x)]
    BY <1>1
  <2> HIDE DEF stop, out, next, after
  <2> QED
    BY <2>1, <2>2, <2>3 DEF Recurs
<1> HIDE DEF D, size, stop, out, next, after
<1>5. PICK f \in [D -> D] : \A x \in D : f[x] = IF Settled(x) THEN SettlesAs(x) ELSE f[Merged(x)]
  <2>1. Descends(D, D, size, stop, out, next, after)
    BY <1>3 DEF Descends
  <2>2. \E f \in [D -> D] : \A x \in D : f[x] = Recurs(stop, out, next, after, f, x)
    BY <2>1, RecursionOn
  <2> QED
    BY <1>4, <2>2
<1>6. ASSUME NEW g, NEW x \in Seq(Subtree)
      PROVE  Body(g, x) = IF Settled(x) THEN SettlesAs(x) ELSE g[Merged(x)]
  <2>1. PICK n, l, k : n = Len(x) /\ l = x[n].size /\ k = x[n - 1].size
    OBVIOUS
  <2>2. n \in Nat /\ (n >= 2 => l \in Nat /\ k \in Nat)
    <3>1. \A i \in 1 .. Len(x) : x[i] \in Subtree
      OBVIOUS
    <3>2. \A y \in Subtree : y.size \in Nat
      BY DEF Subtree
    <3> QED
      BY <2>1, <3>1, <3>2
  <2>3. (Settled(x) <=> n < 2 \/ l # k) /\ SettlesAs(x) = IF n < 2 \/ l < k THEN x ELSE <<>>
    BY <2>1 DEF Settled, SettlesAs
  <2>4. Merged(x) = Append(SubSeq(x, 1, n - 2), Combine(x[n - 1], x[n]))
    BY <2>1 DEF Merged
  <2>5. Body(g, x) = IF n < 2 \/ l < k THEN x ELSE IF l > k THEN <<>> ELSE g[Merged(x)]
    BY <2>1, <2>4
  <2> HIDE DEF Body
  <2> QED
    BY <2>2, <2>3, <2>5
<1> HIDE DEF Body
<1>7. f = B(f)
  <2>1. f = [x \in Seq(Subtree) |-> f[x]]
    BY <1>5 DEF D
  <2>2. \A x \in Seq(Subtree) : f[x] = Body(f, x)
    BY <1>5, <1>6 DEF D
  <2> QED
    BY <2>1, <2>2
<1>8. AddSubtreeToProofStack = B(AddSubtreeToProofStack)
  <2>1. AddSubtreeToProofStack = CHOOSE g : g = B(g)
    BY DEF AddSubtreeToProofStack, Body
  <2> HIDE DEF B
  <2> QED
    BY <1>7, <2>1
<1> HIDE DEF B
<1>9. PICK a : a = AddSubtreeToProofStack
  OBVIOUS
<1>10. \A x \in Seq(Subtree) : a[x] = IF Settled(x) THEN SettlesAs(x) ELSE a[Merged(x)]
  <2>1. \A x \in Seq(Subtree) : a[x] = Body(a, x)
    BY <1>8, <1>9 DEF B
  <2> QED
    BY <1>6, <2>1
<1>11. a = [x \in Seq(Subtree) |-> a[x]]
  BY <1>8, <1>9 DEF B
<1> DEFINE S == {n \in Nat : \A x \in Seq(Subtree) : Len(x) = n => a[x] \in Seq(Subtree)}
<1>12. ASSUME NEW n \in Nat, \A m \in Nat : m < n => m \in S PROVE n \in S
  <2>1. ASSUME NEW x \in Seq(Subtree), Len(x) = n PROVE a[x] \in Seq(Subtree)
    <3>1. CASE Settled(x)
      BY <1>2, <1>10, <3>1 DEF D
    <3>2. CASE ~Settled(x)
      <4>1. PICK y : y = Merged(x)
        OBVIOUS
      <4>2. y \in Seq(Subtree) /\ Len(y) < n /\ Len(y) \in Nat
        BY <1>1, <2>1, <3>2, <4>1 DEF D
      <4>3. a[y] \in Seq(Subtree)
        BY <1>12, <4>2
      <4> QED
        BY <1>10, <3>2, <4>1, <4>3
    <3> QED
      BY <3>1, <3>2
  <2> QED
    BY <2>1
<1>13. \A x \in Seq(Subtree) : a[x] \in Seq(Subtree)
  <2> HIDE DEF S
  <2>1. Nat \subseteq S
    BY <1>12, StrongInduction
  <2> QED
    BY <2>1 DEF S
<1> QED
  BY <1>9, <1>10, <1>11, <1>13

----------------------------------------------------------------------------
(***************************************************************************)
(* The stack of a sector of which k blocks are known: subtrees one after   *)
(* the other, each where one of twice its size could begin.                *)
(***************************************************************************)
\* ends[i] is where the i-th subtree ends.
EndsAt(stack, ends, k) ==
    /\ stack \in Seq(Subtree)
    /\ ends \in [0 .. Len(stack) -> Nat] /\ ends[0] = 0 /\ ends[Len(stack)] = k
    /\ \A i \in 1 .. Len(stack) :
        stack[i].size \in TreeSizes /\ ends[i] = ends[i - 1] + stack[i].size

Aligned(stack, ends, n) == \A i \in 1 .. n : ends[i - 1] % (2 * stack[i].size) = 0

Covers(stack, k) == \E ends : EndsAt(stack, ends, k) /\ Aligned(stack, ends, Len(stack))

\* The last was just added.
Grown(stack, k) ==
    /\ stack # <<>>
    /\ \E ends : /\ EndsAt(stack, ends, k) /\ Aligned(stack, ends, Len(stack) - 1)
                 /\ ends[Len(stack) - 1] % stack[Len(stack)].size = 0

LEMMA CoversGrown ==
    ASSUME NEW stack, NEW k \in Nat, Covers(stack, k), NEW x \in Subtree,
           x.size \in TreeSizes, k % x.size = 0
    PROVE  Grown(Append(stack, x), k + x.size)
<1>1. PICK e : EndsAt(stack, e, k) /\ Aligned(stack, e, Len(stack))
  BY DEF Covers
<1>2. PICK n, t, s : n = Len(stack) /\ t = Append(stack, x) /\ s = x.size
  OBVIOUS
<1>3. stack \in Seq(Subtree) /\ n \in Nat /\ s \in Nat
  <2>1. stack \in Seq(Subtree)
    BY <1>1 DEF EndsAt
  <2>2. x.size \in Nat
    BY DEF Subtree
  <2> QED
    BY <1>2, <2>1, <2>2
<1>4. /\ t \in Seq(Subtree) /\ Len(t) = n + 1 /\ t[n + 1] = x
      /\ \A i \in 1 .. n : t[i] = stack[i]
  BY <1>2, <1>3
<1> DEFINE g == [i \in 0 .. n + 1 |-> IF i = n + 1 THEN k + s ELSE e[i]]
<1>5. e \in [0 .. n -> Nat] /\ e[0] = 0 /\ e[n] = k
  BY <1>1, <1>2 DEF EndsAt
<1>6. /\ g \in [0 .. n + 1 -> Nat] /\ g[n + 1] = k + s
      /\ \A i \in 0 .. n : g[i] = e[i]
  BY <1>3, <1>5
<1> HIDE DEF g
<1>7. g[0] = 0 /\ g[n] = k
  BY <1>3, <1>5, <1>6
<1>8. ASSUME NEW i \in 1 .. n + 1
      PROVE  t[i].size \in TreeSizes /\ g[i] = g[i - 1] + t[i].size
  <2>1. CASE i = n + 1
    <3>1. i - 1 = n
      BY <1>3, <2>1
    <3> QED
      BY <1>2, <1>4, <1>6, <1>7, <2>1, <3>1
  <2>2. CASE i # n + 1
    <3>1. i \in 1 .. n /\ i \in 0 .. n /\ i - 1 \in 0 .. n
      BY <1>3, <2>2
    <3>2. stack[i].size \in TreeSizes /\ e[i] = e[i - 1] + stack[i].size
      BY <1>1, <1>2, <3>1 DEF EndsAt
    <3> QED
      BY <1>4, <1>6, <3>1, <3>2
  <2> QED
    BY <2>1, <2>2
<1>9. EndsAt(t, g, k + s)
  BY <1>4, <1>6, <1>7, <1>8 DEF EndsAt
<1>10. Aligned(t, g, n)
  <2>1. ASSUME NEW i \in 1 .. n PROVE g[i - 1] % (2 * t[i].size) = 0
    <3>1. i - 1 \in 0 .. n
      BY <1>3
    <3>2. e[i - 1] % (2 * stack[i].size) = 0
      BY <1>1, <1>2 DEF Aligned
    <3> QED
      BY <1>4, <1>6, <3>1, <3>2
  <2> QED
    BY <2>1 DEF Aligned
<1>11. (n + 1) - 1 = n /\ n + 1 # 0
  BY <1>3
<1>12. Len(t) - 1 = n /\ t # <<>> /\ g[Len(t) - 1] % t[Len(t)].size = 0
  <2>1. Len(t) - 1 = n /\ t # <<>>
    BY <1>4, <1>11
  <2> QED
    BY <1>2, <1>4, <1>7, <2>1
<1> QED
  BY <1>2, <1>9, <1>10, <1>12 DEF Grown


\* What two numbers that follow one another say of the two last subtrees.
LEMMA LastTwo ==
    ASSUME NEW a \in TreeSizes, NEW b \in TreeSizes, NEW m \in Nat,
           m % (2 * a) = 0, (m + a) % b = 0
    PROVE  /\ ~(b > a)
           /\ b < a => (m + a) % (2 * b) = 0
           /\ b = a /\ m + a + b <= 1024 => 2 * a \in TreeSizes
<1>1. a \in Nat /\ b \in Nat /\ a >= 1 /\ m + a \in Nat
  <2>1. a \in Nat /\ a >= 1
    BY SizeParity
  <2>2. b \in Nat
    BY SizeParity
  <2> QED
    BY <2>1, <2>2
<1>2. ~(b > a)
  <2>1. ASSUME a < b PROVE FALSE
    <3>1. (m + a) % (2 * a) = 0
      BY <1>1, <2>1, SizeOrder
    <3> QED
      BY <3>1, SizeParity
  <2> QED
    BY <1>1, <2>1
<1>3. ASSUME b < a PROVE (m + a) % (2 * b) = 0
  <2>1. m % a = 0 /\ (m + a) % a = 0
    BY SizeParity
  <2> QED
    BY <1>1, <1>3, <2>1, SizeOrder
<1>4. ASSUME b = a, m + a + b <= 1024 PROVE 2 * a \in TreeSizes
  <2>1. a <= 512
    BY <1>1, <1>4
  <2> QED
    BY <2>1, SizeParity
<1> QED
  BY <1>2, <1>3, <1>4

\* What is added fits: the stack is never lost, and covers the blocks again.
LEMMA AddCovers ==
    ASSUME NEW k \in Nat, k <= 1024, NEW added, Grown(added, k)
    PROVE  /\ AddSubtreeToProofStack[added] # <<>>
           /\ Covers(AddSubtreeToProofStack[added], k)
<1> DEFINE Good(stack) == AddSubtreeToProofStack[stack] # <<>> /\ Covers(AddSubtreeToProofStack[stack], k)
           S == {n \in Nat : \A stack : Len(stack) = n /\ Grown(stack, k) => Good(stack)}
<1>1. ASSUME NEW n \in Nat, \A m \in Nat : m < n => m \in S PROVE n \in S
  <2>1. ASSUME NEW stack, Len(stack) = n, Grown(stack, k) PROVE Good(stack)
    <3>1. PICK e : /\ EndsAt(stack, e, k) /\ Aligned(stack, e, n - 1)
                   /\ e[n - 1] % stack[n].size = 0 /\ stack # <<>>
      BY <2>1 DEF Grown
    <3>2. stack \in Seq(Subtree) /\ n # 0
      BY <2>1, <3>1 DEF EndsAt
    <3>3. /\ e \in [0 .. n -> Nat] /\ e[0] = 0 /\ e[n] = k
          /\ \A i \in 1 .. n : stack[i].size \in TreeSizes /\ e[i] = e[i - 1] + stack[i].size
      BY <2>1, <3>1 DEF EndsAt
    <3>4. AddSubtreeToProofStack[stack] =
              IF Settled(stack) THEN SettlesAs(stack) ELSE AddSubtreeToProofStack[Merged(stack)]
      BY <3>2, AddSubtreeIs
    <3>5. CASE n = 1
      <4>1. Settled(stack) /\ SettlesAs(stack) = stack
        BY <2>1, <3>5 DEF Settled, SettlesAs
      <4>2. stack[1].size \in TreeSizes
        BY <3>3, <3>5
      <4>3. 0 % (2 * stack[1].size) = 0
        BY <4>2, TreeSizesAre
      <4>4. Aligned(stack, e, n)
        BY <3>3, <3>5, <4>3 DEF Aligned
      <4> QED
        BY <2>1, <3>1, <3>4, <4>1, <4>4 DEF Covers
    <3>6. CASE n >= 2
      <4>1. PICK l, m, a, b : l = n - 2 /\ m = n - 1 /\ a = stack[m].size /\ b = stack[n].size
        OBVIOUS
      <4>2. /\ l \in 0 .. n /\ m \in 0 .. n /\ m \in 1 .. n /\ n \in 1 .. n /\ m - 1 = l /\ l + 1 = m
            /\ l \in Nat /\ m \in Nat /\ m < n
        BY <3>6, <4>1
      <4>3. a \in TreeSizes /\ b \in TreeSizes /\ e[m] = e[l] + a /\ k = e[m] + b /\ e[l] \in Nat /\ e[m] \in Nat
        BY <3>3, <4>1, <4>2
      <4>4. e[l] % (2 * a) = 0 /\ e[m] % b = 0
        <5>1. m \in 1 .. n - 1
          BY <4>1, <4>2
        <5> QED
          BY <3>1, <4>1, <4>2, <5>1 DEF Aligned
      <4>5. a \in Nat /\ b \in Nat /\ ~(b > a) /\ (b < a => e[m] % (2 * b) = 0) /\ (b = a => 2 * a \in TreeSizes)
        <5>1. a \in Nat /\ b \in Nat
          BY <4>3, SizeParity
        <5>2. (e[l] + a) % b = 0 /\ e[l] + a + b <= 1024
          BY <4>3, <4>4
        <5> QED
          BY <4>3, <4>4, <5>1, <5>2, LastTwo
      <4>6. CASE b < a
        <5>1. Settled(stack) /\ SettlesAs(stack) = stack
          BY <2>1, <3>6, <4>1, <4>5, <4>6 DEF Settled, SettlesAs
        <5>2. Aligned(stack, e, n)
          <6>1. \A i \in 1 .. n : i \in 1 .. n - 1 \/ i = n
            OBVIOUS
          <6>2. e[n - 1] % (2 * stack[n].size) = 0
            BY <4>1, <4>5, <4>6
          <6> QED
            BY <3>1, <6>1, <6>2 DEF Aligned
        <5> QED
          BY <2>1, <3>1, <3>4, <5>1, <5>2 DEF Covers
      <4>7. CASE b = a
        <5>1. ~Settled(stack)
          BY <2>1, <3>6, <4>1, <4>7 DEF Settled
        <5>2. PICK t : t = Merged(stack)
          OBVIOUS
        <5>3. stack[m] \in Subtree /\ stack[n] \in Subtree
          BY <2>1, <3>2, <4>2
        <5>4. /\ t \in Seq(Subtree) /\ Len(t) = m /\ \A i \in 1 .. l : t[i] = stack[i]
              /\ t[m] = Combine(stack[m], stack[n])
          <6>1. t = Append(SubSeq(stack, 1, l), Combine(stack[m], stack[n]))
            BY <2>1, <4>1, <5>2 DEF Merged
          <6>2. PICK p, c : p = SubSeq(stack, 1, l) /\ c = Combine(stack[m], stack[n])
            OBVIOUS
          <6>3. p \in Seq(Subtree) /\ Len(p) = l /\ \A i \in 1 .. l : p[i] = stack[i]
            <7>1. l \in 0 .. Len(stack)
              BY <2>1, <4>2
            <7> QED
              BY <3>2, <6>2, <7>1, PrefixIsSeq
          <6>4. c \in Subtree
            BY <5>3, <6>2, CombineIs
          <6>5. t = Append(p, c)
            BY <6>1, <6>2
          <6>6. t \in Seq(Subtree) /\ Len(t) = l + 1 /\ t[l + 1] = c /\ \A i \in 1 .. l : t[i] = p[i]
            BY <4>2, <6>3, <6>4, <6>5
          <6> QED
            BY <4>2, <6>2, <6>3, <6>6
        <5>5. t[m].size = 2 * a
          BY <4>1, <5>3, <5>4, CombineIs
        <5> DEFINE g == [i \in 0 .. m |-> IF i = m THEN k ELSE e[i]]
        <5>6. g \in [0 .. m -> Nat] /\ g[m] = k /\ \A i \in 0 .. l : g[i] = e[i]
          BY <3>3, <4>2
        <5> HIDE DEF g
        <5>7. g[0] = 0 /\ g[l] = e[l]
          BY <3>3, <4>2, <5>6
        <5>8. ASSUME NEW i \in 1 .. m PROVE t[i].size \in TreeSizes /\ g[i] = g[i - 1] + t[i].size
          <6>1. CASE i = m
            <7>1. k = e[l] + 2 * a
              BY <4>3, <4>5, <4>7
            <7> QED
              BY <4>2, <4>5, <4>7, <5>5, <5>6, <5>7, <6>1, <7>1
          <6>2. CASE i # m
            <7>1. i \in 1 .. l /\ i \in 0 .. l /\ i - 1 \in 0 .. l /\ i \in 1 .. n
              BY <4>1, <4>2, <6>2
            <7> QED
              BY <3>3, <5>4, <5>6, <7>1
          <6> QED
            BY <6>1, <6>2
        <5>9. EndsAt(t, g, k)
          BY <5>4, <5>6, <5>7, <5>8 DEF EndsAt
        <5>10. Aligned(t, g, l)
          <6>1. ASSUME NEW i \in 1 .. l PROVE g[i - 1] % (2 * t[i].size) = 0
            <7>1. i - 1 \in 0 .. l /\ i \in 1 .. n - 1
              BY <4>1, <4>2
            <7>2. e[i - 1] % (2 * stack[i].size) = 0
              BY <3>1, <7>1 DEF Aligned
            <7> QED
              BY <5>4, <5>6, <7>1, <7>2
          <6> QED
            BY <6>1 DEF Aligned
        <5>11. Grown(t, k)
          <6>1. Len(t) - 1 = l /\ t # <<>>
            BY <4>2, <5>4
          <6>2. g[Len(t) - 1] % t[Len(t)].size = 0
            BY <4>4, <5>4, <5>5, <5>7, <6>1
          <6> QED
            BY <5>9, <5>10, <6>1, <6>2 DEF Grown
        <5>12. Good(t)
          <6> HIDE DEF Good
          <6> QED
            BY <1>1, <4>2, <5>4, <5>11
        <5> QED
          BY <3>4, <5>1, <5>2, <5>12
      <4> QED
        BY <4>5, <4>6, <4>7
    <3> QED
      BY <3>2, <3>5, <3>6
  <2> HIDE DEF Good
  <2> QED
    BY <2>1
<1>2. Nat \subseteq S
  <2> HIDE DEF S
  <2> QED
    BY <1>1, StrongInduction
<1>3. Len(added) \in Nat
  BY DEF Grown, EndsAt
<1> HIDE DEF Good
<1>4. Good(added)
  BY <1>2, <1>3
<1> QED
  BY <1>4 DEF Good

----------------------------------------------------------------------------
(***************************************************************************)
(* The stack of a sector is never lost while it is built.                  *)
(***************************************************************************)
LEMMA ScaledNat == ASSUME NEW i \in Nat, NEW j \in Nat PROVE i * BlockSize \in Nat /\ (i + j) * BlockSize \in Nat
  BY SMT DEF BlockSize

\* A subtree that fits is added.
LEMMA AddBlocksIs ==
    ASSUME NEW b \in Building, b.more # 0, NEW s \in TreeSizes, b.known + s <= 1024
    PROVE  /\ AddBlocks(b, s) \in Building
           /\ AddBlocks(b, s).known = b.known + s
           /\ AddBlocks(b, s).more = b.more - 1
           /\ AddBlocks(b, s).sector = b.sector
           /\ Covers(b.stack, b.known) /\ b.known % s = 0 =>
                AddBlocks(b, s).stack # <<>> /\ Covers(AddBlocks(b, s).stack, b.known + s)
<1>1. PICK sector, k, stack, more : sector = b.sector /\ k = b.known /\ stack = b.stack /\ more = b.more
  OBVIOUS
<1>2. /\ sector \in DOMAIN Layout /\ k \in 0 .. 1024 /\ stack \in Seq(Subtree) /\ more \in Nat
      /\ b = [sector |-> sector, known |-> k, stack |-> stack, more |-> more]
  BY <1>1, SectorBlocksIs DEF Building
<1>a. k + s <= 1024 /\ more # 0 /\ k \in Nat
  <2>1. k + s <= 1024 /\ more # 0
    BY <1>1, Zenon
  <2>2. k \in Nat
    BY <1>2
  <2> QED
    BY <2>1, <2>2
<1>3. s \in Nat /\ s >= 1
  BY SizeParity
<1>b. k + s \in 0 .. 1024 /\ more - 1 \in Nat /\ k + s \in Nat
  BY <1>2, <1>3, <1>a
<1>4. PICK x, t : x = SubtreeAt(sector, k, s) /\ t = AddSubtreeToProofStack[Append(stack, x)]
  OBVIOUS
<1>5. x \in Subtree /\ x.size = s
  <2>1. PICK lo, hi, roots : /\ lo = k * BlockSize /\ hi = (k + s) * BlockSize
                             /\ roots = (DOMAIN Layout \cup {""}) \X Nat \X Nat
    OBVIOUS
  <2>2. lo \in Nat /\ hi \in Nat
    BY <1>3, <1>a, <2>1, ScaledNat, ZenonT(60)
  <2>3. x = [size |-> s, root |-> <<sector, lo, hi>>]
    BY <1>4, <2>1, Zenon DEF SubtreeAt
  <2>4. <<sector, lo, hi>> \in roots
    BY <1>2, <2>1, <2>2, ZenonT(60)
  <2>5. Subtree = [size : Nat, root : roots]
    BY <2>1, Zenon DEF Subtree
  <2> QED
    BY <1>3, <2>3, <2>4, <2>5
<1>6. t \in Seq(Subtree)
  <2>1. Append(stack, x) \in Seq(Subtree)
    BY <1>2, <1>5, AppendIsSeq
  <2> QED
    BY <1>4, <2>1, AddSubtreeIs
<1>7. AddBlocks(b, s) = [sector |-> sector, known |-> k + s, stack |-> t, more |-> more - 1]
  <2>1. AddBlocks(b, s) = [b EXCEPT !.known = k + s, !.more = more - 1, !.stack = t]
    BY <1>1, <1>4, Zenon DEF AddBlocks
  <2>2. PICK u, v : u = k + s /\ v = more - 1
    OBVIOUS
  <2>3. AddBlocks(b, s) = [b EXCEPT !.known = u, !.more = v, !.stack = t]
    BY <2>1, <2>2, Zenon
  <2>a. PICK c, d : c = AddBlocks(b, s) /\ d = b
    OBVIOUS
  <2>b. c = [d EXCEPT !.known = u, !.more = v, !.stack = t]
    BY <2>3, <2>a, Zenon
  <2>c. c = [sector |-> sector, known |-> u, stack |-> t, more |-> v]
    <3>1. d = [sector |-> sector, known |-> k, stack |-> stack, more |-> more]
      BY <1>2, <2>a, Zenon
    <3> QED
      BY <2>b, <3>1
  <2>4. AddBlocks(b, s) = [sector |-> sector, known |-> u, stack |-> t, more |-> v]
    BY <2>a, <2>c, Zenon
  <2> QED
    BY <2>2, <2>4, Zenon
<1>8. AddBlocks(b, s) \in Building
  BY <1>2, <1>6, <1>7, <1>b, SectorBlocksIs DEF Building
<1>9. ASSUME Covers(b.stack, b.known), b.known % s = 0
      PROVE  t # <<>> /\ Covers(t, b.known + s)
  <2>1. Covers(stack, k) /\ k % x.size = 0 /\ x.size \in TreeSizes
    BY <1>1, <1>5, <1>9, Zenon
  <2>2. Grown(Append(stack, x), k + s)
    <3>1. Grown(Append(stack, x), k + x.size)
      BY <1>5, <1>a, <2>1, CoversGrown
    <3> QED
      BY <1>5, <3>1
  <2>3. PICK m : m = k + s
    OBVIOUS
  <2>4. m \in Nat /\ m <= 1024 /\ Grown(Append(stack, x), m)
    BY <1>b, <2>2, <2>3
  <2>5. t # <<>> /\ Covers(t, m)
    BY <1>4, <2>4, AddCovers
  <2> QED
    BY <1>1, <2>3, <2>5, Zenon
<1> QED
  BY <1>1, <1>7, <1>8, <1>9

\* A stack that covers a block is one.
LEMMA CoversSome ==
    ASSUME NEW stack, NEW k \in Nat, k # 0, Covers(stack, k)
    PROVE  stack # <<>>
<1>1. ASSUME stack = <<>> PROVE FALSE
  <2>1. PICK e : EndsAt(stack, e, k)
    BY DEF Covers
  <2>2. Len(stack) = 0 /\ e[0] = 0 /\ e[Len(stack)] = k
    BY <1>1, <2>1 DEF EndsAt
  <2> QED
    BY <2>2
<1> QED
  BY <1>1

LEMMA CoversNone == Covers(<<>>, 0)
<1> DEFINE e == [i \in 0 .. 0 |-> 0]
<1>1. e \in [0 .. 0 -> Nat] /\ e[0] = 0
  OBVIOUS
<1>2. <<>> \in Seq(Subtree) /\ Len(<<>>) = 0
  OBVIOUS
<1> HIDE DEF e
<1>3. EndsAt(<<>>, e, 0) /\ Aligned(<<>>, e, 0)
  BY <1>1, <1>2 DEF EndsAt, Aligned
<1> QED
  BY <1>2, <1>3 DEF Covers

\* Sectors that have room for the blocks that are left.
Roomy == {b \in Building : b.known + b.more <= SectorBlocks}

LEMMA RoomyNext ==
    ASSUME NEW b \in Roomy, b.more # 0
    PROVE  /\ AddBlocks(b, 1) \in Roomy
           /\ AddBlocks(b, 1).known = b.known + 1
           /\ AddBlocks(b, 1).more = b.more - 1
           /\ b.more \in Nat /\ b.known \in Nat
           /\ AddBlocks(b, 1).sector = b.sector
           /\ Covers(b.stack, b.known) => Covers(AddBlocks(b, 1).stack, b.known + 1)
<1>1. b \in Building /\ b.more \in Nat /\ b.known \in Nat /\ b.known + b.more <= 1024
  <2>1. PICK k, m : k = b.known /\ m = b.more
    OBVIOUS
  <2>2. b \in Building /\ k + m <= SectorBlocks
    BY <2>1 DEF Roomy
  <2>3. k \in 0 .. 1024 /\ m \in Nat
    BY <2>1, <2>2, SectorBlocksIs DEF Building
  <2>4. k \in Nat /\ k + m <= 1024
    BY <2>2, <2>3, SectorBlocksIs
  <2> QED
    BY <2>1, <2>2, <2>3, <2>4
<1>2. 1 \in TreeSizes /\ b.known % 1 = 0 /\ b.known + 1 <= 1024
  BY <1>1, TreeSizesAre
<1>3. /\ AddBlocks(b, 1) \in Building
      /\ AddBlocks(b, 1).known = b.known + 1 /\ AddBlocks(b, 1).more = b.more - 1
      /\ AddBlocks(b, 1).sector = b.sector
      /\ Covers(b.stack, b.known) => Covers(AddBlocks(b, 1).stack, b.known + 1)
  BY <1>1, <1>2, AddBlocksIs
<1>4. AddBlocks(b, 1).known + AddBlocks(b, 1).more <= 1024
  BY <1>1, <1>3
<1> QED
  BY <1>1, <1>3, <1>4, SectorBlocksIs DEF Roomy

LEMMA DataStackIs ==
    \A b \in Roomy : DataStack[b] = IF b.more = 0 THEN b ELSE DataStack[AddBlocks(b, 1)]
<1> DEFINE D == Roomy
           stop == {b \in D : b.more = 0}
           size == [b \in D |-> b.more]
           out == [b \in D |-> b]
           next == [b \in D |-> IF b.more = 0 THEN b ELSE AddBlocks(b, 1)]
           after == [b \in D |-> b]
           B(f) == [b \in D |-> IF b.more = 0 THEN b ELSE f[AddBlocks(b, 1)]]
<1>1. \A b \in D : b.more \in Nat /\ (b.more # 0 => AddBlocks(b, 1) \in D /\ AddBlocks(b, 1).more < b.more)
  <2>1. ASSUME NEW b \in D, b.more # 0 PROVE AddBlocks(b, 1) \in D /\ AddBlocks(b, 1).more < b.more
    BY <2>1, RoomyNext
  <2>2. \A b \in D : b.more \in Nat
    BY DEF Roomy, Building
  <2> QED
    BY <2>1, <2>2
<1>2. Descends(D, D, size, stop, out, next, after)
  <2> HIDE DEF D
  <2>1. size \in [D -> Nat] /\ out \in [D -> D] /\ next \in [D -> D] /\ after \in [D -> D]
    BY <1>1
  <2>2. ASSUME NEW x \in D \ stop PROVE size[next[x]] < size[x]
    <3>1. x \in D /\ x.more # 0 /\ next[x] = AddBlocks(x, 1) /\ AddBlocks(x, 1) \in D
      BY <1>1
    <3>2. size[AddBlocks(x, 1)] = AddBlocks(x, 1).more /\ size[x] = x.more
      BY <3>1
    <3> QED
      BY <1>1, <3>1, <3>2
  <2> HIDE DEF size, stop, out, next, after
  <2> QED
    BY <2>1, <2>2 DEF Descends
<1>3. ASSUME NEW f \in [D -> D], NEW x \in D
      PROVE  Recurs(stop, out, next, after, f, x) = IF x.more = 0 THEN x ELSE f[AddBlocks(x, 1)]
  <2> HIDE DEF D
  <2>1. (x \in stop <=> x.more = 0) /\ out[x] = x
    OBVIOUS
  <2>2. x.more # 0 => next[x] = AddBlocks(x, 1) /\ AddBlocks(x, 1) \in D
    BY <1>1
  <2>3. x.more # 0 => after[f[AddBlocks(x, 1)]] = f[AddBlocks(x, 1)]
    BY <1>1
  <2> HIDE DEF stop, out, next, after
  <2> QED
    BY <2>1, <2>2, <2>3 DEF Recurs
<1> HIDE DEF D, size, stop, out, next, after
<1>4. PICK f \in [D -> D] : \A x \in D : f[x] = IF x.more = 0 THEN x ELSE f[AddBlocks(x, 1)]
  <2>1. \E f \in [D -> D] : \A x \in D : f[x] = Recurs(stop, out, next, after, f, x)
    BY <1>2, RecursionOn
  <2> QED
    BY <1>3, <2>1
<1>5. f = B(f)
  BY <1>4
<1>6. DataStack = B(DataStack)
  <2>1. DataStack = CHOOSE g : g = B(g)
    BY Zenon DEF DataStack, D, Roomy
  <2> HIDE DEF B
  <2> QED
    BY <1>5, <2>1
<1>7. \A b \in D : DataStack[b] = IF b.more = 0 THEN b ELSE DataStack[AddBlocks(b, 1)]
  <2> HIDE DEF B
  <2>1. PICK a : a = DataStack /\ a = B(a)
    BY <1>6
  <2>2. \A b \in D : a[b] = IF b.more = 0 THEN b ELSE a[AddBlocks(b, 1)]
    BY <2>1 DEF B
  <2> QED
    BY <2>1, <2>2
<1> QED
  BY <1>7 DEF D

\* The data are in the stack, and it covers them.
LEMMA DataCovers ==
    ASSUME NEW data \in Roomy, Covers(data.stack, data.known)
    PROVE  /\ DataStack[data] \in Building
           /\ DataStack[data].known = data.known + data.more
           /\ Covers(DataStack[data].stack, data.known + data.more)
<1> DEFINE Good(b) == /\ DataStack[b] \in Building
                      /\ DataStack[b].known = b.known + b.more
                      /\ Covers(DataStack[b].stack, b.known + b.more)
           S == {n \in Nat : \A b \in Roomy : b.more = n /\ Covers(b.stack, b.known) => Good(b)}
<1>1. ASSUME NEW n \in Nat, \A m \in Nat : m < n => m \in S PROVE n \in S
  <2>1. ASSUME NEW b \in Roomy, b.more = n, Covers(b.stack, b.known) PROVE Good(b)
    <3>1. b \in Building /\ b.known \in Nat /\ b.more \in Nat
      BY DEF Roomy, Building
    <3>2. CASE n = 0
      <4>1. DataStack[b] = b /\ b.known + b.more = b.known
        BY <2>1, <3>1, <3>2, DataStackIs
      <4> QED
        BY <2>1, <3>1, <4>1
    <3>3. CASE n # 0
      <4>1. PICK c : c = AddBlocks(b, 1)
        OBVIOUS
      <4>2. /\ c \in Roomy /\ c.known = b.known + 1 /\ c.more = b.more - 1
            /\ Covers(c.stack, c.known)
        BY <2>1, <3>3, <4>1, RoomyNext
      <4>3. n - 1 \in S /\ c.more = n - 1
        BY <1>1, <2>1, <3>3, <4>2
      <4>4. Good(c)
        <5> HIDE DEF Good
        <5> QED
          BY <4>2, <4>3
      <4>5. DataStack[b] = DataStack[c] /\ c.known + c.more = b.known + b.more
        BY <2>1, <3>1, <3>3, <4>1, <4>2, DataStackIs
      <4> QED
        BY <4>4, <4>5
    <3> QED
      BY <3>2, <3>3
  <2> HIDE DEF Good
  <2> QED
    BY <2>1
<1>2. Nat \subseteq S
  <2> HIDE DEF S
  <2> QED
    BY <1>1, StrongInduction
<1>3. data.more \in Nat
  BY DEF Roomy, Building
<1> HIDE DEF Good
<1>4. Good(data)
  BY <1>2, <1>3
<1> QED
  BY <1>4 DEF Good

\* The next subtree of a proof ends within the sector.
LEMMA NextFits ==
    ASSUME NEW k \in 0 .. SectorBlocks, k # SectorBlocks, NEW s, s = NextSubtreeSize(k, SectorBlocks)
    PROVE  /\ s \in TreeSizes /\ s \in Nat /\ k % s = 0
           /\ k \in Nat /\ k + s \in 0 .. SectorBlocks /\ k + s > k /\ k + s <= 1024
<1>1. k \in 0 .. 1023
  BY SectorBlocksIs
<1>2. /\ NextSubtreeSize(k, SectorBlocks) \in TreeSizes
      /\ k % NextSubtreeSize(k, SectorBlocks) = 0
      /\ k + NextSubtreeSize(k, SectorBlocks) <= 1024
  BY <1>1, NextSize, ZenonT(60)
<1>3. s \in TreeSizes /\ k % s = 0 /\ k + s <= 1024
  BY <1>2, Zenon
<1>4. s \in Nat /\ s >= 1
  BY <1>3, SizeParity
<1>5. k + s \in 0 .. 1024 /\ k + s > k /\ k \in Nat
  <2>1. PICK j, i, m : j = k + s /\ i = k /\ m = s
    OBVIOUS
  <2>a. i \in 0 .. 1023 /\ m \in Nat /\ m >= 1 /\ i + m <= 1024 /\ j = i + m
    BY <1>1, <1>3, <1>4, <2>1, Zenon
  <2>2. j \in 0 .. 1024 /\ j > i /\ i \in Nat
    BY <2>a
  <2> QED
    BY <2>1, <2>2, ZenonT(60)
<1>6. k + s \in 0 .. SectorBlocks
  BY <1>5, SectorBlocksIs
<1> QED
  BY <1>3, <1>4, <1>5, <1>6, Zenon

\* The subtrees behind k blocks.
LEMMA TrailingIs ==
    /\ \A k \in 0 .. SectorBlocks : TrailingSubtrees[k] \in Nat
    /\ \A k \in 0 .. SectorBlocks :
        TrailingSubtrees[k] =
            IF k = SectorBlocks THEN 0 ELSE 1 + TrailingSubtrees[k + NextSubtreeSize(k, SectorBlocks)]
<1> DEFINE D == 0 .. SectorBlocks
           after1(k) == k + NextSubtreeSize(k, SectorBlocks)
           stop == {SectorBlocks}
           size == [k \in D |-> SectorBlocks - k]
           out == [k \in D |-> 0]
           next == [k \in D |-> IF k = SectorBlocks THEN k ELSE after1(k)]
           after == [n \in Nat |-> 1 + n]
           B(f) == [k \in D |-> IF k = SectorBlocks THEN 0 ELSE 1 + f[after1(k)]]
<1>a. \A k : k \in D <=> k \in Nat /\ k <= SectorBlocks
  BY SectorBlocksIs
<1>N. SectorBlocks \in Nat
  BY SectorBlocksIs
<1>1. ASSUME NEW k \in D, k # SectorBlocks PROVE after1(k) \in D /\ after1(k) > k
  BY <1>1, NextFits
<1> HIDE DEF after1, D
<1>b. \A k \in D : size[k] = SectorBlocks - k /\ out[k] = 0 /\ next[k] = IF k = SectorBlocks THEN k ELSE after1(k)
  OBVIOUS
<1>c. /\ size \in [D -> Nat] /\ out \in [D -> Nat] /\ next \in [D -> D] /\ after \in [Nat -> Nat]
      /\ \A n \in Nat : after[n] = 1 + n
  <2>1. size \in [D -> Nat]
    BY <1>a, <1>N
  <2>2. out \in [D -> Nat]
    OBVIOUS
  <2>3. next \in [D -> D]
    BY <1>1
  <2>4. after \in [Nat -> Nat] /\ \A n \in Nat : after[n] = 1 + n
    OBVIOUS
  <2> QED
    BY <2>1, <2>2, <2>3, <2>4
<1>d. \A k : k \in stop <=> k = SectorBlocks
  OBVIOUS
<1> HIDE DEF size, stop, out, next, after
<1>2. Descends(D, Nat, size, stop, out, next, after)
  <2>2. ASSUME NEW x \in D \ stop PROVE size[next[x]] < size[x]
    <3>1. PICK y : y = after1(x)
      OBVIOUS
    <3>2. next[x] = y /\ y \in D /\ y > x /\ x \in D
      <4>1. x \in D /\ x # SectorBlocks
        BY <1>d, <2>2
      <4>2. next[x] = after1(x)
        BY <1>b, <4>1
      <4> QED
        BY <1>1, <3>1, <4>1, <4>2
    <3>3. size[y] = SectorBlocks - y /\ size[x] = SectorBlocks - x /\ y \in Nat /\ x \in Nat
      BY <1>a, <1>b, <3>2
    <3> QED
      BY <1>N, <3>2, <3>3
  <2> QED
    BY <1>c, <2>2 DEF Descends
<1>3. ASSUME NEW f \in [D -> Nat], NEW x \in D
      PROVE  Recurs(stop, out, next, after, f, x) = IF x = SectorBlocks THEN 0 ELSE 1 + f[after1(x)]
  <2>1. (x \in stop <=> x = SectorBlocks) /\ out[x] = 0
    BY <1>b, <1>d
  <2>2. ASSUME x # SectorBlocks PROVE after[f[next[x]]] = 1 + f[after1(x)]
    <3>1. PICK y, m : y = after1(x) /\ m = f[y]
      OBVIOUS
    <3>2. next[x] = y /\ y \in D
      BY <1>1, <1>b, <2>2, <3>1
    <3>3. m \in Nat
      BY <3>1, <3>2
    <3>4. after[m] = 1 + m
      BY <1>c, <3>3
    <3> QED
      BY <3>1, <3>2, <3>4, Zenon
  <2> QED
    BY <2>1, <2>2 DEF Recurs
<1>4. PICK f \in [D -> Nat] : \A x \in D : f[x] = IF x = SectorBlocks THEN 0 ELSE 1 + f[after1(x)]
  <2>1. \E f \in [D -> Nat] : \A x \in D : f[x] = Recurs(stop, out, next, after, f, x)
    BY <1>2, RecursionOn
  <2> QED
    BY <1>3, <2>1
<1>5. f = B(f)
  BY <1>4
<1>6. TrailingSubtrees = B(TrailingSubtrees)
  <2>1. TrailingSubtrees = CHOOSE g : g = B(g)
    BY Zenon DEF TrailingSubtrees, D, after1
  <2> HIDE DEF B
  <2> QED
    BY <1>5, <2>1
<1>7. PICK t : t = TrailingSubtrees /\ t = B(t)
  BY <1>6
<1>8. \A k \in D : t[k] = IF k = SectorBlocks THEN 0 ELSE 1 + t[after1(k)]
  BY <1>7
<1> HIDE DEF B
<1> DEFINE S == {n \in Nat : n <= SectorBlocks => t[SectorBlocks - n] \in Nat}
<1>9. ASSUME NEW n \in Nat, \A m \in Nat : m < n => m \in S PROVE n \in S
  <2>1. ASSUME n <= SectorBlocks PROVE t[SectorBlocks - n] \in Nat
    <3>1. PICK k, j : k = SectorBlocks - n /\ j = after1(k)
      OBVIOUS
    <3>2. k \in D /\ (k = SectorBlocks <=> n = 0)
      BY <1>a, <1>N, <2>1, <3>1
    <3>3. CASE n # 0
      <4>1. j \in D /\ j > k
        BY <1>1, <3>1, <3>2, <3>3
      <4>2. PICK m : m = SectorBlocks - j
        OBVIOUS
      <4>3. m \in Nat /\ m < n /\ m <= SectorBlocks /\ j = SectorBlocks - m
        BY <1>a, <1>N, <3>1, <3>2, <4>1, <4>2
      <4>4. t[j] \in Nat
        BY <1>9, <4>3
      <4> QED
        BY <1>8, <3>1, <3>2, <3>3, <4>4
    <3>4. CASE n = 0
      BY <1>8, <3>1, <3>2, <3>4
    <3> QED
      BY <3>3, <3>4
  <2> QED
    BY <2>1
<1>10. ASSUME NEW k \in D PROVE t[k] \in Nat
  <2>1. Nat \subseteq S
    <3> HIDE DEF S
    <3> QED
      BY <1>9, StrongInduction
  <2>2. PICK n : n = SectorBlocks - k
    OBVIOUS
  <2>3. n \in Nat /\ n <= SectorBlocks /\ k = SectorBlocks - n
    BY <1>a, <1>N, <2>2
  <2> QED
    BY <2>1, <2>3
<1> QED
  BY <1>7, <1>8, <1>10, Zenon DEF D, after1

\* The next subtree of a sector that is not complete is added.
LEMMA ProofNext ==
    ASSUME NEW b \in Building, b.known # SectorBlocks, b.more # 0,
           NEW s, s = NextSubtreeSize(b.known, SectorBlocks), NEW c, c = AddBlocks(b, s)
    PROVE  /\ c \in Building /\ c.known = b.known + s /\ c.known > b.known
           /\ b.known \in 0 .. SectorBlocks /\ c.known \in 0 .. SectorBlocks
           /\ c.more = b.more - 1 /\ b.more \in Nat
           /\ Covers(b.stack, b.known) => c.stack # <<>> /\ Covers(c.stack, c.known)
<1>1. PICK k, m : k = b.known /\ m = b.more
  OBVIOUS
<1>2. k \in 0 .. SectorBlocks /\ m \in Nat
  BY <1>1 DEF Building
<1>3. /\ s \in TreeSizes /\ s \in Nat /\ k % s = 0
      /\ k \in Nat /\ k + s \in 0 .. SectorBlocks /\ k + s > k /\ k + s <= 1024
  <2>1. k # SectorBlocks /\ s = NextSubtreeSize(k, SectorBlocks)
    BY <1>1, Zenon
  <2> QED
    BY <1>2, <2>1, NextFits
<1>4. /\ AddBlocks(b, s) \in Building
      /\ AddBlocks(b, s).known = b.known + s
      /\ AddBlocks(b, s).more = b.more - 1
      /\ Covers(b.stack, b.known) /\ b.known % s = 0 =>
            AddBlocks(b, s).stack # <<>> /\ Covers(AddBlocks(b, s).stack, b.known + s)
  <2>1. b.known + s <= 1024
    BY <1>1, <1>3, Zenon
  <2> QED
    BY <1>3, <2>1, AddBlocksIs
<1>5. /\ c \in Building /\ c.known = b.known + s /\ c.more = b.more - 1
      /\ Covers(b.stack, b.known) => c.stack # <<>> /\ Covers(c.stack, c.known)
  <2>1. b.known % s = 0
    BY <1>1, <1>3, Zenon
  <2>2. AddBlocks(b, s) = c
    OBVIOUS
  <2>3. c \in Building /\ c.known = b.known + s /\ c.more = b.more - 1
    BY <1>4, <2>2, Zenon
  <2>4. Covers(b.stack, b.known) => c.stack # <<>> /\ Covers(c.stack, b.known + s)
    BY <1>4, <2>1, <2>2, Zenon
  <2> QED
    BY <2>3, <2>4, Zenon
<1>6. b.known \in 0 .. SectorBlocks /\ b.more \in Nat
  BY <1>1, <1>2, Zenon
<1>7. b.known + s \in 0 .. SectorBlocks /\ b.known + s > b.known
  BY <1>1, <1>3, Zenon
<1>8. c.known \in 0 .. SectorBlocks /\ c.known > b.known
  BY <1>5, <1>7, Zenon
<1> QED
  BY <1>5, <1>6, <1>8, Zenon

LEMMA ProofStackIs ==
    \A b \in Building :
        ProofStack[b] = IF b.known = SectorBlocks \/ b.stack = <<>>
                        THEN b.stack
                        ELSE IF b.more = 0
                             THEN <<>>
                             ELSE ProofStack[AddBlocks(b, NextSubtreeSize(b.known, SectorBlocks))]
<1> DEFINE D == Building
           R == Seq(Subtree)
           ends(b) == b.known = SectorBlocks \/ b.stack = <<>>
           succ(b) == AddBlocks(b, NextSubtreeSize(b.known, SectorBlocks))
           Body(f, b) == IF ends(b) THEN b.stack ELSE IF b.more = 0 THEN <<>> ELSE f[succ(b)]
           stop == {b \in D : ends(b) \/ b.more = 0}
           size == [b \in D |-> b.more]
           out == [b \in D |-> IF ends(b) THEN b.stack ELSE <<>>]
           next == [b \in D |-> IF b \in stop THEN b ELSE succ(b)]
           after == [s \in R |-> s]
           B(f) == [b \in D |-> Body(f, b)]
<1>1. ASSUME NEW b \in D
      PROVE  /\ b.more \in Nat /\ b.stack \in R
             /\ ~ends(b) /\ b.more # 0 => succ(b) \in D /\ succ(b).more < b.more
  <2>1. ASSUME ~ends(b), b.more # 0 PROVE succ(b) \in D /\ succ(b).more = b.more - 1 /\ b.more \in Nat
    BY <2>1, ProofNext
  <2>2. b.more \in Nat /\ b.stack \in R
    BY DEF Building
  <2>3. ASSUME ~ends(b), b.more # 0 PROVE succ(b) \in D /\ succ(b).more < b.more
    <3> HIDE DEF succ, ends
    <3> QED
      BY <2>1, <2>3
  <2> QED
    BY <2>2, <2>3
<1> HIDE DEF D, ends, succ
<1>a. <<>> \in R
  OBVIOUS
<1> HIDE DEF R
<1>2. Descends(D, R, size, stop, out, next, after)
  <2>1. size \in [D -> Nat] /\ out \in [D -> R] /\ next \in [D -> D] /\ after \in [R -> R]
    BY <1>1, <1>a
  <2>2. ASSUME NEW x \in D \ stop PROVE size[next[x]] < size[x]
    <3>1. x \in D /\ next[x] = succ(x) /\ succ(x) \in D /\ succ(x).more < x.more
      BY <1>1
    <3>2. size[succ(x)] = succ(x).more /\ size[x] = x.more
      BY <3>1
    <3> QED
      BY <3>1, <3>2
  <2> HIDE DEF size, stop, out, next, after
  <2> QED
    BY <2>1, <2>2 DEF Descends
<1>3. ASSUME NEW f \in [D -> R], NEW x \in D
      PROVE  Recurs(stop, out, next, after, f, x) = Body(f, x)
  <2>1. (x \in stop <=> ends(x) \/ x.more = 0) /\ out[x] = (IF ends(x) THEN x.stack ELSE <<>>)
    OBVIOUS
  <2>2. ASSUME x \notin stop PROVE after[f[next[x]]] = f[succ(x)]
    <3>1. next[x] = succ(x) /\ succ(x) \in D
      BY <1>1, <2>2
    <3>2. f[succ(x)] \in R
      BY <3>1
    <3> QED
      BY <3>1, <3>2
  <2> HIDE DEF stop, out, next, after
  <2> QED
    BY <2>1, <2>2 DEF Recurs
<1> HIDE DEF size, stop, out, next, after
<1>4. PICK f \in [D -> R] : \A x \in D : f[x] = Body(f, x)
  <2>1. \E f \in [D -> R] : \A x \in D : f[x] = Recurs(stop, out, next, after, f, x)
    BY <1>2, RecursionOn
  <2> HIDE DEF Body
  <2> QED
    BY <1>3, <2>1
<1>5. f = B(f)
  <2> HIDE DEF Body
  <2> QED
    BY <1>4
<1>6. ProofStack = B(ProofStack)
  <2>1. ProofStack = CHOOSE g : g = B(g)
    BY Zenon DEF ProofStack, D, ends, succ
  <2> HIDE DEF B
  <2> QED
    BY <1>5, <2>1
<1>7. PICK p : p = ProofStack /\ p = B(p)
  BY <1>6
<1>8. \A b \in D : p[b] = Body(p, b)
  <2> HIDE DEF Body
  <2> QED
    BY <1>7
<1> QED
  BY <1>7, <1>8 DEF D, ends, succ

\* As many subtrees as are missing complete the sector.
LEMMA ProofCompletes ==
    ASSUME NEW data \in Building, data.stack # <<>>, Covers(data.stack, data.known),
           data.more = TrailingSubtrees[data.known]
    PROVE  ProofStack[data] # <<>>
<1> DEFINE S == {n \in Nat : \A b \in Building :
                    /\ b.stack # <<>> /\ Covers(b.stack, b.known)
                    /\ b.more = TrailingSubtrees[b.known] /\ b.more = n
                    => ProofStack[b] # <<>>}
<1>1. ASSUME NEW n \in Nat, \A m \in Nat : m < n => m \in S PROVE n \in S
  <2>1. ASSUME NEW b \in Building, b.stack # <<>>, Covers(b.stack, b.known),
               b.more = TrailingSubtrees[b.known], b.more = n
        PROVE  ProofStack[b] # <<>>
    <3>1. CASE b.known = SectorBlocks
      BY <2>1, <3>1, ProofStackIs
    <3>2. CASE b.known # SectorBlocks
      <4>1. PICK s, c, k : k = b.known /\ s = NextSubtreeSize(k, SectorBlocks) /\ c = AddBlocks(b, s)
        OBVIOUS
      <4>2. k \in 0 .. SectorBlocks /\ k # SectorBlocks
        BY <3>2, <4>1 DEF Building
      <4>3. k + s \in 0 .. SectorBlocks
        BY <4>1, <4>2, NextFits
      <4>4. n = 1 + TrailingSubtrees[k + s] /\ TrailingSubtrees[k + s] \in Nat
        BY <2>1, <4>1, <4>2, <4>3, TrailingIs
      <4>5. b.more # 0
        BY <2>1, <4>4
      <4>6. c \in Building /\ c.known = k + s /\ c.more = n - 1 /\ c.stack # <<>> /\ Covers(c.stack, c.known)
        BY <2>1, <3>2, <4>1, <4>5, ProofNext
      <4>7. PICK m : m = n - 1
        OBVIOUS
      <4>8. m \in Nat /\ m < n /\ m = TrailingSubtrees[k + s]
        BY <4>4, <4>7
      <4>9. ProofStack[c] # <<>>
        BY <1>1, <4>6, <4>7, <4>8
      <4>10. ProofStack[b] = ProofStack[c]
        BY <2>1, <3>2, <4>1, <4>5, ProofStackIs
      <4> QED
        BY <4>9, <4>10
    <3> QED
      BY <3>1, <3>2
  <2> QED
    BY <2>1
<1>2. Nat \subseteq S
  <2> HIDE DEF S
  <2> QED
    BY <1>1, StrongInduction
<1>3. data.more \in Nat
  BY DEF Building
<1> QED
  BY <1>2, <1>3

\* A sector sent with the roots behind the k blocks that a link asks for is
\* accepted.
LEMMA RangeVerifies ==
    ASSUME NEW sector \in DOMAIN Layout, NEW k \in 1 .. 1024
    PROVE  VerifySectorRangeProof(
               [sector |-> sector, length |-> BlockSize * k + 32 * TrailingSubtrees[k]], 0, BlockSize * k)
<1>1. PICK n : n = TrailingSubtrees[k]
  OBVIOUS
<1>2. n \in Nat
  <2>1. k \in 0 .. SectorBlocks
    BY SectorBlocksIs
  <2> QED
    BY <1>1, <2>1, TrailingIs
<1>3. PICK start, data, b, p :
        /\ start = [sector |-> sector, known |-> 0, stack |-> <<>>, more |-> k]
        /\ data = DataStack[start] /\ b = [data EXCEPT !.more = n]
        /\ p = ProofStack[b]
  OBVIOUS
<1>a. PICK none : none = <<>>
  OBVIOUS
<1>4. start \in Roomy /\ start.stack = <<>> /\ start.known = 0 /\ start.more = k /\ start.known + start.more = k
  <2>1. none \in Seq(Subtree)
    BY <1>a
  <2>2. start = [sector |-> sector, known |-> 0, stack |-> none, more |-> k]
    BY <1>3, <1>a
  <2>3. 0 \in 0 .. SectorBlocks /\ k \in Nat /\ 0 + k = k /\ k <= SectorBlocks
    BY SectorBlocksIs
  <2>4. start.stack = none /\ start.known = 0 /\ start.more = k
    BY <2>2
  <2>5. start \in [sector : DOMAIN Layout, known : 0 .. SectorBlocks, stack : Seq(Subtree), more : Nat]
    BY <2>1, <2>2, <2>3
  <2>6. start \in Building
    BY <2>5, Zenon DEF Building
  <2>7. start.known + start.more = k
    BY <2>3, <2>4, Zenon
  <2>8. start.known + start.more <= SectorBlocks
    BY <2>3, <2>7, Zenon
  <2> QED
    BY <1>a, <2>4, <2>6, <2>7, <2>8, ZenonT(60) DEF Roomy
<1>5. data \in Building /\ data.known = k /\ Covers(data.stack, k)
  <2>1. Covers(start.stack, start.known)
    BY <1>4, CoversNone
  <2> QED
    BY <1>3, <1>4, <2>1, DataCovers
<1>6. b \in Building /\ b.known = k /\ b.stack = data.stack /\ b.more = n
  BY <1>2, <1>3, <1>5 DEF Building
<1>7. p # <<>>
  <2>1. b.stack # <<>>
    BY <1>5, <1>6, CoversSome
  <2>2. Covers(b.stack, b.known) /\ b.more = TrailingSubtrees[b.known]
    BY <1>1, <1>5, <1>6
  <2> QED
    BY <1>3, <1>6, <2>1, <2>2, ProofCompletes
<1>b. PICK f, proof : f = BlockSize * k /\ proof = 32 * n
  OBVIOUS
<1>8. PICK body : body = [sector |-> sector, length |-> f + proof]
  OBVIOUS
<1>9. body.length - f = proof /\ f > 0 /\ proof % 32 = 0 /\ proof \div 32 = n /\ f \div BlockSize = k
  BY <1>2, <1>b, <1>8, SMT DEF BlockSize
<1>10. SectorStack(sector, k, n) = p
  BY <1>3, Zenon DEF SectorStack
<1>11. VerifySectorRangeProof(body, 0, f)
  <2>1. SectorStack(body.sector, f \div BlockSize, proof \div 32) = p
    BY <1>8, <1>9, <1>10
  <2> QED
    BY <1>7, <1>9, <2>1 DEF VerifySectorRangeProof
<1> QED
  BY <1>1, <1>b, <1>8, <1>11, Zenon

\* A link with the number d fetches f bytes, k blocks, among them n bytes.
Fetches(n, d, k, f) == f \in Nat /\ d \in 0 .. 7 /\ k \in 1 .. 1024 /\ f = BlockSize * k /\ n <= f

FirstMode(n, d, k, f) ==
    n >= 1 /\ n <= 8 * BlockSize /\ d = (n - 1) \div BlockSize /\ k = d + 1 /\ f = (d + 1) * BlockSize

\* The other modes begin where the one before them ends, at 8 increments of h
\* blocks.
OtherMode(h, n, d, k, f) ==
    LET increment == BlockSize * h
    IN  /\ n > 8 * increment /\ n <= 16 * increment
        /\ d = ((n - 8 * increment) - 1) \div increment
        /\ k = (d + 9) * h /\ f = (d + 1) * increment + 8 * increment

LEMMA FirstFetches ==
    ASSUME NEW n \in Nat, NEW d, NEW k, NEW f, FirstMode(n, d, k, f)
    PROVE  Fetches(n, d, k, f)
  BY SMT DEF FirstMode, Fetches, BlockSize

LEMMA OtherFetches ==
    ASSUME NEW h \in {1, 2, 4, 8, 16, 32, 64}, NEW n \in Nat, NEW d, NEW k, NEW f, OtherMode(h, n, d, k, f)
    PROVE  Fetches(n, d, k, f)
<1>1. CASE h = 1
  BY <1>1, SMT DEF OtherMode, Fetches, BlockSize
<1>2. CASE h = 2
  BY <1>2, SMT DEF OtherMode, Fetches, BlockSize
<1>3. CASE h = 4
  BY <1>3, SMT DEF OtherMode, Fetches, BlockSize
<1>4. CASE h = 8
  BY <1>4, SMT DEF OtherMode, Fetches, BlockSize
<1>5. CASE h = 16
  BY <1>5, SMT DEF OtherMode, Fetches, BlockSize
<1>6. CASE h = 32
  BY <1>6, SMT DEF OtherMode, Fetches, BlockSize
<1>7. CASE h = 64
  BY <1>7, SMT DEF OtherMode, Fetches, BlockSize
<1> QED
  BY <1>1, <1>2, <1>3, <1>4, <1>5, <1>6, <1>7, Zenon

\* The powers that belong to a mode.
Powers(m, p) ==
    /\ 2^(m + 1) = 2 * p /\ 2^(3 + m) = 8 * p /\ 2^(15 + m) \in Nat
    /\ m = 0 => p = 1 /\ 2^(15 + m) = 8 * BlockSize
    /\ m # 0 => LET h == 2^(m - 1)
               IN  /\ h \in {1, 2, 4, 8, 16, 32, 64} /\ p = 2 * h
                   /\ 2^(11 + m) = BlockSize * h
                   /\ 2^(14 + m) = 8 * (BlockSize * h)
                   /\ 2^(15 + (m - 1)) = 8 * (BlockSize * h)
                   /\ 2^(15 + m) = 16 * (BlockSize * h)

ModePowers == {1, 2, 4, 8, 16, 32, 64, 128}

LEMMA PowerOf ==
    ASSUME NEW m \in 0 .. 7
    PROVE  2^m \in ModePowers /\ Powers(m, 2^m)
<1>1. m \in {0, 1, 2, 3, 4, 5, 6, 7}
  BY SMT
<1>2. CASE m = 0
  BY <1>2, SMT DEF ModePowers, Powers, BlockSize
<1>3. CASE m = 1
  BY <1>3, SMT DEF ModePowers, Powers, BlockSize
<1>4. CASE m = 2
  BY <1>4, SMT DEF ModePowers, Powers, BlockSize
<1>5. CASE m = 3
  BY <1>5, SMT DEF ModePowers, Powers, BlockSize
<1>6. CASE m = 4
  BY <1>6, SMT DEF ModePowers, Powers, BlockSize
<1>7. CASE m = 5
  BY <1>7, SMT DEF ModePowers, Powers, BlockSize
<1>8. CASE m = 6
  BY <1>8, SMT DEF ModePowers, Powers, BlockSize
<1>9. CASE m = 7
  BY <1>9, SMT DEF ModePowers, Powers, BlockSize
<1> QED
  BY <1>1, <1>2, <1>3, <1>4, <1>5, <1>6, <1>7, <1>8, <1>9, Zenon

ModeOf(j, a) ==
    /\ a = 1 => j = 0
    /\ a = 2 => j = 1
    /\ a = 4 => j = 2
    /\ a = 8 => j = 3
    /\ a = 16 => j = 4
    /\ a = 32 => j = 5
    /\ a = 64 => j = 6
    /\ a = 128 => j = 7

\* No two modes have the same power.
LEMMA PowerOnce ==
    ASSUME NEW m \in 0 .. 7, NEW n \in 0 .. 7, 2^m = 2^n
    PROVE  m = n
<1>1. ASSUME NEW j \in 0 .. 7, NEW a, a = 2^j PROVE ModeOf(j, a)
  <2>1. j \in {0, 1, 2, 3, 4, 5, 6, 7}
    BY SMT
  <2>2. CASE j = 0
    BY <1>1, <2>2, SMT DEF ModeOf
  <2>3. CASE j = 1
    BY <1>1, <2>3, SMT DEF ModeOf
  <2>4. CASE j = 2
    BY <1>1, <2>4, SMT DEF ModeOf
  <2>5. CASE j = 3
    BY <1>1, <2>5, SMT DEF ModeOf
  <2>6. CASE j = 4
    BY <1>1, <2>6, SMT DEF ModeOf
  <2>7. CASE j = 5
    BY <1>1, <2>7, SMT DEF ModeOf
  <2>8. CASE j = 6
    BY <1>1, <2>8, SMT DEF ModeOf
  <2>9. CASE j = 7
    BY <1>1, <2>9, SMT DEF ModeOf
  <2> QED
    BY <2>1, <2>2, <2>3, <2>4, <2>5, <2>6, <2>7, <2>8, <2>9, Zenon
<1>2. PICK a : a = 2^m /\ a = 2^n
  OBVIOUS
<1>3. ModeOf(m, a) /\ ModeOf(n, a) /\ a \in ModePowers
  BY <1>1, <1>2, PowerOf, Zenon
<1> QED
  BY <1>3, SMT DEF ModeOf, ModePowers

\* The number behind the ones of the mode, and the mode before it.
BitsOf(p, d, bits) == bits = (d * (8 * p)) + (p - 1) * 4

BehindMode(p, d, bits) ==
    LET q == bits \div 4
    IN  /\ bits # 1 /\ bits % 4 = 0 /\ q % 256 # 255
        /\ q % (2 * p) = p - 1 /\ q \div (2 * p) = d
        /\ \A r \in ModePowers : q % (2 * r) = r - 1 => r = p

LEMMA BitsAre ==
    ASSUME NEW p \in ModePowers, NEW d \in 0 .. 7, NEW bits, BitsOf(p, d, bits)
    PROVE  BehindMode(p, d, bits)
<1>1. p \in {1, 2, 4, 8, 16, 32, 64, 128}
  BY DEF ModePowers
<1>2. CASE p = 1
  BY <1>2, SMT DEF BitsOf, BehindMode, ModePowers
<1>3. CASE p = 2
  BY <1>3, SMT DEF BitsOf, BehindMode, ModePowers
<1>4. CASE p = 4
  BY <1>4, SMT DEF BitsOf, BehindMode, ModePowers
<1>5. CASE p = 8
  BY <1>5, SMT DEF BitsOf, BehindMode, ModePowers
<1>6. CASE p = 16
  BY <1>6, SMT DEF BitsOf, BehindMode, ModePowers
<1>7. CASE p = 32
  BY <1>7, SMT DEF BitsOf, BehindMode, ModePowers
<1>8. CASE p = 64
  BY <1>8, SMT DEF BitsOf, BehindMode, ModePowers
<1>9. CASE p = 128
  BY <1>9, SMT DEF BitsOf, BehindMode, ModePowers
<1> QED
  BY <1>1, <1>2, <1>3, <1>4, <1>5, <1>6, <1>7, <1>8, <1>9, Zenon

\* The mode of an upload is the least whose fetch sizes reach its size.
UploadModeIs(n, m) == n <= 2^(15 + m) /\ \A j \in 0 .. m - 1 : n > 2^(15 + j)

LEMMA SizesInRange == ASSUME NEW n \in Nat, n <= SECTOR_SIZE PROVE n <= 4194304
<1>1. SECTOR_SIZE = 4194304
  BY SMT DEF SECTOR_SIZE
<1> QED
  BY <1>1, SMT

LEMMA UploadMode ==
    ASSUME NEW n \in Nat, n <= SECTOR_SIZE
    PROVE  \E m \in 0 .. 7 : UploadModeIs(n, m)
<1> DEFINE S == {j \in 0 .. 7 : n <= 2^(15 + j)}
<1>1. 7 \in S
  <2>1. n <= 4194304
    BY SizesInRange, SMT
  <2>2. 2^(15 + 7) = 4194304
    BY SMT
  <2> QED
    BY <2>1, <2>2, SMT
<1>2. \A j : j \in S <=> j \in 0 .. 7 /\ n <= 2^(15 + j)
  OBVIOUS
<1>3. S \in SUBSET Nat
  OBVIOUS
<1> HIDE DEF S
<1>4. PICK m \in S : \A j \in S : m <= j
  BY <1>1, <1>3, LeastOf
<1>5. m \in 0 .. 7 /\ n <= 2^(15 + m)
  BY <1>2, <1>4, Zenon
<1>6. ASSUME NEW j \in 0 .. m - 1 PROVE n > 2^(15 + j)
  <2>1. j \in 0 .. 7 /\ ~(m <= j)
    BY <1>5, SMT
  <2>2. ~(n <= 2^(15 + j))
    BY <1>2, <1>4, <2>1, Zenon
  <2>3. 2^(15 + j) \in Nat
    BY <2>1, PowerOf, Zenon DEF Powers
  <2>4. PICK a : a = 2^(15 + j)
    OBVIOUS
  <2>5. a \in Nat /\ ~(n <= a)
    BY <2>2, <2>3, <2>4, Zenon
  <2>6. n > a
    BY <2>5, SMT
  <2> QED
    BY <2>4, <2>6, Zenon
<1>7. UploadModeIs(n, m)
  BY <1>5, <1>6, Zenon DEF UploadModeIs
<1> QED
  BY <1>5, <1>7, Zenon

\* The fields that an upload's link is made of.
UploadParts(n, m, p, d, bits) ==
    LET target == IF m = 0 THEN n ELSE n - 2^(14 + m)
        increment == IF m = 0 THEN BlockSize ELSE 2^(11 + m)
    IN  /\ d = IF target = 0 THEN 0 ELSE (target - 1) \div increment
        /\ bits = (d * 2^(3 + m)) + ((2^m) - 1) * 4
        /\ p = 2^m

LEMMA UploadPartsAre ==
    ASSUME NEW n \in Nat, n >= 1, NEW m \in 0 .. 7, NEW p, NEW d, NEW bits,
           UploadModeIs(n, m), UploadParts(n, m, p, d, bits)
    PROVE  \E k, f : /\ Fetches(n, d, k, f) /\ BitsOf(p, d, bits)
                     /\ f = IF m = 0 THEN (d + 1) * BlockSize
                            ELSE (d + 1) * (BlockSize * 2^(m - 1)) + 8 * (BlockSize * 2^(m - 1))
<1>1. p \in ModePowers /\ Powers(m, p)
  BY PowerOf, Zenon DEF UploadParts
<1>2. BitsOf(p, d, bits)
  BY <1>1, Zenon DEF UploadParts, BitsOf, Powers
<1>4. CASE m = 0
  <2>1. PICK k, f : k = d + 1 /\ f = (d + 1) * BlockSize
    OBVIOUS
  <2>2. d = (n - 1) \div BlockSize
    <3>1. n # 0
      BY SMT
    <3> QED
      BY <1>4, <3>1, Zenon DEF UploadParts
  <2>3. n <= 8 * BlockSize
    BY <1>1, <1>4, Zenon DEF UploadModeIs, Powers
  <2>4. FirstMode(n, d, k, f)
    BY <2>1, <2>2, <2>3, Zenon DEF FirstMode
  <2>5. Fetches(n, d, k, f)
    BY <2>4, FirstFetches, Zenon
  <2> QED
    BY <1>2, <1>4, <2>1, <2>5, Zenon
<1>5. CASE m # 0
  <2>1. PICK h, w : h = 2^(m - 1) /\ w = BlockSize * h
    OBVIOUS
  <2>2. /\ h \in {1, 2, 4, 8, 16, 32, 64} /\ 2^(11 + m) = w /\ 2^(14 + m) = 8 * w
        /\ 2^(15 + (m - 1)) = 8 * w /\ 2^(15 + m) = 16 * w
    BY <1>1, <1>5, <2>1, Zenon DEF Powers
  <2>3. m - 1 \in 0 .. m - 1
    BY <1>5
  <2>4. n > 8 * w /\ n <= 16 * w
    BY <2>2, <2>3, Zenon DEF UploadModeIs
  <2>5. w \in Nat
    BY <2>1, <2>2, SMT DEF BlockSize
  <2>6. n - 8 * w # 0
    BY <2>4, <2>5, SMT
  <2>7. d = ((n - 8 * w) - 1) \div w
    BY <1>5, <2>2, <2>6, Zenon DEF UploadParts
  <2>8. PICK k, f : k = (d + 9) * h /\ f = (d + 1) * w + 8 * w
    OBVIOUS
  <2>9. OtherMode(h, n, d, k, f)
    BY <2>1, <2>4, <2>7, <2>8, Zenon DEF OtherMode
  <2>10. Fetches(n, d, k, f)
    BY <2>2, <2>9, OtherFetches, Zenon
  <2>11. f = (d + 1) * (BlockSize * 2^(m - 1)) + 8 * (BlockSize * 2^(m - 1))
    BY <2>1, <2>8, Zenon
  <2> QED
    BY <1>2, <1>5, <2>10, <2>11, Zenon
<1> QED
  BY <1>4, <1>5, Zenon

LeastMode(n) == CHOOSE m \in 0 .. 7 : n <= 2^(15 + m) /\ \A i \in 0 .. m - 1 : n > 2^(15 + i)

\* The link of an upload fetches whole blocks from the beginning, and all of
\* the bytes that were uploaded.
LEMMA UploadFetches ==
    ASSUME NEW n \in Nat, n >= 1, n <= SECTOR_SIZE
    PROVE  \E k, f : /\ f \in Nat /\ k \in 1 .. 1024 /\ f = BlockSize * k /\ n <= f
                     /\ ParseSkylinkBitfield(SkylinkV1Bitfield(n)) =
                            [version |-> 1, offset |-> 0, fetchSize |-> f]
<1>1. PICK m : m = CHOOSE i \in 0 .. 7 : UploadModeIs(n, i)
  OBVIOUS
<1>2. m \in 0 .. 7 /\ UploadModeIs(n, m)
  BY <1>1, UploadMode, Zenon
<1>3. m = LeastMode(n)
  BY <1>1, Zenon DEF UploadModeIs, LeastMode
<1>4. PICK p, d, bits : UploadParts(n, m, p, d, bits) /\ bits = SkylinkV1Bitfield(n)
  <2>1. SkylinkV1Bitfield(n) =
            LET mode == LeastMode(n)
                target == IF mode = 0 THEN n ELSE n - 2^(14 + mode)
                increment == IF mode = 0 THEN BlockSize ELSE 2^(11 + mode)
                downloadNumber == IF target = 0 THEN 0 ELSE (target - 1) \div increment
            IN  (downloadNumber * 2^(3 + mode)) + ((2^mode) - 1) * 4
    BY Zenon DEF SkylinkV1Bitfield, LeastMode
  <2>2. SkylinkV1Bitfield(n) =
            LET target == IF m = 0 THEN n ELSE n - 2^(14 + m)
                increment == IF m = 0 THEN BlockSize ELSE 2^(11 + m)
                downloadNumber == IF target = 0 THEN 0 ELSE (target - 1) \div increment
            IN  (downloadNumber * 2^(3 + m)) + ((2^m) - 1) * 4
    BY <1>3, <2>1, Zenon
  <2> QED
    BY <2>2, Zenon DEF UploadParts
<1>5. p = 2^m
  BY <1>4, Zenon DEF UploadParts
<1>6. PICK k, f : /\ Fetches(n, d, k, f) /\ BitsOf(p, d, bits)
                  /\ f = IF m = 0 THEN (d + 1) * BlockSize
                         ELSE (d + 1) * (BlockSize * 2^(m - 1)) + 8 * (BlockSize * 2^(m - 1))
  BY <1>2, <1>4, UploadPartsAre, ZenonT(60)
<1>7. f \in Nat /\ d \in 0 .. 7 /\ k \in 1 .. 1024 /\ f = BlockSize * k /\ n <= f
  BY <1>6, Zenon DEF Fetches
<1>8. p \in ModePowers /\ Powers(m, p)
  BY <1>2, <1>5, PowerOf, Zenon
<1>9. PICK q : q = bits \div 4
  OBVIOUS
<1>10. /\ bits # 1 /\ bits % 4 = 0 /\ q % 256 # 255
       /\ q % (2 * p) = p - 1 /\ q \div (2 * p) = d
       /\ \A r \in ModePowers : q % (2 * r) = r - 1 => r = p
  <2>1. BehindMode(p, d, bits)
    BY <1>6, <1>7, <1>8, BitsAre, Zenon
  <2> QED
    BY <1>9, <2>1, Zenon DEF BehindMode
<1>11. Mode(q) = m
  <2>1. q % 2^(m + 1) = (2^m) - 1
    BY <1>5, <1>8, <1>10, Zenon DEF Powers
  <2>2. ASSUME NEW j \in 0 .. 7, q % 2^(j + 1) = (2^j) - 1 PROVE j = m
    <3>1. 2^j \in ModePowers /\ 2^(j + 1) = 2 * 2^j
      BY PowerOf, Zenon DEF Powers
    <3>2. 2^j = p
      BY <1>10, <2>2, <3>1, Zenon
    <3> QED
      BY <1>2, <1>5, <3>2, PowerOnce, Zenon
  <2> QED
    BY <1>2, <2>1, <2>2, Zenon DEF Mode
<1>12. PICK rest : rest = q \div 2^(m + 1)
  OBVIOUS
<1>13. rest = d /\ rest % 8 = d /\ rest \div 8 = 0
  <2>1. rest = d
    BY <1>8, <1>10, <1>12, Zenon DEF Powers
  <2> QED
    BY <1>7, <2>1, SMT
<1>14. PICK w, start : /\ w = IF m = 0 THEN BlockSize ELSE BlockSize * 2^(m - 1)
                       /\ start = IF m = 0 THEN 0 ELSE 8 * w
  OBVIOUS
<1>15. f = (d + 1) * w + start
  <2>1. CASE m = 0
    <3>1. f = (d + 1) * w /\ start = 0
      BY <1>6, <1>14, <2>1, Zenon
    <3> QED
      BY <1>7, <3>1, SMT
  <2>2. CASE m # 0
    BY <1>6, <1>14, <2>2, Zenon
  <2> QED
    BY <2>1, <2>2, Zenon
<1>16. PICK offset : offset = 0 * BlockSize * 2^m
  OBVIOUS
<1>17. offset = 0 /\ ~(offset + f > SECTOR_SIZE)
  <2>1. p \in Nat /\ offset = 0 * BlockSize * p
    BY <1>5, <1>8, <1>16, SMT DEF ModePowers
  <2>2. offset = 0
    BY <2>1, SMT DEF BlockSize
  <2>3. ~(f > SECTOR_SIZE)
    BY <1>7, SMT DEF BlockSize, SECTOR_SIZE
  <2>4. offset + f = f
    BY <1>7, <2>2, SMT
  <2> QED
    BY <2>2, <2>3, <2>4, Zenon
<1>18. ParseV1(q) = [version |-> 1, offset |-> 0, fetchSize |-> f]
  <2>1. ParseV1(q) =
            LET increment == IF m = 0 THEN BlockSize ELSE BlockSize * 2^(m - 1)
                startSize == IF m = 0 THEN 0 ELSE 8 * increment
                fetchSize == ((rest % 8) + 1) * increment + startSize
                off == (rest \div 8) * BlockSize * 2^m
            IN  IF off + fetchSize > SECTOR_SIZE
                THEN BadBitfield
                ELSE [version |-> 1, offset |-> off, fetchSize |-> fetchSize]
    BY <1>11, <1>12, Zenon DEF ParseV1
  <2>2. ParseV1(q) = IF offset + f > SECTOR_SIZE
                     THEN BadBitfield
                     ELSE [version |-> 1, offset |-> offset, fetchSize |-> f]
    BY <1>13, <1>14, <1>15, <1>16, <2>1, Zenon
  <2> QED
    BY <1>17, <2>2, Zenon
<1>19. ParseSkylinkBitfield(bits) = ParseV1(q)
  BY <1>9, <1>10, Zenon DEF ParseSkylinkBitfield
<1> QED
  BY <1>4, <1>7, <1>18, <1>19, Zenon

----------------------------------------------------------------------------
(***************************************************************************)
(* What was uploaded can be downloaded.                                    *)
(***************************************************************************)
\* What the property asks of a sector.
SectorReadable(s) ==
    /\ TotalSize(s) <= SECTOR_SIZE
    /\ \/ Layout[s].fanout = 0
       \/ FileRange(Layout[s]).to <= ParseSkylinkBitfield(UploadedLink(s).bitfield).fetchSize

TheFile(s) ==
    [file |-> [sector |-> s,
               from |-> TotalSize(s) + Layout[s].fanout - Layout[s].size,
               to |-> TotalSize(s) + Layout[s].fanout],
     portalAtFault |-> FALSE, err |-> FALSE]

\* The whole sector, sent with its proof as the answer r to the call c.
WholeSectorSent(s, c, r) ==
    /\ r.status = 200 /\ r.readable /\ r.content # Null
    /\ ResolvedLink(c, r) = UploadedLink(s)
    /\ r.content.body = [sector |-> s, length |-> FullLength(UploadedLink(s))]

\* The whole sector is taken, and the file is in it.
LEMMA WholeSectorRead ==
    ASSUME NEW s \in DOMAIN Layout, SectorReadable(s), NEW c, NEW r, WholeSectorSent(s, c, r)
    PROVE  VerifyDownloadResponse(c, r) = TheFile(s)
<1>0. /\ r.status = 200 /\ r.readable /\ r.content # Null
      /\ ResolvedLink(c, r) = UploadedLink(s)
      /\ r.content.body = [sector |-> s, length |-> FullLength(UploadedLink(s))]
  BY Zenon DEF WholeSectorSent
<1>1. PICK n, size, meta, fanout : /\ n = TotalSize(s) /\ size = Layout[s].size
                                   /\ meta = Layout[s].metadata /\ fanout = Layout[s].fanout
  OBVIOUS
<1>2. size \in Nat /\ meta \in Nat /\ fanout \in Nat
  BY <1>1, LayoutAssumption, Zenon
<1>3. n = 99 + meta + size /\ n \in Nat /\ n >= 1
  <2>1. n = 99 + meta + size
    BY <1>1, Zenon DEF TotalSize, LayoutSize
  <2> QED
    BY <1>2, <2>1, SMT
<1>4. n <= SECTOR_SIZE
  BY <1>1, Zenon DEF SectorReadable
<1>5. PICK k, f : /\ f \in Nat /\ k \in 1 .. 1024 /\ f = BlockSize * k /\ n <= f
                  /\ ParseSkylinkBitfield(SkylinkV1Bitfield(n)) = [version |-> 1, offset |-> 0, fetchSize |-> f]
  <2>1. \E k, f : /\ f \in Nat /\ k \in 1 .. 1024 /\ f = BlockSize * k /\ n <= f
                  /\ ParseSkylinkBitfield(SkylinkV1Bitfield(n)) = [version |-> 1, offset |-> 0, fetchSize |-> f]
    BY <1>3, <1>4, UploadFetches
  <2> QED
    BY <2>1
<1>6. PICK link, parsed : link = UploadedLink(s) /\ parsed = [version |-> 1, offset |-> 0, fetchSize |-> f]
  OBVIOUS
<1>7. ParseSkylinkBitfield(link.bitfield) = parsed
  <2>1. link.bitfield = SkylinkV1Bitfield(n)
    BY <1>1, <1>6 DEF UploadedLink
  <2> QED
    BY <1>5, <1>6, <2>1, Zenon
<1>8. parsed.version = 1 /\ parsed.offset = 0 /\ parsed.fetchSize = f
  BY <1>6
<1>9. PICK trailing, body, length : /\ trailing = TrailingSubtrees[k] /\ length = f + 32 * trailing
                                    /\ body = [sector |-> s, length |-> length]
  <2>1. PICK trailing : trailing = TrailingSubtrees[k]
    OBVIOUS
  <2>2. PICK length : length = f + 32 * trailing
    OBVIOUS
  <2>3. PICK body : body = [sector |-> s, length |-> length]
    OBVIOUS
  <2> QED
    BY <2>1, <2>2, <2>3
<1>10. trailing \in Nat
  <2>1. k \in 0 .. SectorBlocks
    BY <1>5, SectorBlocksIs
  <2> QED
    BY <1>9, <2>1, TrailingIs, Zenon
<1>11. f \div BlockSize = k
  BY <1>5, SMT DEF BlockSize
<1>12. r.content.body = body
  <2>1. FullLength(link) = f + 32 * trailing
    BY <1>7, <1>8, <1>9, <1>11, Zenon DEF FullLength
  <2> QED
    BY <1>0, <1>6, <1>9, <2>1, Zenon
<1>13. body.length = length /\ body.sector = s
  BY <1>9
<1>14. VerifySectorRangeProof(body, 0, f)
  <2>1. VerifySectorRangeProof([sector |-> s, length |-> BlockSize * k + 32 * TrailingSubtrees[k]], 0, BlockSize * k)
    BY <1>5, RangeVerifies, ZenonT(60)
  <2> QED
    BY <1>5, <1>9, <2>1, Zenon
<1>15. ~(length < f) /\ ~(length < LayoutSize)
  <2>1. f >= 4096
    BY <1>5, SMT DEF BlockSize
  <2>2. length >= f
    BY <1>5, <1>9, <1>10, SMT
  <2> QED
    BY <1>5, <1>9, <1>10, <2>1, <2>2, SMT DEF LayoutSize
<1>16. PICK range : range = FileRange(Layout[s])
  OBVIOUS
<1>17. range.from = n + fanout - size /\ range.to = n + fanout
  <2>1. PICK from, to : from = 99 + meta + fanout /\ to = from + size
    OBVIOUS
  <2>2. range = [from |-> from, to |-> to]
    BY <1>1, <1>16, <2>1, Zenon DEF FileRange, LayoutSize
  <2>3. from = n + fanout - size /\ to = n + fanout
    BY <1>2, <1>3, <2>1, SMT
  <2> QED
    BY <2>2, <2>3
<1>18. ~(f < range.to)
  <2>1. CASE fanout = 0
    <3>1. n + fanout = n
      BY <1>3, <2>1, SMT
    <3>2. ~(f < n)
      BY <1>3, <1>5, SMT
    <3>3. range.to = n
      BY <1>17, <3>1, Zenon
    <3> QED
      BY <3>2, <3>3, Zenon
  <2>2. CASE fanout # 0
    <3>1. range.to <= f
      BY <1>1, <1>6, <1>7, <1>8, <1>16, <2>2, Zenon DEF SectorReadable
    <3>2. PICK to : to = range.to
      OBVIOUS
    <3>3. to \in Nat
      BY <1>2, <1>3, <1>17, <3>2, SMT
    <3>4. ~(f < to)
      <4>1. to <= f
        BY <3>1, <3>2, Zenon
      <4> QED
        BY <1>5, <3>3, <4>1, SMT
    <3> QED
      BY <3>2, <3>4, Zenon
  <2> QED
    BY <2>1, <2>2, Zenon
<1>19. VerifyDownload(body, 0, f) =
           [file |-> [sector |-> s, from |-> range.from, to |-> range.to],
            portalAtFault |-> FALSE, err |-> FALSE]
  BY <1>13, <1>14, <1>15, <1>16, <1>18, Zenon DEF VerifyDownload
<1>20. VerifyDownloadResponse(c, r) = VerifyDownload(body, 0, f)
  BY <1>0, <1>6, <1>7, <1>8, <1>12, Zenon DEF VerifyDownloadResponse
<1> QED
  BY <1>1, <1>17, <1>19, <1>20, Zenon DEF TheFile

----------------------------------------------------------------------------
\* Where a download's call and the response that it verifies come from.
CallInv ==
    /\ call \in Calls \/ call.op = "overwriteWrite"
    /\ step = "verify" => response \in Responses(call)

LEMMA CallInvHolds == Spec => []CallInv
<1>1. Init => CallInv
  BY DEF Init, CallInv
<1>2. ASSUME CallInv, [Next]_vars PROVE CallInv'
  <2>1. ASSUME UNCHANGED <<call, step, response>> PROVE CallInv'
    BY <1>2, <2>1 DEF CallInv
  <2>2. ASSUME call' = call, step' # "verify" PROVE CallInv'
    BY <1>2, <2>2 DEF CallInv
  <2>3. ASSUME NEW portals, ProgressiveFetchHelper(portals) PROVE step' # "verify"
    BY <2>3 DEF ProgressiveFetchHelper
  <2>4. ASSUME Hang \/ \E kind, data : Reply(kind, data) PROVE call' = call /\ step' # "verify"
    BY <2>4 DEF Hang, Reply
  <2>5. CASE UNCHANGED vars
    BY <2>1, <2>5 DEF vars, attempt
  <2>6. CASE Call
    BY <2>2, <2>3, <2>6 DEF Call, Begin
  <2>7. CASE CallRefused
    BY <2>2, <2>4, <2>7 DEF CallRefused
  <2>8. CASE ProgressiveFetch
    <3>1. ASSUME NEW r, NextPortal(r) PROVE CallInv'
      BY <2>2, <2>3, <3>1 DEF NextPortal
    <3>2. ASSUME NEW r \in Responses(call), FetchAnswers(r) PROVE CallInv'
      <4>1. call' = call /\ response' = r
        BY <3>2 DEF FetchAnswers
      <4>2. response' \in Responses(call')
        BY <3>2, <4>1, Zenon
      <4>3. call' \in Calls \/ call'.op = "overwriteWrite"
        BY <1>2, <4>1, Zenon DEF CallInv
      <4> QED
        BY <4>2, <4>3, Zenon DEF CallInv
    <3>3. TextFails \/ VerifyRejects \/ VerifyResolves => call' = call /\ step' # "verify"
      BY DEF TextFails, VerifyRejects, VerifyResolves
    <3> QED
      BY <2>2, <2>8, <3>1, <3>2, <3>3, Zenon DEF ProgressiveFetch, FetchFails, TextRead
  <2>9. CASE OverwriteGoesOn
    <3>1. CASE (success \/ (~NullBefore404 /\ Any404)) /\ EncodesU64(NextRevision)
      <4>1. PICK revision : call' = [call EXCEPT !.op = "overwriteWrite", !.revision = revision]
        BY <2>9, <3>1, Zenon DEF OverwriteGoesOn
      <4>2. "op" \in DOMAIN call
        <5>1. call.op = "overwriteRead"
          BY <2>9 DEF OverwriteGoesOn
        <5> QED
          BY <1>2, <5>1, CallsAssumption DEF CallInv
      <4>3. call'.op = "overwriteWrite"
        BY <4>1, <4>2
      <4>4. step' # "verify"
        BY <2>3, <2>9, <3>1 DEF OverwriteGoesOn, Begin
      <4> QED
        BY <4>3, <4>4, Zenon DEF CallInv
    <3>2. CASE ~((success \/ (~NullBefore404 /\ Any404)) /\ EncodesU64(NextRevision))
      BY <2>2, <2>4, <2>9, <3>2 DEF OverwriteGoesOn, NoEntry
    <3> QED
      BY <3>1, <3>2
  <2>10. CASE DownloadEnds
    BY <2>2, <2>4, <2>10 DEF DownloadEnds
  <2>11. CASE SecureUploadEnds
    BY <2>2, <2>4, <2>11 DEF SecureUploadEnds
  <2>12. CASE NodeUploadEnds
    BY <2>2, <2>4, <2>12 DEF NodeUploadEnds
  <2>13. CASE ReadEntryEnds
    BY <2>2, <2>4, <2>13 DEF ReadEntryEnds, NoEntry
  <2>14. CASE NodeReadEnds
    BY <2>2, <2>4, <2>14 DEF NodeReadEnds, NoEntry
  <2>15. CASE WriteEnds
    BY <2>2, <2>4, <2>15 DEF WriteEnds
  <2> QED
    BY <1>2, <2>5, <2>6, <2>7, <2>8, <2>9, <2>10, <2>11, <2>12, <2>13, <2>14, <2>15 DEF Next
<1> QED
  BY <1>1, <1>2, PTL DEF Spec

\* For every file that a sector has room for, of whatever size, the link that its
\* upload computes fetches all of it, and the portal that sends the sector is
\* believed and the file returned.
THEOREM UploadsAreReadable == Spec => []UploadsReadable
<1>1. ASSUME CallInv PROVE UploadsReadable
  <2>1. PICK s : s = call.sector
    OBVIOUS
  <2>2. SUFFICES ASSUME step = "verify", IsDownload(call), response.status = 200, response.content # Null,
                        SectorReadable(s), ResolvedLink(call, response) = UploadedLink(s),
                        response.content.body = [sector |-> s, length |-> FullLength(UploadedLink(s))]
                 PROVE  VerifyDownloadResponse(call, response) = TheFile(s)
    BY <2>1, Zenon DEF UploadsReadable, SectorReadable, TheFile
  <2>3. s \in DOMAIN Layout
    <3>1. call.op # "overwriteWrite"
      BY <2>2 DEF IsDownload
    <3> QED
      BY <1>1, <2>1, <3>1, CallsAssumption DEF CallInv
  <2>4. response.readable
    <3>1. response \in Responses(call)
      BY <1>1, <2>2 DEF CallInv
    <3> QED
      BY <2>2, <3>1, ZenonT(60) DEF Responses
  <2>5. PICK c, r : c = call /\ r = response
    OBVIOUS
  <2>6. VerifyDownloadResponse(c, r) = TheFile(s)
    <3>1. WholeSectorSent(s, c, r)
      BY <2>2, <2>4, <2>5, Zenon DEF WholeSectorSent
    <3>2. SectorReadable(s)
      BY <2>2, Zenon
    <3> QED
      BY <2>3, <3>1, <3>2, WholeSectorRead, Zenon
  <2> QED
    BY <2>5, <2>6, Zenon
<1> QED
  BY <1>1, CallInvHolds, PTL
=============================================================================
