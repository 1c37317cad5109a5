------------------------ MODULE KernelRequests_proofs ------------------------
(***************************************************************************)
(* Answers meet their questions, for any number of requests and pages and any *)
(* number of documents of the frame.                                       *)
(***************************************************************************)
EXTENDS KernelRequests, FiniteSetTheorems, TLAPS

\* A sequence of whatever it holds.
IsSequence(s) == s \in Seq({s[i] : i \in DOMAIN s})

Request ==
    [url : Urls, verb : {"GET", "POST"}, phase : {"new", "asked", "stopped", "closed"},
     type : {"none", "as served", "text/html", "image/png"},
     result : Urls \cup {NoBody}, written : {<<>>} \cup {<<u>> : u \in Urls}]

Hook == [phase : {"idle", "pending", "done", "failed"}, method : Methods \cup {"unknown"},
         body : {NoBody, "version", "errs"}]

\* A request of the browser gets its own file, and shows it once.
RequestGood(q) ==
    /\ q \in Request
    /\ q.result \in {NoBody, q.url}
    /\ q.phase # "closed" => q.written = <<>>
    /\ q.written \in {<<>>, <<q.url>>}
    /\ q.phase \in {"stopped", "closed"} => q.type = ContentType(q.url)
    /\ q.phase = "new" => q.result = NoBody

\* What a page may be told by the kernel.
Told(method, body) ==
    \/ method = "version" /\ body = "version"
    \/ method = "checkErrs" /\ body = "errs"

HookGood(h) == h \in Hook /\ (h.phase = "done" => Told(h.method, h.body))

StateInv ==
    /\ requests \in [Requests -> Request] /\ \A r \in Requests : RequestGood(requests[r])
    /\ hooks \in [Hooks -> Hook] /\ \A g \in Hooks : HookGood(hooks[g])
    /\ overrides = NoOverrides

\* A nonce names one query for ever: of a request that was posted, or of a page.
NonceInv ==
    /\ queriesNonce \in Nat
    /\ sentTo \in [Requests -> Nat]
    /\ \A n \in DOMAIN queries :
        \/ n \in 0 .. queriesNonce - 1 /\ queries[n] \in Requests /\ sentTo[queries[n]] # 0
        \/ n \in Hooks /\ queries[n] = n
    /\ \A n, p \in DOMAIN queries : queries[n] = queries[p] => n = p
    /\ \A r \in Requests : sentTo[r] # 0 /\ requests[r].result = NoBody =>
        \E n \in DOMAIN queries : queries[n] = r
    /\ \A r \in Requests : requests[r].phase = "new" => sentTo[r] = 0

\* Whoever is blocked has asked once and not been posted yet.
BlockedInv ==
    /\ IsSequence(blocked)
    /\ \A i \in DOMAIN blocked :
        /\ blocked[i] \in Requests /\ sentTo[blocked[i]] = 0
        /\ requests[blocked[i]].phase # "new" /\ requests[blocked[i]].url \in Overridden
    /\ \A i, j \in DOMAIN blocked : blocked[i] = blocked[j] => i = j

\* There are no messages of a frame before the first document.
FrameInv ==
    /\ frames \in Nat
    /\ (status # "none" \/ up # <<>> \/ frame # "absent") => frames # 0

\* A message to the frame asks for the file of its request, or what its page asked.
Question(m) ==
    \/ /\ m.method = "requestOverride" /\ m.url \in Overridden
       /\ m.nonce \in 0 .. queriesNonce - 1
       /\ m.nonce \in DOMAIN queries => requests[queries[m.nonce]].url = m.url
    \/ /\ m.method \in Methods
       /\ m.nonce \in Hooks /\ hooks[m.nonce].phase # "idle"
       /\ hooks[m.nonce].phase = "pending" => hooks[m.nonce].method = m.method

\* A response of the frame is the file of its request, or what its page may be told.
AnswerGood(m) ==
    \/ /\ m.nonce \in 0 .. queriesNonce - 1
       /\ m.nonce \in DOMAIN queries => requests[queries[m.nonce]].url = m.body
    \/ /\ m.nonce \in Hooks /\ hooks[m.nonce].phase # "idle"
       /\ hooks[m.nonce].phase = "pending" /\ m.err = "none" => Told(hooks[m.nonce].method, m.body)

ChannelInv ==
    /\ IsSequence(down) /\ IsSequence(up)
    /\ DOMAIN held = Overridden /\ \A u \in Overridden : IsSequence(held[u])
    /\ \A m \in ToSet(down) : Question(m)
    /\ \A u \in Overridden : \A m \in ToSet(held[u]) :
        Question(m) /\ m.method = "requestOverride" /\ m.url = u
    /\ \A m \in ToSet(up) : m.method = "response" => AnswerGood(m)

IInv == StateInv /\ NonceInv /\ BlockedInv /\ FrameInv /\ ChannelInv

----------------------------------------------------------------------------
(* Sequences and maps.                                                     *)

LEMMA EmptySequence == IsSequence(<<>>) /\ ToSet(<<>>) = {} /\ DOMAIN <<>> = {}
BY DEF IsSequence, ToSet

LEMMA SequenceOf ==
    ASSUME NEW S, NEW s \in Seq(S)
    PROVE  IsSequence(s)
<1>1. Len(s) \in Nat /\ DOMAIN s = 1 .. Len(s) /\ s = [i \in 1 .. Len(s) |-> s[i]]
  OBVIOUS
<1> DEFINE T == {s[i] : i \in DOMAIN s}
<1>2. s \in [1 .. Len(s) -> T]
  BY <1>1
<1>3. s \in Seq(T)
  BY <1>1, <1>2
<1> QED
  BY <1>3 DEF IsSequence

LEMMA AppendElements ==
    ASSUME NEW s, NEW e, IsSequence(s)
    PROVE  IsSequence(Append(s, e)) /\ ToSet(Append(s, e)) = ToSet(s) \cup {e}
<1> DEFINE S == {s[i] : i \in DOMAIN s} \cup {e}
           t == Append(s, e)
<1>1. s \in Seq(S)
  BY DEF IsSequence
<1>2. /\ t \in Seq(S) /\ Len(s) \in Nat /\ Len(t) = Len(s) + 1
      /\ \A i \in 1 .. Len(s) : t[i] = s[i]
      /\ t[Len(s) + 1] = e
      /\ DOMAIN s = 1 .. Len(s) /\ DOMAIN t = 1 .. Len(t)
  BY <1>1
<1> HIDE DEF t
<1>3. IsSequence(t)
  BY <1>2, SequenceOf
<1>4. ToSet(t) = ToSet(s) \cup {e}
  BY <1>2 DEF ToSet
<1> QED
  BY <1>3, <1>4 DEF t

LEMMA ConcatElements ==
    ASSUME NEW s, NEW u, IsSequence(s), IsSequence(u)
    PROVE  IsSequence(s \o u) /\ ToSet(s \o u) = ToSet(s) \cup ToSet(u)
<1> DEFINE S == {s[i] : i \in DOMAIN s} \cup {u[i] : i \in DOMAIN u}
           t == s \o u
<1>1. s \in Seq(S) /\ u \in Seq(S)
  BY DEF IsSequence
<1>2. /\ t \in Seq(S) /\ Len(s) \in Nat /\ Len(u) \in Nat /\ Len(t) = Len(s) + Len(u)
      /\ \A i \in 1 .. Len(s) : t[i] = s[i]
      /\ \A i \in 1 .. Len(u) : t[Len(s) + i] = u[i]
      /\ DOMAIN s = 1 .. Len(s) /\ DOMAIN u = 1 .. Len(u) /\ DOMAIN t = 1 .. Len(t)
  BY <1>1
<1> HIDE DEF t
<1>3. IsSequence(t)
  BY <1>2, SequenceOf
<1>4. ToSet(t) \subseteq ToSet(s) \cup ToSet(u)
  <2>1. SUFFICES ASSUME NEW i \in 1 .. Len(t)
                 PROVE  t[i] \in ToSet(s) \cup ToSet(u)
    BY <1>2 DEF ToSet
  <2>2. CASE i <= Len(s)
    BY <1>2, <2>2 DEF ToSet
  <2>3. CASE i > Len(s)
    <3>1. i - Len(s) \in 1 .. Len(u) /\ i = Len(s) + (i - Len(s))
      BY <1>2, <2>3
    <3>2. t[i] = u[i - Len(s)]
      BY <1>2, <3>1
    <3> QED
      BY <1>2, <3>1, <3>2 DEF ToSet
  <2> QED
    BY <1>2, <2>2, <2>3
<1>5. ToSet(s) \subseteq ToSet(t)
  <2>1. \A i \in 1 .. Len(s) : i \in 1 .. Len(t) /\ t[i] = s[i]
    BY <1>2
  <2> QED
    BY <1>2, <2>1 DEF ToSet
<1>6. ToSet(u) \subseteq ToSet(t)
  <2>1. \A i \in 1 .. Len(u) : Len(s) + i \in 1 .. Len(t) /\ t[Len(s) + i] = u[i]
    BY <1>2
  <2> QED
    BY <1>2, <2>1 DEF ToSet
<1> QED
  BY <1>3, <1>4, <1>5, <1>6 DEF t

LEMMA HeadAndTail ==
    ASSUME NEW s, IsSequence(s), s # <<>>
    PROVE  IsSequence(Tail(s)) /\ Head(s) \in ToSet(s) /\ ToSet(Tail(s)) \subseteq ToSet(s)
<1> DEFINE S == {s[i] : i \in DOMAIN s}
           t == Tail(s)
<1>1. s \in Seq(S)
  BY DEF IsSequence
<1>2. /\ t \in Seq(S) /\ Len(s) \in Nat \ {0} /\ Len(t) = Len(s) - 1 /\ Head(s) = s[1]
      /\ \A i \in 1 .. Len(t) : t[i] = s[i + 1] /\ i + 1 \in 1 .. Len(s)
      /\ DOMAIN s = 1 .. Len(s) /\ DOMAIN t = 1 .. Len(t)
  BY <1>1
<1> HIDE DEF t
<1>3. IsSequence(t)
  BY <1>2, SequenceOf
<1>4. ToSet(t) \subseteq ToSet(s)
  BY <1>2 DEF ToSet
<1>5. Head(s) \in ToSet(s)
  BY <1>2 DEF ToSet
<1> QED
  BY <1>3, <1>4, <1>5 DEF t

\* A sequence made from another, element by element.
LEMMA MappedElements ==
    ASSUME NEW s, IsSequence(s), NEW t, DOMAIN t = DOMAIN s,
           t = [i \in DOMAIN s |-> t[i]]
    PROVE  IsSequence(t) /\ ToSet(t) = {t[i] : i \in DOMAIN s}
<1>1. Len(s) \in Nat /\ DOMAIN s = 1 .. Len(s)
  BY DEF IsSequence
<1>2. t \in [1 .. Len(s) -> {t[i] : i \in DOMAIN t}]
  BY <1>1
<1>3. IsSequence(t)
  BY <1>1, <1>2 DEF IsSequence
<1> QED
  BY <1>3 DEF ToSet

----------------------------------------------------------------------------
(* What the steps share.                                                   *)

\* Nothing that a message was right about has changed.
Kept ==
    /\ queriesNonce' \in Nat /\ queriesNonce <= queriesNonce'
    /\ \A n \in DOMAIN queries' : n \in 0 .. queriesNonce - 1 =>
        n \in DOMAIN queries /\ queries'[n] = queries[n]
    /\ \A r \in Requests : requests[r].phase # "new" => requests'[r].url = requests[r].url
    /\ \A g \in Hooks : hooks[g].phase # "idle" =>
        /\ hooks'[g].phase # "idle"
        /\ hooks'[g].phase = "pending" =>
            hooks[g].phase = "pending" /\ hooks'[g].method = hooks[g].method

LEMMA MessagesStay ==
    ASSUME NonceInv, Kept
    PROVE  /\ \A m : Question(m) => Question(m)'
           /\ \A m : AnswerGood(m) => AnswerGood(m)'
<1>1. \A g \in Hooks : g \notin Nat
  BY KernelRequestsAssumption
<1>2. \A n \in 0 .. queriesNonce - 1 : n \in 0 .. queriesNonce' - 1
  <2>1. queriesNonce \in Nat /\ queriesNonce' \in Nat /\ queriesNonce <= queriesNonce'
    BY DEF Kept, NonceInv
  <2> DEFINE a == queriesNonce
             b == queriesNonce'
  <2>2. a \in Nat /\ b \in Nat /\ a <= b
    BY <2>1
  <2> HIDE DEF a, b
  <2>3. \A n \in 0 .. a - 1 : n \in 0 .. b - 1
    BY <2>2
  <2> QED
    BY <2>3 DEF a, b
<1>3. ASSUME NEW n \in 0 .. queriesNonce - 1, NEW file,
             n \in DOMAIN queries => requests[queries[n]].url = file
      PROVE  n \in DOMAIN queries' => requests'[queries'[n]].url = file
  <2>1. SUFFICES ASSUME n \in DOMAIN queries'
                 PROVE  requests'[queries'[n]].url = file
    OBVIOUS
  <2>2. n \in DOMAIN queries /\ queries'[n] = queries[n]
    BY <2>1 DEF Kept
  <2>3. n \notin Hooks
    BY <1>1, <1>3 DEF NonceInv
  <2>4. queries[n] \in Requests /\ requests[queries[n]].phase # "new"
    BY <2>2, <2>3 DEF NonceInv
  <2> QED
    BY <1>3, <2>2, <2>4 DEF Kept
<1>4. ASSUME NEW m, Question(m)
      PROVE  Question(m)'
  <2>1. CASE m.method = "requestOverride" /\ m.nonce \in 0 .. queriesNonce - 1
    BY <1>2, <1>3, <1>4, <2>1, KernelRequestsAssumption DEF Question
  <2>2. CASE m.method \in Methods /\ m.nonce \in Hooks
    BY <1>1, <1>4, <2>2, KernelRequestsAssumption DEF Question, Kept
  <2> QED
    BY <1>4, <2>1, <2>2 DEF Question
<1>5. ASSUME NEW m, AnswerGood(m)
      PROVE  AnswerGood(m)'
  <2>1. CASE m.nonce \in 0 .. queriesNonce - 1
    <3>1. m.nonce \notin Hooks
      BY <1>1, <2>1
    <3> QED
      BY <1>2, <1>3, <1>5, <2>1, <3>1 DEF AnswerGood
  <2>2. CASE m.nonce \in Hooks
    BY <1>1, <1>5, <2>2 DEF AnswerGood, Kept
  <2> QED
    BY <1>5, <2>1, <2>2 DEF AnswerGood
<1> QED
  BY <1>4, <1>5

\* Nothing happens to requests, queries and pages.
LEMMA NothingKept ==
    ASSUME NonceInv, UNCHANGED <<requests, hooks, queriesNonce, queries>>
    PROVE  Kept
BY DEF Kept, NonceInv

\* What the background registers and posts for several requests.
LEMMA SendsFacts ==
    ASSUME NonceInv, IsSequence(down), NEW rs, IsSequence(rs), NEW given, Sends(rs, given)
    PROVE  /\ queriesNonce' \in Nat /\ queriesNonce' = queriesNonce + Len(rs) /\ Len(rs) \in Nat
           /\ DOMAIN rs = 1 .. Len(rs)
           /\ DOMAIN queries' = DOMAIN queries \cup {Nonce(i) : i \in DOMAIN rs}
           /\ \A n \in DOMAIN queries : queries'[n] = queries[n]
           /\ \A i \in DOMAIN rs :
               /\ Nonce(i) \in queriesNonce .. queriesNonce' - 1
               /\ queries'[Nonce(i)] = rs[i]
               /\ Nonce(i) \notin DOMAIN queries
           /\ IsSequence(down')
           /\ \A m \in ToSet(down') : m \in ToSet(down) \/ \E i \in DOMAIN rs :
               m = Message("requestOverride", Nonce(i), given[rs[i]].url, given[rs[i]].verb, NoOverrides)
           /\ sentTo' = [r \in Requests |-> IF r \in ToSet(rs) THEN frames ELSE sentTo[r]]
<1>1. Len(rs) \in Nat /\ DOMAIN rs = 1 .. Len(rs) /\ queriesNonce \in Nat
  BY DEF IsSequence, NonceInv
<1>2. queriesNonce' = queriesNonce + Len(rs) /\ queriesNonce' \in Nat
  BY <1>1 DEF Sends
<1>3. \A i \in DOMAIN rs : Nonce(i) \in queriesNonce .. queriesNonce' - 1
  BY <1>1, <1>2 DEF Nonce
<1>4. \A i, j \in DOMAIN rs : Nonce(i) = Nonce(j) => i = j
  BY <1>1 DEF Nonce
<1>5. \A n \in DOMAIN queries : n \notin queriesNonce .. queriesNonce' - 1
  <2>1. ASSUME NEW n \in DOMAIN queries
        PROVE  n \notin queriesNonce .. queriesNonce' - 1
    <3>1. CASE n \in 0 .. queriesNonce - 1
      BY <1>1, <1>2, <3>1
    <3>2. CASE n \in Hooks
      BY <1>1, <1>2, <3>2, KernelRequestsAssumption
    <3> QED
      BY <2>1, <3>1, <3>2 DEF NonceInv
  <2> QED
    BY <2>1
<1> DEFINE new == [n \in {Nonce(i) : i \in DOMAIN rs} |->
                    rs[CHOOSE i \in DOMAIN rs : /\ Nonce(i) = n
                                                /\ \A j \in DOMAIN rs : Nonce(j) = n => j <= i]]
<1>6. \A i \in DOMAIN rs : new[Nonce(i)] = rs[i]
  <2>1. SUFFICES ASSUME NEW i \in DOMAIN rs
                 PROVE  (CHOOSE k \in DOMAIN rs : /\ Nonce(k) = Nonce(i)
                                                  /\ \A j \in DOMAIN rs : Nonce(j) = Nonce(i) => j <= k) = i
    OBVIOUS
  <2>2. \A j \in DOMAIN rs : Nonce(j) = Nonce(i) => j <= i
    BY <1>1, <1>4
  <2> QED
    BY <1>4, <2>2
<1>7. queries' = Adding(new)
  BY DEF Sends
<1>8. DOMAIN new = {Nonce(i) : i \in DOMAIN rs}
  OBVIOUS
<1> HIDE DEF new
<1>9. /\ DOMAIN queries' = DOMAIN queries \cup {Nonce(i) : i \in DOMAIN rs}
      /\ \A n \in DOMAIN queries : queries'[n] = queries[n]
      /\ \A i \in DOMAIN rs : queries'[Nonce(i)] = rs[i] /\ Nonce(i) \notin DOMAIN queries
  BY <1>3, <1>5, <1>6, <1>7, <1>8 DEF Adding
<1> DEFINE ms == [i \in DOMAIN rs |->
            Message("requestOverride", Nonce(i), given[rs[i]].url, given[rs[i]].verb, NoOverrides)]
<1>10. DOMAIN ms = DOMAIN rs /\ ms = [i \in DOMAIN rs |-> ms[i]]
  OBVIOUS
<1>11. \A i \in DOMAIN rs : ms[i] =
            Message("requestOverride", Nonce(i), given[rs[i]].url, given[rs[i]].verb, NoOverrides)
  OBVIOUS
<1>12. down' = down \/ down' = down \o ms
  BY DEF Sends, Post
<1> HIDE DEF ms
<1>13. IsSequence(ms) /\ ToSet(ms) = {ms[i] : i \in DOMAIN rs}
  BY <1>10, MappedElements
<1>14. IsSequence(down') /\ ToSet(down') \subseteq ToSet(down) \cup ToSet(ms)
  BY <1>12, <1>13, ConcatElements
<1>15. \A m \in ToSet(down') : m \in ToSet(down) \/ \E i \in DOMAIN rs :
          m = Message("requestOverride", Nonce(i), given[rs[i]].url, given[rs[i]].verb, NoOverrides)
  BY <1>11, <1>13, <1>14
<1>16. sentTo' = [r \in Requests |-> IF r \in ToSet(rs) THEN frames ELSE sentTo[r]]
  BY DEF Sends
<1> QED
  BY <1>1, <1>2, <1>3, <1>9, <1>14, <1>15, <1>16

\* What is posted for requests that were not posted before leaves every nonce with
\* one query.
LEMMA SendsKeep ==
    ASSUME IInv, frames # 0, NEW rs, IsSequence(rs), NEW given, Sends(rs, given),
           \A i \in DOMAIN rs :
               /\ rs[i] \in Requests /\ sentTo[rs[i]] = 0
               /\ requests'[rs[i]].phase # "new"
               /\ given[rs[i]].url \in Overridden /\ given[rs[i]].url = requests'[rs[i]].url,
           \A i, j \in DOMAIN rs : rs[i] = rs[j] => i = j,
           \A r \in Requests :
               /\ requests'[r].phase = "new" => requests[r].phase = "new"
               /\ requests'[r].result = requests[r].result
               /\ requests[r].phase # "new" => requests'[r].url = requests[r].url,
           \A g \in Hooks : hooks[g].phase # "idle" =>
               /\ hooks'[g].phase # "idle"
               /\ hooks'[g].phase = "pending" =>
                   hooks[g].phase = "pending" /\ hooks'[g].method = hooks[g].method
    PROVE  /\ NonceInv' /\ Kept
           /\ IsSequence(down')
           /\ \A m \in ToSet(down') : m \in ToSet(down) \/ Question(m)'
<1> DEFINE a == queriesNonce
           b == queriesNonce'
           d == DOMAIN queries'
<1>1. NonceInv /\ IsSequence(down)
  BY DEF IInv, ChannelInv
<1>2. /\ b \in Nat /\ b = a + Len(rs) /\ Len(rs) \in Nat
      /\ DOMAIN rs = 1 .. Len(rs)
      /\ d = DOMAIN queries \cup {Nonce(i) : i \in DOMAIN rs}
      /\ \A n \in DOMAIN queries : queries'[n] = queries[n]
      /\ \A i \in DOMAIN rs :
          /\ Nonce(i) \in a .. b - 1
          /\ queries'[Nonce(i)] = rs[i]
          /\ Nonce(i) \notin DOMAIN queries
      /\ IsSequence(down')
      /\ \A m \in ToSet(down') : m \in ToSet(down) \/ \E i \in DOMAIN rs :
          m = Message("requestOverride", Nonce(i), given[rs[i]].url, given[rs[i]].verb, NoOverrides)
      /\ sentTo' = [r \in Requests |-> IF r \in ToSet(rs) THEN frames ELSE sentTo[r]]
  BY <1>1, SendsFacts
<1>3. a \in Nat /\ sentTo \in [Requests -> Nat] /\ frames \in Nat
  BY DEF IInv, NonceInv, FrameInv
<1> HIDE DEF a, b, d
<1>4. a <= b /\ (\A n \in 0 .. a - 1 : n \in 0 .. b - 1) /\ (\A n \in a .. b - 1 : n \in 0 .. b - 1 /\ n \notin 0 .. a - 1)
  BY <1>2, <1>3
<1>5. ToSet(rs) = {rs[i] : i \in DOMAIN rs}
  BY DEF ToSet
<1>6. /\ sentTo' \in [Requests -> Nat]
      /\ \A r \in Requests : r \in ToSet(rs) => sentTo'[r] # 0
      /\ \A r \in Requests : r \notin ToSet(rs) => sentTo'[r] = sentTo[r]
  BY <1>2, <1>3
<1>7. \A n \in DOMAIN queries :
        \/ n \in 0 .. a - 1 /\ queries[n] \in Requests /\ sentTo[queries[n]] # 0
        \/ n \in Hooks /\ queries[n] = n
  BY <1>1 DEF NonceInv, a
<1>8. \A n \in d :
        \/ n \in 0 .. b - 1 /\ queries'[n] \in Requests /\ sentTo'[queries'[n]] # 0
        \/ n \in Hooks /\ queries'[n] = n
  <2>1. ASSUME NEW n \in DOMAIN queries
        PROVE  \/ n \in 0 .. b - 1 /\ queries'[n] \in Requests /\ sentTo'[queries'[n]] # 0
               \/ n \in Hooks /\ queries'[n] = n
    BY <1>2, <1>4, <1>6, <1>7
  <2>2. ASSUME NEW i \in DOMAIN rs
        PROVE  Nonce(i) \in 0 .. b - 1 /\ queries'[Nonce(i)] \in Requests /\ sentTo'[queries'[Nonce(i)]] # 0
    BY <1>2, <1>4, <1>5, <1>6
  <2> QED
    BY <1>2, <2>1, <2>2
<1>9. \A n, p \in d : queries'[n] = queries'[p] => n = p
  <2>1. ASSUME NEW n \in DOMAIN queries, NEW p \in DOMAIN queries, queries'[n] = queries'[p]
        PROVE  n = p
    BY <1>1, <1>2, <2>1 DEF NonceInv
  <2>2. ASSUME NEW n \in DOMAIN queries, NEW i \in DOMAIN rs
        PROVE  queries'[n] # queries'[Nonce(i)]
    BY <1>2, <1>7, KernelRequestsAssumption
  <2>3. ASSUME NEW i \in DOMAIN rs, NEW j \in DOMAIN rs, queries'[Nonce(i)] = queries'[Nonce(j)]
        PROVE  Nonce(i) = Nonce(j)
    BY <1>2, <2>3
  <2> QED
    BY <1>2, <2>1, <2>2, <2>3
<1>10. \A r \in Requests : sentTo'[r] # 0 /\ requests'[r].result = NoBody => \E n \in d : queries'[n] = r
  <2>1. SUFFICES ASSUME NEW r \in Requests, sentTo'[r] # 0, requests'[r].result = NoBody
                 PROVE  \E n \in d : queries'[n] = r
    OBVIOUS
  <2>2. CASE r \in ToSet(rs)
    BY <1>2, <1>5, <2>2
  <2>3. CASE r \notin ToSet(rs)
    BY <1>1, <1>2, <1>6, <2>1, <2>3 DEF NonceInv
  <2> QED
    BY <2>2, <2>3
<1>11. \A r \in Requests : requests'[r].phase = "new" => sentTo'[r] = 0
  BY <1>1, <1>5, <1>6 DEF NonceInv
<1>12. NonceInv'
  BY <1>2, <1>6, <1>8, <1>9, <1>10, <1>11 DEF NonceInv, b, d
<1>13. Kept
  <2>1. \A n \in d : n \in 0 .. a - 1 => n \in DOMAIN queries /\ queries'[n] = queries[n]
    BY <1>2, <1>4
  <2> QED
    BY <1>2, <1>4, <2>1 DEF Kept, a, b, d
<1>14. ASSUME NEW m, NEW i \in DOMAIN rs,
              m = Message("requestOverride", Nonce(i), given[rs[i]].url, given[rs[i]].verb, NoOverrides)
       PROVE  Question(m)'
  <2>1. m.method = "requestOverride" /\ m.url = given[rs[i]].url /\ m.nonce = Nonce(i)
    BY <1>14 DEF Message
  <2>2. m.url \in Overridden /\ m.nonce \in 0 .. b - 1 /\ requests'[queries'[m.nonce]].url = m.url
    BY <1>2, <1>4, <2>1
  <2> QED
    BY <2>1, <2>2 DEF Question, b
<1> QED
  BY <1>2, <1>12, <1>13, <1>14

\* Messages that were right stay right, and what is added is right.
LEMMA ChannelStays ==
    ASSUME NonceInv, ChannelInv, Kept, IsSequence(down'), IsSequence(up'), DOMAIN held' = Overridden,
           \A m \in ToSet(down') : m \in ToSet(down) \/ Question(m)',
           \A m \in ToSet(up') : m \in ToSet(up) \/ (m.method = "response" => AnswerGood(m)'),
           \A u \in Overridden : IsSequence(held'[u]),
           \A u \in Overridden : \A m \in ToSet(held'[u]) :
               m \in ToSet(held[u]) \/ (Question(m)' /\ m.method = "requestOverride" /\ m.url = u)
    PROVE  ChannelInv'
<1>1. (\A m : Question(m) => Question(m)') /\ (\A m : AnswerGood(m) => AnswerGood(m)')
  BY MessagesStay
<1>2. \A m \in ToSet(down') : Question(m)'
  BY <1>1 DEF ChannelInv
<1>3. \A m \in ToSet(up') : m.method = "response" => AnswerGood(m)'
  BY <1>1 DEF ChannelInv
<1>4. \A u \in Overridden : \A m \in ToSet(held'[u]) :
        Question(m)' /\ m.method = "requestOverride" /\ m.url = u
  BY <1>1 DEF ChannelInv
<1> QED
  BY <1>2, <1>3, <1>4 DEF ChannelInv

----------------------------------------------------------------------------
(* Every step keeps the invariant.                                         *)

\* An absent frame, and no messages.
LEMMA InitInv == Init => IInv
<1> SUFFICES ASSUME Init
             PROVE  IInv
  OBVIOUS
<1> DEFINE q == [url |-> "elsewhere", verb |-> "GET", phase |-> "new", type |-> "none",
                   result |-> NoBody, written |-> <<>>]
           h == [Failed EXCEPT !.phase = "idle"]
<1>6. RequestGood(q) /\ q \in Request
  <2>1. q \in Request
    BY DEF Request, NoBody, Urls
  <2> QED
    BY <2>1 DEF RequestGood, NoBody
<1>7. HookGood(h) /\ h \in Hook
  <2>1. h = [phase |-> "idle", method |-> "unknown", body |-> NoBody]
    BY DEF Failed
  <2>2. h \in Hook
    BY <2>1 DEF Hook, NoBody
  <2> QED
    BY <2>1, <2>2 DEF HookGood
<1>8. requests = [r \in Requests |-> q] /\ hooks = [g \in Hooks |-> h] /\ overrides = NoOverrides
  BY DEF Init
<1> HIDE DEF q, h
<1>1. StateInv
  BY <1>6, <1>7, <1>8 DEF StateInv
<1>2. NonceInv
  BY DEF Init, NonceInv
<1>3. BlockedInv
  BY EmptySequence DEF Init, BlockedInv
<1>4. FrameInv
  BY DEF Init, FrameInv
<1>5. ChannelInv
  BY EmptySequence DEF Init, ChannelInv
<1> QED
  BY <1>1, <1>2, <1>3, <1>4, <1>5 DEF IInv

\* A step of the frame changes nothing at the background script and the pages.
LEMMA FrameSteps ==
    ASSUME IInv, UNCHANGED <<browserVars, hooks, backVars>>, overrides' = overrides,
           FrameInv', IsSequence(down'), IsSequence(up'), DOMAIN held' = Overridden,
           ToSet(down') \subseteq ToSet(down),
           \A m \in ToSet(up') : m \in ToSet(up) \/ (m.method = "response" => AnswerGood(m)'),
           \A u \in Overridden : IsSequence(held'[u]),
           \A u \in Overridden : \A m \in ToSet(held'[u]) :
               m \in ToSet(held[u]) \/ (Question(m)' /\ m.method = "requestOverride" /\ m.url = u)
    PROVE  IInv'
<1> USE DEF browserVars, backVars
<1>1. StateInv'
  BY DEF IInv, StateInv
<1>2. NonceInv'
  BY DEF IInv, NonceInv
<1>3. BlockedInv'
  BY DEF IInv, BlockedInv, IsSequence
<1>4. Kept
  BY NothingKept DEF IInv
<1>5. ChannelInv'
  BY <1>4, ChannelStays DEF IInv
<1> QED
  BY <1>1, <1>2, <1>3, <1>5 DEF IInv

\* What was sent before stays.
LEMMA StatusSent ==
    ASSUME IInv, UNCHANGED <<browserVars, hooks, backVars, held, overrides, down>>, FrameInv',
           NEW loaded, up' = Append(up, Status(loaded))
    PROVE  IInv'
<1>1. IsSequence(up) /\ IsSequence(down) /\ DOMAIN held = Overridden /\ \A u \in Overridden : IsSequence(held[u])
  BY DEF IInv, ChannelInv
<1>2. IsSequence(up') /\ ToSet(up') = ToSet(up) \cup {Status(loaded)}
  BY <1>1, AppendElements
<1>3. Status(loaded).method # "response"
  BY DEF Status
<1>4. /\ ToSet(down') \subseteq ToSet(down)
      /\ \A u \in Overridden : ToSet(held'[u]) \subseteq ToSet(held[u])
  BY DEF ToSet
<1>5. IsSequence(down') /\ DOMAIN held' = Overridden /\ \A u \in Overridden : IsSequence(held'[u])
  BY <1>1
<1>6. UNCHANGED <<browserVars, hooks, backVars>> /\ overrides' = overrides
  OBVIOUS
<1>7. \A m \in ToSet(up') : m \in ToSet(up) \/ (m.method = "response" => AnswerGood(m)')
  BY <1>2, <1>3
<1>8. \A u \in Overridden : \A m \in ToSet(held'[u]) :
        m \in ToSet(held[u]) \/ (Question(m)' /\ m.method = "requestOverride" /\ m.url = u)
  BY <1>4
<1> QED
  BY <1>2, <1>4, <1>5, <1>6, <1>7, <1>8, FrameSteps

LEMMA FrameStartsInv ==
    ASSUME IInv, FrameStarts
    PROVE  IInv'
<1>1. frames \in Nat /\ frames' = frames + 1
  BY DEF IInv, FrameInv, FrameStarts
<1>2. frames' \in Nat /\ frames' # 0
  <2>1. \A n \in Nat : n + 1 \in Nat /\ n + 1 # 0
    OBVIOUS
  <2> QED
    BY <1>1, <2>1, Zenon
<1>3. FrameInv'
  BY <1>2 DEF FrameInv
<1> QED
  BY <1>3, StatusSent DEF FrameStarts

LEMMA KernelLoadsInv ==
    ASSUME IInv, KernelLoads
    PROVE  IInv'
<1>1. FrameInv'
  BY DEF IInv, FrameInv, KernelLoads, backVars
<1>2. PICK loaded : loaded = IF leaving THEN "logged out" ELSE "success"
  OBVIOUS
<1> QED
  BY <1>1, <1>2, StatusSent DEF KernelLoads

LEMMA LogOutInv ==
    ASSUME IInv, LogOut
    PROVE  IInv'
<1>1. FrameInv'
  BY DEF IInv, FrameInv, LogOut, backVars
<1> QED
  BY <1>1, StatusSent DEF LogOut

LEMMA UnloadInv ==
    ASSUME IInv, Unload
    PROVE  IInv'
<1>1. /\ UNCHANGED <<browserVars, hooks, backVars, frames, up>>
      /\ down' = <<>> /\ held' = [u \in Overridden |-> <<>>] /\ overrides' = overrides /\ frame' = "absent"
  BY DEF Unload, IInv, StateInv
<1>2. FrameInv'
  BY <1>1 DEF IInv, FrameInv, backVars
<1>3. IsSequence(up') /\ ToSet(up') \subseteq ToSet(up)
  BY <1>1 DEF IInv, ChannelInv
<1>4. IsSequence(down') /\ ToSet(down') = {} /\ DOMAIN held' = Overridden
      /\ \A u \in Overridden : IsSequence(held'[u]) /\ ToSet(held'[u]) = {}
  BY <1>1, EmptySequence
<1> QED
  BY <1>1, <1>2, <1>3, <1>4, FrameSteps

LEMMA AssetFailsInv ==
    ASSUME IInv, NEW url \in Overridden, AssetFails(url)
    PROVE  IInv'
<1>1. UNCHANGED <<browserVars, hooks, backVars, frame, frames, held, overrides, down, up>>
  BY DEF AssetFails
<1>2. FrameInv'
  BY <1>1 DEF IInv, FrameInv, backVars
<1>3. /\ IsSequence(up') /\ IsSequence(down') /\ DOMAIN held' = Overridden
      /\ \A u \in Overridden : IsSequence(held'[u])
      /\ ToSet(down') \subseteq ToSet(down) /\ ToSet(up') \subseteq ToSet(up)
      /\ \A u \in Overridden : ToSet(held'[u]) \subseteq ToSet(held[u])
  BY <1>1 DEF IInv, ChannelInv
<1>4. \A m \in ToSet(up') : m \in ToSet(up) \/ (m.method = "response" => AnswerGood(m)')
  BY <1>3
<1>5. \A u \in Overridden : \A m \in ToSet(held'[u]) :
        m \in ToSet(held[u]) \/ (Question(m)' /\ m.method = "requestOverride" /\ m.url = u)
  BY <1>3
<1> QED
  BY <1>1, <1>2, <1>3, <1>4, <1>5, FrameSteps

\* What waited for the file is answered with it.
LEMMA AssetLoadsInv ==
    ASSUME IInv, NEW url \in Overridden, AssetLoads(url)
    PROVE  IInv'
<1> DEFINE ms == [i \in DOMAIN held[url] |-> Asset(held[url][i])]
<1>1. /\ UNCHANGED <<browserVars, hooks, backVars, frame, frames, overrides, down>>
      /\ overrides' = overrides /\ up' = up \o ms /\ held' = [held EXCEPT ![url] = <<>>]
      /\ frame # "absent"
  BY DEF AssetLoads
<1>2. IsSequence(up) /\ IsSequence(down) /\ DOMAIN held = Overridden /\ \A u \in Overridden : IsSequence(held[u])
  BY DEF IInv, ChannelInv
<1>3. /\ DOMAIN ms = DOMAIN held[url] /\ ms = [i \in DOMAIN held[url] |-> ms[i]]
      /\ \A i \in DOMAIN held[url] : ms[i] = Asset(held[url][i])
  OBVIOUS
<1> HIDE DEF ms
<1>4. IsSequence(ms) /\ ToSet(ms) = {ms[i] : i \in DOMAIN held[url]}
  BY <1>2, <1>3, MappedElements
<1>5. IsSequence(up') /\ ToSet(up') = ToSet(up) \cup ToSet(ms)
  BY <1>1, <1>2, <1>4, ConcatElements
<1>6. (\A m : AnswerGood(m) => AnswerGood(m)') /\ NonceInv
  BY <1>1, NothingKept, MessagesStay DEF IInv, browserVars, backVars
<1>7. ASSUME NEW m \in ToSet(ms)
      PROVE  AnswerGood(m)'
  <2>1. PICK i \in DOMAIN held[url] : m = Asset(held[url][i])
    BY <1>3, <1>4
  <2>2. held[url][i] \in ToSet(held[url])
    BY DEF ToSet
  <2>3. Question(held[url][i]) /\ held[url][i].method = "requestOverride" /\ held[url][i].url = url
    BY <2>2 DEF IInv, ChannelInv
  <2>4. held[url][i].nonce \in 0 .. queriesNonce - 1
        /\ (held[url][i].nonce \in DOMAIN queries => requests[queries[held[url][i].nonce]].url = url)
    BY <2>3, KernelRequestsAssumption DEF Question
  <2>5. m.nonce = held[url][i].nonce /\ m.body = url
    BY <2>1, <2>3 DEF Asset, Response
  <2>6. AnswerGood(m)
    BY <2>4, <2>5 DEF AnswerGood
  <2> QED
    BY <1>6, <2>6
<1>8. \A m \in ToSet(up') : m \in ToSet(up) \/ (m.method = "response" => AnswerGood(m)')
  BY <1>5, <1>7
<1>9. /\ DOMAIN held' = Overridden
      /\ \A u \in Overridden : IsSequence(held'[u]) /\ ToSet(held'[u]) \subseteq ToSet(held[u])
  <2>1. ASSUME NEW u \in Overridden
        PROVE  IsSequence(held'[u]) /\ ToSet(held'[u]) \subseteq ToSet(held[u])
    <3>1. CASE u = url
      BY <1>1, <1>2, <3>1, EmptySequence
    <3>2. CASE u # url
      BY <1>1, <1>2, <3>2
    <3> QED
      BY <3>1, <3>2
  <2> QED
    BY <1>1, <1>2, <2>1
<1>10. \A u \in Overridden : \A m \in ToSet(held'[u]) :
        m \in ToSet(held[u]) \/ (Question(m)' /\ m.method = "requestOverride" /\ m.url = u)
  BY <1>9
<1>11. FrameInv'
  BY <1>1 DEF IInv, FrameInv, backVars
<1>12. IsSequence(down') /\ ToSet(down') \subseteq ToSet(down)
  BY <1>1, <1>2
<1>13. UNCHANGED <<browserVars, hooks, backVars>>
  BY <1>1
<1> QED
  BY <1>1, <1>5, <1>8, <1>9, <1>10, <1>11, <1>12, <1>13, FrameSteps

\* No origin is that of the dashboard, and nobody but the background is answered.
LEMMA OverridesRefused == \A m : OverridesErr(m) = "not allowed"
BY DEF OverridesErr, CallerIsDashboard, Origin, ExtensionDash, IsExtension

\* The kernel tells a page what it asked for, or an error.
LEMMA AnswerFacts ==
    ASSUME NEW m, m.method \in Methods
    PROVE  /\ Answer(m).nonce = m.nonce
           /\ Answer(m).err = "none" => Told(m.method, Answer(m).body)
<1>1. m.method \in {"version", "checkErrs", "getModuleOverrides", "setModuleOverrides", "unknown"}
  BY KernelRequestsAssumption
<1>2. GetModuleOverrides(m) = Response(m.nonce, "not allowed", NoBody)
  BY DEF GetModuleOverrides, CallerIsDashboard, Origin, ExtensionDash, IsExtension
<1>3. OverridesErr(m) = "not allowed"
  BY OverridesRefused
<1>4. CASE m.method = "version"
  BY <1>4 DEF Answer, Response, Told
<1>5. CASE m.method = "checkErrs"
  BY <1>5 DEF Answer, Response, Told
<1>6. CASE m.method = "getModuleOverrides"
  <2> DEFINE refusal == Response(m.nonce, "not allowed", NoBody)
  <2>1. Answer(m) = refusal
    BY <1>2, <1>6 DEF Answer
  <2>2. refusal.nonce = m.nonce /\ refusal.err = "not allowed"
    BY DEF Response
  <2> QED
    BY <2>1, <2>2
<1>7. CASE m.method = "setModuleOverrides"
  BY <1>3, <1>7 DEF Answer, Response
<1>8. CASE m.method = "unknown"
  BY <1>8 DEF Answer, Response
<1> QED
  BY <1>1, <1>4, <1>5, <1>6, <1>7, <1>8

\* A question becomes its answer, or waits for the file it is about.
LEMMA FrameTakesInv ==
    ASSUME IInv, FrameTakes
    PROVE  IInv'
<1>1. PICK m : m = Head(down)
  OBVIOUS
<1>2. /\ frame # "absent" /\ down # <<>> /\ down' = Tail(down)
      /\ UNCHANGED <<browserVars, hooks, backVars, frame, frames>>
      /\ overrides' = IF frame = "kernel" /\ m.method = "setModuleOverrides" /\ OverridesErr(m) = "none"
                      THEN m.list ELSE overrides
      /\ IF m.method = "requestOverride"
         THEN RequestOverride(m)
         ELSE /\ up' = Append(up, IF frame = "kernel" THEN Answer(m) ELSE Response(m.nonce, "log in", NoBody))
              /\ UNCHANGED held
  BY <1>1 DEF FrameTakes
<1>3. overrides' = overrides
  BY <1>2, OverridesRefused
<1>4. IsSequence(up) /\ IsSequence(down) /\ DOMAIN held = Overridden /\ \A u \in Overridden : IsSequence(held[u])
  BY DEF IInv, ChannelInv
<1>5. IsSequence(down') /\ ToSet(down') \subseteq ToSet(down) /\ m \in ToSet(down)
  BY <1>1, <1>2, <1>4, HeadAndTail
<1>6. Question(m)
  BY <1>5 DEF IInv, ChannelInv
<1>7. (\A a : AnswerGood(a) => AnswerGood(a)') /\ (\A a : Question(a) => Question(a)')
  BY <1>2, NothingKept, MessagesStay DEF IInv, browserVars, backVars
<1>8. FrameInv'
  <2>1. UNCHANGED <<status, frames, frame>> /\ frames # 0
    BY <1>2 DEF IInv, FrameInv, backVars
  <2> QED
    BY <2>1 DEF IInv, FrameInv
<1>9. UNCHANGED <<browserVars, hooks, backVars>>
  BY <1>2
<1>10. ASSUME NEW a, AnswerGood(a), up' = Append(up, a), UNCHANGED held
       PROVE  IInv'
  <2>1. IsSequence(up') /\ ToSet(up') = ToSet(up) \cup {a}
    BY <1>4, <1>10, AppendElements
  <2>2. \A b \in ToSet(up') : b \in ToSet(up) \/ (b.method = "response" => AnswerGood(b)')
    BY <1>7, <1>10, <2>1
  <2>3. /\ DOMAIN held' = Overridden /\ \A u \in Overridden : IsSequence(held'[u])
        /\ \A u \in Overridden : ToSet(held'[u]) \subseteq ToSet(held[u])
    BY <1>4, <1>10
  <2>4. \A u \in Overridden : \A b \in ToSet(held'[u]) :
          b \in ToSet(held[u]) \/ (Question(b)' /\ b.method = "requestOverride" /\ b.url = u)
    BY <2>3
  <2> QED
    BY <1>3, <1>5, <1>8, <1>9, <2>1, <2>2, <2>3, <2>4, FrameSteps
<1>11. CASE m.method # "requestOverride"
  <2>1. PICK a : a = IF frame = "kernel" THEN Answer(m) ELSE Response(m.nonce, "log in", NoBody)
    OBVIOUS
  <2>2. /\ m.method \in Methods
        /\ m.nonce \in Hooks /\ hooks[m.nonce].phase # "idle"
        /\ hooks[m.nonce].phase = "pending" => hooks[m.nonce].method = m.method
    BY <1>6, <1>11 DEF Question
  <2>3. a.nonce = m.nonce /\ (a.err = "none" => Told(m.method, a.body))
    <3>1. CASE frame = "kernel"
      BY <2>1, <2>2, <3>1, AnswerFacts
    <3>2. CASE frame # "kernel"
      BY <2>1, <3>2 DEF Response
    <3> QED
      BY <3>1, <3>2
  <2>4. AnswerGood(a)
    BY <2>2, <2>3 DEF AnswerGood
  <2> QED
    BY <1>2, <1>10, <1>11, <2>1, <2>4
<1>12. CASE m.method = "requestOverride"
  <2>1. /\ m.url \in Overridden /\ m.nonce \in 0 .. queriesNonce - 1
        /\ m.nonce \in DOMAIN queries => requests[queries[m.nonce]].url = m.url
    BY <1>6, <1>12, KernelRequestsAssumption DEF Question
  <2>2. CASE up' = Append(up, Asset(m)) /\ UNCHANGED held
    <3>1. PICK a : a = Asset(m)
      OBVIOUS
    <3>2. a.nonce = m.nonce /\ a.body = m.url
      BY <3>1 DEF Asset, Response
    <3>3. AnswerGood(a)
      BY <2>1, <3>2 DEF AnswerGood
    <3> QED
      BY <1>10, <2>2, <3>1, <3>3
  <2>3. CASE UNCHANGED up /\ (UNCHANGED held \/ held' = [held EXCEPT ![m.url] = Append(@, m)])
    <3>1. /\ DOMAIN held' = Overridden
          /\ \A u \in Overridden :
              IsSequence(held'[u])
              /\ \A b \in ToSet(held'[u]) : b \in ToSet(held[u]) \/ (b = m /\ u = m.url)
      <4>1. CASE UNCHANGED held
        BY <1>4, <4>1
      <4>2. CASE held' = [held EXCEPT ![m.url] = Append(@, m)]
        <5>1. IsSequence(Append(held[m.url], m)) /\ ToSet(Append(held[m.url], m)) = ToSet(held[m.url]) \cup {m}
          BY <1>4, <2>1, AppendElements
        <5>2. held'[m.url] = Append(held[m.url], m) /\ \A u \in Overridden : u # m.url => held'[u] = held[u]
          BY <1>4, <2>1, <4>2
        <5>3. ASSUME NEW u \in Overridden
              PROVE  /\ IsSequence(held'[u])
                     /\ \A b \in ToSet(held'[u]) : b \in ToSet(held[u]) \/ (b = m /\ u = m.url)
          <6>1. CASE u = m.url
            BY <5>1, <5>2, <6>1
          <6>2. CASE u # m.url
            BY <1>4, <5>2, <6>2
          <6> QED
            BY <6>1, <6>2
        <5>4. DOMAIN held' = Overridden
          BY <1>4, <4>2
        <5> QED
          BY <5>3, <5>4
      <4> QED
        BY <2>3, <4>1, <4>2
    <3>2. Question(m)'
      BY <1>6, <1>7
    <3>3. \A u \in Overridden : \A b \in ToSet(held'[u]) :
            b \in ToSet(held[u]) \/ (Question(b)' /\ b.method = "requestOverride" /\ b.url = u)
      BY <1>12, <3>1, <3>2
    <3>4. /\ IsSequence(up')
          /\ \A b \in ToSet(up') : b \in ToSet(up) \/ (b.method = "response" => AnswerGood(b)')
      BY <1>4, <2>3
    <3> QED
      BY <1>3, <1>5, <1>8, <1>9, <3>1, <3>3, <3>4, FrameSteps
  <2> QED
    BY <1>2, <1>12, <2>1, <2>2, <2>3 DEF RequestOverride
<1> QED
  BY <1>11, <1>12

\* Closing a filter writes the answer that was there.
LEMMA ClosingGood ==
    ASSUME NEW q, RequestGood(q)
    PROVE  /\ RequestGood(Closing(q))
           /\ Closing(q).url = q.url /\ Closing(q).result = q.result
           /\ Closing(q).phase = "new" => q.phase = "new"
<1>1. q \in Request
  BY DEF RequestGood
<1>2. CASE q.phase = "stopped" /\ q.result # NoBody
  <2> DEFINE w == Append(q.written, q.result)
             c == [q EXCEPT !.phase = "closed", !.written = w]
  <2>1. Closing(q) = c
    BY <1>2 DEF Closing
  <2>2. q.result = q.url /\ q.url \in Urls /\ q.written = <<>> /\ q.type = ContentType(q.url)
    BY <1>1, <1>2 DEF RequestGood, Request
  <2>3. w = <<q.url>>
    BY <2>2
  <2> HIDE DEF w
  <2>4. /\ c.phase = "closed" /\ c.written = <<q.url>> /\ c.url = q.url /\ c.result = q.result /\ c.type = q.type
        /\ c \in Request
    BY <1>1, <2>2, <2>3 DEF Request
  <2> HIDE DEF c
  <2>5. RequestGood(c)
    BY <2>2, <2>4 DEF RequestGood
  <2> QED
    BY <2>1, <2>4, <2>5
<1>3. CASE ~(q.phase = "stopped" /\ q.result # NoBody)
  BY <1>3 DEF Closing
<1> QED
  BY <1>2, <1>3

\* Requests and pages that got what they may leave the invariant of the state.
LEMMA StateStays ==
    ASSUME StateInv, overrides' = overrides,
           requests' = requests \/ \E r \in Requests : \E q : RequestGood(q) /\ requests' = [requests EXCEPT ![r] = q],
           hooks' = hooks \/ \E g \in Hooks : \E h : HookGood(h) /\ hooks' = [hooks EXCEPT ![g] = h]
    PROVE  StateInv'
<1>1. /\ requests \in [Requests -> Request] /\ \A r \in Requests : RequestGood(requests[r])
      /\ hooks \in [Hooks -> Hook] /\ \A g \in Hooks : HookGood(hooks[g])
      /\ overrides = NoOverrides
  BY DEF StateInv
<1>2. requests' \in [Requests -> Request] /\ \A r \in Requests : RequestGood(requests'[r])
  <2>1. CASE requests' = requests
    BY <1>1, <2>1
  <2>2. ASSUME NEW r \in Requests, NEW q, RequestGood(q), requests' = [requests EXCEPT ![r] = q]
        PROVE  requests' \in [Requests -> Request] /\ \A s \in Requests : RequestGood(requests'[s])
    <3>1. q \in Request
      BY <2>2 DEF RequestGood
    <3> QED
      BY <1>1, <2>2, <3>1
  <2> QED
    BY <2>1, <2>2
<1>3. hooks' \in [Hooks -> Hook] /\ \A g \in Hooks : HookGood(hooks'[g])
  <2>1. CASE hooks' = hooks
    BY <1>1, <2>1
  <2>2. ASSUME NEW g \in Hooks, NEW h, HookGood(h), hooks' = [hooks EXCEPT ![g] = h]
        PROVE  hooks' \in [Hooks -> Hook] /\ \A p \in Hooks : HookGood(hooks'[p])
    <3>1. h \in Hook
      BY <2>2 DEF HookGood
    <3> QED
      BY <1>1, <2>2, <3>1
  <2> QED
    BY <2>1, <2>2
<1> QED
  BY <1>1, <1>2, <1>3 DEF StateInv

\* The server has ended: nothing that was asked changes.
LEMMA OnHeadersReceivedInv ==
    ASSUME IInv, NEW r \in Requests, OnHeadersReceived(r)
    PROVE  IInv'
<1> DEFINE old == requests[r]
           stopped == [old EXCEPT !.type = ContentType(old.url), !.phase = "stopped"]
           ended == [old EXCEPT !.type = ContentType(old.url), !.phase = "closed"]
<1>1. requests \in [Requests -> Request] /\ RequestGood(old) /\ old \in Request /\ old.phase = "asked"
  BY DEF OnHeadersReceived, IInv, StateInv
<1>2. ContentType(old.url) \in {"as served", "text/html", "image/png"}
  BY DEF ContentType
<1>3. /\ requests' = [requests EXCEPT ![r] = IF old.url \in Overridden THEN Closing(stopped) ELSE ended]
      /\ UNCHANGED <<hooks, sentTo, backVars, frameVars, down, up>>
  BY <1>1 DEF OnHeadersReceived, Request
<1>4. RequestGood(stopped) /\ stopped.url = old.url /\ stopped.result = old.result /\ stopped.phase # "new"
  <2>1. /\ stopped \in Request /\ stopped.url = old.url /\ stopped.result = old.result
        /\ stopped.phase = "stopped" /\ stopped.type = ContentType(old.url) /\ stopped.written = old.written
    BY <1>1, <1>2 DEF Request
  <2> HIDE DEF stopped
  <2> QED
    BY <1>1, <2>1 DEF RequestGood
<1>5. RequestGood(ended) /\ ended.url = old.url /\ ended.result = old.result /\ ended.phase # "new"
  <2>1. /\ ended \in Request /\ ended.url = old.url /\ ended.result = old.result
        /\ ended.phase = "closed" /\ ended.type = ContentType(old.url) /\ ended.written = old.written
    BY <1>1, <1>2 DEF Request
  <2> HIDE DEF ended
  <2> QED
    BY <1>1, <2>1 DEF RequestGood
<1> HIDE DEF stopped, ended
<1>6. PICK q : q = IF old.url \in Overridden THEN Closing(stopped) ELSE ended
  OBVIOUS
<1>7. RequestGood(q) /\ q.url = old.url /\ q.result = old.result /\ q.phase # "new"
  BY <1>4, <1>5, <1>6, ClosingGood
<1>8. /\ requests'[r] = q /\ \A s \in Requests : s # r => requests'[s] = requests[s]
      /\ requests' = [requests EXCEPT ![r] = q]
  BY <1>1, <1>3, <1>6
<1>9. \A s \in Requests :
        /\ requests'[s].url = requests[s].url /\ requests'[s].result = requests[s].result
        /\ requests'[s].phase = "new" <=> requests[s].phase = "new"
  BY <1>1, <1>7, <1>8
<1>10. StateInv'
  BY <1>3, <1>7, <1>8, StateStays DEF IInv, frameVars
<1>11. UNCHANGED <<hooks, status, blocked, queriesNonce, queries, frame, frames, held, down, up, sentTo>>
  BY <1>3 DEF backVars, frameVars
<1>12. NonceInv'
  BY <1>9, <1>11 DEF IInv, NonceInv
<1>13. BlockedInv'
  BY <1>9, <1>11 DEF IInv, BlockedInv, IsSequence
<1>14. FrameInv'
  BY <1>11 DEF IInv, FrameInv
<1>15. Kept
  BY <1>9, <1>11 DEF IInv, NonceInv, Kept
<1>16. ChannelInv'
  <2>1. /\ IsSequence(down') /\ IsSequence(up') /\ DOMAIN held' = Overridden
        /\ \A u \in Overridden : IsSequence(held'[u])
        /\ ToSet(down') = ToSet(down) /\ ToSet(up') = ToSet(up)
        /\ \A u \in Overridden : ToSet(held'[u]) = ToSet(held[u])
    BY <1>11 DEF IInv, ChannelInv
  <2> QED
    BY <1>15, <2>1, ChannelStays DEF IInv
<1> QED
  BY <1>10, <1>12, <1>13, <1>14, <1>16 DEF IInv

\* A request is asked for, and blocked or posted if it is for one of the files.
LEMMA OnBeforeRequestInv ==
    ASSUME IInv, NEW r \in Requests, NEW url \in Urls, NEW verb \in {"GET", "POST"},
           OnBeforeRequest(r, url, verb)
    PROVE  IInv'
<1> DEFINE old == requests[r]
           q == [old EXCEPT !.url = url, !.verb = verb, !.phase = "asked"]
<1>1. requests \in [Requests -> Request] /\ RequestGood(old) /\ old \in Request /\ old.phase = "new"
  BY DEF OnBeforeRequest, IInv, StateInv
<1>2. PICK given : given = requests'
  OBVIOUS
<1>3. /\ requests' = [requests EXCEPT ![r] = q]
      /\ IF url \in Overridden
         THEN QueryKernel(r, given)
         ELSE UNCHANGED <<blocked, queriesNonce, queries, down, sentTo>>
      /\ UNCHANGED <<hooks, status, frameVars, up>>
  <2>1. requests' = [requests EXCEPT ![r].url = url, ![r].verb = verb, ![r].phase = "asked"]
    BY DEF OnBeforeRequest
  <2>2. requests' = [requests EXCEPT ![r] = q]
    BY <1>1, <2>1 DEF Request
  <2> QED
    BY <1>2, <2>2 DEF OnBeforeRequest
<1>4. RequestGood(q) /\ q.url = url /\ q.result = old.result /\ q.phase = "asked"
  <2>1. /\ q \in Request /\ q.url = url /\ q.result = old.result
        /\ q.phase = "asked" /\ q.written = old.written
    BY <1>1 DEF Request
  <2> HIDE DEF q
  <2> QED
    BY <1>1, <2>1 DEF RequestGood
<1> HIDE DEF q
<1>5. requests'[r] = q /\ \A s \in Requests : s # r => requests'[s] = requests[s]
  BY <1>1, <1>3
<1>6. \A s \in Requests :
        /\ requests'[s].phase = "new" => requests[s].phase = "new"
        /\ requests'[s].result = requests[s].result
        /\ requests[s].phase # "new" => requests'[s].url = requests[s].url
  BY <1>1, <1>4, <1>5
<1>7. StateInv'
  BY <1>3, <1>4, StateStays DEF IInv, frameVars
<1>8. UNCHANGED <<hooks, status, frame, frames, held, up>>
  BY <1>3 DEF frameVars
<1>9. FrameInv'
  BY <1>8 DEF IInv, FrameInv
<1>10. sentTo[r] = 0 /\ \A i \in DOMAIN blocked : blocked[i] # r
  BY <1>1 DEF IInv, NonceInv, BlockedInv
<1>11. ASSUME UNCHANGED <<queriesNonce, queries, sentTo, down>>
       PROVE  NonceInv' /\ Kept
  <2>1. NonceInv'
    BY <1>6, <1>11 DEF IInv, NonceInv
  <2>2. Kept
    BY <1>6, <1>8, <1>11 DEF IInv, NonceInv, Kept
  <2> QED
    BY <2>1, <2>2
<1>12. ASSUME UNCHANGED <<blocked, sentTo>>
       PROVE  BlockedInv'
  BY <1>6, <1>12 DEF IInv, BlockedInv, IsSequence
<1>13. ASSUME Kept, IsSequence(down'), \A m \in ToSet(down') : m \in ToSet(down) \/ Question(m)'
       PROVE  ChannelInv'
  <2>1. /\ IsSequence(up') /\ DOMAIN held' = Overridden /\ ToSet(up') = ToSet(up)
        /\ \A u \in Overridden : IsSequence(held'[u])
        /\ \A u \in Overridden : ToSet(held'[u]) = ToSet(held[u])
    BY <1>8 DEF IInv, ChannelInv
  <2> QED
    BY <1>13, <2>1, ChannelStays DEF IInv
<1>14. CASE url \notin Overridden
  <2>1. UNCHANGED <<blocked, queriesNonce, queries, down, sentTo>>
    BY <1>3, <1>14
  <2>2. IsSequence(down') /\ ToSet(down') = ToSet(down)
    BY <2>1 DEF IInv, ChannelInv
  <2> QED
    BY <1>7, <1>9, <1>11, <1>12, <1>13, <2>1, <2>2 DEF IInv
<1>15. CASE url \in Overridden /\ status = "none"
  <2>1. blocked' = Append(blocked, r) /\ UNCHANGED <<queriesNonce, queries, down, sentTo>>
    BY <1>3, <1>15 DEF QueryKernel
  <2>2. IsSequence(down') /\ ToSet(down') = ToSet(down)
    BY <2>1 DEF IInv, ChannelInv
  <2>3. BlockedInv'
    <3> DEFINE S == {blocked[i] : i \in DOMAIN blocked} \cup {r}
    <3>1. blocked \in Seq(S)
      BY DEF IInv, BlockedInv, IsSequence
    <3>2. PICK t : t = Append(blocked, r)
      OBVIOUS
    <3>3. /\ Len(blocked) \in Nat /\ DOMAIN blocked = 1 .. Len(blocked)
          /\ DOMAIN t = 1 .. Len(blocked) + 1
          /\ t[Len(blocked) + 1] = r /\ \A i \in DOMAIN blocked : t[i] = blocked[i]
      BY <3>1, <3>2
    <3>4. IsSequence(t)
      BY <3>2, AppendElements DEF IInv, BlockedInv
    <3>5. \A i \in DOMAIN t : i \in DOMAIN blocked \/ i = Len(blocked) + 1
      BY <3>3
    <3>6. \A i \in DOMAIN t :
            /\ t[i] \in Requests /\ sentTo[t[i]] = 0
            /\ requests'[t[i]].phase # "new" /\ requests'[t[i]].url \in Overridden
      <4>1. ASSUME NEW i \in DOMAIN blocked
            PROVE  /\ t[i] \in Requests /\ sentTo[t[i]] = 0
                   /\ requests'[t[i]].phase # "new" /\ requests'[t[i]].url \in Overridden
        BY <1>5, <1>10, <3>3 DEF IInv, BlockedInv
      <4>2. requests'[r].phase # "new" /\ requests'[r].url \in Overridden
        BY <1>4, <1>5, <1>15
      <4> QED
        BY <1>10, <3>3, <3>5, <4>1, <4>2
    <3>7. \A i, j \in DOMAIN t : t[i] = t[j] => i = j
      <4>1. \A i, j \in DOMAIN blocked : blocked[i] = blocked[j] => i = j
        BY DEF IInv, BlockedInv
      <4> QED
        BY <1>10, <3>3, <3>5, <4>1
    <3>8. t = blocked' /\ sentTo' = sentTo
      BY <2>1, <3>2
    <3> QED
      BY <3>4, <3>6, <3>7, <3>8 DEF BlockedInv
  <2> QED
    BY <1>7, <1>9, <1>11, <1>13, <2>1, <2>2, <2>3 DEF IInv
<1>16. CASE url \in Overridden /\ status # "none"
  <2>1. PICK rs : rs = <<r>>
    OBVIOUS
  <2>2. IsSequence(rs) /\ DOMAIN rs = {1} /\ rs[1] = r /\ ToSet(rs) = {r}
    <3>1. rs \in Seq({r}) /\ DOMAIN rs = {1} /\ rs[1] = r
      BY <2>1
    <3> QED
      BY <3>1, SequenceOf DEF ToSet
  <2>3. Sends(rs, given) /\ UNCHANGED blocked
    BY <1>3, <1>16, <2>1 DEF QueryKernel
  <2>4. frames # 0
    BY <1>16 DEF IInv, FrameInv
  <2>5. given[r].url = url /\ requests'[r].url = url /\ requests'[r].phase # "new"
    BY <1>2, <1>4, <1>5
  <2>6. \A i \in DOMAIN rs :
          /\ rs[i] \in Requests /\ sentTo[rs[i]] = 0
          /\ requests'[rs[i]].phase # "new"
          /\ given[rs[i]].url \in Overridden /\ given[rs[i]].url = requests'[rs[i]].url
    BY <1>10, <1>16, <2>2, <2>5
  <2>7. \A i, j \in DOMAIN rs : rs[i] = rs[j] => i = j
    BY <2>2
  <2>8. \A g \in Hooks : hooks[g].phase # "idle" =>
          /\ hooks'[g].phase # "idle"
          /\ hooks'[g].phase = "pending" => hooks[g].phase = "pending" /\ hooks'[g].method = hooks[g].method
    BY <1>8
  <2>9. NonceInv' /\ Kept /\ IsSequence(down') /\ \A m \in ToSet(down') : m \in ToSet(down) \/ Question(m)'
    BY <1>6, <2>2, <2>3, <2>4, <2>6, <2>7, <2>8, SendsKeep
  <2>10. BlockedInv'
    <3>1. sentTo' = [s \in Requests |-> IF s \in ToSet(rs) THEN frames ELSE sentTo[s]]
      BY <2>3 DEF Sends
    <3>2. \A s \in Requests : s # r => sentTo'[s] = sentTo[s]
      BY <2>2, <3>1
    <3>3. \A i \in DOMAIN blocked : blocked[i] \in Requests /\ sentTo'[blocked[i]] = 0
      BY <1>10, <3>2 DEF IInv, BlockedInv
    <3> QED
      BY <1>6, <2>3, <3>3 DEF IInv, BlockedInv, IsSequence
  <2> QED
    BY <1>7, <1>9, <1>13, <2>9, <2>10 DEF IInv
<1> QED
  BY <1>14, <1>15, <1>16

\* Whatever was blocked is posted, and pages that wait through a logout fail.
LEMMA HandleAuthStatusInv ==
    ASSUME IInv, HandleAuthStatus
    PROVE  IInv'
<1> DEFINE loaded == Head(up).loaded
<1>1. PICK rs, given : rs = blocked /\ given = requests
  OBVIOUS
<1>2. /\ up # <<>> /\ up' = Tail(up) /\ blocked' = <<>> /\ Sends(rs, given)
      /\ hooks' = [g \in Hooks |-> IF loaded = "logged out" /\ hooks[g].phase = "pending" THEN Failed ELSE hooks[g]]
      /\ UNCHANGED <<requests, frame, frames, held, overrides>>
  BY <1>1 DEF HandleAuthStatus, TakeUp, frameVars
<1>3. frames # 0
  BY <1>2 DEF IInv, FrameInv
<1>4. Failed \in Hook /\ HookGood(Failed) /\ Failed.phase = "failed"
  <2>1. Failed \in Hook /\ Failed.phase = "failed"
    BY DEF Failed, Hook, NoBody
  <2> QED
    BY <2>1 DEF HookGood
<1> HIDE DEF loaded
<1>5. StateInv'
  <2>1. /\ hooks \in [Hooks -> Hook] /\ \A g \in Hooks : HookGood(hooks[g])
    BY DEF IInv, StateInv
  <2>2. \A g \in Hooks : hooks'[g] = Failed \/ hooks'[g] = hooks[g]
    BY <1>2
  <2>3. hooks' \in [Hooks -> Hook] /\ \A g \in Hooks : HookGood(hooks'[g])
    BY <1>2, <1>4, <2>1, <2>2
  <2> QED
    BY <1>2, <2>3 DEF IInv, StateInv
<1>6. IsSequence(rs)
      /\ (\A i \in DOMAIN rs :
            /\ rs[i] \in Requests /\ sentTo[rs[i]] = 0
            /\ requests'[rs[i]].phase # "new"
            /\ given[rs[i]].url \in Overridden /\ given[rs[i]].url = requests'[rs[i]].url)
      /\ \A i, j \in DOMAIN rs : rs[i] = rs[j] => i = j
  BY <1>1, <1>2 DEF IInv, BlockedInv
<1>7. \A r \in Requests :
        /\ requests'[r].phase = "new" => requests[r].phase = "new"
        /\ requests'[r].result = requests[r].result
        /\ requests[r].phase # "new" => requests'[r].url = requests[r].url
  BY <1>2
<1>8. \A g \in Hooks : hooks[g].phase # "idle" =>
        /\ hooks'[g].phase # "idle"
        /\ hooks'[g].phase = "pending" => hooks[g].phase = "pending" /\ hooks'[g].method = hooks[g].method
  BY <1>2, <1>4
<1>9. NonceInv' /\ Kept /\ IsSequence(down') /\ \A m \in ToSet(down') : m \in ToSet(down) \/ Question(m)'
  BY <1>2, <1>3, <1>6, <1>7, <1>8, SendsKeep
<1>10. BlockedInv'
  <2>1. blocked' = <<>>
    BY <1>2
  <2>2. IsSequence(blocked') /\ DOMAIN blocked' = {}
    BY <2>1, EmptySequence
  <2> QED
    BY <2>2 DEF BlockedInv
<1>11. FrameInv'
  BY <1>2, <1>3 DEF IInv, FrameInv
<1>12. IsSequence(up') /\ ToSet(up') \subseteq ToSet(up)
  BY <1>2, HeadAndTail DEF IInv, ChannelInv
<1>13. ChannelInv'
  <2>1. /\ DOMAIN held' = Overridden
        /\ \A u \in Overridden : IsSequence(held'[u])
        /\ \A u \in Overridden : ToSet(held'[u]) = ToSet(held[u])
    BY <1>2 DEF IInv, ChannelInv
  <2> QED
    BY <1>9, <1>12, <2>1, ChannelStays DEF IInv
<1> QED
  BY <1>5, <1>9, <1>10, <1>11, <1>13 DEF IInv

\* A page asks once, under a nonce of its own.
LEMMA PageAsksInv ==
    ASSUME IInv, NEW g \in Hooks, NEW method \in Methods, NEW list, PageAsks(g, method, list)
    PROVE  IInv'
<1> DEFINE h == [hooks[g] EXCEPT !.phase = "pending", !.method = method]
           new == [n \in {g} |-> g]
<1>1. /\ status = "success" /\ hooks[g].phase = "idle"
      /\ hooks' = [hooks EXCEPT ![g].phase = "pending", ![g].method = method]
      /\ queries' = Adding(new)
      /\ Post(<<Message(method, g, "elsewhere", "GET", list)>>)
      /\ UNCHANGED <<requests, sentTo, status, blocked, queriesNonce, frame, frames, held, overrides, up>>
  BY DEF PageAsks, InitQuery, browserVars, frameVars
<1>2. hooks \in [Hooks -> Hook] /\ hooks[g] \in Hook
  BY DEF IInv, StateInv
<1>3. h \in Hook /\ h.phase = "pending" /\ h.method = method
  BY <1>2 DEF Hook
<1>4. hooks' = [hooks EXCEPT ![g] = h]
  BY <1>1, <1>2 DEF Hook
<1>5. DOMAIN new = {g} /\ new[g] = g
  OBVIOUS
<1> HIDE DEF h, new
<1>6. StateInv'
  <2>1. HookGood(h)
    BY <1>3 DEF HookGood
  <2> QED
    BY <1>1, <1>4, <2>1, StateStays DEF IInv
<1>7. /\ DOMAIN queries' = DOMAIN queries \cup {g} /\ queries'[g] = g
      /\ \A n \in DOMAIN queries : n # g => queries'[n] = queries[n]
  BY <1>1, <1>5 DEF Adding
<1>8. queriesNonce \in Nat /\ queriesNonce' = queriesNonce /\ sentTo' = sentTo /\ requests' = requests
  BY <1>1 DEF IInv, NonceInv
<1>9. \A n \in DOMAIN queries :
        \/ n \in 0 .. queriesNonce - 1 /\ queries[n] \in Requests /\ sentTo[queries[n]] # 0
        \/ n \in Hooks /\ queries[n] = n
  BY DEF IInv, NonceInv
<1>10. \A n \in DOMAIN queries : n # g => queries[n] # g
  BY <1>9, KernelRequestsAssumption
<1>11. NonceInv'
  <2>1. \A n \in DOMAIN queries' :
          \/ n \in 0 .. queriesNonce' - 1 /\ queries'[n] \in Requests /\ sentTo'[queries'[n]] # 0
          \/ n \in Hooks /\ queries'[n] = n
    BY <1>7, <1>8, <1>9
  <2>2. \A n, p \in DOMAIN queries' : queries'[n] = queries'[p] => n = p
    <3>1. \A n, p \in DOMAIN queries : queries[n] = queries[p] => n = p
      BY DEF IInv, NonceInv
    <3> QED
      BY <1>7, <1>10, <3>1
  <2>3. \A r \in Requests : sentTo'[r] # 0 /\ requests'[r].result = NoBody =>
          \E n \in DOMAIN queries' : queries'[n] = r
    <3>1. SUFFICES ASSUME NEW r \in Requests, sentTo[r] # 0, requests[r].result = NoBody
                   PROVE  \E n \in DOMAIN queries' : queries'[n] = r
      BY <1>8
    <3>2. PICK n \in DOMAIN queries : queries[n] = r
      BY <3>1 DEF IInv, NonceInv
    <3>3. n # g
      <4>1. CASE n \in Hooks /\ queries[n] = n
        BY <3>2, <4>1, KernelRequestsAssumption
      <4>2. CASE n \in 0 .. queriesNonce - 1
        BY <1>8, <4>2, KernelRequestsAssumption
      <4> QED
        BY <1>9, <4>1, <4>2
    <3> QED
      BY <1>7, <3>2, <3>3
  <2> QED
    BY <1>8, <2>1, <2>2, <2>3 DEF IInv, NonceInv
<1>12. Kept
  <2>1. \A n \in DOMAIN queries' : n \in 0 .. queriesNonce - 1 => n \in DOMAIN queries /\ queries'[n] = queries[n]
    BY <1>7, <1>8, KernelRequestsAssumption
  <2>2. \A p \in Hooks : hooks[p].phase # "idle" => hooks'[p] = hooks[p]
    BY <1>1, <1>2, <1>4
  <2> QED
    BY <1>8, <2>1, <2>2 DEF Kept
<1>13. BlockedInv'
  BY <1>1 DEF IInv, BlockedInv, IsSequence
<1>14. FrameInv'
  BY <1>1 DEF IInv, FrameInv
<1>15. PICK m : m = Message(method, g, "elsewhere", "GET", list)
  OBVIOUS
<1>16. Question(m)'
  <2>1. m.method = method /\ m.nonce = g
    BY <1>15 DEF Message
  <2>2. hooks'[g] = h
    BY <1>2, <1>4
  <2> QED
    BY <1>3, <2>1, <2>2 DEF Question
<1>17. IsSequence(down') /\ \A a \in ToSet(down') : a \in ToSet(down) \/ Question(a)'
  <2>1. IsSequence(down)
    BY DEF IInv, ChannelInv
  <2>2. down' = down \/ down' = down \o <<m>>
    BY <1>1, <1>15 DEF Post
  <2>3. IsSequence(<<m>>) /\ ToSet(<<m>>) = {m}
    <3>1. PICK t : t = <<m>>
      OBVIOUS
    <3>2. t \in Seq({m}) /\ DOMAIN t = {1} /\ t[1] = m
      BY <3>1
    <3>3. IsSequence(t) /\ ToSet(t) = {m}
      BY <3>2, SequenceOf DEF ToSet
    <3> QED
      BY <3>1, <3>3
  <2>4. IsSequence(down \o <<m>>) /\ ToSet(down \o <<m>>) = ToSet(down) \cup {m}
    BY <2>1, <2>3, ConcatElements
  <2> QED
    BY <1>16, <2>1, <2>2, <2>4
<1>18. ChannelInv'
  <2>1. /\ IsSequence(up') /\ DOMAIN held' = Overridden /\ ToSet(up') = ToSet(up)
        /\ \A u \in Overridden : IsSequence(held'[u])
        /\ \A u \in Overridden : ToSet(held'[u]) = ToSet(held[u])
    BY <1>1 DEF IInv, ChannelInv
  <2> QED
    BY <1>12, <1>17, <2>1, ChannelStays DEF IInv
<1> QED
  BY <1>6, <1>11, <1>13, <1>14, <1>18 DEF IInv

\* The answer to a request is its file, the answer to a page is one it may be told,
\* and nobody waits under that nonce any more.
LEMMA HandleResponseInv ==
    ASSUME IInv, HandleResponse
    PROVE  IInv'
<1>1. PICK m, owner : m = Head(up) /\ owner = queries[m.nonce]
  OBVIOUS
<1>2. /\ up # <<>> /\ m.method = "response" /\ up' = Tail(up)
      /\ queries' = [n \in DOMAIN queries \ {m.nonce} |-> queries[n]]
      /\ requests' = IF m.nonce \in DOMAIN queries /\ owner \in Requests
                     THEN [requests EXCEPT ![owner] = Closing([@ EXCEPT !.result = m.body])]
                     ELSE requests
      /\ hooks' = IF m.nonce \in DOMAIN queries /\ owner \in Hooks /\ hooks[owner].phase = "pending"
                  THEN [hooks EXCEPT ![owner] =
                          IF m.err = "none" THEN [@ EXCEPT !.phase = "done", !.body = m.body] ELSE Failed]
                  ELSE hooks
      /\ UNCHANGED <<status, blocked, queriesNonce, sentTo, frame, frames, held, overrides, down>>
  BY <1>1 DEF HandleResponse, TakeUp, frameVars
<1>3. IsSequence(up') /\ ToSet(up') \subseteq ToSet(up) /\ m \in ToSet(up)
  BY <1>1, <1>2, HeadAndTail DEF IInv, ChannelInv
<1>4. AnswerGood(m)
  BY <1>2, <1>3 DEF IInv, ChannelInv
<1>5. /\ requests \in [Requests -> Request] /\ \A r \in Requests : RequestGood(requests[r])
      /\ hooks \in [Hooks -> Hook] /\ \A g \in Hooks : HookGood(hooks[g])
  BY DEF IInv, StateInv
<1>6. \A n \in DOMAIN queries :
        \/ n \in 0 .. queriesNonce - 1 /\ queries[n] \in Requests /\ sentTo[queries[n]] # 0
        \/ n \in Hooks /\ queries[n] = n
  BY DEF IInv, NonceInv
\* The request that is answered.
<1>7. \/ requests' = requests /\ ~(m.nonce \in DOMAIN queries /\ owner \in Requests)
      \/ /\ m.nonce \in DOMAIN queries /\ owner \in Requests
         /\ \E q : /\ RequestGood(q) /\ requests' = [requests EXCEPT ![owner] = q]
                   /\ q.url = requests[owner].url /\ q.result # NoBody /\ q.phase # "new"
  <2>1. SUFFICES ASSUME m.nonce \in DOMAIN queries, owner \in Requests
                 PROVE  \E q : /\ RequestGood(q) /\ requests' = [requests EXCEPT ![owner] = q]
                               /\ q.url = requests[owner].url /\ q.result # NoBody /\ q.phase # "new"
    BY <1>2
  <2> DEFINE old == requests[owner]
             new == [old EXCEPT !.result = m.body]
             q == Closing(new)
  <2>2. m.nonce \notin Hooks /\ sentTo[owner] # 0
    BY <1>1, <1>6, <2>1, KernelRequestsAssumption
  <2>3. m.body = old.url
    BY <1>1, <1>4, <2>1, <2>2 DEF AnswerGood
  <2>4. old \in Request /\ RequestGood(old) /\ old.phase # "new"
    BY <1>5, <2>1, <2>2 DEF IInv, NonceInv
  <2>5. old.url \in Urls /\ old.url # NoBody
    BY <2>4 DEF Request, Urls, Overridden, NoBody
  <2>6. RequestGood(new) /\ new.url = old.url /\ new.result = old.url /\ new.phase # "new"
    <3>1. /\ new \in Request /\ new.url = old.url /\ new.result = old.url /\ new.phase = old.phase
          /\ new.type = old.type /\ new.written = old.written
      BY <2>3, <2>4, <2>5 DEF Request
    <3> HIDE DEF new
    <3> QED
      BY <2>4, <3>1 DEF RequestGood
  <2>7. requests' = [requests EXCEPT ![owner] = q]
    BY <1>2, <2>1
  <2> HIDE DEF new
  <2>8. RequestGood(q) /\ q.url = old.url /\ q.result = old.url /\ q.phase # "new"
    BY <2>6, ClosingGood
  <2> HIDE DEF q
  <2> QED
    BY <2>5, <2>7, <2>8
\* The page that is answered.
<1>8. \/ hooks' = hooks
      \/ /\ owner \in Hooks /\ hooks[owner].phase = "pending"
         /\ \E h : HookGood(h) /\ h.phase \notin {"idle", "pending"} /\ hooks' = [hooks EXCEPT ![owner] = h]
  <2>1. SUFFICES ASSUME m.nonce \in DOMAIN queries, owner \in Hooks, hooks[owner].phase = "pending"
                 PROVE  \E h : /\ HookGood(h) /\ h.phase \notin {"idle", "pending"}
                               /\ hooks' = [hooks EXCEPT ![owner] = h]
    BY <1>2
  <2>2. m.nonce = owner /\ m.nonce \notin 0 .. queriesNonce - 1
    <3>1. CASE m.nonce \in Hooks /\ queries[m.nonce] = m.nonce
      BY <1>1, <3>1, KernelRequestsAssumption
    <3>2. CASE queries[m.nonce] \in Requests
      BY <1>1, <2>1, <3>2, KernelRequestsAssumption
    <3> QED
      BY <1>6, <2>1, <3>1, <3>2
  <2>3. hooks[owner] \in Hook
    BY <1>5, <2>1
  <2>4. CASE m.err = "none"
    <3> DEFINE h == [hooks[owner] EXCEPT !.phase = "done", !.body = m.body]
    <3>1. Told(hooks[owner].method, m.body)
      BY <1>4, <2>1, <2>2, <2>4 DEF AnswerGood
    <3>2. h \in Hook /\ h.phase = "done" /\ h.method = hooks[owner].method /\ h.body = m.body
      BY <2>3, <3>1 DEF Hook, Told
    <3>3. hooks' = [hooks EXCEPT ![owner] = h]
      BY <1>2, <2>1, <2>4
    <3> HIDE DEF h
    <3>4. HookGood(h)
      BY <3>1, <3>2 DEF HookGood
    <3> QED
      BY <3>2, <3>3, <3>4
  <2>5. CASE m.err # "none"
    <3>1. Failed \in Hook /\ Failed.phase = "failed"
      BY DEF Failed, Hook, NoBody
    <3>2. HookGood(Failed)
      BY <3>1 DEF HookGood
    <3>3. hooks' = [hooks EXCEPT ![owner] = Failed]
      BY <1>2, <2>1, <2>5
    <3> QED
      BY <3>1, <3>2, <3>3
  <2> QED
    BY <2>4, <2>5
<1>9. StateInv'
  BY <1>2, <1>7, <1>8, StateStays DEF IInv
<1>10. \A r \in Requests :
        /\ requests'[r].phase = "new" => requests[r].phase = "new"
        /\ requests[r].phase # "new" => requests'[r].phase # "new"
        /\ requests'[r].url = requests[r].url
        /\ requests'[r].result = NoBody =>
            requests[r].result = NoBody /\ ~(m.nonce \in DOMAIN queries /\ owner = r)
  BY <1>5, <1>7
<1>11. /\ DOMAIN queries' = DOMAIN queries \ {m.nonce}
       /\ \A n \in DOMAIN queries' : queries'[n] = queries[n]
  BY <1>2
<1>12. NonceInv'
  <2>1. queriesNonce' = queriesNonce /\ queriesNonce \in Nat /\ sentTo' = sentTo /\ sentTo \in [Requests -> Nat]
    BY <1>2 DEF IInv, NonceInv
  <2>2. \A n \in DOMAIN queries' :
          \/ n \in 0 .. queriesNonce' - 1 /\ queries'[n] \in Requests /\ sentTo'[queries'[n]] # 0
          \/ n \in Hooks /\ queries'[n] = n
    BY <1>6, <1>11, <2>1
  <2>3. \A n, p \in DOMAIN queries' : queries'[n] = queries'[p] => n = p
    BY <1>11 DEF IInv, NonceInv
  <2>4. \A r \in Requests : sentTo'[r] # 0 /\ requests'[r].result = NoBody =>
          \E n \in DOMAIN queries' : queries'[n] = r
    BY <1>1, <1>10, <1>11, <2>1 DEF IInv, NonceInv
  <2>5. \A r \in Requests : requests'[r].phase = "new" => sentTo'[r] = 0
    BY <1>10, <2>1 DEF IInv, NonceInv
  <2> QED
    BY <2>1, <2>2, <2>3, <2>4, <2>5 DEF NonceInv
<1>13. Kept
  <2>1. \A p \in Hooks : hooks[p].phase # "idle" =>
          /\ hooks'[p].phase # "idle"
          /\ hooks'[p].phase = "pending" => hooks[p].phase = "pending" /\ hooks'[p].method = hooks[p].method
    BY <1>5, <1>8
  <2>2. queriesNonce' = queriesNonce /\ queriesNonce \in Nat
    BY <1>2 DEF IInv, NonceInv
  <2> QED
    BY <1>10, <1>11, <2>1, <2>2 DEF Kept
<1>14. BlockedInv'
  <2>1. blocked' = blocked /\ sentTo' = sentTo /\ IsSequence(blocked)
    BY <1>2 DEF IInv, BlockedInv
  <2>2. \A i \in DOMAIN blocked :
          /\ blocked[i] \in Requests /\ sentTo[blocked[i]] = 0
          /\ requests'[blocked[i]].phase # "new" /\ requests'[blocked[i]].url \in Overridden
    BY <1>10 DEF IInv, BlockedInv
  <2> QED
    BY <2>1, <2>2 DEF IInv, BlockedInv
<1>15. FrameInv'
  BY <1>2 DEF IInv, FrameInv
<1>16. ChannelInv'
  <2>1. /\ IsSequence(down') /\ DOMAIN held' = Overridden /\ ToSet(down') = ToSet(down)
        /\ \A u \in Overridden : IsSequence(held'[u])
        /\ \A u \in Overridden : ToSet(held'[u]) = ToSet(held[u])
    BY <1>2 DEF IInv, ChannelInv
  <2> QED
    BY <1>3, <1>13, <2>1, ChannelStays DEF IInv
<1> QED
  BY <1>9, <1>12, <1>14, <1>15, <1>16 DEF IInv

LEMMA NextInv ==
    ASSUME IInv, [Next]_vars
    PROVE  IInv'
<1>1. ASSUME NEW a \in Asks, OnBeforeRequest(a[1], a[2], a[3])
      PROVE  IInv'
  <2>1. a[1] \in Requests /\ a[2] \in Urls /\ a[3] \in {"GET", "POST"}
    BY KernelRequestsAssumption DEF Urls, Overridden
  <2> QED
    BY <1>1, <2>1, OnBeforeRequestInv
<1>2. ASSUME NEW r \in Requests, OnHeadersReceived(r)
      PROVE  IInv'
  BY <1>2, OnHeadersReceivedInv
<1>3. ASSUME NEW g \in Hooks, NEW method \in Methods, NEW list \in Lists \cup {NoOverrides},
             PageAsks(g, method, list)
      PROVE  IInv'
  BY <1>3, PageAsksInv
<1>4. ASSUME NEW url \in Overridden, AssetLoads(url) \/ AssetFails(url)
      PROVE  IInv'
  BY <1>4, AssetLoadsInv, AssetFailsInv
<1>5. ASSUME UNCHANGED vars
      PROVE  IInv'
  <2>1. UNCHANGED <<browserVars, hooks, backVars, frame, frames, held, overrides, down, up>>
    BY <1>5 DEF vars, frameVars
  <2>2. FrameInv'
    BY <2>1 DEF IInv, FrameInv, backVars
  <2>3. /\ IsSequence(up') /\ IsSequence(down') /\ DOMAIN held' = Overridden
        /\ \A u \in Overridden : IsSequence(held'[u])
        /\ ToSet(down') \subseteq ToSet(down) /\ ToSet(up') \subseteq ToSet(up)
        /\ \A u \in Overridden : ToSet(held'[u]) \subseteq ToSet(held[u])
    BY <2>1 DEF IInv, ChannelInv
  <2>4. \A m \in ToSet(up') : m \in ToSet(up) \/ (m.method = "response" => AnswerGood(m)')
    BY <2>3
  <2>5. \A u \in Overridden : \A m \in ToSet(held'[u]) :
          m \in ToSet(held[u]) \/ (Question(m)' /\ m.method = "requestOverride" /\ m.url = u)
    BY <2>3
  <2> QED
    BY <2>1, <2>2, <2>3, <2>4, <2>5, FrameSteps
<1> QED
  BY <1>1, <1>2, <1>3, <1>4, <1>5, HandleAuthStatusInv, HandleResponseInv, FrameStartsInv, KernelLoadsInv,
     LogOutInv, UnloadInv, FrameTakesInv DEF Next

\* The strengthening says what the property says.
LEMMA IInvAnswers ==
    ASSUME IInv
    PROVE  AnswersMatch
<1>1. ASSUME NEW r \in Requests, requests[r].written # <<>>
      PROVE  requests[r].written = <<requests[r].url>> /\ requests[r].type = ContentType(requests[r].url)
  <2>1. RequestGood(requests[r])
    BY DEF IInv, StateInv
  <2> QED
    BY <1>1, <2>1 DEF RequestGood
<1>2. ASSUME NEW r \in Requests, sentTo[r] # 0, requests[r].result = NoBody
      PROVE  Cardinality(NonceOf(r)) = 1 /\ NonceOf(r) \subseteq 0 .. queriesNonce - 1
  <2>1. PICK n \in DOMAIN queries : queries[n] = r
    BY <1>2 DEF IInv, NonceInv
  <2>2. NonceOf(r) = {n}
    BY <2>1 DEF NonceOf, IInv, NonceInv
  <2>3. n \in 0 .. queriesNonce - 1
    BY <1>2, <2>1, KernelRequestsAssumption DEF IInv, NonceInv
  <2> QED
    BY <2>2, <2>3, FS_Singleton
<1>3. ASSUME NEW g \in Hooks, hooks[g].phase = "done"
      PROVE  \/ hooks[g].method = "version" /\ hooks[g].body = "version"
             \/ hooks[g].method = "checkErrs" /\ hooks[g].body = "errs"
  BY <1>3 DEF IInv, StateInv, HookGood, Told
<1>4. overrides = NoOverrides
  BY DEF IInv, StateInv
<1> QED
  BY <1>1, <1>2, <1>3, <1>4 DEF AnswersMatch

\* For any number of requests, pages and documents of the frame: what the browser
\* shows for a file of kernel.skynet is that file, a request is waited for under one
\* nonce, a page sees the answer to its own question, and the module overrides stay
\* as they are (background.ts, bootloader.ts, kernel/src/index.ts).
THEOREM AnswersMeetQuestions == Spec => []AnswersMatch
<1>1. Init => IInv
  BY InitInv
<1>2. IInv /\ [Next]_vars => IInv'
  BY NextInv
<1>3. IInv => AnswersMatch
  BY IInvAnswers
<1> QED
  BY <1>1, <1>2, <1>3, PTL DEF Spec
=============================================================================
