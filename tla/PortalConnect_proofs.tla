------------------------- MODULE PortalConnect_proofs -------------------------
(***************************************************************************)
(* init completes at the right moment, attempts do not multiply, and of each  *)
(* portal's failures the tracker keeps what it should, for any number of      *)
(* portals, attempts, queries and errors to keep.                          *)
(***************************************************************************)
EXTENDS PortalConnect, FiniteSetTheorems, WellFoundedInduction, TLAPS

----------------------------------------------------------------------------
(* Induction over the naturals, for sets.                                  *)

\* The naturals are well-founded, said of sets: the library's theorems of induction
\* take an operator.
LEMMA LeastOf ==
    ASSUME NEW S, S \subseteq Nat, S # {}
    PROVE  \E n \in S : \A m \in S : n <= m
<1> DEFINE R == OpToRel(<, Nat)
<1>1. \A x, y \in Nat : y < x => <<y, x>> \in R
  BY DEF OpToRel
<1>2. IsWellFoundedOn(R, Nat)
  BY NatLessThanWellFounded
<1> HIDE DEF R
<1>3. PICK n \in S : \A m \in S : ~(<<m, n>> \in R)
  BY <1>2, WFMin
<1>4. ASSUME NEW m \in S PROVE n <= m
  <2>1. n \in Nat /\ m \in Nat
    OBVIOUS
  <2>2. ~(m < n)
    BY <1>1, <1>3, <2>1
  <2> QED
    BY <2>1, <2>2
<1> QED
  BY <1>4

LEMMA InductionTo ==
    ASSUME NEW S, NEW l \in Nat, 0 \in S, \A n \in 0 .. l - 1 : n \in S => n + 1 \in S
    PROVE  0 .. l \subseteq S
<1>1. SUFFICES ASSUME 0 .. l \ S # {} PROVE FALSE
  OBVIOUS
<1> DEFINE T == 0 .. l \ S
<1>0. T \subseteq Nat /\ T # {}
  BY <1>1
<1> HIDE DEF T
<1>4. PICK n \in T : \A m \in T : n <= m
  BY <1>0, LeastOf
<1>2. n \in 0 .. l \ S /\ \A m \in 0 .. l \ S : n <= m
  BY <1>4 DEF T
<1>3. n # 0 /\ n - 1 \in 0 .. l - 1 /\ n - 1 \in S
  BY <1>2
<1> QED
  BY <1>2, <1>3

----------------------------------------------------------------------------
(* The tracker.                                                            *)

\* The old errors after the first n of the recent were kept or tossed, as they
\* follow from those after n - 1.
MovedStep(oldErrs, recentErrs, draws, g, n) ==
    IF n = 0 THEN oldErrs
    ELSE IF Keeps(g[n - 1], n \in draws) THEN Append(g[n - 1], recentErrs[n]) ELSE g[n - 1]

\* The recursion of Moved defines a function.
LEMMA MovedIs ==
    ASSUME NEW oldErrs, NEW recentErrs, Len(recentErrs) \in Nat, NEW draws
    PROVE  LET moved == Moved(oldErrs, recentErrs, draws)
           IN  moved = [n \in 0 .. Len(recentErrs) |-> MovedStep(oldErrs, recentErrs, draws, moved, n)]
<1> DEFINE M(g, n) == MovedStep(oldErrs, recentErrs, draws, g, n)
           S == {l \in Nat : \E g : g = [n \in 0 .. l |-> M(g, n)]}
<1>1. 0 \in S
  <2>1. [n \in 0 .. 0 |-> oldErrs] = [n \in 0 .. 0 |-> M([m \in 0 .. 0 |-> oldErrs], n)]
    BY DEF MovedStep
  <2> QED
    BY <2>1
<1>2. ASSUME NEW l \in Nat, l \in S PROVE l + 1 \in S
  <2>1. PICK g : g = [n \in 0 .. l |-> M(g, n)]
    BY <1>2
  <2> DEFINE h == [n \in 0 .. l + 1 |-> IF n = l + 1 THEN M(g, n) ELSE g[n]]
  <2>2. ASSUME NEW n \in 0 .. l + 1 PROVE h[n] = M(h, n)
    <3>1. n # 0 => n - 1 \in 0 .. l /\ h[n - 1] = g[n - 1]
      OBVIOUS
    <3>2. M(h, n) = M(g, n)
      BY <3>1 DEF MovedStep
    <3>3. n # l + 1 => g[n] = M(g, n)
      BY <2>1
    <3> QED
      BY <3>2, <3>3
  <2>3. h = [n \in 0 .. l + 1 |-> h[n]]
    OBVIOUS
  <2> HIDE DEF h
  <2>4. h = [n \in 0 .. l + 1 |-> M(h, n)]
    BY <2>2, <2>3
  <2> QED
    BY <2>4
<1> HIDE DEF S
<1>3. Len(recentErrs) \in S
  <2>1. \A l \in Nat : l \in S => l + 1 \in S
    BY <1>2
  <2>2. 0 .. Len(recentErrs) \subseteq S
    BY <1>1, <2>1, InductionTo
  <2> QED
    BY <2>2
<1>4. \E g : g = [n \in 0 .. Len(recentErrs) |-> M(g, n)]
  BY <1>3 DEF S
<1>5. Moved(oldErrs, recentErrs, draws) = CHOOSE g : g = [n \in 0 .. Len(recentErrs) |-> M(g, n)]
  BY DEF Moved, MovedStep
<1> DEFINE moved == Moved(oldErrs, recentErrs, draws)
<1> HIDE DEF moved
<1>6. moved = [n \in 0 .. Len(recentErrs) |-> M(moved, n)]
  BY <1>4, <1>5 DEF moved
<1> QED
  BY <1>6 DEF moved

Lesser(m, n) == IF m < n THEN m ELSE n

\* The elements of s are those of t at the picked indices, in order.
Picks(s, t, picked) ==
    /\ Cardinality(picked) = Len(s)
    /\ \A i \in DOMAIN s : \E j \in picked :
        t[j] = s[i] /\ Cardinality({k \in picked : k < j}) = i - 1

\* s is what is kept of the first d errors of t.
Kept(s, t, d) ==
    /\ s \in Seq(Nat) /\ Len(s) <= Half
    /\ \E picked \in SUBSET (1 .. d) : Picks(s, t, picked)
    /\ \A i \in 1 .. d : i <= FirstKept => i \in DOMAIN s /\ s[i] = t[i]

LEMMA KeptIsShort ==
    ASSUME NEW s, NEW t, NEW d \in Nat, Kept(s, t, d)
    PROVE  Len(s) \in Nat /\ Len(s) <= d
<1>1. PICK picked \in SUBSET (1 .. d) : Picks(s, t, picked)
  BY DEF Kept
<1>2. IsFiniteSet(1 .. d) /\ Cardinality(1 .. d) = d
  BY FS_Interval
<1>3. Cardinality(picked) <= d
  BY <1>2, FS_Subset
<1> QED
  BY <1>1, <1>3 DEF Picks, Kept

LEMMA AppendAt ==
    ASSUME NEW s \in Seq(Nat), NEW e \in Nat
    PROVE  /\ Append(s, e) \in Seq(Nat) /\ Len(Append(s, e)) = Len(s) + 1
           /\ DOMAIN Append(s, e) = 1 .. Len(s) + 1
           /\ \A i \in DOMAIN s : Append(s, e)[i] = s[i]
           /\ Append(s, e)[Len(s) + 1] = e
OBVIOUS

LEMMA ConcatAt ==
    ASSUME NEW s \in Seq(Nat), NEW r \in Seq(Nat)
    PROVE  /\ s \o r \in Seq(Nat) /\ Len(s \o r) = Len(s) + Len(r)
           /\ DOMAIN (s \o r) = 1 .. Len(s) + Len(r)
           /\ \A i \in 1 .. Len(s) : (s \o r)[i] = s[i]
           /\ \A i \in 1 .. Len(r) : (s \o r)[Len(s) + i] = r[i]
OBVIOUS

\* One more is picked, after all others.
LEMMA PicksOneMore ==
    ASSUME NEW s \in Seq(Nat), NEW t \in Seq(Nat), NEW d \in Nat, NEW picked \in SUBSET (1 .. d),
           Picks(s, t, picked), d + 1 \in DOMAIN t
    PROVE  Picks(Append(s, t[d + 1]), t, picked \cup {d + 1})
<1> DEFINE more == picked \cup {d + 1}
           s1 == Append(s, t[d + 1])
<1>1. IsFiniteSet(picked) /\ Cardinality(picked) = Len(s) /\ d + 1 \notin picked
  <2>1. IsFiniteSet(1 .. d)
    BY FS_Interval
  <2>2. IsFiniteSet(picked)
    BY <2>1, FS_Subset
  <2>3. d + 1 \notin picked
    OBVIOUS
  <2> QED
    BY <2>2, <2>3 DEF Picks
<1>2. Cardinality(more) = Len(s) + 1
  BY <1>1, FS_AddElement
<1>3. t[d + 1] \in Nat
  OBVIOUS
<1>4. /\ s1 \in Seq(Nat) /\ Len(s1) = Len(s) + 1
      /\ \A i \in DOMAIN s : s1[i] = s[i]
      /\ s1[Len(s) + 1] = t[d + 1]
  BY <1>3
<1>5. \A j \in picked : {k \in more : k < j} = {k \in picked : k < j}
  OBVIOUS
<1>6. {k \in more : k < d + 1} = picked
  <2>1. \A k \in picked : k < d + 1
    OBVIOUS
  <2>2. ~(d + 1 < d + 1)
    OBVIOUS
  <2> QED
    BY <2>1, <2>2
<1> HIDE DEF s1, more
<1>7. d + 1 \in more /\ \A j \in picked : j \in more
  BY DEF more
<1>8. ASSUME NEW i \in DOMAIN s1
      PROVE  \E j \in more : t[j] = s1[i] /\ Cardinality({k \in more : k < j}) = i - 1
  <2>1. CASE i \in DOMAIN s
    <3>1. PICK j \in picked : t[j] = s[i] /\ Cardinality({k \in picked : k < j}) = i - 1
      BY <2>1 DEF Picks
    <3>2. Cardinality({k \in more : k < j}) = i - 1
      BY <1>5, <3>1
    <3>3. t[j] = s1[i]
      BY <1>4, <2>1, <3>1
    <3> QED
      BY <1>7, <3>2, <3>3
  <2>2. CASE i \notin DOMAIN s
    <3>1. i = Len(s) + 1
      BY <1>4, <2>2
    <3>2. Cardinality({k \in more : k < d + 1}) = i - 1
      <4>1. Len(s) \in Nat
        OBVIOUS
      <4>2. i - 1 = Len(s)
        BY <3>1, <4>1
      <4> QED
        BY <1>1, <1>6, <4>2
    <3> QED
      BY <1>4, <1>7, <3>1, <3>2
  <2> QED
    BY <2>1, <2>2
<1> QED
  BY <1>2, <1>4, <1>8 DEF Picks, s1, more

\* The next error is kept or, if enough are, tossed.
LEMMA KeptGrows ==
    ASSUME NEW s, NEW t \in Seq(Nat), NEW d \in Nat, d + 1 <= Len(t), Kept(s, t, d), NEW s1,
           \/ s1 = Append(s, t[d + 1]) /\ Len(s) < Half
           \/ s1 = s /\ Len(s) >= FirstKept
    PROVE  Kept(s1, t, d + 1)
<1>1. PICK picked \in SUBSET (1 .. d) : Picks(s, t, picked)
  BY DEF Kept
<1>2. Len(s) \in Nat /\ Len(s) <= d
  BY KeptIsShort
<1>3. s \in Seq(Nat) /\ Len(s) <= Half /\ FirstKept \in Nat /\ Half \in Nat
  BY ErrorsAssumption DEF Kept, Half
<1>4. \A i \in 1 .. d : i <= FirstKept => i \in DOMAIN s /\ s[i] = t[i]
  BY DEF Kept
<1>5. DOMAIN t = 1 .. Len(t) /\ DOMAIN s = 1 .. Len(s) /\ t[d + 1] \in Nat
  BY <1>3
<1>6. CASE s1 = Append(s, t[d + 1]) /\ Len(s) < Half
  <2>1. /\ s1 \in Seq(Nat) /\ Len(s1) = Len(s) + 1 /\ DOMAIN s1 = 1 .. Len(s) + 1
        /\ \A i \in DOMAIN s : s1[i] = s[i]
        /\ s1[Len(s) + 1] = t[d + 1]
    BY <1>3, <1>5, <1>6, AppendAt
  <2>2. Picks(s1, t, picked \cup {d + 1})
    <3>1. d + 1 \in DOMAIN t
      BY <1>5
    <3>2. Picks(Append(s, t[d + 1]), t, picked \cup {d + 1})
      BY <1>1, <1>3, <3>1, PicksOneMore
    <3> QED
      BY <1>6, <3>2
  <2>3. picked \cup {d + 1} \in SUBSET (1 .. d + 1)
    OBVIOUS
  <2>4. ASSUME NEW i \in 1 .. d + 1, i <= FirstKept PROVE i \in DOMAIN s1 /\ s1[i] = t[i]
    <3>1. CASE i \in 1 .. d
      BY <1>4, <1>5, <2>1, <2>4, <3>1
    <3>2. CASE i = d + 1
      <4>1. Len(s) = d
        <5>1. d = 0 \/ d \in DOMAIN s
          <6>1. d # 0 => d \in 1 .. d /\ d <= FirstKept
            BY <1>3, <2>4, <3>2
          <6> QED
            BY <1>4, <6>1
        <5>2. d \in DOMAIN s => d <= Len(s)
          BY <1>5
        <5> QED
          BY <1>2, <5>1, <5>2
      <4> QED
        BY <2>1, <3>2, <4>1
    <3> QED
      BY <3>1, <3>2
  <2>5. Len(s1) <= Half
    BY <1>2, <1>3, <1>6, <2>1
  <2> QED
    BY <2>1, <2>2, <2>3, <2>4, <2>5 DEF Kept
<1>7. CASE s1 = s /\ Len(s) >= FirstKept
  <2>1. picked \in SUBSET (1 .. d + 1)
    OBVIOUS
  <2>2. ASSUME NEW i \in 1 .. d + 1, i <= FirstKept PROVE i \in DOMAIN s /\ s[i] = t[i]
    <3>1. i \in 1 .. d
      BY <1>2, <1>3, <1>7, <2>2
    <3> QED
      BY <1>4, <2>2, <3>1
  <2> QED
    BY <1>1, <1>3, <1>7, <2>1, <2>2 DEF Kept
<1> QED
  BY <1>6, <1>7

\* What follows in t does not matter.
LEMMA KeptLonger ==
    ASSUME NEW s, NEW t \in Seq(Nat), NEW d \in Nat, d <= Len(t), Kept(s, t, d), NEW e \in Nat
    PROVE  Kept(s, Append(t, e), d)
<1> DEFINE t1 == Append(t, e)
<1>1. \A i \in 1 .. d : t1[i] = t[i]
  OBVIOUS
<1> HIDE DEF t1
<1>2. PICK picked \in SUBSET (1 .. d) : Picks(s, t, picked)
  BY DEF Kept
<1>3. Picks(s, t1, picked)
  BY <1>1, <1>2 DEF Picks
<1> QED
  BY <1>1, <1>3 DEF Kept, t1

\* Whatever is drawn, the loop of addHistoricErr keeps what must be kept.
LEMMA MovedKept ==
    ASSUME NEW s, NEW t \in Seq(Nat), NEW d \in Nat, Kept(s, t, d),
           NEW recent \in Seq(Nat), d + Len(recent) = Len(t),
           \A i \in 1 .. Len(recent) : recent[i] = t[d + i], NEW draws
    PROVE  \A n \in 0 .. Len(recent) : Kept(Moved(s, recent, draws)[n], t, d + n)
<1> DEFINE l == Len(recent)
           moved == Moved(s, recent, draws)
           S == {n \in 0 .. l : Kept(moved[n], t, d + n)}
<1>0. l \in Nat
  OBVIOUS
<1>1. moved = [n \in 0 .. l |-> MovedStep(s, recent, draws, moved, n)]
  BY <1>0, MovedIs
<1> HIDE DEF moved
<1>2. 0 \in S
  <2>1. moved[0] = s
    BY <1>1 DEF MovedStep
  <2> QED
    BY <2>1
<1>3. ASSUME NEW n \in 0 .. l - 1, n \in S PROVE n + 1 \in S
  <2>1. Kept(moved[n], t, d + n)
    BY <1>3
  <2>2. n + 1 \in 1 .. l /\ recent[n + 1] = t[d + n + 1] /\ d + n \in Nat /\ d + n + 1 <= Len(t)
    OBVIOUS
  <2>3. moved[n + 1] = IF Keeps(moved[n], n + 1 \in draws) THEN Append(moved[n], t[d + n + 1]) ELSE moved[n]
    <3> HIDE DEF l
    <3>1. n + 1 \in 0 .. l /\ n + 1 # 0 /\ (n + 1) - 1 = n
      <4>1. ASSUME NEW k \in Nat, NEW m \in 0 .. k - 1 PROVE m + 1 \in 0 .. k /\ m + 1 # 0 /\ (m + 1) - 1 = m
        OBVIOUS
      <4> QED
        BY <1>0, <4>1
    <3>2. moved[n + 1] = MovedStep(s, recent, draws, moved, n + 1)
      BY <1>1, <3>1
    <3> QED
      BY <2>2, <3>1, <3>2 DEF MovedStep
  <2>4. Len(moved[n]) \in Nat /\ FirstKept \in Nat /\ Half \in Nat /\ FirstKept <= Half
    BY <2>1, ErrorsAssumption DEF Kept, Half
  <2> DEFINE e == d + n
  <2>5. e \in Nat /\ e + 1 <= Len(t) /\ Kept(moved[n], t, e)
    BY <2>1, <2>2
  <2>6. Kept(moved[n + 1], t, e + 1)
    <3> HIDE DEF e
    <3>1. CASE Keeps(moved[n], n + 1 \in draws)
      <4>1. CASE Len(moved[n]) < Half
        <5>1. moved[n + 1] = Append(moved[n], t[e + 1])
          BY <2>3, <3>1 DEF e
        <5> QED
          BY <2>5, <4>1, <5>1, KeptGrows
      <4>2. CASE Len(moved[n]) >= Half
        <5>1. ASSUME NEW c \in Nat, NEW f \in Nat, NEW h \in Nat, f <= h, c >= h
              PROVE  ~(c < f) /\ ~(c < h)
          BY <5>1
        <5>2. ~(Len(moved[n]) < FirstKept) /\ ~(Len(moved[n]) < Half)
          BY <2>4, <4>2, <5>1
        <5> QED
          BY <3>1, <5>2, Zenon DEF Keeps
      <4> QED
        BY <2>4, <4>1, <4>2
    <3>2. CASE ~Keeps(moved[n], n + 1 \in draws)
      <4>1. Len(moved[n]) >= FirstKept
        BY <2>4, <3>2 DEF Keeps
      <4>2. moved[n + 1] = moved[n]
        BY <2>3, <3>2
      <4> QED
        BY <2>5, <4>1, <4>2, KeptGrows
    <3> QED
      BY <3>1, <3>2
  <2>7. e + 1 = d + (n + 1)
    OBVIOUS
  <2> QED
    BY <2>6, <2>7
<1> HIDE DEF S
<1>4. 0 .. l \subseteq S
  <2>1. \A n \in 0 .. l - 1 : n \in S => n + 1 \in S
    BY <1>3
  <2> QED
    BY <1>0, <1>2, <2>1, InductionTo
<1> QED
  BY <1>4 DEF S, moved

\* What a tracker has of the errors F.
TrackerInv(et, F) ==
    LET d == Len(F) - Len(et.recentErrs)
    IN  /\ et \in ErrTrackers(Nat) /\ F \in Seq(Nat)
        /\ Len(et.recentErrs) < Half /\ d \in Nat
        /\ \A i \in 1 .. Len(et.recentErrs) : et.recentErrs[i] = F[d + i]
        /\ Kept(et.oldErrs, F, d)
        /\ Len(et.recentErrs) >= Lesser(Half - PruneEnd(Half), Len(F))

LEMMA NewTracker == TrackerInv(NewErrTracker, <<>>)
<1>1. /\ <<>> \in Seq(Nat) /\ Len(<<>>) = 0 /\ DOMAIN <<>> = {}
      /\ 1 .. 0 = {}
  OBVIOUS
<1>2. Half \in Nat /\ Half > 0
  BY ErrorsAssumption DEF Half
<1>3. Picks(<<>>, <<>>, {})
  BY <1>1, FS_EmptySet DEF Picks
<1>4. Kept(<<>>, <<>>, 0)
  BY <1>1, <1>2, <1>3 DEF Kept
<1>5. 0 >= Lesser(Half - PruneEnd(Half), 0)
  BY <1>2 DEF Lesser, PruneEnd
<1> QED
  BY <1>1, <1>2, <1>4, <1>5 DEF TrackerInv, NewErrTracker, ErrTrackers

LEMMA TailAt ==
    ASSUME NEW s \in Seq(Nat), NEW n \in 0 .. Len(s)
    PROVE  /\ SubSeq(s, n + 1, Len(s)) \in Seq(Nat)
           /\ Len(SubSeq(s, n + 1, Len(s))) = Len(s) - n
           /\ \A i \in 1 .. Len(s) - n : SubSeq(s, n + 1, Len(s))[i] = s[n + i]
OBVIOUS

\* Whatever is drawn, an error is added as it should.
LEMMA ErrorAdded ==
    ASSUME NEW et, NEW F, TrackerInv(et, F), NEW e \in Nat, NEW draws
    PROVE  TrackerInv(AddHistoricErr(et, e, draws), Append(F, e))
<1> DEFINE recent == Append(et.recentErrs, e)
           pruned == PruneEnd(Len(recent))
           d == Len(F) - Len(et.recentErrs)
           G == Append(F, e)
<1>1. /\ et \in ErrTrackers(Nat) /\ F \in Seq(Nat)
      /\ Len(et.recentErrs) < Half /\ d \in Nat
      /\ \A i \in 1 .. Len(et.recentErrs) : et.recentErrs[i] = F[d + i]
      /\ Kept(et.oldErrs, F, d)
      /\ Len(et.recentErrs) >= Lesser(Half - PruneEnd(Half), Len(F))
  BY DEF TrackerInv
<1>2. Half \in Nat /\ Half > 0
  BY ErrorsAssumption DEF Half
<1>3. et.recentErrs \in Seq(Nat) /\ et.oldErrs \in Seq(Nat)
  BY <1>1 DEF ErrTrackers
<1> DEFINE r == Len(et.recentErrs)
           f == Len(F)
<1>4. r \in Nat /\ f \in Nat /\ f = d + r
  BY <1>1, <1>3
<1>5. /\ recent \in Seq(Nat) /\ Len(recent) = r + 1
      /\ \A i \in DOMAIN et.recentErrs : recent[i] = et.recentErrs[i]
      /\ recent[r + 1] = e
  BY <1>3, AppendAt
<1>6. /\ G \in Seq(Nat) /\ Len(G) = f + 1
      /\ \A i \in DOMAIN F : G[i] = F[i]
      /\ G[f + 1] = e
  BY <1>1, AppendAt
<1>7. DOMAIN et.recentErrs = 1 .. r /\ DOMAIN F = 1 .. f
  BY <1>1, <1>3
<1>8. Kept(et.oldErrs, G, d)
  <2>1. d <= Len(F)
    BY <1>4
  <2> HIDE DEF d
  <2> QED
    BY <1>1, <2>1, KeptLonger
<1> HIDE DEF recent, G, d, r, f
<1>9. \A i \in 1 .. r + 1 : recent[i] = G[d + i]
  <2>1. ASSUME NEW i \in 1 .. r PROVE recent[i] = G[d + i]
    <3>1. d + i \in 1 .. f
      BY <1>1, <1>4
    <3> QED
      BY <1>1, <1>5, <1>6, <1>7, <3>1 DEF r
  <2>2. recent[r + 1] = G[d + (r + 1)]
    <3>1. d + (r + 1) = f + 1
      BY <1>1, <1>4
    <3> QED
      BY <1>5, <1>6, <3>1
  <2>3. ASSUME NEW i \in 1 .. r + 1 PROVE i \in 1 .. r \/ i = r + 1
    BY <1>4
  <2> QED
    BY <2>1, <2>2, <2>3
<1>10. CASE Len(recent) < Half
  <2>1. AddHistoricErr(et, e, draws) = [et EXCEPT !.recentErrs = recent]
    BY <1>10 DEF AddHistoricErr, recent
  <2> DEFINE new == [et EXCEPT !.recentErrs = recent]
  <2>2. new \in ErrTrackers(Nat) /\ new.recentErrs = recent /\ new.oldErrs = et.oldErrs
    BY <1>1, <1>5 DEF ErrTrackers
  <2> HIDE DEF new
  <2>3. Len(G) - Len(recent) = d
    BY <1>1, <1>4, <1>5, <1>6
  <2>4. Len(recent) >= Lesser(Half - PruneEnd(Half), Len(G))
    <3>1. r >= Lesser(Half - PruneEnd(Half), f)
      BY <1>1 DEF r, f
    <3> QED
      BY <1>2, <1>4, <1>5, <1>6, <3>1 DEF Lesser, PruneEnd
  <2>5. TrackerInv(new, G)
    BY <1>1, <1>5, <1>6, <1>8, <1>9, <1>10, <2>2, <2>3, <2>4 DEF TrackerInv
  <2> QED
    BY <2>1, <2>5 DEF new, G
<1>11. CASE ~(Len(recent) < Half)
  <2>1. r + 1 = Half /\ Len(recent) = Half
    BY <1>1, <1>2, <1>4, <1>5, <1>11 DEF r
  <2>2. pruned \in 0 .. Len(recent)
    BY <1>2, <2>1 DEF PruneEnd
  <2> DEFINE left == SubSeq(recent, pruned + 1, Len(recent))
             moved == Moved(et.oldErrs, recent, draws)[pruned]
  <2>3. AddHistoricErr(et, e, draws) = [recentErrs |-> left, oldErrs |-> moved]
    <3>1. (IF pruned < Len(recent) THEN pruned ELSE Len(recent)) = pruned
      BY <1>2, <2>1, <2>2
    <3> QED
      BY <1>11, <3>1 DEF AddHistoricErr, recent
  <2>4. /\ left \in Seq(Nat) /\ Len(left) = Len(recent) - pruned
        /\ \A i \in 1 .. Len(recent) - pruned : left[i] = recent[pruned + i]
    BY <1>5, <2>2, TailAt
  <2>5. Kept(moved, G, d + pruned)
    <3>1. d + Len(recent) = Len(G)
      BY <1>1, <1>4, <1>5, <1>6
    <3>2. \A i \in 1 .. Len(recent) : recent[i] = G[d + i]
      BY <1>5, <1>9
    <3> QED
      BY <1>1, <1>5, <1>6, <1>8, <2>2, <3>1, <3>2, MovedKept
  <2> HIDE DEF left, moved
  <2> DEFINE new == [recentErrs |-> left, oldErrs |-> moved]
  <2>6. new \in ErrTrackers(Nat) /\ new.recentErrs = left /\ new.oldErrs = moved
    BY <2>4, <2>5 DEF ErrTrackers, Kept
  <2> HIDE DEF new
  <2>7. Len(G) - Len(left) = d + pruned /\ d + pruned \in Nat
    BY <1>1, <1>4, <1>5, <1>6, <2>2, <2>4
  <2>8. pruned > 0 /\ pruned = PruneEnd(Half) /\ Len(left) = Half - PruneEnd(Half) /\ Len(left) < Half
    BY <1>2, <2>1, <2>4 DEF PruneEnd
  <2>9. Len(left) >= Lesser(Half - PruneEnd(Half), Len(G))
    BY <1>2, <1>4, <1>6, <2>8 DEF Lesser, PruneEnd
  <2>10. \A i \in 1 .. Len(left) : left[i] = G[(d + pruned) + i]
    <3>1. SUFFICES ASSUME NEW i \in 1 .. Len(left) PROVE left[i] = G[(d + pruned) + i]
      OBVIOUS
    <3>2. i \in 1 .. Len(recent) - pruned /\ pruned + i \in 1 .. r + 1 /\ d + (pruned + i) = (d + pruned) + i
      <4>1. ASSUME NEW m \in Nat, NEW n \in 0 .. m, NEW k \in 1 .. m - n, NEW c \in Nat
            PROVE  n + k \in 1 .. m /\ c + (n + k) = (c + n) + k
        OBVIOUS
      <4>2. Len(recent) \in Nat /\ i \in 1 .. Len(recent) - pruned /\ d \in Nat
        BY <1>1, <1>4, <1>5, <2>4 DEF d
      <4> QED
        BY <1>5, <2>2, <4>1, <4>2
    <3> QED
      BY <1>9, <2>4, <3>2
  <2>11. TrackerInv(new, G)
    BY <1>6, <2>5, <2>6, <2>7, <2>8, <2>9, <2>10 DEF TrackerInv
  <2> QED
    BY <2>3, <2>11 DEF new, G
<1> QED
  BY <1>10, <1>11

\* The recent errors, one after the other, are picked after the old ones.
LEMMA PicksTail ==
    ASSUME NEW s \in Seq(Nat), NEW r \in Seq(Nat), NEW t \in Seq(Nat), NEW d \in Nat,
           NEW picked \in SUBSET (1 .. d), Picks(s, t, picked), Len(t) = d + Len(r),
           \A i \in 1 .. Len(r) : r[i] = t[d + i]
    PROVE  Picks(s \o r, t, picked \cup (d + 1 .. Len(t)))
<1> DEFINE more == picked \cup (d + 1 .. Len(t))
           all == s \o r
<1>1. Len(s) \in Nat /\ Len(r) \in Nat
  OBVIOUS
<1>2. IsFiniteSet(picked) /\ Cardinality(picked) = Len(s)
  <2>1. IsFiniteSet(1 .. d)
    BY FS_Interval
  <2>2. IsFiniteSet(picked)
    BY <2>1, FS_Subset
  <2> QED
    BY <2>2 DEF Picks
<1>3. ASSUME NEW n \in 0 .. Len(r)
      PROVE  Cardinality(picked \cup (d + 1 .. d + n)) = Len(s) + n
  <2>1. IsFiniteSet(d + 1 .. d + n) /\ Cardinality(d + 1 .. d + n) = n
    <3>1. d + 1 \in Int /\ d + n \in Int
      OBVIOUS
    <3>2. /\ IsFiniteSet(d + 1 .. d + n)
          /\ Cardinality(d + 1 .. d + n) = IF d + 1 > d + n THEN 0 ELSE (d + n) - (d + 1) + 1
      BY <3>1, FS_Interval
    <3> QED
      BY <3>2
  <2>2. picked \cap (d + 1 .. d + n) = {}
    OBVIOUS
  <2>3. Cardinality({}) = 0
    BY FS_EmptySet
  <2> DEFINE I == d + 1 .. d + n
  <2> HIDE DEF I
  <2>4. Cardinality(picked \cup I) = Cardinality(picked) + Cardinality(I) - Cardinality(picked \cap I)
    BY <1>2, <2>1, FS_Union DEF I
  <2>5. Cardinality(picked \cup I) = Len(s) + n
    <3>1. Cardinality(I) = n /\ Cardinality(picked \cap I) = 0
      BY <2>1, <2>2, <2>3 DEF I
    <3>2. n \in Nat
      BY <1>1
    <3> QED
      BY <1>1, <1>2, <2>4, <3>1, <3>2
  <2> QED
    BY <2>5 DEF I
<1>4. /\ all \in Seq(Nat) /\ Len(all) = Len(s) + Len(r) /\ DOMAIN all = 1 .. Len(s) + Len(r)
      /\ \A i \in 1 .. Len(s) : all[i] = s[i]
      /\ \A i \in 1 .. Len(r) : all[Len(s) + i] = r[i]
  BY ConcatAt
<1>5. Cardinality(more) = Len(all)
  <2>1. Len(r) \in 0 .. Len(r)
    BY <1>1
  <2>2. Cardinality(picked \cup (d + 1 .. d + Len(r))) = Len(s) + Len(r)
    BY <1>3, <2>1
  <2> QED
    BY <1>4, <2>2
<1>6. ASSUME NEW j \in picked PROVE {k \in more : k < j} = {k \in picked : k < j}
  <2>1. \A k \in d + 1 .. Len(t) : ~(k < j)
    OBVIOUS
  <2> QED
    BY <2>1
<1>7. ASSUME NEW i \in 1 .. Len(r) PROVE {k \in more : k < d + i} = picked \cup (d + 1 .. d + (i - 1))
  <2>1. \A k \in picked : k < d + i
    OBVIOUS
  <2>2. \A k \in d + 1 .. Len(t) : k < d + i => k \in d + 1 .. d + (i - 1)
    OBVIOUS
  <2>3. \A k \in d + 1 .. d + (i - 1) : k \in d + 1 .. Len(t) /\ k < d + i
    BY <1>1
  <2> QED
    BY <2>1, <2>2, <2>3
<1> HIDE DEF all
<1>8. ASSUME NEW i \in DOMAIN all
      PROVE  \E j \in more : t[j] = all[i] /\ Cardinality({k \in more : k < j}) = i - 1
  <2>1. CASE i \in 1 .. Len(s)
    <3>1. i \in DOMAIN s
      BY <2>1
    <3>2. PICK j \in picked : t[j] = s[i] /\ Cardinality({k \in picked : k < j}) = i - 1
      BY <3>1 DEF Picks
    <3>3. Cardinality({k \in more : k < j}) = i - 1
      BY <1>6, <3>2
    <3>4. t[j] = all[i]
      BY <1>4, <2>1, <3>2
    <3> QED
      BY <3>3, <3>4
  <2>2. CASE i \notin 1 .. Len(s)
    <3>1. PICK n \in 1 .. Len(r) : i = Len(s) + n
      <4>1. ASSUME NEW m \in Nat, NEW n \in Nat, NEW k \in 1 .. m + n, k \notin 1 .. m
            PROVE  k - m \in 1 .. n /\ k = m + (k - m)
        BY <4>1
      <4>2. i \in 1 .. Len(s) + Len(r)
        BY <1>4
      <4>3. i - Len(s) \in 1 .. Len(r) /\ i = Len(s) + (i - Len(s))
        BY <1>1, <2>2, <4>1, <4>2
      <4> QED
        BY <4>3
    <3>2. n - 1 \in 0 .. Len(r)
      BY <1>1
    <3>3. Cardinality(picked \cup (d + 1 .. d + (n - 1))) = Len(s) + (n - 1)
      BY <1>3, <3>2
    <3>4. Cardinality({k \in more : k < d + n}) = Len(s) + (n - 1)
      BY <1>7, <3>3
    <3>5. Len(s) + (n - 1) = i - 1
      BY <1>1, <3>1
    <3>6. d + n \in d + 1 .. Len(t) /\ t[d + n] = all[i]
      BY <1>1, <1>4, <3>1
    <3> QED
      BY <3>4, <3>5, <3>6
  <2> QED
    BY <2>1, <2>2
<1> QED
  BY <1>5, <1>8 DEF Picks, all

\* What a tracker shows.
LEMMA TrackerShows ==
    ASSUME NEW et, NEW F, TrackerInv(et, F)
    PROVE  LET shown == ViewErrs(et)
               recent == Half - Half \div 2 - 1
               least(m, n) == IF m < n THEN m ELSE n
           IN  /\ IsSubsequence(shown, F)
               /\ Len(et.recentErrs) < Half /\ Len(et.oldErrs) <= Half
               /\ \A i \in 1 .. least(FirstKept, Len(F)) : i \in DOMAIN shown /\ shown[i] = F[i]
               /\ Len(et.recentErrs) >= least(recent, Len(F))
               /\ \A i \in 1 .. Len(et.recentErrs) : et.recentErrs[i] = F[Len(F) - Len(et.recentErrs) + i]
<1> DEFINE old == et.oldErrs
           rec == et.recentErrs
           d == Len(F) - Len(rec)
           shown == old \o rec
<1>1. /\ et \in ErrTrackers(Nat) /\ F \in Seq(Nat)
      /\ Len(rec) < Half /\ d \in Nat
      /\ \A i \in 1 .. Len(rec) : rec[i] = F[d + i]
      /\ Kept(old, F, d)
      /\ Len(rec) >= Lesser(Half - Half \div 2 - 1, Len(F))
  <2>1. Half - PruneEnd(Half) = Half - Half \div 2 - 1
    BY ErrorsAssumption DEF ErrorsAssumption, Half, PruneEnd
  <2> QED
    BY <2>1 DEF TrackerInv
<1>2. rec \in Seq(Nat) /\ old \in Seq(Nat)
  BY <1>1 DEF ErrTrackers
<1>3. Len(F) = d + Len(rec) /\ Len(rec) \in Nat /\ Len(F) \in Nat
  BY <1>1, <1>2
<1>4. ViewErrs(et) = shown
  BY DEF ViewErrs
<1>5. /\ Len(shown) = Len(old) + Len(rec) /\ DOMAIN shown = 1 .. Len(old) + Len(rec)
      /\ \A i \in 1 .. Len(old) : shown[i] = old[i]
      /\ \A i \in 1 .. Len(rec) : shown[Len(old) + i] = rec[i]
  BY <1>2, ConcatAt
<1>6. IsSubsequence(shown, F)
  <2>1. PICK picked \in SUBSET (1 .. d) : Picks(old, F, picked)
    BY <1>1 DEF Kept
  <2> DEFINE more == picked \cup (d + 1 .. Len(F))
  <2> HIDE DEF d
  <2>2. Picks(shown, F, more)
    BY <1>1, <1>2, <1>3, <2>1, PicksTail
  <2>3. more \subseteq DOMAIN F
    <3>1. DOMAIN F = 1 .. Len(F)
      BY <1>1
    <3>2. 1 .. d \subseteq 1 .. Len(F) /\ d + 1 .. Len(F) \subseteq 1 .. Len(F)
      BY <1>1, <1>3
    <3> QED
      BY <3>1, <3>2
  <2> QED
    BY <2>2, <2>3 DEF Picks, IsSubsequence
<1>7. ASSUME NEW i \in 1 .. Lesser(FirstKept, Len(F)) PROVE i \in DOMAIN shown /\ shown[i] = F[i]
  <2>1. Len(old) \in Nat /\ Len(old) <= d
    <3> HIDE DEF d
    <3> QED
      BY <1>1, KeptIsShort
  <2>2. i \in Nat /\ i > 0 /\ i <= FirstKept /\ i <= Len(F) /\ FirstKept \in Nat
    BY <1>3, ErrorsAssumption DEF Lesser
  <2>3. \A k \in 1 .. d : k <= FirstKept => k \in 1 .. Len(old) /\ old[k] = F[k]
    BY <1>1, <1>2 DEF Kept
  <2> HIDE DEF d, shown
  <2>4. CASE i <= d
    <3>1. i \in 1 .. Len(old) /\ old[i] = F[i]
      <4>1. i \in 1 .. d
        BY <1>1, <2>2, <2>4
      <4> QED
        BY <2>2, <2>3, <4>1
    <3>2. i \in 1 .. Len(old) + Len(rec)
      <4>1. ASSUME NEW m \in Nat, NEW n \in Nat, NEW k \in 1 .. m PROVE k \in 1 .. m + n
        OBVIOUS
      <4> QED
        BY <1>3, <2>1, <3>1, <4>1
    <3> QED
      BY <1>5, <3>1, <3>2
  <2>5. CASE i > d
    <3>1. Len(old) = d
      <4>1. d = 0 \/ (d \in 1 .. d /\ d <= FirstKept)
        BY <1>1, <2>2, <2>5
      <4>2. d = 0 \/ d \in 1 .. Len(old)
        BY <2>3, <4>1
      <4> QED
        BY <1>1, <2>1, <4>2
    <3>2. i - d \in 1 .. Len(rec) /\ i = d + (i - d)
      BY <1>1, <1>3, <2>2, <2>5
    <3>3. shown[d + (i - d)] = rec[i - d] /\ rec[i - d] = F[d + (i - d)]
      BY <1>1, <1>5, <3>1, <3>2
    <3>4. i \in DOMAIN shown
      BY <1>1, <1>3, <1>5, <2>1, <2>2, <3>1
    <3> QED
      BY <3>2, <3>3, <3>4
  <2> QED
    BY <1>1, <2>2, <2>4, <2>5
<1>8. Len(old) <= Half
  BY <1>1 DEF Kept
<1> HIDE DEF shown
<1> QED
  BY <1>1, <1>4, <1>6, <1>7, <1>8 DEF Lesser

----------------------------------------------------------------------------
(* The attempts.                                                           *)

Fields == {"authToken", "loginDate", "loginErr", "oldErrs"}

\* Where the attempts are, and which portals have a login date.
AttemptsInv ==
    /\ attempts \in [Portals -> Seq(Attempt)]
    /\ timers \in [Portals -> Nat]
    /\ DOMAIN portalMap = Portals
    /\ \A p \in Portals : DOMAIN portalMap[p] = Fields
    /\ initResolved \in BOOLEAN

\* A portal has a login date once an attempt at it has ended.
DatesInv ==
    \A p \in Portals :
        /\ portalMap[p].loginDate \in BOOLEAN
        /\ portalMap[p].loginDate = TRUE <=> EndedAs(p, "failed") \/ EndedAs(p, "successful")

\* Before there is a seed, no attempt has ended.
SeedInv == ~seeded => \A p \in Portals : \A n \in DOMAIN attempts[p] : attempts[p][n].step = "keypair"

\* An attempt a has asked for an account at most once, and not before the first answer
\* to its first login.
Modest(a) ==
    /\ a.accounts <= 1
    /\ a.main /\ a.step \in {"keypair", "login"} => a.accounts = 0

RetriesInv ==
    \A p \in Portals : timers[p] = 1 /\ \A n \in DOMAIN attempts[p] : Modest(attempts[p][n])

IInv == AttemptsInv /\ DatesInv /\ SeedInv /\ InitCompletes /\ RetriesInv

----------------------------------------------------------------------------
(* Attempts.                                                               *)

\* If nothing ends, what is known of the endings stays.
LEMMA EndingsStay ==
    ASSUME IInv, UNCHANGED <<portalMap, initResolved>>,
           \A q \in Portals : /\ EndedAs(q, "failed")' <=> EndedAs(q, "failed")
                              /\ EndedAs(q, "successful")' <=> EndedAs(q, "successful")
    PROVE  DatesInv' /\ InitCompletes'
<1>1. portalMap' = portalMap /\ initResolved' = initResolved
  OBVIOUS
<1>2. DatesInv'
  <2>1. SUFFICES ASSUME NEW q \in Portals
                 PROVE  (/\ portalMap[q].loginDate \in BOOLEAN
                         /\ portalMap[q].loginDate = TRUE <=> EndedAs(q, "failed") \/ EndedAs(q, "successful"))'
    BY DEF DatesInv
  <2>2. /\ portalMap[q].loginDate \in BOOLEAN
        /\ portalMap[q].loginDate = TRUE <=> EndedAs(q, "failed") \/ EndedAs(q, "successful")
    BY DEF IInv, DatesInv
  <2>3. /\ EndedAs(q, "failed")' <=> EndedAs(q, "failed")
        /\ EndedAs(q, "successful")' <=> EndedAs(q, "successful")
    OBVIOUS
  <2> QED
    BY <1>1, <2>2, <2>3
<1>3. InitCompletes'
  <2>1. (\E q \in Portals : EndedAs(q, "successful"))' <=> \E q \in Portals : EndedAs(q, "successful")
    OBVIOUS
  <2>2. (\A q \in Portals : EndedAs(q, "failed"))' <=> \A q \in Portals : EndedAs(q, "failed")
    OBVIOUS
  <2> QED
    BY <1>1, <2>1, <2>2 DEF IInv, InitCompletes
<1> QED
  BY <1>2, <1>3

LEMMA AttemptAt ==
    ASSUME NEW s \in Seq(Attempt), NEW n \in DOMAIN s
    PROVE  /\ s[n] \in Attempt /\ s[n].step \in Steps /\ s[n].main \in BOOLEAN
           /\ s[n].accounts \in Nat
<1>1. s[n] \in Attempt
  OBVIOUS
<1> QED
  BY <1>1 DEF Attempt

LEMMA Replaced ==
    ASSUME NEW s \in Seq(Attempt), NEW n \in DOMAIN s, NEW a \in Attempt
    PROVE  /\ [s EXCEPT ![n] = a] \in Seq(Attempt)
           /\ DOMAIN [s EXCEPT ![n] = a] = DOMAIN s
           /\ \A m \in DOMAIN s : [s EXCEPT ![n] = a][m] = IF m = n THEN a ELSE s[m]
OBVIOUS

Gets(p, n, a) == attempts' = [attempts EXCEPT ![p] = [@ EXCEPT ![n] = a]]

GetsStep(p, n, step) == attempts' = [attempts EXCEPT ![p][n].step = step]

\* One attempt that has not ended goes to a, and what that changes.
LEMMA AttemptGoes ==
    ASSUME AttemptsInv, NEW p \in Portals, NEW n \in DOMAIN attempts[p], NEW a \in Attempt,
           attempts[p][n].step \notin {"failed", "successful"},
           Gets(p, n, a)
    PROVE  /\ attempts' \in [Portals -> Seq(Attempt)]
           /\ \A q \in Portals : DOMAIN attempts'[q] = DOMAIN attempts[q]
           /\ \A q \in Portals : \A m \in DOMAIN attempts[q] :
                attempts'[q][m] = IF q = p /\ m = n THEN a ELSE attempts[q][m]
           /\ \A q \in Portals : \A k \in {"failed", "successful"} :
                EndedAs(q, k)' <=> (EndedAs(q, k) \/ (q = p /\ k = a.step))
<1> DEFINE s == [attempts[p] EXCEPT ![n] = a]
<1>1. /\ s \in Seq(Attempt) /\ DOMAIN s = DOMAIN attempts[p]
      /\ \A m \in DOMAIN attempts[p] : s[m] = IF m = n THEN a ELSE attempts[p][m]
  BY Replaced DEF AttemptsInv
<1>2. attempts' = [attempts EXCEPT ![p] = s]
  BY DEF Gets
<1> HIDE DEF s
<1>3. /\ attempts' \in [Portals -> Seq(Attempt)]
      /\ \A q \in Portals : attempts'[q] = IF q = p THEN s ELSE attempts[q]
  BY <1>1, <1>2 DEF AttemptsInv
<1>4. \A q \in Portals : DOMAIN attempts'[q] = DOMAIN attempts[q]
  BY <1>1, <1>3
<1>5. \A q \in Portals : \A m \in DOMAIN attempts[q] :
        attempts'[q][m] = IF q = p /\ m = n THEN a ELSE attempts[q][m]
  BY <1>1, <1>3
<1>6. ASSUME NEW q \in Portals, NEW k \in {"failed", "successful"}
      PROVE  EndedAs(q, k)' <=> (EndedAs(q, k) \/ (q = p /\ k = a.step))
  <2>1. EndedAs(q, k)' <=> \E m \in DOMAIN attempts[q] : attempts'[q][m].step = k
    BY <1>4 DEF EndedAs
  <2>2. CASE q # p
    BY <1>5, <2>1, <2>2 DEF EndedAs
  <2>3. CASE q = p
    BY <1>5, <2>1, <2>3 DEF EndedAs
  <2> QED
    BY <2>2, <2>3
<1> QED
  BY <1>3, <1>4, <1>5, <1>6

\* The forms in which the actions say so.
LEMMA StepGoes ==
    ASSUME AttemptsInv, NEW p \in Portals, NEW n \in DOMAIN attempts[p], NEW step \in Steps,
           GetsStep(p, n, step)
    PROVE  \E a \in Attempt : /\ a.step = step /\ a.main = attempts[p][n].main
                              /\ a.accounts = attempts[p][n].accounts
                              /\ Gets(p, n, a)
<1>1. attempts[p][n] \in Attempt
  BY AttemptAt DEF AttemptsInv
<1>2. [attempts[p][n] EXCEPT !.step = step] \in Attempt
  BY <1>1 DEF Attempt
<1>3. /\ [attempts[p][n] EXCEPT !.step = step].step = step
      /\ [attempts[p][n] EXCEPT !.step = step].main = attempts[p][n].main
      /\ [attempts[p][n] EXCEPT !.step = step].accounts = attempts[p][n].accounts
  BY <1>1 DEF Attempt
<1>4. attempts' = [attempts EXCEPT ![p] = [@ EXCEPT ![n] = [attempts[p][n] EXCEPT !.step = step]]]
  BY DEF GetsStep
<1> QED
  BY <1>2, <1>3, <1>4 DEF Gets

----------------------------------------------------------------------------
(* The steps.                                                              *)

LEMMA InitInv == ASSUME Init PROVE IInv
<1> DEFINE a == [step |-> "keypair", main |-> TRUE, accounts |-> 0]
<1>1. a \in Attempt /\ a.step = "keypair" /\ Modest(a)
  BY DEF Attempt, Steps, Modest
<1>2. /\ ~seeded /\ attempts = [p \in Portals |-> <<a>>] /\ timers = [p \in Portals |-> 1]
      /\ portalMap = [p \in Portals |-> NewConnection] /\ initResolved = (Portals = {})
  BY DEF Init, Timers
<1>3. <<a>> \in Seq(Attempt) /\ DOMAIN <<a>> = {1} /\ <<a>>[1] = a
  BY <1>1
<1> HIDE DEF a
<1>4. \A p \in Portals : \A n \in DOMAIN attempts[p] : attempts[p][n] = a
  BY <1>2, <1>3
<1>5. \A p \in Portals : ~EndedAs(p, "failed") /\ ~EndedAs(p, "successful")
  BY <1>1, <1>4 DEF EndedAs
<1>6. AttemptsInv
  BY <1>2, <1>3 DEF AttemptsInv, NewConnection, Fields
<1>7. DatesInv
  BY <1>2, <1>5 DEF DatesInv, NewConnection
<1>8. InitCompletes
  <2>1. initResolved <=> Portals = {}
    BY <1>2
  <2> QED
    BY <1>5, <2>1 DEF InitCompletes
<1>9. SeedInv /\ RetriesInv
  BY <1>1, <1>2, <1>4 DEF SeedInv, RetriesInv
<1> QED
  BY <1>6, <1>7, <1>8, <1>9 DEF IInv

\* A step of an attempt that does not end it.
LEMMA AttemptContinues ==
    ASSUME IInv, NEW p \in Portals, NEW n \in DOMAIN attempts[p], NEW a \in Attempt,
           attempts[p][n].step \in Waiting, a.step \in Waiting,
           a.accounts <= 1 /\ (a.main /\ a.step = "login" => a.accounts = 0),
           Gets(p, n, a),
           UNCHANGED <<seeded, timers, portalMap, failures, initResolved>>
    PROVE  IInv'
<1>0. AttemptsInv
  BY DEF IInv
<1>1. attempts[p][n].step \notin {"failed", "successful"} /\ a.step \notin {"failed", "successful"}
  BY DEF Waiting
<1>2. /\ attempts' \in [Portals -> Seq(Attempt)]
      /\ \A q \in Portals : DOMAIN attempts'[q] = DOMAIN attempts[q]
      /\ \A q \in Portals : \A m \in DOMAIN attempts[q] :
            attempts'[q][m] = IF q = p /\ m = n THEN a ELSE attempts[q][m]
      /\ \A q \in Portals : \A k \in {"failed", "successful"} :
            EndedAs(q, k)' <=> (EndedAs(q, k) \/ (q = p /\ k = a.step))
  BY <1>0, <1>1, AttemptGoes
<1>7. \A q \in Portals : /\ EndedAs(q, "failed")' <=> EndedAs(q, "failed")
                         /\ EndedAs(q, "successful")' <=> EndedAs(q, "successful")
  BY <1>1, <1>2
<1>3. AttemptsInv'
  BY <1>2 DEF IInv, AttemptsInv
<1>4. DatesInv' /\ InitCompletes'
  BY <1>7, EndingsStay
<1>5. seeded
  BY DEF IInv, SeedInv, Waiting
<1>8. Modest(a)
  BY DEF Modest, Waiting
<1>6. RetriesInv'
  BY <1>2, <1>8 DEF IInv, RetriesInv
<1> QED
  BY <1>3, <1>4, <1>5, <1>6 DEF IInv, SeedInv

\* A step that ends an attempt.
LEMMA AttemptEnds ==
    ASSUME IInv, NEW p \in Portals, NEW n \in DOMAIN attempts[p], attempts[p][n].step \in Waiting,
           \/ PortalConnectionFailed(p, n)
           \/ \E authToken \in {Null, "token"} : PortalConnectionSuccessful(p, n, authToken),
           UNCHANGED seeded
    PROVE  IInv'
<1>0. AttemptsInv
  BY DEF IInv
<1>1. PICK step \in {"failed", "successful"} :
        /\ Ends(p, n, step)
        /\ step = "failed" => initResolved' = (initResolved \/ AllEnded(portalMap'))
        /\ step = "successful" => initResolved' = TRUE
        /\ UNCHANGED timers
  BY DEF PortalConnectionFailed, PortalConnectionSuccessful
<1>2. PICK a \in Attempt : /\ a.step = step /\ Modest(a)
                           /\ Gets(p, n, a)
  <2> DEFINE a == [step |-> step, main |-> FALSE, accounts |-> 0]
  <2>1. a \in Attempt /\ a.step = step /\ Modest(a)
    BY DEF Attempt, Steps, Modest
  <2>2. Gets(p, n, a)
    BY <1>1 DEF Ends, Gets
  <2> HIDE DEF a
  <2> QED
    BY <2>1, <2>2
<1>3. attempts[p][n].step \notin {"failed", "successful"}
  BY DEF Waiting
<1>4. /\ attempts' \in [Portals -> Seq(Attempt)]
      /\ \A q \in Portals : DOMAIN attempts'[q] = DOMAIN attempts[q]
      /\ \A q \in Portals : \A m \in DOMAIN attempts[q] :
            attempts'[q][m] = IF q = p /\ m = n THEN a ELSE attempts[q][m]
      /\ \A q \in Portals : \A k \in {"failed", "successful"} :
            EndedAs(q, k)' <=> (EndedAs(q, k) \/ (q = p /\ k = a.step))
  BY <1>0, <1>2, <1>3, AttemptGoes
<1>5. \A q \in Portals :
        /\ EndedAs(q, "failed")' <=> (EndedAs(q, "failed") \/ (q = p /\ step = "failed"))
        /\ EndedAs(q, "successful")' <=> (EndedAs(q, "successful") \/ (q = p /\ step = "successful"))
  BY <1>2, <1>4
<1>6. /\ DOMAIN portalMap' = Portals
      /\ \A q \in Portals : DOMAIN portalMap'[q] = Fields
      /\ portalMap'[p].loginDate = TRUE
      /\ \A q \in Portals : q # p => portalMap'[q] = portalMap[q]
  <2>1. CASE PortalConnectionFailed(p, n)
    <3>1. PICK draws : portalMap' = [portalMap EXCEPT ![p] =
                            [authToken |-> Null, loginDate |-> TRUE, loginErr |-> "failed",
                             oldErrs |-> AddHistoricErr(@.oldErrs, n, draws)]]
      BY <2>1 DEF PortalConnectionFailed
    <3> QED
      BY <3>1 DEF IInv, AttemptsInv, Fields
  <2>2. ASSUME NEW authToken, PortalConnectionSuccessful(p, n, authToken) PROVE <1>6!1 /\ <1>6!2 /\ <1>6!3 /\ <1>6!4
    <3>1. portalMap' = [portalMap EXCEPT ![p] =
                [@ EXCEPT !.authToken = authToken, !.loginDate = TRUE, !.loginErr = Null]]
      BY <2>2 DEF PortalConnectionSuccessful
    <3> QED
      BY <3>1 DEF IInv, AttemptsInv, Fields
  <2> QED
    BY <2>1, <2>2
<1>7. DatesInv'
  <2>1. EndedAs(p, "failed")' \/ EndedAs(p, "successful")'
    BY <1>5
  <2>2. ASSUME NEW q \in Portals, q # p
        PROVE  (/\ portalMap[q].loginDate \in BOOLEAN
                /\ portalMap[q].loginDate = TRUE <=> EndedAs(q, "failed") \/ EndedAs(q, "successful"))'
    BY <1>5, <1>6, <2>2 DEF IInv, DatesInv
  <2> QED
    BY <1>6, <2>1, <2>2 DEF DatesInv
<1>8. AttemptsInv'
  BY <1>1, <1>4, <1>6 DEF IInv, AttemptsInv, AllEnded
<1>9. InitCompletes'
  <2>1. CASE step = "successful"
    BY <1>1, <1>5, <2>1 DEF InitCompletes
  <2>2. CASE step = "failed"
    <3>1. AllEnded(portalMap') <=> \A q \in Portals : EndedAs(q, "failed")' \/ EndedAs(q, "successful")'
      <4>1. \A q \in Portals : portalMap'[q].loginDate <=> portalMap'[q].loginDate = TRUE
        BY <1>7 DEF DatesInv
      <4> QED
        BY <1>7, <4>1 DEF AllEnded, DatesInv
    <3>2. initResolved' <=> (initResolved \/ AllEnded(portalMap'))
      BY <1>1, <2>2
    <3>3. initResolved <=> \/ \E q \in Portals : EndedAs(q, "successful")
                           \/ \A q \in Portals : EndedAs(q, "failed")
      BY DEF IInv, InitCompletes
    <3>4. \A q \in Portals : /\ EndedAs(q, "successful")' <=> EndedAs(q, "successful")
                             /\ EndedAs(q, "failed") => EndedAs(q, "failed")'
      BY <1>5, <2>2
    <3> QED
      BY <3>1, <3>2, <3>3, <3>4 DEF InitCompletes
  <2> QED
    BY <2>1, <2>2
<1>10. RetriesInv'
  BY <1>1, <1>2, <1>4 DEF IInv, RetriesInv, Modest
<1>11. seeded
  BY DEF IInv, SeedInv, Waiting
<1> QED
  BY <1>7, <1>8, <1>9, <1>10, <1>11 DEF IInv, SeedInv

LEMMA AttemptStepInv ==
    ASSUME IInv, NEW p \in Portals, NEW n \in DOMAIN attempts[p], AttemptStep(p, n)
    PROVE  IInv'
<1>1. CASE AttemptFails(p, n)
  BY <1>1, AttemptEnds DEF AttemptFails
<1>2. CASE LoginEnds(p, n)
  BY <1>2, AttemptEnds DEF LoginEnds, At, Waiting
<1>8. /\ AttemptsInv /\ attempts[p][n] \in Attempt /\ attempts[p][n].accounts \in Nat
      /\ timers \in [Portals -> Nat]
  BY AttemptAt DEF IInv, AttemptsInv
<1>9. /\ attempts[p][n].accounts <= 1
      /\ attempts[p][n].main /\ attempts[p][n].step = "login" => attempts[p][n].accounts = 0
  BY DEF IInv, RetriesInv, Modest
<1>3. ASSUME NEW step \in Waiting \ {"login"}, Goes(p, n, step), attempts[p][n].step \in Waiting,
             UNCHANGED seeded
      PROVE  IInv'
  <2>0. step \in Steps /\ GetsStep(p, n, step)
    BY <1>3 DEF Goes, GetsStep, Steps
  <2>1. PICK a \in Attempt : /\ a.step = step /\ a.main = attempts[p][n].main
                             /\ a.accounts = attempts[p][n].accounts
                             /\ Gets(p, n, a)
    BY <1>8, <2>0, StepGoes
  <2>2. a.accounts <= 1 /\ a.step # "login"
    BY <1>3, <1>9, <2>1
  <2> QED
    BY <1>3, <2>1, <2>2, AttemptContinues DEF Goes
<1>4. CASE LoginUnknown(p, n)
  <2>1. PICK a : a = [attempts[p][n] EXCEPT !.step = "register", !.accounts = @ + 1]
    OBVIOUS
  <2>2. /\ attempts[p][n].step = "login" /\ attempts[p][n].main
        /\ UNCHANGED <<seeded, timers, portalMap, failures, initResolved>>
    BY <1>4 DEF LoginUnknown, At
  <2>3. Gets(p, n, a)
    BY <1>4, <2>1 DEF LoginUnknown, Gets
  <2>4. a \in Attempt /\ a.step = "register" /\ a.accounts = attempts[p][n].accounts + 1
    <3>1. PICK b : b = attempts[p][n] /\ b \in Attempt /\ b.accounts + 1 \in Nat
      BY <1>8
    <3>2. a = [step |-> "register", main |-> b.main, accounts |-> b.accounts + 1]
      BY <2>1, <3>1 DEF Attempt
    <3> QED
      BY <3>1, <3>2 DEF Attempt, Steps, Waiting
  <2>5. attempts[p][n].accounts = 0
    BY <1>9, <2>2
  <2>6. a.accounts <= 1 /\ a.step # "login"
    BY <2>4, <2>5
  <2> QED
    BY <2>2, <2>3, <2>4, <2>6, AttemptContinues DEF Waiting
<1>5. CASE RespondToLoginChallenge(p, n)
  BY <1>3, <1>5 DEF RespondToLoginChallenge, At, Waiting
<1>6. CASE RespondToRegistrationChallenge(p, n)
  BY <1>3, <1>6 DEF RespondToRegistrationChallenge, At, Waiting
<1>7. CASE RegistrationEnds(p, n)
  <2>1. PICK a : a = [attempts[p][n] EXCEPT !.step = "login", !.main = FALSE]
    OBVIOUS
  <2>2. Gets(p, n, a)
    BY <1>7, <2>1 DEF RegistrationEnds, Gets
  <2>3. /\ attempts[p][n].step = "registerPost"
        /\ UNCHANGED <<seeded, portalMap, failures, initResolved>>
        /\ timers' = [timers EXCEPT ![p] = @ + Timers(FALSE)]
    BY <1>7 DEF RegistrationEnds, At
  <2>4. UNCHANGED timers
    BY <1>8, <2>3 DEF Timers
  <2>5. /\ a \in Attempt /\ a.step = "login" /\ ~a.main
        /\ a.accounts = attempts[p][n].accounts
    BY <1>8, <2>1 DEF Attempt, Steps, Waiting
  <2>6. a.accounts <= 1
    BY <1>9, <2>5
  <2> QED
    BY <2>2, <2>3, <2>4, <2>5, <2>6, AttemptContinues DEF Waiting
<1> QED
  BY <1>1, <1>2, <1>4, <1>5, <1>6, <1>7 DEF AttemptStep

LEMMA TimerFiresInv == ASSUME IInv, NEW p \in Portals, TimerFires(p) PROVE IInv'
<1>1. PICK a : /\ a = [step |-> IF seeded THEN "login" ELSE "keypair", main |-> TRUE, accounts |-> 0]
               /\ attempts' = [attempts EXCEPT ![p] = Append(@, a)]
  BY DEF TimerFires, ConnectToPortal
<1>2. a \in Attempt /\ Modest(a) /\ a.step = IF seeded THEN "login" ELSE "keypair"
  BY <1>1 DEF Attempt, Steps, Waiting, Modest
<1>3. UNCHANGED <<seeded, timers, portalMap, failures, initResolved>>
  <2>1. /\ UNCHANGED <<seeded, portalMap, failures, initResolved>>
        /\ timers' = [timers EXCEPT ![p] = (@ - 1) + Timers(TRUE)]
    BY DEF TimerFires, ConnectToPortal
  <2>2. timers \in [Portals -> Nat] /\ timers[p] = 1
    BY DEF IInv, AttemptsInv, RetriesInv
  <2> QED
    BY <2>1, <2>2 DEF Timers
<1> DEFINE s == Append(attempts[p], a)
<1>4. attempts[p] \in Seq(Attempt)
  BY DEF IInv, AttemptsInv
<1>5. s \in Seq(Attempt) /\ \A m \in DOMAIN s : IF m \in DOMAIN attempts[p] THEN s[m] = attempts[p][m] ELSE s[m] = a
  BY <1>2, <1>4
<1>6. \A m \in DOMAIN attempts[p] : m \in DOMAIN s
  BY <1>2, <1>4
<1>7. attempts' = [attempts EXCEPT ![p] = s]
  BY <1>1
<1> HIDE DEF s
<1>8. /\ attempts' \in [Portals -> Seq(Attempt)]
      /\ \A q \in Portals : attempts'[q] = IF q = p THEN s ELSE attempts[q]
  BY <1>5, <1>7 DEF IInv, AttemptsInv
<1>9. a.step \notin {"failed", "successful", "register", "registerPost"}
  BY <1>2
<1>10. \A q \in Portals : /\ EndedAs(q, "failed")' <=> EndedAs(q, "failed")
                          /\ EndedAs(q, "successful")' <=> EndedAs(q, "successful")
  BY <1>5, <1>6, <1>8, <1>9 DEF EndedAs
<1>11. AttemptsInv'
  BY <1>3, <1>8 DEF IInv, AttemptsInv
<1>12. DatesInv' /\ InitCompletes'
  BY <1>3, <1>10, EndingsStay
<1>13. SeedInv'
  BY <1>2, <1>3, <1>5, <1>8 DEF IInv, SeedInv
<1>14. RetriesInv'
  BY <1>2, <1>3, <1>5, <1>8 DEF IInv, RetriesInv, Modest
<1> QED
  BY <1>11, <1>12, <1>13, <1>14 DEF IInv

\* Every attempt waited for the seed, so none is restarted.
LEMMA PresentSeedInv == ASSUME IInv, PresentSeed PROVE IInv'
<1>1. /\ \A p \in Portals : \A n \in DOMAIN attempts[p] : attempts[p][n].step = "keypair"
      /\ attempts' = [p \in Portals |-> [n \in DOMAIN attempts[p] |-> [attempts[p][n] EXCEPT !.step = "login"]]]
      /\ seeded' /\ UNCHANGED <<timers, portalMap, failures, initResolved>>
  BY DEF PresentSeed, IInv, SeedInv
<1>2. ASSUME NEW p \in Portals
      PROVE  /\ attempts'[p] \in Seq(Attempt)
             /\ DOMAIN attempts'[p] = DOMAIN attempts[p]
             /\ \A n \in DOMAIN attempts[p] :
                    attempts'[p][n].step = "login" /\ Modest(attempts'[p][n])
  <2>1. attempts[p] \in Seq(Attempt)
    BY DEF IInv, AttemptsInv
  <2>2. attempts'[p] = [n \in DOMAIN attempts[p] |-> [attempts[p][n] EXCEPT !.step = "login"]]
    BY <1>1
  <2>3. ASSUME NEW n \in DOMAIN attempts[p]
        PROVE  /\ attempts'[p][n] \in Attempt
               /\ attempts'[p][n].step = "login" /\ Modest(attempts'[p][n])
    <3>1. attempts[p][n] \in Attempt
      BY <2>1, AttemptAt
    <3>2. [attempts[p][n] EXCEPT !.step = "login"] \in Attempt
      BY <3>1 DEF Attempt, Steps, Waiting
    <3>3. PICK a : a = [attempts[p][n] EXCEPT !.step = "login"]
      OBVIOUS
    <3>4. /\ a.step = "login" /\ a.main = attempts[p][n].main
          /\ a.accounts = attempts[p][n].accounts
      BY <3>1, <3>3 DEF Attempt
    <3>5. Modest(attempts[p][n]) /\ attempts[p][n].step = "keypair"
      BY <1>1 DEF IInv, RetriesInv
    <3>6. Modest(a)
      BY <3>4, <3>5 DEF Modest
    <3> QED
      BY <2>2, <3>2, <3>3, <3>4, <3>6
  <2>4. DOMAIN attempts'[p] = DOMAIN attempts[p]
    BY <2>2
  <2>5. PICK k \in Nat : DOMAIN attempts[p] = 1 .. k
    BY <2>1
  <2>6. attempts'[p] \in [1 .. k -> Attempt]
    BY <2>2, <2>3, <2>4, <2>5
  <2>7. attempts'[p] \in Seq(Attempt)
    BY <2>6
  <2> QED
    BY <2>3, <2>4, <2>7
<1>3. attempts' \in [Portals -> Seq(Attempt)]
  BY <1>1, <1>2
<1>4. \A p \in Portals : /\ EndedAs(p, "failed")' <=> EndedAs(p, "failed")
                         /\ EndedAs(p, "successful")' <=> EndedAs(p, "successful")
  BY <1>1, <1>2 DEF EndedAs
<1>5. AttemptsInv'
  BY <1>1, <1>3 DEF IInv, AttemptsInv
<1>6. DatesInv' /\ InitCompletes'
  BY <1>1, <1>4, EndingsStay
<1>7. RetriesInv'
  BY <1>1, <1>2 DEF IInv, RetriesInv, Modest
<1> QED
  BY <1>1, <1>5, <1>6, <1>7 DEF IInv, SeedInv

LEMMA NextInv == ASSUME IInv, [Next]_vars PROVE IInv'
<1>1. ASSUME UNCHANGED <<seeded, portalVars>> PROVE IInv'
  BY <1>1 DEF portalVars, IInv, AttemptsInv, DatesInv, SeedInv, InitCompletes, RetriesInv, Modest, EndedAs
<1>2. CASE UNCHANGED vars
  BY <1>1, <1>2 DEF vars
<1>3. ASSUME NEW q \in Queries, Ask(q) \/ Answer(q) PROVE IInv'
  BY <1>1, <1>3 DEF Ask, Answer
<1> QED
  BY <1>2, <1>3, PresentSeedInv, TimerFiresInv, AttemptStepInv DEF Next

LEMMA Invariant == Spec => []IInv
<1>1. Init => IInv
  BY InitInv
<1>2. IInv /\ [Next]_vars => IInv'
  BY NextInv
<1> QED
  BY <1>1, <1>2, PTL DEF Spec

\* init is complete exactly when one attempt has succeeded, or one at every portal
\* has failed, whatever the portals answer and however the attempts overlap.
THEOREM InitCompletesInTime == Spec => []InitCompletes
<1>1. IInv => InitCompletes
  BY DEF IInv
<1> QED
  BY <1>1, Invariant, PTL

\* Whatever logins are refused and registrations go through, a portal has one timer,
\* neither none nor more, and no attempt asks for an account twice.
THEOREM RetriesStaySingle == Spec => []RetriesDoNotMultiply
<1>1. IInv => RetriesDoNotMultiply
  BY DEF IInv, RetriesInv, Modest, RetriesDoNotMultiply
<1> QED
  BY <1>1, Invariant, PTL

----------------------------------------------------------------------------
(* The types and the history.                                              *)

TypeInv ==
    /\ portalMap \in [Portals -> Connection]
    /\ failures \in [Portals -> Seq(Nat)]
    /\ seeded \in BOOLEAN
    /\ query \in [Queries -> {"idle", "waiting"}]

\* The history of a portal is one of its failures.
HistoryInv == \A p \in Portals : TrackerInv(portalMap[p].oldErrs, failures[p])

RecordInv == IInv /\ TypeInv /\ HistoryInv

LEMMA InitRecord == ASSUME Init PROVE TypeInv /\ HistoryInv
<1>1. /\ seeded = FALSE
      /\ portalMap = [p \in Portals |-> NewConnection]
      /\ failures = [p \in Portals |-> <<>>]
      /\ query = [q \in Queries |-> "idle"]
  BY DEF Init
<1>2. NewErrTracker \in ErrTrackers(Nat)
  BY NewTracker DEF TrackerInv
<1>3. NewConnection \in Connection /\ NewConnection.oldErrs = NewErrTracker
  BY <1>2 DEF NewConnection, Connection
<1>4. TypeInv
  <2>1. <<>> \in Seq(Nat)
    OBVIOUS
  <2> QED
    BY <1>1, <1>3, <2>1 DEF TypeInv
<1>5. HistoryInv
  BY <1>1, <1>3, NewTracker DEF HistoryInv
<1> QED
  BY <1>4, <1>5

\* A failure is added to the history of its portal.
LEMMA FailureRecorded ==
    ASSUME RecordInv, NEW p \in Portals, NEW n \in DOMAIN attempts[p], PortalConnectionFailed(p, n)
    PROVE  portalMap' \in [Portals -> Connection] /\ failures' \in [Portals -> Seq(Nat)] /\ HistoryInv'
<1>1. PICK draws :
        portalMap' = [portalMap EXCEPT ![p] =
            [authToken |-> Null, loginDate |-> TRUE, loginErr |-> "failed",
             oldErrs |-> AddHistoricErr(@.oldErrs, n, draws)]]
  BY DEF PortalConnectionFailed
<1>2. failures' = [failures EXCEPT ![p] = Append(@, n)]
  BY DEF PortalConnectionFailed
<1>3. n \in Nat
  <2>1. attempts[p] \in Seq(Attempt)
    BY DEF RecordInv, IInv, AttemptsInv
  <2> QED
    BY <2>1
<1>4. portalMap \in [Portals -> Connection] /\ failures \in [Portals -> Seq(Nat)]
  BY DEF RecordInv, TypeInv
<1> DEFINE et == AddHistoricErr(portalMap[p].oldErrs, n, draws)
           c == [authToken |-> Null, loginDate |-> TRUE, loginErr |-> "failed", oldErrs |-> et]
           F == Append(failures[p], n)
<1>5. TrackerInv(et, F)
  BY <1>3, ErrorAdded DEF RecordInv, HistoryInv
<1>6. portalMap' = [portalMap EXCEPT ![p] = c] /\ failures' = [failures EXCEPT ![p] = F]
  BY <1>1, <1>2
<1> HIDE DEF et, F
<1>7. c \in Connection /\ c.oldErrs = et /\ F \in Seq(Nat)
  BY <1>5 DEF Connection, TrackerInv
<1> HIDE DEF c
<1>8. /\ portalMap' \in [Portals -> Connection] /\ failures' \in [Portals -> Seq(Nat)]
      /\ portalMap'[p] = c /\ failures'[p] = F
      /\ \A q \in Portals : q # p => portalMap'[q] = portalMap[q] /\ failures'[q] = failures[q]
  BY <1>4, <1>6, <1>7
<1>9. ASSUME NEW q \in Portals PROVE TrackerInv(portalMap'[q].oldErrs, failures'[q])
  <2>1. CASE q = p
    BY <1>5, <1>7, <1>8, <2>1
  <2>2. CASE q # p
    BY <1>8, <2>2 DEF RecordInv, HistoryInv
  <2> QED
    BY <2>1, <2>2
<1> QED
  BY <1>8, <1>9 DEF HistoryInv

\* A success leaves the history.
LEMMA SuccessRecorded ==
    ASSUME RecordInv, NEW p \in Portals, NEW n, NEW authToken \in {Null, "token"},
           PortalConnectionSuccessful(p, n, authToken)
    PROVE  portalMap' \in [Portals -> Connection] /\ failures' \in [Portals -> Seq(Nat)] /\ HistoryInv'
<1>1. portalMap \in [Portals -> Connection] /\ failures \in [Portals -> Seq(Nat)]
  BY DEF RecordInv, TypeInv
<1> DEFINE c == [portalMap[p] EXCEPT !.authToken = authToken, !.loginDate = TRUE, !.loginErr = Null]
<1>2. portalMap' = [portalMap EXCEPT ![p] = c] /\ failures' = failures
  BY DEF PortalConnectionSuccessful
<1>3. portalMap[p] \in Connection
  BY <1>1
<1>4. c \in Connection /\ c.oldErrs = portalMap[p].oldErrs
  BY <1>3 DEF Connection
<1> HIDE DEF c
<1>5. /\ portalMap' \in [Portals -> Connection]
      /\ \A q \in Portals : portalMap'[q].oldErrs = portalMap[q].oldErrs
  BY <1>1, <1>2, <1>4
<1>6. \A q \in Portals : TrackerInv(portalMap'[q].oldErrs, failures'[q])
  BY <1>2, <1>5 DEF RecordInv, HistoryInv
<1> QED
  BY <1>1, <1>2, <1>5, <1>6 DEF HistoryInv

LEMMA NextRecord == ASSUME RecordInv, [Next]_vars PROVE RecordInv'
<1>1. IInv'
  BY NextInv DEF RecordInv
<1>2. seeded' \in BOOLEAN /\ query' \in [Queries -> {"idle", "waiting"}]
  <2>1. seeded \in BOOLEAN /\ query \in [Queries -> {"idle", "waiting"}]
    BY DEF RecordInv, TypeInv
  <2>2. CASE UNCHANGED vars
    BY <2>1, <2>2 DEF vars
  <2>3. CASE PresentSeed
    BY <2>1, <2>3 DEF PresentSeed
  <2>4. ASSUME NEW p \in Portals, TimerFires(p) PROVE <1>2
    BY <2>1, <2>4 DEF TimerFires
  <2>5. ASSUME NEW p \in Portals, NEW n \in DOMAIN attempts[p], AttemptStep(p, n) PROVE <1>2
    BY <2>1, <2>5 DEF AttemptStep, AttemptFails, LoginUnknown, RespondToLoginChallenge, LoginEnds,
                      RespondToRegistrationChallenge, RegistrationEnds, At
  <2>6. ASSUME NEW q \in Queries, Ask(q) \/ Answer(q) PROVE <1>2
    BY <2>1, <2>6 DEF Ask, Answer
  <2> QED
    BY <2>2, <2>3, <2>4, <2>5, <2>6 DEF Next
<1>3. portalMap' \in [Portals -> Connection] /\ failures' \in [Portals -> Seq(Nat)] /\ HistoryInv'
  <2>1. ASSUME UNCHANGED <<portalMap, failures>> PROVE <1>3
    BY <2>1 DEF RecordInv, TypeInv, HistoryInv
  <2>2. CASE UNCHANGED vars
    BY <2>1, <2>2 DEF vars, portalVars
  <2>3. CASE PresentSeed
    BY <2>1, <2>3 DEF PresentSeed
  <2>4. ASSUME NEW p \in Portals, TimerFires(p) PROVE <1>3
    BY <2>1, <2>4 DEF TimerFires, ConnectToPortal
  <2>5. ASSUME NEW p \in Portals, NEW n \in DOMAIN attempts[p], AttemptStep(p, n) PROVE <1>3
    <3>1. CASE AttemptFails(p, n)
      BY <3>1, FailureRecorded DEF AttemptFails
    <3>2. CASE LoginEnds(p, n)
      BY <3>2, SuccessRecorded DEF LoginEnds
    <3>3. CASE LoginUnknown(p, n) \/ RespondToLoginChallenge(p, n)
      BY <2>1, <3>3 DEF LoginUnknown, RespondToLoginChallenge, Goes
    <3>4. CASE RespondToRegistrationChallenge(p, n) \/ RegistrationEnds(p, n)
      BY <2>1, <3>4 DEF RespondToRegistrationChallenge, RegistrationEnds, Goes
    <3> QED
      BY <2>5, <3>1, <3>2, <3>3, <3>4 DEF AttemptStep
  <2>6. ASSUME NEW q \in Queries, Ask(q) \/ Answer(q) PROVE <1>3
    BY <2>1, <2>6 DEF Ask, Answer, portalVars
  <2> QED
    BY <2>2, <2>3, <2>4, <2>5, <2>6 DEF Next
<1> QED
  BY <1>1, <1>2, <1>3 DEF RecordInv, TypeInv

LEMMA Record == Spec => []RecordInv
<1>1. Init => RecordInv
  BY InitInv, InitRecord DEF RecordInv
<1>2. RecordInv /\ [Next]_vars => RecordInv'
  BY NextRecord
<1> QED
  BY <1>1, <1>2, PTL DEF Spec

\* Every variable has its type.
THEOREM ConnectionsTyped == Spec => []TypeOK
<1>1. RecordInv => TypeOK
  BY DEF RecordInv, TypeInv, IInv, AttemptsInv, TypeOK
<1> QED
  BY <1>1, Record, PTL

\* Whatever is drawn at random and however long it goes on: what is shown of a
\* portal's failures is in their order, the first and the most recent are there,
\* and there are never too many, for every MaxErrors and FirstKept.
THEOREM HistoryIsKept == Spec => []HistoryKept
<1>1. RecordInv => HistoryKept
  <2>1. SUFFICES ASSUME HistoryInv PROVE HistoryKept
    BY DEF RecordInv
  <2>2. \A p \in Portals : TrackerInv(portalMap[p].oldErrs, failures[p])
    BY <2>1 DEF HistoryInv
  <2> QED
    BY <2>2, TrackerShows DEF HistoryKept
<1> QED
  BY <1>1, Record, PTL
=============================================================================
