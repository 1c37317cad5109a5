------------------------ MODULE IndependentFile_proofs ------------------------
(***************************************************************************)
(* The versions of a file follow each other without a gap, each written by one *)
(* who had read the entry that it replaces; its objects only advance; no write *)
(* is lost, and no version is shorter than any before it was, as far as no    *)
(* writer had data older than the entry it had read: for any number of file   *)
(* objects, calls and requests that outlive them, and for all sizes.         *)
(***************************************************************************)
EXTENDS IndependentFile, WellFoundedInduction, TLAPS

\* Every version that a call can have made.
Versions ==
    {NewVersion(r, e, b, s, l) :
        r \in 0 .. MaxRevision, e \in Nat, b \in Nat, s \in Sizes, l \in Nat}

FileState == [kind : {"closed", "writer", "viewer"}, revision : 0 .. MaxRevision, entry : Nat,
              base : Nat, largest : Nat]

OpState == [kind : Kinds, file : Files \cup {Null}, step : Steps, seen : Nat,
            version : Versions \cup {NoVersion}]

\* What the registry has taken: an unbroken chain.
HistoryInv ==
    /\ accepted \in Seq(Versions)
    /\ ConsecutiveRevisions
    /\ NoLostUpdate
    /\ \A i, j \in 1 .. Len(accepted) : i < j => accepted[i].revision < accepted[j].revision

\* A version that is on its way is the first one, or follows the one whose entry its
\* writer had read; the writer had the data of some one that was taken.
Claimed(v) ==
    /\ v \in Versions
    /\ \/ v.revision = InitialRevision /\ v.base = 0 /\ v.entry = 0
       \/ /\ v.base \in 1 .. Len(accepted) /\ v.entry \in 1 .. Len(accepted)
          /\ v.revision = NextRevision(accepted[v.entry].revision, v.size)

\* An object that can be written to has the revision of an entry, and some data.
FileGood(x) ==
    /\ x \in FileState
    /\ x.kind = "writer" =>
        /\ x.base \in 1 .. Len(accepted) /\ x.entry \in 1 .. Len(accepted)
        /\ x.revision = accepted[x.entry].revision

\* Where a call r is, and what holds of its object meanwhile.
OpGood(r) ==
    /\ r \in OpState
    /\ r.step = "idle" => r.kind = "none"
    /\ r.step # "idle" =>
        /\ r.file \in Files
        /\ file[r.file].kind = IF r.kind = "overwrite" THEN "writer" ELSE "closed"
    /\ r.step \in {"upload", "write", "taken"} => r.kind \in {"create", "overwrite"}
    /\ r.kind \in {"create", "overwrite"} => Claimed(r.version)
    /\ r.kind = "open" /\ r.step = "download" => r.seen \in 1 .. Len(accepted)
    /\ r.step = "taken" => r.seen \in 1 .. Len(accepted) /\ accepted[r.seen] = r.version
    /\ r.step = "taken" /\ r.kind = "overwrite" =>
        /\ file[r.file].revision < r.version.revision
        /\ file[r.file].entry < r.seen /\ file[r.file].base < r.seen

\* Two calls on one object overwrite it; when the write of one was taken and it
\* has not been told, the other's write is not newer and will never be taken.
PairGood(r, s) ==
    r.step # "idle" /\ s.step # "idle" /\ r.file = s.file =>
        /\ r.kind = "overwrite"
        /\ r.step = "taken" => s.step # "taken" /\ s.version.revision <= r.version.revision

IInv ==
    /\ HistoryInv
    /\ \A v \in delayed : Claimed(v)
    /\ file \in [Files -> FileState]
    /\ \A f \in Files : FileGood(file[f])
    /\ op \in [Ops -> OpState]
    /\ \A o \in Ops : OpGood(op[o])
    /\ \A o, p \in Ops : o # p => PairGood(op[o], op[p])

----------------------------------------------------------------------------
(* Versions and revisions.                                                 *)

LEMMA VersionFields ==
    ASSUME NEW v \in Versions
    PROVE  /\ v.revision \in 0 .. MaxRevision /\ v.entry \in Nat /\ v.base \in Nat
           /\ v.size \in Sizes /\ v.largest \in Nat
BY DEF Versions, NewVersion

LEMMA NewVersionIs ==
    ASSUME NEW r \in 0 .. MaxRevision, NEW e \in Nat, NEW b \in Nat, NEW s \in Sizes, NEW l \in Nat
    PROVE  NewVersion(r, e, b, s, l) \in Versions
BY DEF Versions

\* The next revision is larger, and depends on the revision alone.
LEMMA NextIsLarger ==
    ASSUME NEW r \in 0 .. MaxRevision, NEW s, NEW t
    PROVE  /\ NextRevision(r, s) = NextRevision(r, t)
           /\ NextRevision(r, s) \in Nat
           /\ NextRevision(r, s) > r
<1>1. MaxRevision \in Nat
  BY RevisionAssumption DEF RevisionAssumption
<1>2. Increment[r] \in 0 .. 255
  BY RevisionAssumption DEF RevisionAssumption
<1> QED
  BY <1>1, <1>2 DEF NextRevision

LEMMA AppendAt ==
    ASSUME NEW S, NEW s \in Seq(S), NEW x \in S
    PROVE  /\ Append(s, x) \in Seq(S)
           /\ Len(s) \in Nat
           /\ Len(Append(s, x)) = Len(s) + 1
           /\ Append(s, x)[Len(s) + 1] = x
           /\ \A i \in 1 .. Len(s) : Append(s, x)[i] = s[i]
OBVIOUS

LEMMA EmptyHasLength == ASSUME NEW S, NEW s \in Seq(S) PROVE s = <<>> <=> Len(s) = 0
OBVIOUS

\* No version on its way is more than one revision ahead of the entry.
LEMMA OneAhead ==
    ASSUME HistoryInv, NEW v, Claimed(v), accepted # <<>>, v.revision # InitialRevision
    PROVE  LET n == Len(accepted)
           IN  \/ v.revision <= accepted[n].revision
               \/ v.entry = n /\ v.revision = NextRevision(accepted[n].revision, v.size)
<1> DEFINE n == Len(accepted)
<1>1. n \in Nat /\ n >= 1 /\ \A i \in 1 .. n : accepted[i] \in Versions
  BY EmptyHasLength DEF HistoryInv
<1>2. PICK i : i = v.entry /\ v.revision = NextRevision(accepted[i].revision, v.size)
  BY DEF Claimed
<1>4. i \in 1 .. n
  BY <1>2 DEF Claimed
<1>5. CASE i = n
  BY <1>1, <1>2, <1>5
<1>6. CASE i < n
  <2>1. i + 1 \in 1 .. n /\ (i + 1) - 1 = i /\ i + 1 # 1
    BY <1>1, <1>4, <1>6
  <2>2. accepted[i + 1].revision = NextRevision(accepted[i].revision, accepted[i + 1].size)
    BY <2>1 DEF HistoryInv, ConsecutiveRevisions
  <2>3. accepted[i].revision \in 0 .. MaxRevision
    BY <1>1, <1>4, VersionFields
  <2>4. accepted[i + 1].revision = v.revision
    BY <1>2, <2>2, <2>3, NextIsLarger
  <2>5. accepted[i + 1].revision \in Nat /\ accepted[n].revision \in Nat
    BY <1>1, <2>1, VersionFields, n \in 1 .. n
  <2>6. i + 1 < n => accepted[i + 1].revision < accepted[n].revision
    BY <1>1, <2>1 DEF HistoryInv
  <2> QED
    BY <1>1, <1>6, <2>1, <2>4, <2>5, <2>6
<1> QED
  BY <1>1, <1>4, <1>5, <1>6

\* The initial revision comes first and never again.
LEMMA FirstIsInitial ==
    ASSUME HistoryInv, accepted # <<>>
    PROVE  InitialRevision <= accepted[Len(accepted)].revision
<1> DEFINE n == Len(accepted)
<1>1. n \in Nat /\ n >= 1 /\ \A i \in 1 .. n : accepted[i] \in Versions
  BY EmptyHasLength DEF HistoryInv
<1>2. accepted[1].revision = InitialRevision
  BY <1>1 DEF HistoryInv, ConsecutiveRevisions
<1>3. 1 < n => accepted[1].revision < accepted[n].revision
  BY <1>1 DEF HistoryInv
<1>4. accepted[n].revision \in 0 .. MaxRevision /\ InitialRevision \in 0 .. MaxRevision
  BY <1>1, VersionFields, RevisionAssumption DEF RevisionAssumption
<1>5. MaxRevision \in Nat
  BY RevisionAssumption DEF RevisionAssumption
<1> QED
  BY <1>1, <1>2, <1>3, <1>4, <1>5

\* What the registry takes next follows its latest version, and was made of it, or of
\* older data by a writer who had read its entry.
LEMMA TakenIsNext ==
    ASSUME HistoryInv, NEW v, Claimed(v), Takes(v)
    PROVE  /\ v.entry = Len(accepted)
           /\ ~Stale(v) => v.base = Len(accepted)
           /\ v.revision = IF accepted = <<>> THEN InitialRevision
                           ELSE NextRevision(accepted[Len(accepted)].revision, v.size)
           /\ \A i \in 1 .. Len(accepted) : accepted[i].revision < v.revision
<1> DEFINE n == Len(accepted)
<1>1. n \in Nat /\ \A i \in 1 .. n : accepted[i] \in Versions
  BY EmptyHasLength DEF HistoryInv
<1>2. CASE accepted = <<>>
  <2>1. n = 0
    BY <1>2
  <2>2. v.revision = InitialRevision /\ v.base = 0 /\ v.entry = 0
    BY <1>1, <2>1 DEF Claimed
  <2> QED
    BY <1>2, <2>1, <2>2
<1>3. CASE accepted # <<>>
  <2>1. n >= 1 /\ n \in 1 .. n
    BY <1>1, <1>3, EmptyHasLength DEF HistoryInv
  <2>2. v.revision > accepted[n].revision
    BY <1>3 DEF Takes, Latest
  <2>3. v.revision \in 0 .. MaxRevision /\ accepted[n].revision \in 0 .. MaxRevision
    BY <1>1, <2>1, VersionFields DEF Claimed
  <2>4. MaxRevision \in Nat /\ InitialRevision \in 0 .. MaxRevision
    BY RevisionAssumption DEF RevisionAssumption
  <2>5. v.revision # InitialRevision
    BY <1>3, <2>2, <2>3, <2>4, FirstIsInitial
  <2>6. v.entry = n /\ v.revision = NextRevision(accepted[n].revision, v.size)
    BY <1>3, <2>2, <2>3, <2>4, <2>5, OneAhead
  <2>8. ~Stale(v) => v.base = n
    <3>1. v.base \in 1 .. n
      BY <2>5 DEF Claimed
    <3> QED
      BY <1>1, <2>6, <3>1 DEF Stale
  <2>7. ASSUME NEW i \in 1 .. n PROVE accepted[i].revision < v.revision
    <3>1. accepted[i].revision \in 0 .. MaxRevision
      BY <1>1, VersionFields
    <3>2. i < n => accepted[i].revision < accepted[n].revision
      BY <2>1 DEF HistoryInv
    <3>3. i = n \/ i < n
      BY <1>1
    <3> QED
      BY <2>2, <2>3, <2>4, <3>1, <3>2, <3>3
  <2> QED
    BY <1>3, <2>6, <2>7, <2>8
<1> QED
  BY <1>2, <1>3

\* The chain stays unbroken, what is on its way stays claimed, and nothing that is
\* on its way is ahead of what was taken.
LEMMA HistoryGrows ==
    ASSUME HistoryInv, NEW v, Claimed(v), Takes(v), accepted' = Append(accepted, v)
    PROVE  /\ HistoryInv'
           /\ \A w : Claimed(w) => Claimed(w)' /\ w.revision <= v.revision
<1> DEFINE n == Len(accepted)
<1>1. v \in Versions /\ accepted \in Seq(Versions)
  BY DEF Claimed, HistoryInv
<1>2. /\ accepted' \in Seq(Versions) /\ n \in Nat /\ Len(accepted') = n + 1
      /\ accepted'[n + 1] = v /\ \A i \in 1 .. n : accepted'[i] = accepted[i]
  BY <1>1, AppendAt
<1>3. /\ v.entry = n /\ (~Stale(v) => v.base = n)
      /\ v.revision = IF accepted = <<>> THEN InitialRevision
                      ELSE NextRevision(accepted[n].revision, v.size)
      /\ \A i \in 1 .. n : accepted[i].revision < v.revision
  BY TakenIsNext
<1>4. accepted = <<>> <=> n = 0
  BY <1>1, EmptyHasLength
<1>5. ConsecutiveRevisions'
  <2> SUFFICES ASSUME NEW i \in 1 .. n + 1
               PROVE  accepted'[i].revision =
                        IF i = 1 THEN InitialRevision
                        ELSE NextRevision(accepted'[i - 1].revision, accepted'[i].size)
    BY <1>2 DEF ConsecutiveRevisions, NextRevision
  <2>1. CASE i = n + 1
    BY <1>2, <1>3, <1>4, <2>1
  <2>2. CASE i \in 1 .. n
    <3>1. i # 1 => i - 1 \in 1 .. n
      BY <1>2, <2>2
    <3> QED
      BY <1>2, <2>2, <3>1 DEF HistoryInv, ConsecutiveRevisions
  <2> QED
    BY <1>2, <2>1, <2>2
<1>6. NoLostUpdate'
  <2> SUFFICES ASSUME NEW i \in 1 .. n + 1
               PROVE  /\ accepted'[i].entry = i - 1
                      /\ ~Stale(accepted'[i]) => accepted'[i].base = i - 1
    BY <1>2 DEF NoLostUpdate, Stale
  <2>1. CASE i = n + 1
    BY <1>2, <1>3, <2>1
  <2>2. CASE i \in 1 .. n
    BY <1>2, <2>2 DEF HistoryInv, NoLostUpdate
  <2> QED
    BY <1>2, <2>1, <2>2
<1>7. \A i, j \in 1 .. n + 1 : i < j => accepted'[i].revision < accepted'[j].revision
  <2> SUFFICES ASSUME NEW i \in 1 .. n + 1, NEW j \in 1 .. n + 1, i < j
               PROVE  accepted'[i].revision < accepted'[j].revision
    OBVIOUS
  <2>1. i \in 1 .. n
    BY <1>2
  <2>2. CASE j = n + 1
    BY <1>2, <1>3, <2>1, <2>2
  <2>3. CASE j \in 1 .. n
    BY <1>2, <2>1, <2>3 DEF HistoryInv
  <2> QED
    BY <1>2, <2>2, <2>3
<1>8. ASSUME NEW w, Claimed(w) PROVE Claimed(w)' /\ w.revision <= v.revision
  <2>1. Claimed(w)'
    <3>1. \A i \in 1 .. n : i \in 1 .. Len(accepted')
      BY <1>2
    <3> QED
      BY <1>2, <1>8, <3>1 DEF Claimed, NextRevision
  <2>2. w.revision \in 0 .. MaxRevision /\ v.revision \in 0 .. MaxRevision /\ MaxRevision \in Nat
    BY <1>1, <1>8, VersionFields, RevisionAssumption DEF Claimed, RevisionAssumption
  <2>3. CASE accepted = <<>>
    <3>1. w.revision = InitialRevision /\ v.revision = InitialRevision
      BY <1>3, <1>4, <1>8, <2>3 DEF Claimed
    <3> QED
      BY <2>1, <2>2, <3>1
  <2>4. CASE accepted # <<>>
    <3>1. n \in 1 .. n /\ accepted[n] \in Versions
      BY <1>1, <1>2, <1>4, <2>4
    <3>2. accepted[n].revision \in 0 .. MaxRevision /\ accepted[n].revision < v.revision
      BY <1>3, <3>1, VersionFields
    <3>3. CASE w.revision = InitialRevision
      <4>1. InitialRevision <= accepted[n].revision
        BY <2>4, FirstIsInitial
      <4> QED
        BY <2>1, <2>2, <3>2, <3>3, <4>1
    <3>4. CASE w.revision # InitialRevision
      <4>1. NextRevision(accepted[n].revision, w.size) = v.revision
        BY <1>3, <2>4, <3>2, NextIsLarger
      <4>2. \/ w.revision <= accepted[n].revision
            \/ w.revision = NextRevision(accepted[n].revision, w.size)
        BY <1>8, <2>4, <3>4, OneAhead
      <4> QED
        BY <2>1, <2>2, <3>2, <4>1, <4>2
    <3> QED
      BY <3>3, <3>4
  <2> QED
    BY <2>3, <2>4
<1> QED
  BY <1>2, <1>5, <1>6, <1>7, <1>8 DEF HistoryInv

----------------------------------------------------------------------------
(* The steps of a call.                                                    *)

LEMMA InitInv == ASSUME Init PROVE IInv
<1>1. accepted = <<>> /\ accepted \in Seq(Versions) /\ Len(accepted) = 0
  BY DEF Init
<1>2. HistoryInv
  BY <1>1 DEF HistoryInv, ConsecutiveRevisions, NoLostUpdate
<1>3. MaxRevision \in Nat
  BY RevisionAssumption DEF RevisionAssumption
<1>4. Closed \in FileState /\ FileGood(Closed)
  BY <1>3 DEF Closed, FileState, FileGood
<1>5. NoOp \in OpState /\ OpGood(NoOp)
  BY DEF NoOp, OpState, OpGood, Kinds, Steps
<1>6. NoOp.step = "idle"
  BY DEF NoOp
<1>7. /\ delayed = {} /\ file = [f \in Files |-> Closed] /\ op = [o \in Ops |-> NoOp]
  BY DEF Init
<1> QED
  BY <1>2, <1>4, <1>5, <1>6, <1>7 DEF IInv, PairGood

\* A step of one call that changes nothing else.
LEMMA CallChanges ==
    ASSUME IInv, NEW o \in Ops, NEW r, OpGood(r), op' = [op EXCEPT ![o] = r],
           \A p \in Ops \ {o} : PairGood(r, op[p]) /\ PairGood(op[p], r),
           UNCHANGED <<accepted, delayed, file>>
    PROVE  IInv'
<1>1. r \in OpState
  BY DEF OpGood
<1>2. op' \in [Ops -> OpState] /\ \A p \in Ops : op'[p] = IF p = o THEN r ELSE op[p]
  BY <1>1 DEF IInv
<1>3. HistoryInv'
  BY DEF IInv, HistoryInv, ConsecutiveRevisions, NoLostUpdate, Stale, NextRevision
<1>4. \A v : Claimed(v) => Claimed(v)'
  BY DEF Claimed, NextRevision
<1>5. \A x : FileGood(x) => FileGood(x)'
  BY DEF FileGood
<1>6. \A x : OpGood(x) => OpGood(x)'
  BY <1>4 DEF OpGood
<1>7. (\A p \in Ops : OpGood(op[p]))'
  BY <1>2, <1>6 DEF IInv
<1>8. \A p, q \in Ops : p # q => PairGood(op'[p], op'[q])
  BY <1>2, Zenon DEF IInv
<1>9. (\A v \in delayed : Claimed(v))'
  BY <1>4 DEF IInv
<1>10. (file \in [Files -> FileState] /\ \A f \in Files : FileGood(file[f]))'
  BY <1>5 DEF IInv
<1> QED
  BY <1>2, <1>3, <1>7, <1>8, <1>9, <1>10 DEF IInv, PairGood

\* The object of a call that does not overwrite is the call's own.
LEMMA OwnObject ==
    ASSUME IInv, NEW o \in Ops, op[o].step # "idle", op[o].kind # "overwrite"
    PROVE  \A p \in Ops \ {o} : op[p].step # "idle" => op[p].file # op[o].file
BY DEF IInv, PairGood

LEMMA EndedIsGood == OpGood(NoOp) /\ \A s : PairGood(NoOp, s) /\ PairGood(s, NoOp)
BY DEF NoOp, OpState, OpGood, Kinds, Steps, PairGood

LEMMA CreateStarts ==
    ASSUME IInv, NEW o \in Ops, NEW f \in Files, NEW size \in Sizes,
           CreateIndependentFileSmall(o, f, size)
    PROVE  IInv'
<1> DEFINE v == NewVersion(InitialRevision, 0, 0, size, size)
           r == [kind |-> "create", file |-> f, step |-> "read", seen |-> 0, version |-> v]
<1>1. v \in Versions /\ v.revision = InitialRevision /\ v.base = 0 /\ v.entry = 0
  BY RevisionAssumption, SizesAssumption DEF Versions, NewVersion, RevisionAssumption, SizesAssumption
<1>2. /\ file[f].kind = "closed" /\ \A p \in Ops : op[p].step # "idle" => op[p].file # f
      /\ op' = [op EXCEPT ![o] = r] /\ UNCHANGED <<accepted, delayed, file>>
  BY DEF CreateIndependentFileSmall, Unclaimed, Begin
<1> HIDE DEF v
<1>3. OpGood(r)
  BY <1>1, <1>2 DEF OpGood, OpState, Kinds, Steps, Claimed
<1>4. \A p \in Ops \ {o} : PairGood(r, op[p]) /\ PairGood(op[p], r)
  <2>1. r.file = f
    OBVIOUS
  <2> HIDE DEF r
  <2> QED
    BY <1>2, <2>1 DEF PairGood
<1> HIDE DEF r
<1> QED
  BY <1>2, <1>3, <1>4, CallChanges

LEMMA OpenOrViewStarts ==
    ASSUME IInv, NEW o \in Ops, NEW f \in Files,
           OpenIndependentFileSmall(o, f) \/ ViewIndependentFileSmall(o, f)
    PROVE  IInv'
<1>1. PICK kind \in {"open", "view"} :
        op' = [op EXCEPT ![o] = [kind |-> kind, file |-> f, version |-> NoVersion, seen |-> 0,
                                 step |-> IF kind = "open" THEN "read" ELSE "download"]]
  BY DEF OpenIndependentFileSmall, ViewIndependentFileSmall, Begin
<1> DEFINE r == [kind |-> kind, file |-> f, version |-> NoVersion, seen |-> 0,
                 step |-> IF kind = "open" THEN "read" ELSE "download"]
<1>2. /\ file[f].kind = "closed" /\ \A p \in Ops : op[p].step # "idle" => op[p].file # f
      /\ UNCHANGED <<accepted, delayed, file>>
  BY DEF OpenIndependentFileSmall, ViewIndependentFileSmall, Unclaimed, Begin
<1>3. OpGood(r)
  BY <1>2 DEF OpGood, OpState, Kinds, Steps
<1>4. \A p \in Ops \ {o} : PairGood(r, op[p]) /\ PairGood(op[p], r)
  <2>1. r.file = f
    OBVIOUS
  <2> HIDE DEF r
  <2> QED
    BY <1>2, <2>1 DEF PairGood
<1>5. op' = [op EXCEPT ![o] = r]
  BY <1>1
<1> HIDE DEF r
<1> QED
  BY <1>2, <1>3, <1>4, <1>5, CallChanges

\* What an object that can be written to makes of its revision is a version that
\* follows one that was taken.
LEMMA OverwriteStarts ==
    ASSUME IInv, NEW o \in Ops, NEW f \in Files, NEW size \in Sizes,
           OverwriteIndependentFileSmall(o, f, size)
    PROVE  IInv'
<1> DEFINE x == file[f]
           v == NewVersion(NextRevision(x.revision, size), x.entry, x.base, size,
                           Larger(size, x.largest))
           r == [kind |-> "overwrite", file |-> f, step |-> "upload", seen |-> 0, version |-> v]
<1>1. /\ x \in FileState /\ FileGood(x) /\ x.kind = "writer"
      /\ NextRevision(x.revision, size) <= MaxRevision
      /\ op' = [op EXCEPT ![o] = r] /\ UNCHANGED <<accepted, delayed, file>>
  BY DEF IInv, OverwriteIndependentFileSmall, Begin
<1>2. /\ x.revision \in 0 .. MaxRevision /\ x.entry \in Nat /\ x.base \in Nat /\ x.largest \in Nat
      /\ MaxRevision \in Nat
  BY <1>1, RevisionAssumption DEF FileState, RevisionAssumption
<1>3. NextRevision(x.revision, size) \in 0 .. MaxRevision
  BY <1>1, <1>2, NextIsLarger
<1>4. Larger(size, x.largest) \in Nat
  BY <1>2, SizesAssumption DEF Larger, SizesAssumption
<1>5. /\ v \in Versions /\ v.revision = NextRevision(x.revision, size)
      /\ v.entry = x.entry /\ v.base = x.base /\ v.size = size
  <2>1. v \in Versions
    BY <1>2, <1>3, <1>4, NewVersionIs
  <2> QED
    BY <2>1 DEF NewVersion
<1> HIDE DEF v
<1>6. /\ x.base \in 1 .. Len(accepted) /\ x.entry \in 1 .. Len(accepted)
      /\ x.revision = accepted[x.entry].revision
  BY <1>1 DEF FileGood
<1>7. Claimed(v)
  BY <1>5, <1>6 DEF Claimed, NextRevision
<1>8. OpGood(r)
  BY <1>1, <1>5, <1>7 DEF OpGood, OpState, Kinds, Steps
<1>9. ASSUME NEW p \in Ops \ {o} PROVE PairGood(r, op[p]) /\ PairGood(op[p], r)
  <2> SUFFICES ASSUME op[p].step # "idle", op[p].file = f
               PROVE  PairGood(r, op[p]) /\ PairGood(op[p], r)
    BY DEF PairGood
  <2>1. OpGood(op[p])
    BY DEF IInv
  <2>2. op[p].kind = "overwrite"
    BY <1>1, <2>1 DEF OpGood
  <2>3. ASSUME op[p].step = "taken" PROVE v.revision <= op[p].version.revision
    <3> DEFINE s == op[p].seen
    <3>1. /\ x.entry < s /\ s \in 1 .. Len(accepted) /\ accepted[s] = op[p].version
      BY <2>1, <2>2, <2>3 DEF OpGood
    <3>2. PICK i : i = x.entry /\ x.revision = accepted[i].revision
      BY <1>6
    <3>3. i + 1 \in 1 .. s /\ i + 1 \in 1 .. Len(accepted) /\ i + 1 # 1 /\ (i + 1) - 1 = i
      BY <1>6, <3>1, <3>2
    <3>4. accepted[i + 1].revision = NextRevision(accepted[i].revision, accepted[i + 1].size)
      BY <3>3 DEF IInv, HistoryInv, ConsecutiveRevisions
    <3>5. accepted[i + 1].revision = v.revision
      BY <1>2, <1>5, <3>2, <3>4, NextIsLarger
    <3>6. i + 1 < s => accepted[i + 1].revision < accepted[s].revision
      BY <3>1, <3>3 DEF IInv, HistoryInv
    <3>7. i + 1 = s \/ i + 1 < s
      BY <3>1, <3>3
    <3>8. v.revision \in Nat
      BY <1>5, VersionFields
    <3>9. accepted \in Seq(Versions)
      BY DEF IInv, HistoryInv
    <3>10. accepted[s].revision \in 0 .. MaxRevision
      BY <3>1, <3>9, VersionFields
    <3> QED
      BY <3>1, <3>5, <3>6, <3>7, <3>8, <3>10
  <2> QED
    BY <2>2, <2>3 DEF PairGood
<1> HIDE DEF r
<1> QED
  BY <1>1, <1>8, <1>9, CallChanges

LEMMA ReadsAndUploads ==
    ASSUME IInv, NEW o \in Ops,
           \/ \E seen \in 0 .. Len(accepted) : CreateReads(o, seen) \/ OpenReads(o, seen)
           \/ Upload(o)
    PROVE  IInv'
<1>1. op[o] \in OpState /\ OpGood(op[o]) /\ UNCHANGED <<accepted, delayed, file>>
  BY DEF IInv, CreateReads, OpenReads, Upload
<1>2. /\ \A p \in Ops \ {o} : PairGood(op[o], op[p]) /\ PairGood(op[p], op[o])
      /\ Len(accepted) \in Nat
  BY DEF IInv, HistoryInv
<1>3. ASSUME op' = [op EXCEPT ![o] = NoOp] PROVE IInv'
  BY <1>1, <1>3, EndedIsGood, CallChanges
<1>4. ASSUME NEW seen \in 0 .. Len(accepted), CreateReads(o, seen) PROVE IInv'
  <2> DEFINE r == [op[o] EXCEPT !.step = "upload", !.seen = seen]
  <2>1. op' = [op EXCEPT ![o] = r] \/ op' = [op EXCEPT ![o] = NoOp]
    BY <1>4 DEF CreateReads
  <2>2. op[o].kind = "create" /\ op[o].step = "read" /\ seen \in Nat
    <3>1. op[o].kind = "create" /\ op[o].step = "read"
      BY <1>4, Zenon DEF CreateReads
    <3> QED
      BY <1>2, <3>1
  <2>3. OpGood(r)
    BY <1>1, <2>2 DEF OpGood, OpState, Steps
  <2>4. \A p \in Ops \ {o} : PairGood(r, op[p]) /\ PairGood(op[p], r)
    <3>1. r.file = op[o].file /\ r.kind = op[o].kind /\ r.step = "upload" /\ r.version = op[o].version
      BY <1>1 DEF OpState
    <3> HIDE DEF r
    <3> QED
      BY <1>2, <2>2, <3>1 DEF PairGood
  <2> HIDE DEF r
  <2> QED
    BY <1>1, <1>3, <2>1, <2>3, <2>4, CallChanges
<1>5. ASSUME NEW seen \in 0 .. Len(accepted), OpenReads(o, seen) PROVE IInv'
  <2> DEFINE r == [op[o] EXCEPT !.step = "download", !.seen = seen]
  <2>1. \/ op' = [op EXCEPT ![o] = r] /\ seen # 0
        \/ op' = [op EXCEPT ![o] = NoOp]
    BY <1>5 DEF OpenReads, RegistryRead
  <2>2. op[o].kind = "open" /\ op[o].step = "read" /\ seen \in Nat
    <3>1. op[o].kind = "open" /\ op[o].step = "read"
      BY <1>5, Zenon DEF OpenReads
    <3> QED
      BY <1>2, <3>1
  <2>3. seen # 0 => seen \in 1 .. Len(accepted)
    OBVIOUS
  <2>4. seen # 0 => OpGood(r)
    BY <1>1, <2>2, <2>3 DEF OpGood, OpState, Steps
  <2>5. \A p \in Ops \ {o} : PairGood(r, op[p]) /\ PairGood(op[p], r)
    <3>1. r.file = op[o].file /\ r.kind = op[o].kind /\ r.step = "download" /\ r.version = op[o].version
      BY <1>1 DEF OpState
    <3> HIDE DEF r
    <3> QED
      BY <1>2, <2>2, <3>1 DEF PairGood
  <2> HIDE DEF r
  <2> QED
    BY <1>1, <1>3, <2>1, <2>4, <2>5, CallChanges
<1>6. ASSUME Upload(o) PROVE IInv'
  <2> DEFINE r == [op[o] EXCEPT !.step = "write"]
  <2>1. op' = [op EXCEPT ![o] = r] /\ op[o].step = "upload"
    BY <1>6 DEF Upload
  <2>2. OpGood(r)
    BY <1>1, <2>1 DEF OpGood, OpState, Steps
  <2>3. \A p \in Ops \ {o} : PairGood(r, op[p]) /\ PairGood(op[p], r)
    <3>1. r.file = op[o].file /\ r.kind = op[o].kind /\ r.step = "write" /\ r.version = op[o].version
      BY <1>1 DEF OpState
    <3> HIDE DEF r
    <3> QED
      BY <1>2, <2>1, <3>1 DEF PairGood
  <2> HIDE DEF r
  <2> QED
    BY <1>1, <2>1, <2>2, <2>3, CallChanges
<1> QED
  BY <1>4, <1>5, <1>6

----------------------------------------------------------------------------
(* The ends of calls.                                                      *)

\* A call ends and leaves x in its object: what else is under way on the object
\* overwrites it and has not been taken.
LEMMA CallEndsWith ==
    ASSUME IInv, NEW o \in Ops, NEW f \in Files, NEW x, FileGood(x),
           file' = [file EXCEPT ![f] = x], op' = [op EXCEPT ![o] = NoOp],
           \A p \in Ops \ {o} : op[p].step # "idle" /\ op[p].file = f =>
                x.kind = "writer" /\ op[p].kind = "overwrite" /\ op[p].step # "taken",
           UNCHANGED <<accepted, delayed>>
    PROVE  IInv'
<1>1. NoOp \in OpState /\ x \in FileState
  BY EndedIsGood DEF OpGood, FileGood
<1>2. op' \in [Ops -> OpState] /\ \A p \in Ops : op'[p] = IF p = o THEN NoOp ELSE op[p]
  BY <1>1 DEF IInv
<1>3. file' \in [Files -> FileState] /\ \A g \in Files : file'[g] = IF g = f THEN x ELSE file[g]
  BY <1>1 DEF IInv
<1>4. HistoryInv'
  BY DEF IInv, HistoryInv, ConsecutiveRevisions, NoLostUpdate, Stale, NextRevision
<1>5. \A v : Claimed(v) => Claimed(v)'
  BY DEF Claimed, NextRevision
<1>6. (\A v \in delayed : Claimed(v))'
  BY <1>5 DEF IInv
<1>7. (\A g \in Files : FileGood(file[g]))'
  BY <1>3 DEF IInv, FileGood
<1>8. ASSUME NEW p \in Ops PROVE OpGood(op[p])'
  <2>1. CASE p = o
    <3>1. op'[p] = NoOp
      BY <1>2, <2>1
    <3> QED
      BY <1>1, <3>1 DEF NoOp, OpGood
  <2>2. CASE p # o
    <3>1. op'[p] = op[p] /\ OpGood(op[p])
      BY <1>2, <2>2 DEF IInv
    <3>2. op[p].kind \in {"create", "overwrite"} => Claimed(op[p].version)'
      BY <1>5, <3>1 DEF OpGood
    <3>3. CASE op[p].step = "idle"
      BY <3>1, <3>2, <3>3 DEF OpGood
    <3>4. CASE op[p].step # "idle" /\ op[p].file # f
      <4>1. op[p].file \in Files /\ file'[op[p].file] = file[op[p].file]
        BY <1>3, <3>1, <3>4 DEF OpGood
      <4> QED
        BY <3>1, <3>2, <3>4, <4>1 DEF OpGood
    <3>5. CASE op[p].step # "idle" /\ op[p].file = f
      <4>1. file'[f].kind = "writer" /\ op[p].kind = "overwrite" /\ op[p].step # "taken"
        BY <1>3, <2>2, <3>5
      <4> QED
        BY <3>1, <3>2, <3>5, <4>1 DEF OpGood
    <3> QED
      BY <3>3, <3>4, <3>5
  <2> QED
    BY <2>1, <2>2
<1>9. \A p, q \in Ops : p # q => PairGood(op'[p], op'[q])
  BY <1>2, EndedIsGood, Zenon DEF IInv
<1> QED
  BY <1>2, <1>3, <1>4, <1>6, <1>7, <1>8, <1>9 DEF IInv, PairGood

\* Opening takes the revision of the entry that was read, and whatever data come.
LEMMA Downloaded ==
    ASSUME IInv, NEW o \in Ops, NEW base \in Downloads,
           OpenDownloads(o, base) \/ ViewDownloads(o, base)
    PROVE  IInv'
<1>1. /\ OpGood(op[o]) /\ op[o].kind \in {"open", "view"} /\ op[o].step = "download"
      /\ op' = [op EXCEPT ![o] = NoOp] /\ UNCHANGED <<accepted, delayed>>
  BY DEF IInv, OpenDownloads, ViewDownloads
<1> DEFINE f == op[o].file
           b == accepted[base]
           w == [kind |-> "writer", revision |-> RegistryRead(op[o].seen).revision,
                 entry |-> op[o].seen, base |-> base, largest |-> b.largest]
           u == [kind |-> "viewer", revision |-> 0, entry |-> 0, base |-> base, largest |-> 0]
<1>0. base \in 1 .. Len(accepted)
  BY DEF Downloads
<1>2. f \in Files /\ \A p \in Ops \ {o} : op[p].step # "idle" => op[p].file # f
  BY <1>1, OwnObject DEF OpGood
<1>3. accepted \in Seq(Versions) /\ MaxRevision \in Nat
  BY RevisionAssumption DEF IInv, HistoryInv, RevisionAssumption
<1>4. b.largest \in Nat
  BY <1>0, <1>3, VersionFields
<1>5. CASE ViewDownloads(o, base)
  <2>1. file' = [file EXCEPT ![f] = u]
    BY <1>5 DEF ViewDownloads, DecryptFileSmall
  <2>2. FileGood(u)
    BY <1>0, <1>3 DEF FileGood, FileState
  <2> HIDE DEF u, f
  <2>3. \A p \in Ops \ {o} : op[p].step # "idle" /\ op[p].file = f =>
            u.kind = "writer" /\ op[p].kind = "overwrite" /\ op[p].step # "taken"
    BY <1>2
  <2> QED
    BY <1>1, <1>2, <2>1, <2>2, <2>3, CallEndsWith
<1>6. CASE OpenDownloads(o, base)
  <2>1. file' = [file EXCEPT ![f] = w] /\ op[o].kind = "open"
    BY <1>6 DEF OpenDownloads, DecryptFileSmall
  <2>2. op[o].seen \in 1 .. Len(accepted)
    BY <1>1, <2>1 DEF OpGood
  <2>3. w.revision = accepted[op[o].seen].revision /\ w.revision \in 0 .. MaxRevision
    <3>1. op[o].seen # 0
      BY <2>2
    <3>2. w.revision = accepted[op[o].seen].revision
      BY <3>1 DEF RegistryRead
    <3> QED
      BY <1>3, <2>2, <3>2, VersionFields
  <2>4. w.kind = "writer" /\ w.entry = op[o].seen /\ w.base = base /\ w \in FileState
    BY <1>0, <1>4, <2>2, <2>3 DEF FileState
  <2> HIDE DEF w, f
  <2>5. FileGood(w)
    BY <1>0, <2>2, <2>3, <2>4 DEF FileGood
  <2>6. \A p \in Ops \ {o} : op[p].step # "idle" /\ op[p].file = f =>
            w.kind = "writer" /\ op[p].kind = "overwrite" /\ op[p].step # "taken"
    BY <1>2
  <2> QED
    BY <1>1, <1>2, <2>1, <2>5, <2>6, CallEndsWith
<1> QED
  BY <1>5, <1>6

\* The object gets the version that was taken.
LEMMA WritesEnd ==
    ASSUME IInv, NEW o \in Ops, CreateEnds(o) \/ OverwriteEnds(o)
    PROVE  IInv'
<1> DEFINE f == op[o].file
           v == op[o].version
           x == [kind |-> "writer", revision |-> v.revision, entry |-> op[o].seen,
                 base |-> op[o].seen, largest |-> v.largest]
<1>1. /\ OpGood(op[o]) /\ op[o].kind \in {"create", "overwrite"} /\ op[o].step = "taken"
      /\ op' = [op EXCEPT ![o] = NoOp] /\ UNCHANGED <<accepted, delayed>>
  BY DEF IInv, CreateEnds, OverwriteEnds
<1>2. /\ f \in Files /\ op[o].seen \in 1 .. Len(accepted) /\ accepted[op[o].seen] = v
      /\ file[f].kind = IF op[o].kind = "overwrite" THEN "writer" ELSE "closed"
  BY <1>1 DEF OpGood
<1>3. v \in Versions
  BY <1>1 DEF OpGood, Claimed
<1>4. FileGood(x)
  BY <1>2, <1>3, VersionFields DEF FileGood, FileState
<1>5. file' = [file EXCEPT ![f] = x]
  BY DEF CreateEnds, OverwriteEnds, Written
<1>6. ASSUME NEW p \in Ops \ {o}, op[p].step # "idle", op[p].file = f
      PROVE  op[p].kind = "overwrite" /\ op[p].step # "taken"
  <2>1. PairGood(op[o], op[p]) /\ PairGood(op[p], op[o])
    BY DEF IInv
  <2> QED
    BY <1>1, <1>6, <2>1 DEF PairGood
<1>7. \A p \in Ops \ {o} : op[p].step # "idle" /\ op[p].file = f =>
        x.kind = "writer" /\ op[p].kind = "overwrite" /\ op[p].step # "taken"
  BY <1>6
<1> HIDE DEF x, f
<1> QED
  BY <1>1, <1>2, <1>4, <1>5, <1>7, CallEndsWith

----------------------------------------------------------------------------
(* The registry takes a version.                                           *)

\* Whatever version v the registry takes: objects, and calls that have not been
\* taken, stay as good as they were.
LEMMA EntryGrows ==
    ASSUME IInv, NEW v, Claimed(v), Takes(v), accepted' = Append(accepted, v), UNCHANGED file
    PROVE  /\ HistoryInv'
           /\ \A w : Claimed(w) => Claimed(w)' /\ w.revision <= v.revision
           /\ (file \in [Files -> FileState] /\ \A f \in Files : FileGood(file[f]))'
           /\ \A r : OpGood(r) => OpGood(r)'
           /\ Len(accepted) \in Nat /\ Len(accepted') = Len(accepted) + 1
           /\ accepted'[Len(accepted) + 1] = v
<1> DEFINE n == Len(accepted)
<1>1. HistoryInv' /\ \A w : Claimed(w) => Claimed(w)' /\ w.revision <= v.revision
  BY HistoryGrows DEF IInv
<1>2. accepted \in Seq(Versions) /\ v \in Versions
  BY DEF IInv, HistoryInv, Claimed
<1>3. /\ n \in Nat /\ Len(accepted') = n + 1 /\ accepted'[n + 1] = v
      /\ \A i \in 1 .. n : accepted'[i] = accepted[i]
  BY <1>2, AppendAt
<1>4. \A i \in 1 .. n : i \in 1 .. Len(accepted')
  BY <1>3
<1>5. ASSUME NEW x, FileGood(x) PROVE FileGood(x)'
  <2>1. CASE x.kind # "writer"
    BY <1>5, <2>1 DEF FileGood
  <2>2. CASE x.kind = "writer"
    <3>1. x.base \in 1 .. n /\ x.entry \in 1 .. n /\ x.revision = accepted[x.entry].revision
      BY <1>5, <2>2 DEF FileGood
    <3>2. x.revision = accepted'[x.entry].revision
      BY <1>3, <3>1
    <3> QED
      BY <1>4, <1>5, <3>1, <3>2 DEF FileGood
  <2> QED
    BY <2>1, <2>2
<1>6. ASSUME NEW r, OpGood(r) PROVE OpGood(r)'
  <2>1. r.kind \in {"create", "overwrite"} => Claimed(r.version)'
    BY <1>1, <1>6 DEF OpGood
  <2>2. r.seen \in 1 .. n => r.seen \in 1 .. Len(accepted') /\ accepted'[r.seen] = accepted[r.seen]
    BY <1>3, <1>4
  <2> QED
    BY <1>6, <2>1, <2>2 DEF OpGood
<1>7. (file \in [Files -> FileState] /\ \A f \in Files : FileGood(file[f]))'
  BY <1>5 DEF IInv
<1> QED
  BY <1>1, <1>3, <1>6, <1>7

\* The call whose write is taken now is ahead of its object, and of the other
\* writes to the object.
LEMMA RegistryTakesStep ==
    ASSUME IInv, NEW o \in Ops, RegistryTakes(o)
    PROVE  IInv'
<1> DEFINE n == Len(accepted)
<1>0. PICK v, r : v = op[o].version /\ r = [op[o] EXCEPT !.step = "taken", !.seen = n + 1]
  OBVIOUS
<1>1. /\ op[o] \in OpState /\ OpGood(op[o]) /\ op[o].step = "write" /\ Takes(v)
      /\ accepted' = Append(accepted, v) /\ UNCHANGED <<delayed, file>>
      /\ op \in [Ops -> OpState]
  BY <1>0 DEF IInv, RegistryTakes
<1>2. op' = [op EXCEPT ![o] = r]
  BY <1>0 DEF RegistryTakes
<1>3. Claimed(v) /\ op[o].kind \in {"create", "overwrite"} /\ op[o].file \in Files
  BY <1>0, <1>1 DEF OpGood
<1>4. /\ HistoryInv'
      /\ \A w : Claimed(w) => Claimed(w)' /\ w.revision <= v.revision
      /\ (file \in [Files -> FileState] /\ \A f \in Files : FileGood(file[f]))'
      /\ \A x : OpGood(x) => OpGood(x)'
      /\ n \in Nat /\ Len(accepted') = n + 1 /\ accepted'[n + 1] = v
  BY <1>1, <1>3, EntryGrows
<1>5. /\ r \in OpState /\ r.kind = op[o].kind /\ r.file = op[o].file /\ r.version = v
      /\ r.step = "taken" /\ r.seen = n + 1
  <2>1. n + 1 \in Nat
    BY <1>4
  <2> QED
    BY <1>0, <1>1, <2>1 DEF OpState, Steps
<1>6. op' \in [Ops -> OpState] /\ \A p \in Ops : op'[p] = IF p = o THEN r ELSE op[p]
  BY <1>1, <1>2, <1>5
<1>7. OpGood(r)'
  <2>1. file'[r.file] = file[r.file] /\ file[r.file].kind = IF r.kind = "overwrite" THEN "writer" ELSE "closed"
    BY <1>1, <1>5 DEF OpGood
  <2>2. Claimed(r.version)' /\ r.seen \in 1 .. Len(accepted') /\ accepted'[r.seen] = r.version
    BY <1>3, <1>4, <1>5
  <2>3. ASSUME r.kind = "overwrite"
        PROVE  /\ file[r.file].revision < r.version.revision
               /\ file[r.file].entry < r.seen /\ file[r.file].base < r.seen
    <3> DEFINE x == file[r.file]
    <3>1. FileGood(x) /\ x.kind = "writer"
      BY <1>3, <1>5, <2>1, <2>3 DEF IInv
    <3>2. x.base \in 1 .. n /\ x.entry \in 1 .. n
      BY <3>1 DEF FileGood
    <3>3. x.revision = accepted[x.entry].revision
      BY <3>1 DEF FileGood
    <3>5. accepted[x.entry].revision < v.revision
      BY <1>1, <1>3, <3>2, TakenIsNext DEF IInv
    <3> QED
      BY <1>4, <1>5, <3>2, <3>3, <3>5
  <2> QED
    BY <1>3, <1>5, <2>1, <2>2, <2>3 DEF OpGood
<1>8. (\A p \in Ops : OpGood(op[p]))'
  <2> SUFFICES ASSUME NEW p \in Ops PROVE OpGood(op[p])'
    OBVIOUS
  <2>1. CASE p = o
    BY <1>6, <1>7, <2>1 DEF OpGood
  <2>2. CASE p # o
    <3>1. OpGood(op[p]) /\ op'[p] = op[p]
      BY <1>6, <2>2 DEF IInv
    <3> QED
      BY <1>4, <3>1 DEF OpGood
  <2> QED
    BY <2>1, <2>2
<1>9. ASSUME NEW p \in Ops \ {o} PROVE PairGood(r, op[p]) /\ PairGood(op[p], r)
  <2> SUFFICES ASSUME op[p].step # "idle", op[p].file = r.file
               PROVE  PairGood(r, op[p]) /\ PairGood(op[p], r)
    BY DEF PairGood
  <2>1. PairGood(op[o], op[p]) /\ PairGood(op[p], op[o]) /\ OpGood(op[p])
    BY DEF IInv
  <2>2. op[p].kind = "overwrite" /\ op[o].kind = "overwrite"
    BY <1>1, <1>5, <2>1 DEF PairGood
  <2>3. op[p].version.revision <= v.revision
    BY <1>0, <1>4, <2>1, <2>2 DEF OpGood
  <2>4. op[p].step # "taken"
    <3> SUFFICES ASSUME op[p].step = "taken" PROVE FALSE
      OBVIOUS
    <3>1. v.revision <= op[p].version.revision
      BY <1>0, <1>1, <1>5, <2>1 DEF PairGood
    <3>2. op[p].seen \in 1 .. n /\ accepted[op[p].seen] = op[p].version
      BY <2>1 DEF OpGood
    <3>3. op[p].version.revision < v.revision
      BY <1>1, <1>3, <3>2, TakenIsNext DEF IInv
    <3>4. v \in Versions /\ op[p].version \in Versions
      BY <1>3, <2>1, <2>2 DEF Claimed, OpGood
    <3> QED
      BY <3>1, <3>3, <3>4, VersionFields
  <2> QED
    BY <1>5, <2>2, <2>3, <2>4 DEF PairGood
<1>10. \A p, q \in Ops : p # q => PairGood(op'[p], op'[q])
  BY <1>6, <1>9, Zenon DEF IInv
<1>11. (\A w \in delayed : Claimed(w))'
  BY <1>1, <1>4 DEF IInv
<1> QED
  BY <1>4, <1>6, <1>8, <1>10, <1>11 DEF IInv, PairGood

LEMMA DelayedArrivesStep ==
    ASSUME IInv, NEW v \in delayed, DelayedArrives(v)
    PROVE  IInv'
<1>1. Claimed(v) /\ delayed' \subseteq delayed /\ UNCHANGED <<file, op>>
  BY DEF IInv, DelayedArrives
<1>2. CASE Takes(v)
  <2>1. accepted' = Append(accepted, v)
    BY <1>2 DEF DelayedArrives
  <2>2. /\ HistoryInv'
        /\ \A w : Claimed(w) => Claimed(w)' /\ w.revision <= v.revision
        /\ (file \in [Files -> FileState] /\ \A f \in Files : FileGood(file[f]))'
        /\ \A x : OpGood(x) => OpGood(x)'
    BY <1>1, <1>2, <2>1, EntryGrows
  <2>3. (\A o \in Ops : OpGood(op[o]))'
    BY <1>1, <2>2 DEF IInv, OpGood
  <2>4. (\A w \in delayed : Claimed(w))'
    BY <1>1, <2>2 DEF IInv
  <2> QED
    BY <1>1, <2>2, <2>3, <2>4 DEF IInv, PairGood
<1>3. CASE ~Takes(v)
  <2>1. UNCHANGED accepted
    BY <1>3 DEF DelayedArrives
  <2>2. HistoryInv' /\ \A w : Claimed(w) => Claimed(w)'
    BY <2>1 DEF IInv, HistoryInv, ConsecutiveRevisions, NoLostUpdate, Stale, NextRevision, Claimed
  <2>3. (\A o \in Ops : OpGood(op[o]))'
    BY <1>1, <2>1, <2>2 DEF IInv, OpGood
  <2>4. (\A w \in delayed : Claimed(w))'
    BY <1>1, <2>2 DEF IInv
  <2> QED
    BY <1>1, <2>1, <2>2, <2>3, <2>4 DEF IInv, PairGood, FileGood
<1> QED
  BY <1>2, <1>3

----------------------------------------------------------------------------
(* Failures.                                                               *)

\* Calls are given up; an object they were on may be closed.
LEMMA AbandonKeeps ==
    ASSUME IInv, NEW ops \in SUBSET Ops, Abandon(ops), UNCHANGED accepted,
           (file \in [Files -> FileState] /\ \A f \in Files : FileGood(file[f]))',
           \A o \in Ops \ ops : op[o].step # "idle" => file'[op[o].file] = file[op[o].file]
    PROVE  IInv'
<1>1. \A v : Claimed(v) => Claimed(v)'
  BY DEF Claimed, NextRevision
<1>2. /\ op' = [o \in Ops |-> IF o \in ops THEN NoOp ELSE op[o]]
      /\ \E sent \in SUBSET Writes(ops) : delayed' = delayed \cup sent
  BY DEF Abandon
<1>3. \A v \in Writes(ops) : Claimed(v)
  BY DEF Writes, IInv, OpGood
<1>4. (\A v \in delayed : Claimed(v))'
  BY <1>1, <1>2, <1>3 DEF IInv
<1>5. HistoryInv'
  BY DEF IInv, HistoryInv, ConsecutiveRevisions, NoLostUpdate, Stale, NextRevision
<1>6. op' \in [Ops -> OpState] /\ \A o \in Ops : op'[o] = IF o \in ops THEN NoOp ELSE op[o]
  BY <1>2, EndedIsGood DEF IInv, OpGood
<1>7. ASSUME NEW o \in Ops PROVE OpGood(op[o])'
  <2>1. CASE o \in ops
    <3>1. op'[o] = NoOp /\ NoOp \in OpState
      BY <1>6, <2>1, EndedIsGood DEF OpGood
    <3> QED
      BY <3>1 DEF NoOp, OpGood
  <2>2. CASE o \notin ops
    <3>1. op'[o] = op[o] /\ OpGood(op[o])
      BY <1>6, <2>2 DEF IInv
    <3>2. op[o].kind \in {"create", "overwrite"} => Claimed(op[o].version)'
      BY <1>1, <3>1 DEF OpGood
    <3>3. op[o].step # "idle" => file'[op[o].file] = file[op[o].file]
      BY <2>2
    <3>4. op[o].step = "taken" => op[o].step # "idle"
      OBVIOUS
    <3> QED
      BY <3>1, <3>2, <3>3, <3>4 DEF OpGood
  <2> QED
    BY <2>1, <2>2
<1>8. \A o, p \in Ops : o # p => PairGood(op'[o], op'[p])
  BY <1>6, EndedIsGood, Zenon DEF IInv
<1> QED
  BY <1>4, <1>5, <1>6, <1>7, <1>8 DEF IInv, PairGood

LEMMA FailsStep == ASSUME IInv, NEW o \in Ops, Fails(o) PROVE IInv'
<1>1. Abandon({o}) /\ {o} \in SUBSET Ops /\ UNCHANGED <<accepted, file>>
  BY DEF Fails
<1>2. (file \in [Files -> FileState] /\ \A f \in Files : FileGood(file[f]))'
  BY <1>1 DEF IInv, FileGood
<1> QED
  BY <1>1, <1>2, AbandonKeeps

LEMMA CrashStep == ASSUME IInv, NEW f \in Files, Crash(f) PROVE IInv'
<1> DEFINE own == {o \in Ops : op[o].file = f}
<1>1. /\ Abandon(own) /\ own \in SUBSET Ops /\ file' = [file EXCEPT ![f] = Closed]
      /\ UNCHANGED accepted
  BY DEF Crash
<1>2. Closed \in FileState
  BY RevisionAssumption DEF Closed, FileState, RevisionAssumption
<1>3. file' \in [Files -> FileState] /\ \A g \in Files : file'[g] = IF g = f THEN Closed ELSE file[g]
  BY <1>1, <1>2 DEF IInv
<1>4. (\A g \in Files : FileGood(file[g]))'
  <2> SUFFICES ASSUME NEW g \in Files PROVE FileGood(file[g])'
    OBVIOUS
  <2>1. CASE g = f
    BY <1>2, <1>3, <2>1 DEF FileGood, Closed
  <2>2. CASE g # f
    BY <1>1, <1>3, <2>2 DEF IInv, FileGood
  <2> QED
    BY <2>1, <2>2
<1>5. ASSUME NEW o \in Ops \ own, op[o].step # "idle" PROVE file'[op[o].file] = file[op[o].file]
  BY <1>3, <1>5 DEF IInv, OpGood
<1> HIDE DEF own
<1> QED
  BY <1>1, <1>3, <1>4, <1>5, AbandonKeeps

----------------------------------------------------------------------------
(* The theorems.                                                           *)

LEMMA NextInv == ASSUME IInv, [Next]_vars PROVE IInv'
<1>1. CASE UNCHANGED vars
  BY <1>1 DEF vars, IInv, HistoryInv, ConsecutiveRevisions, NoLostUpdate, Stale, NextRevision, Claimed,
              FileGood, OpGood, PairGood
<1>2. ASSUME NEW o \in Ops,
             \/ RegistryTakes(o)
             \/ Fails(o)
             \/ Upload(o)
             \/ CreateEnds(o)
             \/ OverwriteEnds(o)
             \/ \E seen \in 0 .. Len(accepted) : CreateReads(o, seen) \/ OpenReads(o, seen)
             \/ \E base \in Downloads : OpenDownloads(o, base) \/ ViewDownloads(o, base)
      PROVE  IInv'
  BY <1>2, RegistryTakesStep, FailsStep, ReadsAndUploads, WritesEnd, Downloaded
<1>3. ASSUME NEW o \in Ops, NEW f \in Files,
             \/ OpenIndependentFileSmall(o, f)
             \/ ViewIndependentFileSmall(o, f)
             \/ \E size \in Sizes : \/ CreateIndependentFileSmall(o, f, size)
                                    \/ OverwriteIndependentFileSmall(o, f, size)
      PROVE  IInv'
  BY <1>3, OpenOrViewStarts, CreateStarts, OverwriteStarts
<1>4. ASSUME NEW v \in delayed, DelayedArrives(v) PROVE IInv'
  BY <1>4, DelayedArrivesStep
<1>5. ASSUME NEW f \in Files, Crash(f) PROVE IInv'
  BY <1>5, CrashStep
<1> QED
  BY <1>1, <1>2, <1>3, <1>4, <1>5 DEF Next

LEMMA Invariant == Spec => []IInv
<1>1. Init => IInv
  BY InitInv
<1>2. IInv /\ [Next]_vars => IInv'
  BY NextInv
<1> QED
  BY <1>1, <1>2, PTL DEF Spec

\* "An outdated version of the file ... is guaranteed to not skip over the
\* revision number of the latest version": the registry never has a gap between two
\* versions, whatever number of writers race, fail and are closed, and however old
\* the entries and the data are that they read.
THEOREM RevisionsConsecutive == Spec => []ConsecutiveRevisions
<1>1. IInv => ConsecutiveRevisions
  BY DEF IInv, HistoryInv
<1> QED
  BY <1>1, Invariant, PTL

\* No version replaces one whose entry its writer had not read, and none whose data
\* and metadata it did not have, unless its data were older than the entry that it
\* had read.
THEOREM NoUpdateLost == Spec => []NoLostUpdate
<1>1. IInv => NoLostUpdate
  BY DEF IInv, HistoryInv
<1> QED
  BY <1>1, Invariant, PTL

\* The one step that changes an object that can be written to.
LEMMA Advances ==
    ASSUME IInv, IInv', [Next]_vars, NEW f \in Files,
           file'[f].kind = "writer", file'[f] # file[f], file[f].kind = "writer"
    PROVE  file'[f].revision > file[f].revision /\ file'[f].base > file[f].base
<1>1. file \in [Files -> FileState]
  BY DEF IInv
<1>2. PICK o \in Ops :
        \/ CreateEnds(o) \/ OverwriteEnds(o)
        \/ \E base \in Downloads : OpenDownloads(o, base) \/ ViewDownloads(o, base)
  <2>1. ASSUME NEW g \in Files, Crash(g) PROVE FALSE
    BY <1>1, <2>1 DEF Crash, Closed
  <2> QED
    BY <2>1 DEF Next, vars, RegistryTakes, Fails, Upload, CreateReads, OpenReads,
            OpenIndependentFileSmall, ViewIndependentFileSmall, CreateIndependentFileSmall,
            OverwriteIndependentFileSmall, Begin, DelayedArrives
<1>3. OpGood(op[o])
  BY DEF IInv
<1>4. op[o].step # "idle" /\ op[o].file = f
  BY <1>1, <1>2 DEF CreateEnds, OverwriteEnds, OpenDownloads, ViewDownloads
<1>5. op[o].kind = "overwrite"
  BY <1>3, <1>4 DEF OpGood
<1>6. op[o].step = "taken" /\ file'[f] = Written(op[o])
  BY <1>1, <1>2, <1>4, <1>5 DEF CreateEnds, OverwriteEnds, OpenDownloads, ViewDownloads
<1> QED
  BY <1>3, <1>4, <1>5, <1>6 DEF OpGood, Written

\* However its writes overlap, fail and end, an object never goes back, and never
\* holds a revision or data that the registry did not take.
THEOREM ObjectsAdvance == Spec => ObjectsOnlyAdvance
<1> DEFINE A == \A f \in Files :
        (file'[f].kind = "writer" /\ file'[f] # file[f]) =>
            /\ file[f].kind = "writer" =>
                file'[f].revision > file[f].revision /\ file'[f].base > file[f].base
            /\ file'[f].base \in 1 .. Len(accepted')
            /\ \E i \in 1 .. Len(accepted') : accepted'[i].revision = file'[f].revision
<1>1. IInv /\ IInv' /\ [Next]_vars => A
  <2> SUFFICES ASSUME IInv, IInv', [Next]_vars, NEW f \in Files,
                      file'[f].kind = "writer", file'[f] # file[f]
               PROVE  /\ file[f].kind = "writer" =>
                            file'[f].revision > file[f].revision /\ file'[f].base > file[f].base
                      /\ file'[f].base \in 1 .. Len(accepted')
                      /\ \E i \in 1 .. Len(accepted') : accepted'[i].revision = file'[f].revision
    OBVIOUS
  <2>1. FileGood(file[f])'
    BY DEF IInv
  <2> QED
    BY <2>1, Advances DEF FileGood
<1>2. IInv /\ IInv' /\ [Next]_vars => [A]_vars
  BY <1>1
<1> QED
  BY <1>2, Invariant, PTL DEF Spec, ObjectsOnlyAdvance

----------------------------------------------------------------------------
(* Sizes: induction, recursive definitions, and what padding adds.           *)

\* The naturals are well-founded, said of sets: the library's theorems of induction
\* take an operator.
LEMMA LeastOf ==
    ASSUME NEW S, S \subseteq Nat, S # {}
    PROVE  \E n \in S : \A m \in S : n <= m
<1> DEFINE R == OpToRel(<, Nat)
<1>1. \A x, y \in Nat : y < x => <<y, x>> \in R
  BY DEF OpToRel
<1>2. IsWellFoundedOn(R, Nat)
  BY NatLessThanWellFounded
<1> HIDE DEF R
<1>3. PICK n \in S : \A m \in S : ~(<<m, n>> \in R)
  BY <1>2, WFMin
<1>4. ASSUME NEW m \in S PROVE n <= m
  <2>1. n \in Nat /\ m \in Nat
    OBVIOUS
  <2>2. ~(m < n)
    BY <1>1, <1>3, <2>1
  <2> QED
    BY <2>1, <2>2
<1> QED
  BY <1>4

LEMMA Induction ==
    ASSUME NEW S, 0 \in S, \A n \in Nat : n \in S => n + 1 \in S
    PROVE  Nat \subseteq S
<1>1. SUFFICES ASSUME Nat \ S # {} PROVE FALSE
  OBVIOUS
<1>2. PICK n \in Nat \ S : \A m \in Nat \ S : n <= m
  BY <1>1, LeastOf
<1>3. n # 0 /\ n - 1 \in Nat /\ n - 1 \in S
  BY <1>2
<1> QED
  BY <1>2, <1>3

\* The value at n: given, or made of the value at a smaller number.
Value(small, base, down, step, f, n) == IF n \in small THEN base[n] ELSE step[f[down[n]]]

Recursive(small, base, down, step, f, l) ==
    f \in [0 .. l -> Nat] /\ \A n \in 0 .. l : f[n] = Value(small, base, down, step, f, n)

\* A function can be defined so.
LEMMA Recursion ==
    ASSUME NEW small, NEW base \in [Nat -> Nat], NEW down \in [Nat -> Nat], NEW step \in [Nat -> Nat],
           \A n \in Nat \ small : down[n] < n
    PROVE  \E f \in [Nat -> Nat] : \A n \in Nat : f[n] = Value(small, base, down, step, f, n)
<1> DEFINE V(f, n) == Value(small, base, down, step, f, n)
           R(f, l) == Recursive(small, base, down, step, f, l)
<1>1. ASSUME NEW l \in Nat, NEW m \in Nat, NEW g, NEW h, R(g, l), R(h, m),
             NEW i \in Nat, i <= l, i <= m
      PROVE  g[i] = h[i]
  <2> DEFINE S == {n \in Nat : n <= l /\ n <= m /\ g[n] # h[n]}
  <2>1. SUFFICES ASSUME S # {} PROVE FALSE
    BY <1>1
  <2>2. PICK n \in S : \A k \in S : n <= k
    <3>1. S \subseteq Nat
      OBVIOUS
    <3> HIDE DEF S
    <3> QED
      BY <2>1, <3>1, LeastOf
  <2>3. n \in Nat /\ n <= l /\ n <= m /\ g[n] # h[n]
    OBVIOUS
  <2>4. \A k \in Nat : k <= l /\ k <= m /\ k < n => g[k] = h[k]
    BY <2>2, <2>3
  <2> HIDE DEF S
  <2>5. g[n] = V(g, n) /\ h[n] = V(h, n)
    BY <1>1, <2>3 DEF Recursive
  <2>6. CASE n \in small
    BY <2>3, <2>5, <2>6 DEF Value
  <2>7. CASE n \notin small
    <3>1. down[n] \in Nat /\ down[n] < n
      BY <2>3, <2>7
    <3>2. g[down[n]] = h[down[n]]
      BY <1>1, <2>3, <2>4, <3>1
    <3> QED
      BY <2>3, <2>5, <2>7, <3>2 DEF Value
  <2> QED
    BY <2>6, <2>7
<1> DEFINE S == {l \in Nat : \E g : R(g, l)}
<1>2. 0 \in S
  <2> DEFINE g == [n \in 0 .. 0 |-> base[0]]
  <2>1. 0 \in small
    <3>1. \A n \in Nat : ~(n < 0)
      OBVIOUS
    <3> QED
      BY <3>1
  <2>2. g \in [0 .. 0 -> Nat] /\ \A n \in 0 .. 0 : n = 0 /\ g[n] = base[0]
    OBVIOUS
  <2> HIDE DEF g
  <2>3. R(g, 0)
    BY <2>1, <2>2 DEF Recursive, Value
  <2> QED
    BY <2>3
<1>3. ASSUME NEW l \in Nat, l \in S PROVE l + 1 \in S
  <2>1. PICK g : R(g, l)
    BY <1>3
  <2>2. g \in [0 .. l -> Nat] /\ \A n \in 0 .. l : g[n] = V(g, n)
    BY <2>1 DEF Recursive
  <2> DEFINE h == [n \in 0 .. l + 1 |-> IF n = l + 1 THEN V(g, n) ELSE g[n]]
  <2>3. ASSUME NEW n \in 0 .. l + 1 PROVE h[n] = V(h, n) /\ h[n] \in Nat
    <3>1. V(h, n) = V(g, n) /\ V(g, n) \in Nat
      <4>1. n \in Nat /\ base[n] \in Nat
        OBVIOUS
      <4>2. CASE n \in small
        BY <4>1, <4>2 DEF Value
      <4>3. CASE n \notin small
        <5>1. down[n] \in Nat /\ down[n] < n
          BY <4>1, <4>3
        <5>2. down[n] \in 0 .. l /\ down[n] # l + 1
          BY <5>1
        <5> DEFINE k == down[n]
        <5>0. down[n] = k
          OBVIOUS
        <5> HIDE DEF k
        <5>5. k \in 0 .. l /\ k \in 0 .. l + 1 /\ k # l + 1
          BY <5>0, <5>2
        <5>3. h[k] = g[k] /\ g[k] \in Nat
          BY <2>2, <5>5
        <5>4. step[g[k]] \in Nat
          BY <5>3
        <5> HIDE DEF h
        <5> QED
          BY <4>3, <5>0, <5>3, <5>4 DEF Value
      <4> QED
        BY <4>2, <4>3
    <3>2. h[n] = V(g, n)
      BY <2>2
    <3> QED
      BY <3>1, <3>2
  <2>4. h = [n \in 0 .. l + 1 |-> h[n]]
    OBVIOUS
  <2> HIDE DEF h
  <2>5. h \in [0 .. l + 1 -> Nat]
    BY <2>3, <2>4
  <2>6. R(h, l + 1)
    BY <2>3, <2>5 DEF Recursive
  <2> QED
    BY <2>6
<1>4. Nat \subseteq S
  <2> HIDE DEF S
  <2> QED
    BY <1>2, <1>3, Induction
<1> DEFINE G(n) == CHOOSE g : R(g, n)
<1>5. ASSUME NEW n \in Nat PROVE R(G(n), n)
  BY <1>4
<1> HIDE DEF G, S
<1> DEFINE f == [n \in Nat |-> G(n)[n]]
<1>6. ASSUME NEW n \in Nat PROVE f[n] = V(f, n) /\ f[n] \in Nat
  <2>1. G(n)[n] = V(G(n), n) /\ G(n)[n] \in Nat
    <3>1. Recursive(small, base, down, step, G(n), n)
      BY <1>5
    <3>2. n \in 0 .. n
      OBVIOUS
    <3> QED
      BY <3>1, <3>2 DEF Recursive
  <2>2. CASE n \in small
    BY <2>1, <2>2 DEF Value
  <2>3. CASE n \notin small
    <3>1. down[n] \in Nat /\ down[n] < n
      BY <2>3
    <3>2. G(n)[down[n]] = G(down[n])[down[n]]
      <4>1. R(G(n), n) /\ R(G(down[n]), down[n])
        BY <1>5, <3>1
      <4>2. down[n] <= n /\ down[n] <= down[n]
        BY <3>1
      <4> DEFINE k == down[n]
                 g == G(n)
                 h == G(k)
      <4>3. R(g, n) /\ R(h, k) /\ k \in Nat /\ k <= n /\ k <= k
        BY <3>1, <4>1, <4>2
      <4> HIDE DEF k, g, h
      <4>4. g[k] = h[k]
        BY <1>1, <4>3
      <4> QED
        BY <4>4 DEF k, g, h
    <3> QED
      BY <2>1, <2>3, <3>1, <3>2 DEF Value
  <2> QED
    BY <2>2, <2>3
<1> HIDE DEF f
<1>7. f = [n \in Nat |-> f[n]]
  BY DEF f
<1>8. f \in [Nat -> Nat] /\ \A n \in Nat : f[n] = V(f, n)
  BY <1>6, <1>7
<1> QED
  BY <1>8

\* A set of numbers with every number whose predecessors it has is Nat.
LEMMA StrongInduction ==
    ASSUME NEW S, \A n \in Nat : (\A m \in Nat : m < n => m \in S) => n \in S
    PROVE  Nat \subseteq S
<1>1. SUFFICES ASSUME Nat \ S # {} PROVE FALSE
  OBVIOUS
<1>2. PICK n \in Nat \ S : \A m \in Nat \ S : n <= m
  BY <1>1, LeastOf
<1>3. \A m \in Nat : m < n => m \in S
  BY <1>2
<1> QED
  BY <1>2, <1>3

LEMMA DigitsIs == Digits \in [Nat -> Nat]
<1> DEFINE D(f) == [n \in Nat |-> IF n < 10 THEN 1 ELSE 1 + f[n \div 10]]
           small == {n \in Nat : n < 10}
           base == [n \in Nat |-> 1]
           down == [n \in Nat |-> n \div 10]
           step == [n \in Nat |-> 1 + n]
<1>1. base \in [Nat -> Nat] /\ down \in [Nat -> Nat] /\ step \in [Nat -> Nat]
  OBVIOUS
<1>2. \A n \in Nat \ small : down[n] < n
  OBVIOUS
<1>3. PICK f \in [Nat -> Nat] : \A n \in Nat : f[n] = Value(small, base, down, step, f, n)
  <2> HIDE DEF small, base, down, step
  <2> QED
    BY <1>1, <1>2, Recursion
<1>4. \A n \in Nat : Value(small, base, down, step, f, n) = IF n < 10 THEN 1 ELSE 1 + f[n \div 10]
  <2>1. SUFFICES ASSUME NEW n \in Nat
                 PROVE  Value(small, base, down, step, f, n) = IF n < 10 THEN 1 ELSE 1 + f[n \div 10]
    OBVIOUS
  <2>2. n \div 10 \in Nat
    OBVIOUS
  <2> QED
    BY <2>2 DEF Value
<1> HIDE DEF small, base, down, step
<1>5. f = D(f)
  <2>1. f = [n \in Nat |-> f[n]]
    OBVIOUS
  <2> QED
    BY <1>3, <1>4, <2>1
<1>6. Digits = D(Digits)
  <2>1. Digits = CHOOSE g : g = D(g)
    BY DEF Digits
  <2> QED
    BY <1>5, <2>1
<1> DEFINE S == {n \in Nat : Digits[n] \in Nat}
<1>7. ASSUME NEW n \in Nat, \A m \in Nat : m < n => m \in S PROVE n \in S
  <2>1. Digits[n] = IF n < 10 THEN 1 ELSE 1 + Digits[n \div 10]
    <3> HIDE DEF S
    <3> QED
      BY <1>6
  <2>2. n \div 10 \in Nat /\ (n >= 10 => n \div 10 < n)
    OBVIOUS
  <2>3. n >= 10 => Digits[n \div 10] \in Nat
    BY <1>7, <2>2
  <2> QED
    BY <2>1, <2>3
<1>8. Nat \subseteq S
  <2> HIDE DEF S
  <2> QED
    BY <1>7, StrongInduction
<1>9. \A n \in Nat : Digits[n] \in Nat
  BY <1>8
<1>10. Digits = [n \in Nat |-> Digits[n]]
  BY <1>6
<1> QED
  BY <1>9, <1>10

LEMMA PaddingBlockIs == PaddingBlock \in [Nat -> Nat \ {0}]
<1> DEFINE D(f) == [size \in Nat |-> IF size <= 81920 THEN 4096 ELSE 2 * f[(size + 1) \div 2]]
           small == {n \in Nat : n <= 81920}
           base == [n \in Nat |-> 4096]
           down == [n \in Nat |-> (n + 1) \div 2]
           step == [n \in Nat |-> 2 * n]
<1>1. base \in [Nat -> Nat] /\ down \in [Nat -> Nat] /\ step \in [Nat -> Nat]
  OBVIOUS
<1>2. \A n \in Nat \ small : down[n] < n
  OBVIOUS
<1>3. PICK f \in [Nat -> Nat] : \A n \in Nat : f[n] = Value(small, base, down, step, f, n)
  <2> HIDE DEF small, base, down, step
  <2> QED
    BY <1>1, <1>2, Recursion
<1>4. \A n \in Nat : Value(small, base, down, step, f, n) = IF n <= 81920 THEN 4096 ELSE 2 * f[(n + 1) \div 2]
  <2>1. SUFFICES ASSUME NEW n \in Nat
                 PROVE  Value(small, base, down, step, f, n) = IF n <= 81920 THEN 4096 ELSE 2 * f[(n + 1) \div 2]
    OBVIOUS
  <2>2. (n + 1) \div 2 \in Nat
    OBVIOUS
  <2> QED
    BY <2>2 DEF Value
<1> HIDE DEF small, base, down, step
<1>5. f = D(f)
  <2>1. f = [n \in Nat |-> f[n]]
    OBVIOUS
  <2> QED
    BY <1>3, <1>4, <2>1
<1>6. PaddingBlock = D(PaddingBlock)
  <2>1. PaddingBlock = CHOOSE g : g = D(g)
    BY DEF PaddingBlock
  <2> QED
    BY <1>5, <2>1
<1> DEFINE S == {n \in Nat : PaddingBlock[n] \in Nat \ {0}}
<1>7. ASSUME NEW n \in Nat, \A m \in Nat : m < n => m \in S PROVE n \in S
  <2>1. PaddingBlock[n] = IF n <= 81920 THEN 4096 ELSE 2 * PaddingBlock[(n + 1) \div 2]
    <3> HIDE DEF S
    <3> QED
      BY <1>6
  <2>2. (n + 1) \div 2 \in Nat /\ (n > 81920 => (n + 1) \div 2 < n)
    OBVIOUS
  <2>3. n > 81920 => PaddingBlock[(n + 1) \div 2] \in Nat \ {0}
    BY <1>7, <2>2
  <2> QED
    BY <2>1, <2>3
<1>8. Nat \subseteq S
  <2> HIDE DEF S
  <2> QED
    BY <1>7, StrongInduction
<1>9. \A n \in Nat : PaddingBlock[n] \in Nat \ {0}
  BY <1>8
<1>10. PaddingBlock = [n \in Nat |-> PaddingBlock[n]]
  BY <1>6
<1> QED
  BY <1>9, <1>10

\* A padded file is not smaller.
LEMMA PaddedCovers ==
    ASSUME NEW size \in Nat
    PROVE  GetPaddedFileSize(size) \in Nat /\ GetPaddedFileSize(size) >= size
<1> DEFINE b == PaddingBlock[size]
           q == (size + b - 1) \div b
<1>1. b \in Nat /\ b > 0
  BY PaddingBlockIs
<1> HIDE DEF b
<1>2. q \in Nat /\ size + b - 1 < b * (q + 1)
  BY <1>1
<1> HIDE DEF q
<1>3. b * (q + 1) = b * q + b
  BY <1>1, <1>2
<1>4. b * q \in Nat
  BY <1>1, <1>2
<1>5. b * q >= size
  BY <1>1, <1>2, <1>3, <1>4
<1>6. GetPaddedFileSize(size) = b * (IF q = 0 THEN 1 ELSE q)
  BY DEF GetPaddedFileSize, b, q
<1>7. CASE q = 0
  BY <1>1, <1>2, <1>5, <1>6, <1>7
<1>8. CASE q # 0
  BY <1>4, <1>5, <1>6, <1>8
<1> QED
  BY <1>7, <1>8

\* A version is not smaller than its data, nor than the largest it should cover.
LEMMA VersionCovers ==
    ASSUME NEW r, NEW e, NEW b, NEW size \in Nat, NEW largest \in Nat
    PROVE  /\ NewVersion(r, e, b, size, largest).padded \in Nat
           /\ NewVersion(r, e, b, size, largest).padded >= largest
           /\ NewVersion(r, e, b, size, largest).padded >= size
<1> DEFINE m == MetadataSize(largest)
           full == GetPaddedFileSize(HeaderSize + m + size)
           least == GetPaddedFileSize(largest)
<1>1. m \in Nat
  BY DigitsIs DEF MetadataSize
<1> HIDE DEF m
<1>2. HeaderSize + m + size \in Nat /\ HeaderSize + m + size >= size
  BY <1>1 DEF HeaderSize
<1>3. full \in Nat /\ full >= HeaderSize + m + size
  BY <1>2, PaddedCovers
<1>4. least \in Nat /\ least >= largest
  BY PaddedCovers
<1>5. NewVersion(r, e, b, size, largest).padded = IF full < largest THEN least ELSE full
  BY DEF NewVersion, EncryptedSize, m
<1> HIDE DEF full, least
<1>6. full >= size
  BY <1>1, <1>2, <1>3 DEF HeaderSize
<1> QED
  BY <1>3, <1>4, <1>5, <1>6

----------------------------------------------------------------------------
(* The largest size.                                                       *)

\* A version remembers the size of its data and what the one it is based on does.
Covered(v) ==
    /\ v.largest >= v.size
    /\ v.base \in 1 .. Len(accepted) => v.largest >= accepted[v.base].largest

\* No writer of the versions from i to j had data older than the entry it had read.
FreshBetween(i, j) == \A k \in i .. j : ~Stale(accepted[k])

SizesInv ==
    /\ \A i, j \in 1 .. Len(accepted) :
        i <= j /\ FreshBetween(i + 1, j) => accepted[i].largest <= accepted[j].largest
    /\ \A i \in 1 .. Len(accepted) : accepted[i].size <= accepted[i].largest
    /\ \A v \in delayed : Covered(v)
    /\ \A o \in Ops : op[o].kind \in {"create", "overwrite"} => Covered(op[o].version)
    /\ \A f \in Files : file[f].kind = "writer" => file[f].largest >= accepted[file[f].base].largest

\* What a step does to versions: one more may be taken, no new one is delayed, a
\* call makes a version that covers, an object has what the registry has.
LEMMA SizesKept ==
    ASSUME IInv, IInv', SizesInv,
           \/ UNCHANGED accepted
           \/ \E v \in Versions : accepted' = Append(accepted, v) /\ Covered(v),
           \A v \in delayed' :
               v \in delayed \/ \E o \in Ops : op[o].kind \in {"create", "overwrite"} /\ v = op[o].version,
           \A o \in Ops : op'[o].kind \in {"create", "overwrite"} =>
               \/ op[o].kind \in {"create", "overwrite"} /\ op'[o].version = op[o].version
               \/ UNCHANGED accepted /\ Covered(op'[o].version),
           \A f \in Files : file'[f].kind = "writer" =>
               \/ file'[f] = file[f]
               \/ UNCHANGED accepted /\ file'[f].largest >= accepted[file'[f].base].largest
    PROVE  SizesInv'
<1>1. /\ accepted \in Seq(Versions) /\ Len(accepted) \in Nat
      /\ \A i \in 1 .. Len(accepted) : accepted[i] \in Versions
  BY DEF IInv, HistoryInv
<1>2. /\ Len(accepted') >= Len(accepted) /\ Len(accepted') \in Nat
      /\ \A i \in 1 .. Len(accepted) : accepted'[i] = accepted[i]
  <2>1. CASE UNCHANGED accepted
    BY <1>1, <2>1
  <2>2. ASSUME NEW v \in Versions, accepted' = Append(accepted, v) PROVE <1>2
    BY <1>1, <2>2, AppendAt
  <2> QED
    BY <2>1, <2>2
<1>3. ASSUME NEW v, Claimed(v), Covered(v) PROVE Covered(v)'
  <2>1. v.base \in Nat /\ (v.base = 0 \/ v.base \in 1 .. Len(accepted))
    BY <1>1, <1>3, VersionFields DEF Claimed
  <2>2. CASE v.base \in 1 .. Len(accepted)
    BY <1>2, <1>3, <2>2 DEF Covered
  <2>3. CASE v.base = 0
    BY <1>2, <1>3, <2>3 DEF Covered
  <2> QED
    BY <2>1, <2>2, <2>3
<1>4. /\ \A v \in delayed : Claimed(v) /\ Covered(v)
      /\ \A o \in Ops : op[o].kind \in {"create", "overwrite"} =>
            Claimed(op[o].version) /\ Covered(op[o].version)
  BY DEF IInv, OpGood, SizesInv
<1>5. (\A v \in delayed : Covered(v))'
  BY <1>3, <1>4
<1>6. (\A o \in Ops : op[o].kind \in {"create", "overwrite"} => Covered(op[o].version))'
  <2>1. SUFFICES ASSUME NEW o \in Ops, op'[o].kind \in {"create", "overwrite"}
                 PROVE  Covered(op[o].version)'
    OBVIOUS
  <2>2. CASE op[o].kind \in {"create", "overwrite"} /\ op'[o].version = op[o].version
    <3>1. PICK v : v = op[o].version /\ v = op'[o].version
      BY <2>2
    <3>2. Covered(v)'
      BY <1>3, <1>4, <2>2, <3>1
    <3> QED
      BY <3>1, <3>2
  <2>3. CASE UNCHANGED accepted /\ Covered(op'[o].version)
    BY <2>3 DEF Covered
  <2> QED
    BY <2>1, <2>2, <2>3
<1>7. (\A f \in Files : file[f].kind = "writer" => file[f].largest >= accepted[file[f].base].largest)'
  <2>1. SUFFICES ASSUME NEW f \in Files, file'[f].kind = "writer"
                 PROVE  file'[f].largest >= accepted'[file'[f].base].largest
    OBVIOUS
  <2>2. CASE file'[f] = file[f]
    <3>1. file[f].base \in 1 .. Len(accepted) /\ file[f].largest >= accepted[file[f].base].largest
      BY <2>1, <2>2 DEF IInv, FileGood, SizesInv
    <3> QED
      BY <1>2, <2>2, <3>1
  <2>3. CASE UNCHANGED accepted /\ file'[f].largest >= accepted[file'[f].base].largest
    BY <2>3
  <2> QED
    BY <2>1, <2>2, <2>3
<1>8. /\ (\A i, j \in 1 .. Len(accepted) :
            i <= j /\ FreshBetween(i + 1, j) => accepted[i].largest <= accepted[j].largest)'
      /\ (\A i \in 1 .. Len(accepted) : accepted[i].size <= accepted[i].largest)'
  <2>1. CASE UNCHANGED accepted
    BY <2>1 DEF SizesInv, FreshBetween, Stale
  <2>2. ASSUME NEW v \in Versions, accepted' = Append(accepted, v), Covered(v) PROVE <1>8
    <3> DEFINE n == Len(accepted)
    <3>1. /\ Len(accepted') = n + 1 /\ accepted'[n + 1] = v
          /\ \A i \in 1 .. n : accepted'[i] = accepted[i]
      BY <1>1, <2>2, AppendAt
    <3>2. ~Stale(v) => v.base = n
      <4>1. n + 1 \in 1 .. Len(accepted')
        BY <1>1, <3>1
      <4>2. ~Stale(accepted'[n + 1]) => accepted'[n + 1].base = (n + 1) - 1
        BY <4>1 DEF IInv, HistoryInv, NoLostUpdate, Stale
      <4> QED
        BY <1>1, <3>1, <4>2
    <3>3. v.largest \in Nat /\ \A i \in 1 .. n : accepted[i].largest \in Nat
      BY <1>1, VersionFields
    <3>4. \A i \in 1 .. n : ~Stale(v) /\ FreshBetween(i + 1, n) => accepted[i].largest <= v.largest
      <4>1. SUFFICES ASSUME NEW i \in 1 .. n, ~Stale(v), FreshBetween(i + 1, n)
                     PROVE  accepted[i].largest <= v.largest
        OBVIOUS
      <4>2. n \in 1 .. n /\ i <= n
        BY <1>1
      <4>3. accepted[i].largest <= accepted[n].largest
        BY <4>1, <4>2 DEF SizesInv
      <4>4. accepted[n].largest <= v.largest
        BY <2>2, <3>2, <3>3, <4>1, <4>2 DEF Covered
      <4> QED
        BY <3>3, <4>2, <4>3, <4>4
    <3>5. \A i \in 1 .. n + 1 : i \in 1 .. n \/ i = n + 1
      BY <1>1
    <3> HIDE DEF n
    <3>6. ASSUME NEW i \in 1 .. n + 1, NEW j \in 1 .. n + 1, i <= j,
                 \A k \in i + 1 .. j : ~Stale(accepted'[k])
          PROVE  accepted'[i].largest <= accepted'[j].largest
      <4>0. n \in Nat
        BY <1>1 DEF n
      <4>1. CASE j \in 1 .. n
        <5>1. i \in 1 .. n
          BY <3>6, <4>0, <4>1
        <5>2. FreshBetween(i + 1, j)
          <6>1. \A k \in i + 1 .. j : k \in 1 .. n
            BY <4>0, <4>1, <5>1
          <6> QED
            BY <3>1, <3>6, <6>1 DEF FreshBetween
        <5> QED
          BY <3>1, <3>6, <4>1, <5>1, <5>2 DEF SizesInv, n
      <4>2. CASE j = n + 1 /\ i \in 1 .. n
        <5>1. FreshBetween(i + 1, n)
          <6>1. \A k \in i + 1 .. n : k \in 1 .. n /\ k \in i + 1 .. j
            BY <4>0, <4>2
          <6> QED
            BY <3>1, <3>6, <6>1 DEF FreshBetween
        <5>2. j \in i + 1 .. j
          BY <4>0, <4>2
        <5>3. ~Stale(v)
          BY <3>1, <3>6, <4>2, <5>2
        <5> QED
          BY <3>1, <3>4, <4>2, <5>1, <5>3
      <4>3. CASE j = n + 1 /\ i = n + 1
        BY <3>1, <3>3, <4>3
      <4> QED
        BY <3>5, <4>1, <4>2, <4>3
    <3>7. ASSUME NEW i \in 1 .. n + 1 PROVE accepted'[i].size <= accepted'[i].largest
      <4>1. CASE i \in 1 .. n
        BY <3>1, <4>1 DEF SizesInv, n
      <4>2. CASE i = n + 1
        <5>1. v.size \in Nat
          BY SizesAssumption, VersionFields DEF SizesAssumption
        <5> QED
          BY <2>2, <3>1, <3>3, <4>2, <5>1 DEF Covered
      <4> QED
        BY <3>5, <4>1, <4>2
    <3>8. \A i, j : FreshBetween(i + 1, j)' => \A k \in i + 1 .. j : ~Stale(accepted'[k])
      BY DEF FreshBetween, Stale
    <3> QED
      BY <3>1, <3>6, <3>7, <3>8
  <2> QED
    BY <2>1, <2>2
<1> QED
  BY <1>5, <1>6, <1>7, <1>8 DEF SizesInv

\* Every step leaves the largest size remembered.
LEMMA SizesStep ==
    ASSUME IInv, IInv', SizesInv, [Next]_vars
    PROVE  SizesInv'
<1> DEFINE Making == {"create", "overwrite"}
           A == \/ UNCHANGED accepted
                \/ \E v \in Versions : accepted' = Append(accepted, v) /\ Covered(v)
           D == \A v \in delayed' :
                    v \in delayed \/ \E o \in Ops : op[o].kind \in Making /\ v = op[o].version
           O == \A o \in Ops : op'[o].kind \in Making =>
                    \/ op[o].kind \in Making /\ op'[o].version = op[o].version
                    \/ UNCHANGED accepted /\ Covered(op'[o].version)
           F == \A f \in Files : file'[f].kind = "writer" =>
                    \/ file'[f] = file[f]
                    \/ UNCHANGED accepted /\ file'[f].largest >= accepted[file'[f].base].largest
<1>1. SUFFICES A /\ D /\ O /\ F
  BY SizesKept
<1>2. op \in [Ops -> OpState] /\ file \in [Files -> FileState]
  BY DEF IInv
<1>3. NoOp.kind \notin Making /\ Closed.kind # "writer"
  BY DEF NoOp, Closed
<1>4. \A o \in Ops : /\ op[o].step \in {"upload", "write", "taken"} => op[o].kind \in Making
                     /\ op[o].kind \in Making => op[o].version \in Versions /\ Covered(op[o].version)
  BY DEF IInv, OpGood, Claimed, SizesInv
<1>5. CASE UNCHANGED vars
  BY <1>5 DEF vars
<1>6. ASSUME NEW o \in Ops, RegistryTakes(o) PROVE A /\ D /\ O /\ F
  BY <1>2, <1>4, <1>6 DEF RegistryTakes
<1>7. ASSUME NEW v \in delayed, DelayedArrives(v) PROVE A /\ D /\ O /\ F
  <2>1. v \in Versions /\ Covered(v)
    BY DEF IInv, Claimed, SizesInv
  <2>2. A
    BY <1>7, <2>1 DEF DelayedArrives
  <2> QED
    BY <1>7, <2>2 DEF DelayedArrives
<1>8. ASSUME NEW ops \in SUBSET Ops, Abandon(ops) PROVE D /\ O
  <2>1. PICK sent \in SUBSET Writes(ops) : delayed' = delayed \cup sent
    BY <1>8 DEF Abandon
  <2>2. \A v \in Writes(ops) : \E o \in Ops : op[o].kind \in Making /\ v = op[o].version
    BY <1>4 DEF Writes
  <2>3. D
    BY <2>1, <2>2
  <2>4. \A o \in Ops : op'[o] = IF o \in ops THEN NoOp ELSE op[o]
    BY <1>8 DEF Abandon
  <2>5. O
    BY <1>3, <2>4
  <2> QED
    BY <2>3, <2>5
<1>9. ASSUME NEW o \in Ops, Fails(o) PROVE A /\ D /\ O /\ F
  BY <1>8, <1>9 DEF Fails
<1>10. ASSUME NEW f \in Files, Crash(f) PROVE A /\ D /\ O /\ F
  <2>1. D /\ O
    <3>1. {o \in Ops : op[o].file = f} \in SUBSET Ops
      OBVIOUS
    <3> QED
      BY <1>8, <1>10, <3>1 DEF Crash
  <2>2. UNCHANGED accepted /\ \A g \in Files : file'[g] = IF g = f THEN Closed ELSE file[g]
    BY <1>2, <1>10 DEF Crash
  <2>3. A /\ F
    BY <1>3, <2>2
  <2> QED
    BY <2>1, <2>3
\* A call changes, and keeps its version or ends.
<1>11. ASSUME NEW o \in Ops, NEW r, op' = [op EXCEPT ![o] = r],
              r.kind \notin Making \/ (r.kind = op[o].kind /\ r.version = op[o].version)
       PROVE  O
  BY <1>2, <1>11
<1>12. ASSUME NEW o \in Ops, NEW seen, CreateReads(o, seen) \/ OpenReads(o, seen) PROVE A /\ D /\ O /\ F
  <2>1. PICK r : /\ op' = [op EXCEPT ![o] = r]
                 /\ \/ r = NoOp
                    \/ r = [op[o] EXCEPT !.step = "upload", !.seen = seen]
                    \/ r = [op[o] EXCEPT !.step = "download", !.seen = seen]
    BY <1>12 DEF CreateReads, OpenReads
  <2>2. op[o] \in OpState
    BY <1>2
  <2>3. r.kind \notin Making \/ (r.kind = op[o].kind /\ r.version = op[o].version)
    <3>1. CASE r = NoOp
      BY <1>3, <3>1
    <3>2. CASE r = [op[o] EXCEPT !.step = "upload", !.seen = seen]
      BY <2>2, <3>2 DEF OpState
    <3>3. CASE r = [op[o] EXCEPT !.step = "download", !.seen = seen]
      BY <2>2, <3>3 DEF OpState
    <3> QED
      BY <2>1, <3>1, <3>2, <3>3
  <2>4. O
    <3>1. op' = [op EXCEPT ![o] = r]
      BY <2>1
    <3> QED
      BY <1>11, <2>3, <3>1
  <2> QED
    BY <1>12, <2>4 DEF CreateReads, OpenReads
<1>13. ASSUME NEW o \in Ops, Upload(o) PROVE A /\ D /\ O /\ F
  BY <1>2, <1>13 DEF Upload
<1>14. ASSUME NEW o \in Ops, op' = [op EXCEPT ![o] = NoOp] PROVE O
  BY <1>3, <1>11, <1>14
<1>15. ASSUME NEW o \in Ops, CreateEnds(o) \/ OverwriteEnds(o) PROVE A /\ D /\ O /\ F
  <2>1. /\ op[o].step = "taken" /\ op' = [op EXCEPT ![o] = NoOp]
        /\ file' = [file EXCEPT ![op[o].file] = Written(op[o])]
        /\ UNCHANGED <<accepted, delayed>>
    BY <1>15 DEF CreateEnds, OverwriteEnds
  <2>2. accepted[op[o].seen] = op[o].version /\ op[o].version \in Versions
    BY <1>4, <2>1 DEF IInv, OpGood
  <2>3. op[o].version.largest \in Nat
    BY <2>2, VersionFields
  <2>4. Written(op[o]).largest >= accepted[Written(op[o]).base].largest
    BY <2>2, <2>3 DEF Written
  <2>5. F
    BY <1>2, <2>1, <2>4
  <2> QED
    BY <1>14, <2>1, <2>5
<1>16. ASSUME NEW o \in Ops, NEW base \in Downloads, OpenDownloads(o, base) \/ ViewDownloads(o, base)
       PROVE  A /\ D /\ O /\ F
  <2>1. op' = [op EXCEPT ![o] = NoOp] /\ UNCHANGED <<accepted, delayed>>
    BY <1>16 DEF OpenDownloads, ViewDownloads
  <2>2. PICK x : /\ file' = [file EXCEPT ![op[o].file] = x]
                 /\ x.kind = "writer" => x.base = base /\ x.largest = accepted[base].largest
    BY <1>16 DEF OpenDownloads, ViewDownloads, DecryptFileSmall
  <2>3. accepted[base].largest \in Nat
    <3>1. accepted[base] \in Versions
      BY DEF IInv, HistoryInv, Downloads
    <3> QED
      BY <3>1, VersionFields
  <2>4. F
    BY <1>2, <2>1, <2>2, <2>3
  <2> QED
    BY <1>14, <2>1, <2>4
<1>17. ASSUME NEW o \in Ops, NEW kind, NEW f, NEW step, NEW v, Begin(o, kind, f, step, v),
              kind \in Making => Covered(v)
       PROVE  A /\ D /\ O /\ F
  <2> DEFINE r == [kind |-> kind, file |-> f, step |-> step, seen |-> 0, version |-> v]
  <2>1. op' = [op EXCEPT ![o] = r] /\ UNCHANGED <<accepted, delayed, file>>
    BY <1>17 DEF Begin
  <2>2. r.kind = kind /\ r.version = v
    OBVIOUS
  <2> HIDE DEF r
  <2>3. \A p \in Ops : op'[p] = IF p = o THEN r ELSE op[p]
    BY <1>2, <2>1
  <2>4. O
    BY <1>17, <2>1, <2>2, <2>3
  <2> QED
    BY <2>1, <2>4
<1>18. ASSUME NEW o \in Ops, NEW f \in Files, OpenIndependentFileSmall(o, f) \/ ViewIndependentFileSmall(o, f)
       PROVE  A /\ D /\ O /\ F
  BY <1>17, <1>18 DEF OpenIndependentFileSmall, ViewIndependentFileSmall
<1>19. ASSUME NEW o \in Ops, NEW f \in Files, NEW size \in Sizes, CreateIndependentFileSmall(o, f, size)
       PROVE  A /\ D /\ O /\ F
  <2> DEFINE v == NewVersion(InitialRevision, 0, 0, size, size)
  <2>1. Begin(o, "create", f, "read", v)
    BY <1>19 DEF CreateIndependentFileSmall
  <2>2. Covered(v)
    <3>1. size \in Nat
      BY SizesAssumption DEF SizesAssumption
    <3>2. v.size = size /\ v.largest = size /\ v.base = 0
      BY DEF NewVersion
    <3> HIDE DEF v
    <3> QED
      BY <3>1, <3>2 DEF Covered
  <2> HIDE DEF v
  <2> QED
    BY <1>17, <2>1, <2>2
<1>20. ASSUME NEW o \in Ops, NEW f \in Files, NEW size \in Sizes, OverwriteIndependentFileSmall(o, f, size)
       PROVE  A /\ D /\ O /\ F
  <2> DEFINE x == file[f]
             v == NewVersion(NextRevision(x.revision, size), x.entry, x.base, size,
                             Larger(size, x.largest))
  <2>1. Begin(o, "overwrite", f, "upload", v) /\ x.kind = "writer"
    BY <1>20 DEF OverwriteIndependentFileSmall
  <2>2. Covered(v)
    <3>1. size \in Nat /\ x.largest \in Nat
      BY <1>2, SizesAssumption DEF FileState, SizesAssumption
    <3>2. x.base \in 1 .. Len(accepted) /\ x.largest >= accepted[x.base].largest
      BY <2>1 DEF IInv, FileGood, SizesInv
    <3>3. accepted[x.base].largest \in Nat
      <4>1. accepted[x.base] \in Versions
        BY <3>2 DEF IInv, HistoryInv
      <4> QED
        BY <4>1, VersionFields
    <3>4. v.size = size /\ v.largest = Larger(size, x.largest) /\ v.base = x.base
      BY DEF NewVersion
    <3> HIDE DEF v, x
    <3> QED
      BY <3>1, <3>2, <3>3, <3>4 DEF Covered, Larger
  <2> HIDE DEF v
  <2> QED
    BY <1>17, <2>1, <2>2
<1> QED
  BY <1>5, <1>6, <1>7, <1>9, <1>10, <1>12, <1>13, <1>15, <1>16, <1>18, <1>19, <1>20 DEF Next

LEMMA NextSizes ==
    ASSUME IInv, SizesInv, [Next]_vars
    PROVE  (IInv /\ SizesInv)'
<1>1. IInv'
  BY NextInv
<1>2. SizesInv'
  BY <1>1, SizesStep
<1> QED
  BY <1>1, <1>2

LEMMA SizesHold == Spec => [](IInv /\ SizesInv)
<1>1. Init => IInv /\ SizesInv
  <2>1. SUFFICES ASSUME Init PROVE IInv /\ SizesInv
    OBVIOUS
  <2>2. /\ accepted = <<>> /\ Len(accepted) = 0 /\ delayed = {}
        /\ file = [f \in Files |-> Closed] /\ op = [o \in Ops |-> NoOp]
    BY <2>1 DEF Init
  <2>3. SizesInv
    BY <2>2 DEF SizesInv, Closed, NoOp
  <2> QED
    BY <2>1, <2>3, InitInv
<1>2. IInv /\ SizesInv /\ [Next]_vars => (IInv /\ SizesInv)'
  BY NextSizes
<1> QED
  BY <1>1, <1>2, PTL DEF Spec

LEMMA VersionsTyped == ASSUME NEW v \in Versions PROVE v \in Version /\ v.padded >= v.largest
<1>1. PICK r \in 0 .. MaxRevision, e \in Nat, b \in Nat, s \in Sizes, l \in Nat :
        v = NewVersion(r, e, b, s, l)
  BY DEF Versions
<1>2. s \in Nat /\ r \in Nat
  BY RevisionAssumption, SizesAssumption DEF SizesAssumption, RevisionAssumption
<1>3. v.padded \in Nat /\ v.padded >= l
  BY <1>1, <1>2, VersionCovers
<1>4. /\ v = [revision |-> r, entry |-> e, base |-> b, size |-> s, largest |-> l,
             padded |-> v.padded]
      /\ v.largest = l
  BY <1>1 DEF NewVersion
<1> QED
  BY <1>2, <1>3, <1>4 DEF Version

\* Every variable has its type; a size, with all its padding, is a number.
THEOREM FilesTyped == Spec => []TypeOK
<1>1. IInv => TypeOK
  <2>1. SUFFICES ASSUME IInv PROVE TypeOK
    OBVIOUS
  <2>2. Versions \subseteq Version /\ NoVersion \in Version
    BY VersionsTyped DEF NoVersion, Version
  <2>3. accepted \in Seq(Version)
    <3>1. accepted \in Seq(Versions)
      BY <2>1 DEF IInv, HistoryInv
    <3> QED
      BY <2>2, <3>1
  <2>4. delayed \subseteq Version
    BY <2>1, <2>2 DEF IInv, Claimed
  <2>5. FileState \subseteq File
    BY RevisionAssumption DEF FileState, File, RevisionAssumption
  <2>6. OpState \subseteq [kind : Kinds, file : Files \cup {Null}, step : Steps, seen : Nat, version : Version]
    BY <2>2 DEF OpState
  <2>7. file \in [Files -> File]
    BY <2>1, <2>5 DEF IInv
  <2>8. op \in [Ops -> [kind : Kinds, file : Files \cup {Null}, step : Steps, seen : Nat, version : Version]]
    BY <2>1, <2>6 DEF IInv
  <2> QED
    BY <2>3, <2>4, <2>7, <2>8 DEF TypeOK
<1> QED
  BY <1>1, Invariant, PTL

\* The size that an onlooker sees never tells that a file was shorter than it has
\* been since a writer last had data older than the entry it had read, whatever the
\* sizes, though each writer knows only what it has read.
THEOREM HistoryIsCovered == Spec => []HistoryCovered
<1>1. IInv /\ SizesInv => HistoryCovered
  <2>1. SUFFICES ASSUME IInv, SizesInv, NEW j \in 1 .. Len(accepted), NEW i \in 1 .. j,
                        \A k \in i + 1 .. j : ~Stale(accepted[k])
                 PROVE  accepted[j].largest >= accepted[i].size /\ accepted[j].padded >= accepted[i].size
    BY DEF HistoryCovered
  <2>2. Len(accepted) \in Nat /\ \A k \in 1 .. Len(accepted) : accepted[k] \in Versions
    BY <2>1 DEF IInv, HistoryInv
  <2>3. i \in 1 .. Len(accepted) /\ i <= j
    BY <2>2
  <2>4. /\ accepted[i].size \in Nat /\ accepted[i].largest \in Nat
        /\ accepted[j].largest \in Nat
        /\ accepted[j].padded \in Nat /\ accepted[j].padded >= accepted[j].largest
    BY <2>2, <2>3, VersionsTyped DEF Version
  <2>5. accepted[i].size <= accepted[i].largest /\ accepted[i].largest <= accepted[j].largest
    BY <2>1, <2>3 DEF SizesInv, FreshBetween
  <2>6. ASSUME NEW a \in Nat, NEW b \in Nat, NEW c \in Nat, NEW d \in Nat, a <= b, b <= c, d >= c
        PROVE  c >= a /\ d >= a
    BY <2>6
  <2> QED
    BY <2>4, <2>5, <2>6
<1> QED
  BY <1>1, SizesHold, PTL
==============================================================================
