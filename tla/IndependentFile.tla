--------------------------- MODULE IndependentFile ---------------------------
(***************************************************************************)
(* libkmodule's independentFile.ts: one small file, encrypted and uploaded   *)
(* whole at every write, to which a registry entry points.  Several file     *)
(* objects, in several browsers, are open on it, and any number of calls may *)
(* be under way, also on one object.                                       *)
(*                                                                         *)
(* The registry is external: it takes a write only if its revision is higher *)
(* than what it has.  A request may be taken, lost, or taken after the call   *)
(* has failed; what was read of it may be older than what it has, and a      *)
(* download, for which the link is resolved again, older than that.  A write *)
(* is a version; its entry is the one whose revision the writer had, its base *)
(* the one whose data and metadata it had.                                 *)
(***************************************************************************)
EXTENDS Registry, FiniteSets

CONSTANTS
    Files,              \* file objects
    Ops,                \* calls
    Sizes,              \* sizes of the data that is written
    InitialRevision,    \* what the seed and the inode make of it
    Increment,          \* of each revision: the byte that the seed makes of it
    MaxRevision,        \* the largest revision that encodeU64 takes
    MaxDelayed,         \* bound: requests that outlive their calls
    Null

ASSUME RevisionAssumption ==
    /\ MaxRevision \in Nat
    /\ InitialRevision \in 0 .. MaxRevision
    /\ Increment \in [0 .. MaxRevision -> 0 .. 255]

ASSUME SizesAssumption == Sizes \subseteq Nat

VARIABLES
    accepted,           \* the registry entry: the versions it took, in order
    delayed,            \* versions on their way though their call has ended
    file,               \* of each file object: what it holds
    op                  \* of each call: where it is

vars == <<accepted, delayed, file, op>>

Version == [revision : Nat, entry : Nat, base : Nat, size : Nat, largest : Nat, padded : Nat]

NoVersion == [revision |-> 0, entry |-> 0, base |-> 0, size |-> 0, largest |-> 0, padded |-> 0]

File ==
    [kind : {"closed", "writer", "viewer"}, revision : Nat, entry : Nat, base : Nat, largest : Nat]

Closed == [kind |-> "closed", revision |-> 0, entry |-> 0, base |-> 0, largest |-> 0]

Kinds == {"none", "create", "open", "view", "overwrite"}

Steps == {"idle", "read", "download", "upload", "write", "taken"}

NoOp == [kind |-> "none", file |-> Null, step |-> "idle", seen |-> 0, version |-> NoVersion]

----------------------------------------------------------------------------
(* Revisions and sizes.                                                    *)

\* Mutant: the increment is drawn at random, here from the data.
NextRevisionRandom(revision, size) == revision + Increment[revision] + (size % 3) + 1

\* The increment depends on the seed, the inode and the revision alone.
NextRevision(revision, size) == revision + Increment[revision] + 1

Larger(m, n) == IF m > n THEN m ELSE n

Digits[n \in Nat] == IF n < 10 THEN 1 ELSE 1 + Digits[n \div 10]

\* {"largestHistoricSize":...}
MetadataSize(largest) == 24 + Digits[largest]

NewVersion(revision, entry, base, size, largest) ==
    [revision |-> revision, entry |-> entry, base |-> base, size |-> size, largest |-> largest,
     padded |-> EncryptedSize(MetadataSize(largest), size, largest)]

\* secure-upload takes no more.
MaxUpload == 4000000

----------------------------------------------------------------------------
(* The registry and the network.                                           *)

Latest == IF accepted = <<>> THEN NoVersion ELSE accepted[Len(accepted)]

Takes(version) == accepted = <<>> \/ version.revision > Latest.revision

\* Mutant: the revision is dropped as well.
RegistryReadNoRevision(seen) ==
    [exists |-> seen # 0, deleted |-> "undefined", revision |-> Null]

\* What registryRead makes of an entry: the field deleted of the module's
\* answer is dropped.  0 stands for no entry, a 404.
RegistryRead(seen) ==
    [exists |-> seen # 0, deleted |-> "undefined",
     revision |-> IF seen = 0 THEN 0 ELSE accepted[seen].revision]

\* The versions that a download may return, whatever entry was read before it: the
\* skylink is resolved anew, by a portal that may have an older entry.
Downloads == 1 .. Len(accepted)

\* What decryptFileSmall returns of a version: the data, for which the version
\* stands, and the metadata; the revision that was encrypted with them is not
\* looked at.
DecryptFileSmall(base) == [base |-> base, largest |-> accepted[base].largest]

RegistryTakes(o) ==
    /\ op[o].step = "write" /\ Takes(op[o].version)
    /\ accepted' = Append(accepted, op[o].version)
    /\ op' = [op EXCEPT ![o].step = "taken", ![o].seen = Len(accepted) + 1]
    /\ UNCHANGED <<delayed, file>>

\* A request arrives after its call failed or its document was closed.
DelayedArrives(version) ==
    /\ version \in delayed
    /\ delayed' = delayed \ {version}
    /\ accepted' = IF Takes(version) THEN Append(accepted, version) ELSE accepted
    /\ UNCHANGED <<file, op>>

\* The writes that are under way among some calls.
Writes(ops) == {op[o].version : o \in {p \in ops : op[p].step = "write"}}

\* Calls end; any of their requests may still arrive.
Abandon(ops) ==
    /\ op' = [o \in Ops |-> IF o \in ops THEN NoOp ELSE op[o]]
    /\ \E sent \in SUBSET Writes(ops) :
        Cardinality(delayed \cup sent) <= MaxDelayed /\ delayed' = delayed \cup sent

\* A call can fail wherever it waits for the kernel.  A write that failed may
\* have been taken, or may still be.
Fails(o) ==
    /\ op[o].step # "idle"
    /\ Abandon({o})
    /\ UNCHANGED <<accepted, file>>

\* The document of an object is closed, with its calls.
Crash(f) ==
    LET own == {o \in Ops : op[o].file = f}
    IN  /\ file[f].kind # "closed" \/ own # {}
        /\ file' = [file EXCEPT ![f] = Closed]
        /\ Abandon(own)
        /\ UNCHANGED accepted

----------------------------------------------------------------------------
(* The calls.                                                              *)

Begin(o, kind, f, step, version) ==
    /\ op[o].step = "idle"
    /\ op' = [op EXCEPT ![o] = [kind |-> kind, file |-> f, step |-> step, seen |-> 0,
                                version |-> version]]
    /\ UNCHANGED <<accepted, delayed, file>>

\* An object is made by one call.
Unclaimed(f) ==
    file[f].kind = "closed" /\ \A o \in Ops : op[o].step # "idle" => op[o].file # f

CreateIndependentFileSmall(o, f, size) ==
    /\ Unclaimed(f)
    /\ Begin(o, "create", f, "read", NewVersion(InitialRevision, 0, 0, size, size))

\* "exists" is returned for an entry that is there and not deleted.
CreateReads(o, seen) ==
    LET result == RegistryRead(seen)
    IN  /\ op[o].kind = "create" /\ op[o].step = "read"
        /\ op' = [op EXCEPT ![o] = IF result.exists /\ result.deleted = "false"
                                   THEN NoOp
                                   ELSE [@ EXCEPT !.step = "upload", !.seen = seen]]
        /\ UNCHANGED <<accepted, delayed, file>>

OpenIndependentFileSmall(o, f) == Unclaimed(f) /\ Begin(o, "open", f, "read", NoVersion)

\* Without an entry the call ends with "DNE".
OpenReads(o, seen) ==
    LET result == RegistryRead(seen)
    IN  /\ op[o].kind = "open" /\ op[o].step = "read"
        /\ op' = [op EXCEPT ![o] = IF ~result.exists \/ result.deleted = "true"
                                   THEN NoOp
                                   ELSE [@ EXCEPT !.step = "download", !.seen = seen]]
        /\ UNCHANGED <<accepted, delayed, file>>

\* The revision is that of the entry that was read before the download.
OpenDownloads(o, base) ==
    /\ op[o].kind = "open" /\ op[o].step = "download"
    /\ file' = [file EXCEPT ![op[o].file] =
                    [kind |-> "writer", revision |-> RegistryRead(op[o].seen).revision,
                     entry |-> op[o].seen, base |-> DecryptFileSmall(base).base,
                     largest |-> DecryptFileSmall(base).largest]]
    /\ op' = [op EXCEPT ![o] = NoOp]
    /\ UNCHANGED <<accepted, delayed>>

ViewIndependentFileSmall(o, f) == Unclaimed(f) /\ Begin(o, "view", f, "download", NoVersion)

ViewDownloads(o, base) ==
    /\ op[o].kind = "view" /\ op[o].step = "download"
    /\ file' = [file EXCEPT ![op[o].file] =
                    [kind |-> "viewer", revision |-> 0, entry |-> 0,
                     base |-> DecryptFileSmall(base).base, largest |-> 0]]
    /\ op' = [op EXCEPT ![o] = NoOp]
    /\ UNCHANGED <<accepted, delayed>>

\* The new version is computed from the object before anything is awaited.
OverwriteIndependentFileSmall(o, f, size) ==
    LET revision == NextRevision(file[f].revision, size)
    IN  /\ file[f].kind = "writer" /\ revision <= MaxRevision
        /\ Begin(o, "overwrite", f, "upload",
                 NewVersion(revision, file[f].entry, file[f].base, size,
                            Larger(size, file[f].largest)))

Upload(o) ==
    /\ op[o].step = "upload" /\ op[o].version.padded <= MaxUpload
    /\ op' = [op EXCEPT ![o].step = "write"]
    /\ UNCHANGED <<accepted, delayed, file>>

\* What an object is after its write: the revision, the metadata and the data that
\* were written.
Written(call) ==
    [kind |-> "writer", revision |-> call.version.revision, entry |-> call.seen,
     base |-> call.seen, largest |-> call.version.largest]

\* The portal said that it took the write: the object is made, or brought up to
\* date.
CreateEnds(o) ==
    /\ op[o].kind = "create" /\ op[o].step = "taken"
    /\ file' = [file EXCEPT ![op[o].file] = Written(op[o])]
    /\ op' = [op EXCEPT ![o] = NoOp]
    /\ UNCHANGED <<accepted, delayed>>

OverwriteEnds(o) ==
    /\ op[o].kind = "overwrite" /\ op[o].step = "taken"
    /\ file' = [file EXCEPT ![op[o].file] = Written(op[o])]
    /\ op' = [op EXCEPT ![o] = NoOp]
    /\ UNCHANGED <<accepted, delayed>>

----------------------------------------------------------------------------
Init ==
    /\ accepted = <<>>
    /\ delayed = {}
    /\ file = [f \in Files |-> Closed]
    /\ op = [o \in Ops |-> NoOp]

Next ==
    \/ \E o \in Ops :
        \/ RegistryTakes(o)
        \/ Fails(o)
        \/ Upload(o)
        \/ CreateEnds(o)
        \/ OverwriteEnds(o)
        \/ \E seen \in 0 .. Len(accepted) :
            \/ CreateReads(o, seen)
            \/ OpenReads(o, seen)
        \/ \E base \in Downloads :
            \/ OpenDownloads(o, base)
            \/ ViewDownloads(o, base)
    \/ \E o \in Ops, f \in Files :
        \/ OpenIndependentFileSmall(o, f)
        \/ ViewIndependentFileSmall(o, f)
        \/ \E size \in Sizes :
            \/ CreateIndependentFileSmall(o, f, size)
            \/ OverwriteIndependentFileSmall(o, f, size)
    \/ \E version \in delayed : DelayedArrives(version)
    \/ \E f \in Files : Crash(f)

Spec == Init /\ [][Next]_vars

----------------------------------------------------------------------------
(* Properties.                                                             *)

\* Types of the variables.
TypeOK ==
    /\ accepted \in Seq(Version)
    /\ delayed \subseteq Version
    /\ file \in [Files -> File]
    /\ op \in [Ops -> [kind : Kinds, file : Files \cup {Null}, step : Steps, seen : Nat, version : Version]]

\* "An outdated version of the file ... is guaranteed to not skip over the
\* revision number of the latest version" (independentFile.ts:25-28): the
\* registry takes the first version with the initial revision and then each with
\* the one revision that follows, whoever writes, however late a request comes.
ConsecutiveRevisions ==
    \A i \in 1 .. Len(accepted) :
        accepted[i].revision =
            IF i = 1 THEN InitialRevision
            ELSE NextRevision(accepted[i - 1].revision, accepted[i].size)

\* The writer had older data than the entry that it had read before them.
Stale(version) == version.base < version.entry

\* Of the versions that race, whatever their writers read, await or retry, one is
\* taken, of a writer that had read the very entry that it replaces; and no write is
\* lost: the writer had the data and the metadata of that entry, unless the
\* download of its object was older than the entry read before it.  That case the
\* code does not exclude, though independentFile.ts:20-26 says that data loss is
\* avoided: see NothingLost.
NoLostUpdate ==
    \A i \in 1 .. Len(accepted) :
        /\ accepted[i].entry = i - 1
        /\ ~Stale(accepted[i]) => accepted[i].base = i - 1

\* A version is never shorter than any before it was: the size that an onlooker
\* sees covers all that the file has held, and the metadata remember it, back to
\* the last version whose writer had older data than the entry it had read.
HistoryCovered ==
    \A j \in 1 .. Len(accepted) : \A i \in 1 .. j :
        (\A k \in i + 1 .. j : ~Stale(accepted[k])) =>
            /\ accepted[j].largest >= accepted[i].size
            /\ accepted[j].padded >= accepted[i].size

\* An object is never behind where it was, whichever of its writes, overlapping
\* or failed, end in which order (independentFile.ts:474-477); it never has a
\* revision or data that the registry did not take.
ObjectsOnlyAdvance ==
    [][\A f \in Files :
        (file'[f].kind = "writer" /\ file'[f] # file[f]) =>
            /\ file[f].kind = "writer" =>
                file'[f].revision > file[f].revision /\ file'[f].base > file[f].base
            /\ file'[f].base \in 1 .. Len(accepted')
            /\ \E i \in 1 .. Len(accepted') : accepted'[i].revision = file'[f].revision]_vars

\* Once there is an entry to be seen, no other user's phrase and no other tags lead
\* to its keys and no other type of file to its name, and its signature fits
\* nothing else, whatever strings the callers chose (registry.ts:110-114, 143-148).
EntriesApart == accepted # <<>> => NamesApart /\ SeedsApart /\ PhrasesRead

\* "We avoid this", the loss of data by an outdated version: not if the version is
\* outdated in its data only.
NothingLost == \A i \in 1 .. Len(accepted) : accepted[i].base = i - 1

\* "If an independent file with the provided inode already exists, an error will
\* be returned": before anything is uploaded.  It is not.
ExistsReturned == \A o \in Ops : op[o].kind = "create" /\ op[o].step = "upload" => op[o].seen = 0

\* minFullSize ensures "a padded file does not shrink between versions".  It
\* does, by the size of header and metadata.
PaddedNeverShrinks ==
    \A i \in 1 .. Len(accepted) - 1 : accepted[i + 1].padded >= accepted[i].padded
=============================================================================
