------------------------------- MODULE Registry -------------------------------
(***************************************************************************)
(* Names, keys and signatures of registry entries, and the size of encrypted *)
(* files: libskynet's registry.ts, inode.ts, filePrivate.ts and encoding.ts. *)
(*                                                                         *)
(* Bytes are numbers; a string is a sequence of code points.  A hash is      *)
(* stood for by the bytes that are hashed, so that two hashes are equal when *)
(* the same bytes go in.                                                   *)
(***************************************************************************)
EXTENDS Seed

CONSTANT
    Tags                \* the strings that names and keys are made of

FiletypeLength == 32

MaxTagLength == 255

----------------------------------------------------------------------------
(* Encodings.                                                              *)

\* TextEncoder().encode, for code points of one and two bytes.
Utf8(char) == IF char < 128 THEN <<char>> ELSE <<192 + (char \div 64), 128 + (char % 64)>>

Encode(string) == FlattenSeq([i \in 1 .. Len(string) |-> Utf8(string[i])])

\* What is left of a number when its lowest bytes are dropped.
Shifted[num \in Nat, bytes \in 0 .. 7] ==
    IF bytes = 0 THEN num ELSE Shifted[num \div 256, bytes - 1]

\* Eight bytes, the lowest first.
EncodeU64(num) == [i \in 1 .. 8 |-> Shifted[num, i - 1] % 256]

\* Horner's rule from the highest byte down.
DecodeU64(u8) ==
    LET num[i \in 1 .. 9] == IF i = 9 THEN 0 ELSE (num[i + 1] * 256) + u8[i]
    IN  num[1]

EncodePrefixedBytes(bytes) == EncodeU64(Len(bytes)) \o bytes

----------------------------------------------------------------------------
(* Keys and signatures.                                                    *)

Underscore == 95

PadEnd(filetype) ==
    [i \in 1 .. FiletypeLength |-> IF i <= Len(filetype) THEN filetype[i] ELSE Underscore]

\* The name under which a file of a type is kept; <<>> if the type is too long.
NamespaceInode(filetype, inode) ==
    IF Len(filetype) > FiletypeLength THEN <<>> ELSE Encode(PadEnd(filetype) \o inode)

\* Mutant: no prefix says where the first tag ends.
DataKeyNoLength(seed, keypairTag, dataKeyTag) == seed \o Encode(keypairTag) \o Encode(dataKeyTag)

\* The length of the first tag is written into one byte.
DataKey(seed, keypairTag, dataKeyTag) ==
    seed \o <<Len(Encode(keypairTag)) % 256>> \o Encode(keypairTag) \o Encode(dataKeyTag)

Keypair(seed, keypairTag) ==
    [public |-> <<"public", seed \o Encode(keypairTag)>>,
     secret |-> <<"secret", seed \o Encode(keypairTag)>>]

\* Hashed is the parent seed, " - " and the tag.
DeriveChildSeed(parentSeed, derivationTag) ==
    <<"sha512", parentSeed \o Encode(<<32, 45, 32>> \o derivationTag)>>

EncryptionKey(seed, inode) == DeriveChildSeed(seed, inode)

\* Its first byte is the increment that follows a revision.
RevisionKey(seed, inode, revision) == DeriveChildSeed(seed \o EncodeU64(revision), inode)

DeriveMyskyRootKeypair(userSeed) ==
    LET entropy == <<"sha512", "root discoverable key", <<"sha512", userSeed>>>>
    IN  [public |-> <<"public", entropy>>, secret |-> <<"secret", entropy>>]

\* The keys of the entry for two tags; the first is limited in characters.
TaggedRegistryEntryKeys(seed, keypairTag, dataKeyTag) ==
    [valid |-> Len(keypairTag) <= MaxTagLength,
     keypair |-> Keypair(seed, keypairTag),
     dataKey |-> DataKey(seed, keypairTag, dataKeyTag)]

\* What is signed: the data is between the key and the revision.
DataToSign(dataKey, data, revision) ==
    dataKey \o EncodePrefixedBytes(data) \o EncodeU64(revision)

\* A signature says what was signed and by whom.
ComputeRegistrySignature(keypair, dataKey, data, revision) ==
    <<keypair.public, DataToSign(dataKey, data, revision)>>

VerifyRegistrySignature(public, dataKey, data, revision, signature) ==
    signature = <<public, DataToSign(dataKey, data, revision)>>

DeriveRegistryEntryID(public, dataKey) == <<public, dataKey>>

EntryIDToSkylink(entryID) == [bitfield |-> 1, root |-> entryID]

----------------------------------------------------------------------------
(* The size of an encrypted file: hash, revision, two lengths, metadata and  *)
(* data, rounded up to a size that many files have.                         *)

HeaderSize == 40

\* The block to which a size is rounded up: 4 kib until 80 kib, then double for
\* each doubling of the size.
PaddingBlock[size \in Nat] ==
    IF size <= 81920 THEN 4096 ELSE 2 * PaddingBlock[(size + 1) \div 2]

GetPaddedFileSize(size) ==
    LET block == PaddingBlock[size]
        blocks == (size + block - 1) \div block
    IN  block * (IF blocks = 0 THEN 1 ELSE blocks)

\* Mutant: the least size is not looked at.
EncryptedSizeNoMinimum(metadataSize, size, minFullSize) ==
    GetPaddedFileSize(HeaderSize + metadataSize + size)

EncryptedSize(metadataSize, size, minFullSize) ==
    LET padded == GetPaddedFileSize(HeaderSize + metadataSize + size)
    IN  IF padded < minFullSize THEN GetPaddedFileSize(minFullSize) ELSE padded

----------------------------------------------------------------------------
(* Properties.                                                             *)

UserSeed == [i \in 1 .. SEED_BYTES |-> i]

Keys == [t \in Tags \X Tags |-> TaggedRegistryEntryKeys(UserSeed, t[1], t[2])]

Names == [t \in Tags \X Tags |-> NamespaceInode(t[1], t[2])]

Signed == [t \in Tags \X {0, 1, 255, 256, 65536} |-> DataToSign(UserSeed, Encode(t[1]), t[2])]

\* As far as one byte holds the length of the first tag, two pairs of tags have
\* two data keys, however their characters are divided; the names of files of two
\* types differ unless the types differ in underscores at the end only; what is
\* signed for one entry is not what is signed for another.
NamesApart ==
    /\ \A t, u \in Tags \X Tags :
        (t # u /\ Len(Encode(t[1])) <= MaxTagLength /\ Len(Encode(u[1])) <= MaxTagLength)
        => Keys[t].dataKey # Keys[u].dataKey
    /\ \A t, u \in Tags \X Tags :
        (Names[t] = Names[u] /\ Names[t] # <<>>) => t[2] = u[2] /\ PadEnd(t[1]) = PadEnd(u[1])
    /\ \A t, u \in DOMAIN Signed : Signed[t] = Signed[u] => t = u

\* The users' seeds, and the keys derived from them for the names of files: none is
\* derived twice, neither by two users, nor of two files, nor for encryption and
\* for a revision.
SeedsApart ==
    LET seeds == {SeedPhraseToSeed(phrase) : phrase \in Phrases}
        uses == {<<seed, n, revision>> : seed \in seeds, n \in {Names[t] : t \in DOMAIN Names} \ {<<>>},
                                         revision \in {"none", "zero", "some"}}
        key(use) == CASE use[3] = "none" -> EncryptionKey(use[1], use[2])
                      [] use[3] = "zero" -> RevisionKey(use[1], use[2], 0)
                      [] use[3] = "some" -> RevisionKey(use[1], use[2], 65536)
    IN  /\ Cardinality({key(use) : use \in uses}) = Cardinality(uses)
        /\ Cardinality({DeriveMyskyRootKeypair(seed) : seed \in seeds}) = Cardinality(seeds)

\* "We don't want it to be possible for two different combinations of tags to end
\* up with the same dataKey" (registry.ts:143-144).  A tag of 200 two-byte
\* characters passes the check of its length and has the prefix of one of 72.
KeysApart ==
    \A t, u \in Tags \X Tags :
        (t # u /\ Keys[t].valid /\ Keys[u].valid) => Keys[t].dataKey # Keys[u].dataKey

\* "If the filetype is different, the final result will definitely also be
\* different" (inode.ts:17-18).
FiletypesApart ==
    \A t, u \in Tags \X Tags :
        (t[1] # u[1] /\ t[2] = u[2] /\ Names[t] # <<>>) => Names[t] # Names[u]
=============================================================================
