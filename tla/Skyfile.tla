------------------------------- MODULE Skyfile -------------------------------
(***************************************************************************)
(* What a skylink says and how a download is checked against it: libskynet's *)
(* skylinkBitfield.ts, merkle.ts, apidownloadverify.ts and                  *)
(* skylinkVerifyResolver.ts, and the layout that uploads write.             *)
(*                                                                         *)
(* Bytes are positions and lengths.  A sector is named, and the Merkle root *)
(* of the bytes lo .. hi - 1 of sector s is the triple <<s, lo, hi>>; a hash *)
(* of anything else is the root of no sector.  Every range that a link can  *)
(* name is a multiple of 4096 bytes, so blocks of that size are the leaves. *)
(***************************************************************************)
EXTENDS Naturals, Sequences

CONSTANT
    Layout              \* of each sector: the sizes that its layout claims, and
                        \* the fields and the filename of its metadata

ASSUME LayoutAssumption ==
    \A s \in DOMAIN Layout :
        Layout[s].size \in Nat /\ Layout[s].metadata \in Nat /\ Layout[s].fanout \in Nat

SECTOR_SIZE == 4194304

BlockSize == 4096

SectorBlocks == SECTOR_SIZE \div BlockSize

LayoutSize == 99

----------------------------------------------------------------------------
(* The bitfield of a skylink: version, mode, fetch size, offset.            *)

BadBitfield == [version |-> 0, offset |-> 0, fetchSize |-> 0]

\* The mode is written in unary: so many ones, then a zero.
Mode(bits) == CHOOSE m \in 0 .. 7 : (bits % 2^(m + 1)) = (2^m) - 1

\* Mutant: the fetch sizes of the modes above 0 start where mode 0 does.
ParseV1NoStart(bits) ==
    LET mode == Mode(bits)
        rest == bits \div 2^(mode + 1)
        increment == IF mode = 0 THEN BlockSize ELSE BlockSize * 2^(mode - 1)
        fetchSize == ((rest % 8) + 1) * increment
        offset == (rest \div 8) * BlockSize * 2^mode
    IN  IF offset + fetchSize > SECTOR_SIZE
        THEN BadBitfield
        ELSE [version |-> 1, offset |-> offset, fetchSize |-> fetchSize]

ParseV1(bits) ==
    LET mode == Mode(bits)
        rest == bits \div 2^(mode + 1)
        increment == IF mode = 0 THEN BlockSize ELSE BlockSize * 2^(mode - 1)
        startSize == IF mode = 0 THEN 0 ELSE 8 * increment
        fetchSize == ((rest % 8) + 1) * increment + startSize
        offset == (rest \div 8) * BlockSize * 2^mode
    IN  IF offset + fetchSize > SECTOR_SIZE
        THEN BadBitfield
        ELSE [version |-> 1, offset |-> offset, fetchSize |-> fetchSize]

\* A version 2 link has no other bit set; eight ones are no mode.
ParseSkylinkBitfield(bitfield) ==
    CASE bitfield = 1 -> [version |-> 2, offset |-> 0, fetchSize |-> 0]
      [] (bitfield % 4) = 0 /\ (bitfield \div 4) % 256 # 255 -> ParseV1(bitfield \div 4)
      [] OTHER -> BadBitfield

ValidateSkylink(link) == ParseSkylinkBitfield(link.bitfield).version # 0

\* The least mode whose largest fetch size covers the data, and how many
\* increments of that mode are needed.  The code's eight cases, one per mode,
\* place the number behind the mode's ones.
SkylinkV1Bitfield(dataSize) ==
    LET mode == CHOOSE m \in 0 .. 7 :
                    /\ dataSize <= 2^(15 + m)
                    /\ \A n \in 0 .. m - 1 : dataSize > 2^(15 + n)
        target == IF mode = 0 THEN dataSize ELSE dataSize - 2^(14 + mode)
        increment == IF mode = 0 THEN BlockSize ELSE 2^(11 + mode)
        downloadNumber == IF target = 0 THEN 0 ELSE (target - 1) \div increment
    IN  (downloadNumber * 2^(3 + mode)) + ((2^mode) - 1) * 4

----------------------------------------------------------------------------
(* Uploads: layout || metadata || file, in a sector of their own.           *)

MaxUpload == 4000000

TotalSize(sector) == LayoutSize + Layout[sector].metadata + Layout[sector].size

\* A path is the sequence of its elements, which slashes divide.
ValidateSkyfilePath(path) == \A i \in DOMAIN path : path[i] \notin {"", ".", ".."}

\* Everything that would need subfiles is refused.
ValidateSkyfileMetadata(fields, filename) ==
    /\ "Filename" \in fields
    /\ ValidateSkyfilePath(filename)
    /\ fields \cap {"Subfiles", "DefaultPath", "TryFiles", "ErrorPages"} = {}

UploadAccepted(sector, fields) ==
    /\ Layout[sector].size <= MaxUpload
    /\ ValidateSkyfileMetadata(fields, Layout[sector].filename)
    /\ TotalSize(sector) <= SECTOR_SIZE

\* The Merkle root of the whole sector; nothing but zeroes follows the file.
SectorRoot(sector) == <<sector, 0, SECTOR_SIZE>>

UploadedLink(sector) ==
    [bitfield |-> SkylinkV1Bitfield(TotalSize(sector)), root |-> SectorRoot(sector)]

----------------------------------------------------------------------------
(* The proof stack: subtrees of decreasing size, the last the smallest.     *)

NoRoot == <<"", 0, 0>>

Subtree == [size : Nat, root : (DOMAIN Layout \cup {""}) \X Nat \X Nat]

Combine(left, right) ==
    [size |-> 2 * left.size,
     root |-> IF left.root[1] = right.root[1] /\ left.root[3] = right.root[2]
              THEN <<left.root[1], left.root[2], right.root[3]>>
              ELSE NoRoot]

\* The last subtree was just added: it is combined with those of its size.  A
\* subtree larger than the one before it cannot be added; the result is then
\* no stack.
AddSubtreeToProofStack[stack \in Seq(Subtree)] ==
    LET n == Len(stack)
        size(i) == stack[i].size
    IN  IF n < 2 \/ size(n) < size(n - 1)
        THEN stack
        ELSE IF size(n) > size(n - 1)
             THEN <<>>
             ELSE AddSubtreeToProofStack[
                      Append(SubSeq(stack, 1, n - 2), Combine(stack[n - 1], stack[n]))]

\* The largest subtree that begins at start, holds nothing before it and ends
\* by end: a power of two that divides start.
TreeSizes == {2^k : k \in 0 .. 10}

NextSubtreeSize(start, end) ==
    LET fits(s) == (start % s) = 0 /\ s <= end - start
    IN  CHOOSE s \in TreeSizes : fits(s) /\ ~fits(2 * s)

SubtreeAt(sector, start, blocks) ==
    [size |-> blocks, root |-> <<sector, start * BlockSize, (start + blocks) * BlockSize>>]

\* How many subtrees complete a sector of which some blocks are known.
TrailingSubtrees[blocks \in 0 .. SectorBlocks] ==
    IF blocks = SectorBlocks
    THEN 0
    ELSE 1 + TrailingSubtrees[blocks + NextSubtreeSize(blocks, SectorBlocks)]

\* The stack while it is built: known blocks of the sector are in it.
Building == [sector : DOMAIN Layout, known : 0 .. SectorBlocks, stack : Seq(Subtree), more : Nat]

AddBlocks(b, size) ==
    [b EXCEPT !.known = @ + size, !.more = @ - 1,
              !.stack = AddSubtreeToProofStack[Append(@, SubtreeAt(b.sector, b.known, size))]]

\* The data, block by block: as much as fits in the sector.
DataStack[b \in {b \in Building : b.known + b.more <= SectorBlocks}] ==
    IF b.more = 0 THEN b ELSE DataStack[AddBlocks(b, 1)]

\* The subtrees of the proof, until the sector is complete; <<>> if there are
\* too few.
ProofStack[b \in Building] ==
    IF b.known = SectorBlocks \/ b.stack = <<>>
    THEN b.stack
    ELSE IF b.more = 0
         THEN <<>>
         ELSE ProofStack[AddBlocks(b, NextSubtreeSize(b.known, SectorBlocks))]

SectorStack(sector, blocks, segments) ==
    ProofStack[[DataStack[[sector |-> sector, known |-> 0, stack |-> <<>>, more |-> blocks]]
                    EXCEPT !.more = segments]]

\* blake2bVerifySectorRangeProof as verifyDownload calls it, with the fetch size
\* for the end of the range: a range that does not begin at 0 fails the check
\* of its length.  The stack's root is not compared with the root of the link.
VerifySectorRangeProof(body, offset, fetchSize) ==
    LET proof == body.length - fetchSize
    IN  /\ offset = 0
        /\ fetchSize > 0
        /\ (proof % 32) = 0
        /\ SectorStack(body.sector, fetchSize \div BlockSize, proof \div 32) # <<>>

----------------------------------------------------------------------------
(* Downloads.  A body is what a portal sends: some bytes of a sector, or of  *)
(* what it gives out for one, then the proof.                              *)

NoFile == [sector |-> "", from |-> 0, to |-> 0]

\* Where the file is among the bytes of its sector.
FileRange(layout) ==
    LET from == LayoutSize + layout.metadata + layout.fanout
    IN  [from |-> from, to |-> from + layout.size]

\* Which bytes of the body are returned, and who is to blame if none are.
VerifyDownload(body, offset, fetchSize) ==
    IF \/ body.length < fetchSize
       \/ body.length < LayoutSize
       \/ ~VerifySectorRangeProof(body, offset, fetchSize)
    THEN [file |-> NoFile, portalAtFault |-> TRUE, err |-> TRUE]
    ELSE IF fetchSize < FileRange(Layout[body.sector]).to
         THEN [file |-> NoFile, portalAtFault |-> FALSE, err |-> TRUE]
         ELSE [file |-> [sector |-> body.sector,
                         from |-> FileRange(Layout[body.sector]).from, to |-> FileRange(Layout[body.sector]).to],
               portalAtFault |-> FALSE, err |-> FALSE]

----------------------------------------------------------------------------
(* Resolver links: each proof is a registry entry that names the next link. *)

NoLink == [bitfield |-> 2, root |-> NoRoot]

\* A proof fits a link if the entry it shows has the link's ID, the signature
\* holds, and what it holds is a link.
VerifyResolverLinkProof(link, proof) ==
    IF proof.entryID = link.root /\ proof.signed /\ ValidateSkylink(proof.data)
    THEN proof.data
    ELSE NoLink

\* Where a chain of proofs leads; NoLink once a proof does not fit.
LinkAfter(link, proofs) ==
    LET step[n \in 0 .. Len(proofs)] ==
            IF n = 0 THEN link ELSE VerifyResolverLinkProof(step[n - 1], proofs[n])
    IN  step[Len(proofs)]

VerifyResolverLinkProofs(link, proofs) ==
    LET final == LinkAfter(link, proofs)
    IN  IF proofs # <<>> /\ ParseSkylinkBitfield(final.bitfield).version = 1
        THEN final
        ELSE NoLink
=============================================================================
