--------------------------------- MODULE Seed ---------------------------------
(***************************************************************************)
(* Seed phrases: libskynet's seed.ts, and the random phrases of libskynetnode. *)
(* A phrase is fifteen words: thirteen hold a seed of sixteen bytes, two its *)
(* checksum.                                                               *)
(*                                                                         *)
(* A word is its place in the dictionary; only its first three letters are   *)
(* looked at, so words that begin alike are the same number, and a word that *)
(* begins like none of the dictionary is -1.                               *)
(***************************************************************************)
EXTENDS Integers, Sequences, SequencesExt

CONSTANTS
    Sha512(_),          \* of a seed: the bytes of its hash, those at 1 .. 3 matter
    Entropies           \* hashes of passwords: sequences of bytes

SEED_ENTROPY_WORDS == 13

SEED_BYTES == 16

DictionaryLength == 1024

UnknownWord == -1

NoSeed == <<>>

\* How many bits of a seed a word holds: the thirteenth holds eight.
WordBits(i) == IF i = SEED_ENTROPY_WORDS THEN 8 ELSE 10

\* Bit n of thirteen words, the highest bit of the first word first.
BitOfWords(seedWords, n) ==
    LET i == (n \div 10) + 1
    IN  (seedWords[i] \div 2^(WordBits(i) - 1 - (n % 10))) % 2

\* The eight bits from bit n on.
ByteOfWords(seedWords, n) ==
    LET value[bits \in 0 .. 8] ==
            IF bits = 0 THEN 0 ELSE (2 * value[bits - 1]) + BitOfWords(seedWords, n + bits - 1)
    IN  value[8]

\* The seed of thirteen words; NoSeed if their number or one of them is wrong.
SeedWordsToSeed(seedWords) ==
    IF Len(seedWords) # SEED_ENTROPY_WORDS \/ UnknownWord \in ToSet(seedWords)
    THEN NoSeed
    ELSE [b \in 1 .. SEED_BYTES |-> ByteOfWords(seedWords, 8 * (b - 1))]

\* The first twenty bits of the hash make two words.
SeedToChecksumWords(seed) ==
    LET h == Sha512(seed)
    IN  <<((h[1] * 256) + h[2]) \div 64, ((h[2] % 64) * 16) + (h[3] \div 16)>>

\* The phrase of a password, by the hash of the password.
GenerateSeedPhraseDeterministic(entropy) ==
    LET seedWords == [i \in 1 .. SEED_ENTROPY_WORDS |->
                        entropy[i] % (IF i = SEED_ENTROPY_WORDS THEN DictionaryLength \div 4
                                      ELSE DictionaryLength)]
    IN  seedWords \o SeedToChecksumWords(SeedWordsToSeed(seedWords))

\* A phrase with a missing checksum word makes the code throw.
SeedPhraseThrows(phrase) ==
    /\ Len(phrase) \in {SEED_ENTROPY_WORDS, SEED_ENTROPY_WORDS + 1}
    /\ UnknownWord \notin ToSet(SubSeq(phrase, 1, SEED_ENTROPY_WORDS))

\* Words behind the fifteenth are not looked at.
SeedPhraseToSeed(phrase) ==
    LET seed == SeedWordsToSeed(SubSeq(phrase, 1, IF Len(phrase) < SEED_ENTROPY_WORDS
                                                  THEN Len(phrase) ELSE SEED_ENTROPY_WORDS))
    IN  IF /\ seed # NoSeed
           /\ Len(phrase) >= SEED_ENTROPY_WORDS + 2
           /\ SubSeq(phrase, SEED_ENTROPY_WORDS + 1, SEED_ENTROPY_WORDS + 2) = SeedToChecksumWords(seed)
        THEN seed
        ELSE NoSeed

ValidSeedPhrase(phrase) == SeedPhraseToSeed(phrase) # NoSeed

----------------------------------------------------------------------------
(* Properties.                                                             *)

Phrases == {GenerateSeedPhraseDeterministic(entropy) : entropy \in Entropies}

\* Another word at one place: the next one, or one that is in no dictionary.
Misspelt(phrase, i) ==
    {[phrase EXCEPT ![i] = word] : word \in {(phrase[i] + 1) % DictionaryLength, UnknownWord}}

\* A phrase that was generated can be read, two of them never give one seed, and
\* with a wrong word anywhere, or without its last words, a phrase is refused or
\* gives another seed.  Of the thirteenth word only its place among the first 256
\* counts.
PhrasesRead ==
    \A phrase \in Phrases :
        LET seed == SeedPhraseToSeed(phrase)
        IN  /\ ValidSeedPhrase(phrase)
            /\ \A other \in Phrases : SeedPhraseToSeed(other) = seed => other = phrase
            /\ \A i \in DOMAIN phrase : \A wrong \in Misspelt(phrase, i) :
                SeedPhraseToSeed(wrong) # seed
            /\ \A n \in 0 .. Len(phrase) - 1 : ~ValidSeedPhrase(SubSeq(phrase, 1, n))
            /\ SeedPhraseToSeed([phrase EXCEPT ![SEED_ENTROPY_WORDS] = @ + 256]) = seed

\* seedPhraseToSeed converts "a seed phrase to a Uint8Array, returning an error if
\* the seedPhrase is invalid" (seed.ts:83-84).  Without a checksum word it throws.
PhrasesNeverThrow ==
    \A phrase \in Phrases : \A n \in DOMAIN phrase : ~SeedPhraseThrows(SubSeq(phrase, 1, n))
===============================================================================
