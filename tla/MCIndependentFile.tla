---- MODULE MCIndependentFile ----
EXTENDS IndependentFile, TLC

\* Revisions 0, 2, 3, 5, ...
MCIncrement == [r \in 0 .. MaxRevision |-> IF r = 0 THEN 1 ELSE IF r = 3 THEN 1 ELSE 0]

\* "", "1", "12", "23", "3", "1_" and strings of a two-byte character.
MCTags ==
    {<<>>, <<49>>, <<49, 50>>, <<50, 51>>, <<51>>, <<49, 95>>}
        \cup {[i \in 1 .. n |-> 233] : n \in {72, 128, 200}}

\* Bytes that differ everywhere, and in one word only.
MCEntropies ==
    {[i \in 1 .. 13 |-> (i * 37) % 256], [i \in 1 .. 13 |-> 255],
     [i \in 1 .. 13 |-> IF i = 1 THEN 254 ELSE 255], [i \in 1 .. 13 |-> IF i = 13 THEN 0 ELSE 255]}

MCSha512(bytes) ==
    LET sum[i \in 0 .. 16] == IF i = 0 THEN 1 ELSE ((sum[i - 1] * 31) + bytes[i] + 7) % 16777216
    IN  <<sum[16] \div 65536, (sum[16] \div 256) % 256, sum[16] % 256>>

Symmetry == Permutations(Files) \cup Permutations(Ops)
==================================
