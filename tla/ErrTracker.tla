------------------------------ MODULE ErrTracker ------------------------------
(***************************************************************************)
(* libskynet's errTracker.ts: the errors of a portal, of which the most       *)
(* recent are kept, and some of the older ones, drawn at random.            *)
(***************************************************************************)
EXTENDS Naturals, Sequences

CONSTANTS
    MaxErrors,          \* MAX_ERRORS, 1000
    FirstKept           \* how many of the old errors are kept for certain, 25

ASSUME ErrorsAssumption ==
    /\ MaxErrors \in Nat /\ FirstKept \in Nat
    /\ MaxErrors % 2 = 0 /\ MaxErrors >= 2
    /\ FirstKept <= MaxErrors \div 2

Half == MaxErrors \div 2

ErrTrackers(Err) == [recentErrs : Seq(Err), oldErrs : Seq(Err)]

NewErrTracker == [recentErrs |-> <<>>, oldErrs |-> <<>>]

\* Mutant: an error is drawn although there is no place left for it.
KeepsUnbounded(oldErrs, drawn) == Len(oldErrs) < FirstKept \/ drawn

\* An error is kept if its number is drawn, which is the less likely the more
\* there are and impossible once there are Half, or if it is among the first.
Keeps(oldErrs, drawn) == Len(oldErrs) < FirstKept \/ (drawn /\ Len(oldErrs) < Half)

\* The old errors after the first n of the recent were kept or tossed; draws says
\* which are drawn.
Moved(oldErrs, recentErrs, draws) ==
    LET after[n \in 0 .. Len(recentErrs)] ==
            IF n = 0
            THEN oldErrs
            ELSE LET before == after[n - 1]
                 IN  IF Keeps(before, n \in draws) THEN Append(before, recentErrs[n]) ELSE before
    IN  after

\* The middle one of the recent errors is pruned as well.
PruneEnd(length) == (length \div 2) + 1

AddHistoricErr(et, err, draws) ==
    LET recent == Append(et.recentErrs, err)
        pruned == PruneEnd(Len(recent))
    IN  IF Len(recent) < Half
        THEN [et EXCEPT !.recentErrs = recent]
        ELSE [recentErrs |-> SubSeq(recent, pruned + 1, Len(recent)),
              oldErrs |-> Moved(et.oldErrs, recent, draws)[
                              IF pruned < Len(recent) THEN pruned ELSE Len(recent)]]

ViewErrs(et) == et.oldErrs \o et.recentErrs

\* Everything that can be drawn when an error is added.
Draws(et) ==
    IF Len(et.recentErrs) + 1 < Half THEN {{}} ELSE SUBSET (1 .. PruneEnd(Len(et.recentErrs) + 1))
=============================================================================
