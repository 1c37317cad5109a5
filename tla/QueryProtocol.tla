--------------------------- MODULE QueryProtocol ---------------------------
(***************************************************************************)
(* What a query promises its caller, whatever carries it: what the reply    *)
(* handlers of libs/libkmodule/src/queries.ts (97-168) rely on.  A query is *)
(* asked once; while it is open the caller may be told the nonce for its    *)
(* queryUpdates, first of all, and may receive updates; one response closes *)
(* it and nothing follows.                                                  *)
(***************************************************************************)
EXTENDS Sequences

CONSTANT Queries

VARIABLES
    phase,  \* per query: idle, open or closed
    heard   \* per query: the methods of the messages its caller received

Init ==
    /\ phase = [n \in Queries |-> "idle"]
    /\ heard = [n \in Queries |-> <<>>]

Hear(n, m) == heard' = [heard EXCEPT ![n] = Append(@, m)]

Become(n, p) == phase' = [phase EXCEPT ![n] = p]

Ask(n) ==
    /\ phase[n] = "idle"
    /\ \/ Become(n, "open") /\ UNCHANGED heard
       \/ Become(n, "open") /\ Hear(n, "responseNonce")
       \/ Become(n, "closed") /\ Hear(n, "response")

TellNonce(n) ==
    /\ phase[n] = "open"
    /\ heard[n] = <<>>
    /\ Hear(n, "responseNonce")
    /\ UNCHANGED phase

Update(n) ==
    /\ phase[n] = "open"
    /\ Hear(n, "responseUpdate")
    /\ UNCHANGED phase

Respond(n) ==
    /\ phase[n] = "open"
    /\ Hear(n, "response")
    /\ Become(n, "closed")

Next == \E n \in Queries : Ask(n) \/ TellNonce(n) \/ Update(n) \/ Respond(n)

Spec == Init /\ [][Next]_<<phase, heard>>
=============================================================================
