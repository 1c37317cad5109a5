--------------------------- MODULE MCKernelRequests ---------------------------
EXTENDS KernelRequests

CONSTANTS r1, r2    \* the requests

MCAsks == {<<r1, "/favicon.ico", "GET">>,
           <<r2, "/auth.html", "GET">>, <<r2, "/auth.html", "POST">>, <<r2, "/", "GET">>}

\* A list that is refused only because of who sends it.
MCEntries == [list \in Lists |-> {[key |-> TRUE, override |-> TRUE, notes |-> 140]}]
=============================================================================
