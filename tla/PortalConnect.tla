---------------------------- MODULE PortalConnect ----------------------------
(***************************************************************************)
(* The module skynet-portal: init.ts and index.ts.  It logs in to every       *)
(* portal, registers where the portal does not know the user, and starts     *)
(* again every 15 minutes, whether or not the earlier attempt has ended.     *)
(*                                                                         *)
(* An attempt is what one timer starts, with the second login after a        *)
(* registration; accounts counts how often it asked for an account.  What a portal answers is chosen when it does: any status,   *)
(* any body, or nothing but a failed request.  The state begins when init has *)
(* run; it reads the list of portals and starts the first attempts at once.  *)
(***************************************************************************)
EXTENDS ErrTracker, FiniteSets

CONSTANTS
    Portals,            \* the list of getUserPortalList
    Queries,            \* queries to the module
    MaxAttempts,        \* bound: attempts at each portal
    MaxOpen,            \* bound: attempts at a portal that are under way
    Null

ASSUME AttemptsAssumption == MaxAttempts \in [Portals -> Nat \ {0}] /\ MaxOpen \in Nat

VARIABLES
    seeded,             \* has the kernel presented the seed?
    attempts,           \* of each portal: where each attempt is, oldest first
    timers,             \* of each portal: timers that will start an attempt
    portalMap,          \* of each portal: its PortalConnection
    failures,           \* of each portal: the attempts that failed, in order
    initResolved,
    query               \* of each query: where it is

portalVars == <<attempts, timers, portalMap, failures, initResolved>>
vars == <<seeded, portalVars, query>>

\* Where an attempt waits for an answer: to the query or to the post that answers
\* the challenge.  The body of an answer is read before anything follows from it.
Waiting == {"login", "loginPost", "register", "registerPost"}

Steps == {"keypair", "failed", "successful"} \cup Waiting

Attempt == [step : Steps, main : BOOLEAN, accounts : Nat]

\* Is there a loginDate?  An error is told by the number of its attempt.
Connection ==
    [authToken : {Null, "token"}, loginDate : BOOLEAN,
     loginErr : {"login not yet attempted", "failed", Null}, oldErrs : ErrTrackers(Nat)]

NewConnection ==
    [authToken |-> Null, loginDate |-> FALSE, loginErr |-> "login not yet attempted",
     oldErrs |-> NewErrTracker]

Started(step) == Cardinality({n \in DOMAIN step : step[n].step \notin {"failed", "successful"}})

----------------------------------------------------------------------------
(* How an attempt ends.                                                    *)

\* Its arguments are forgotten with the call.
Ends(p, n, step) ==
    attempts' = [attempts EXCEPT ![p][n] = [step |-> step, main |-> FALSE, accounts |-> 0]]

\* Mutant: the other portals are not looked at.
AllEndedUnchecked(connections) == TRUE

\* loginDate is null until a login has ended.
AllEnded(connections) == \A p \in Portals : connections[p].loginDate

PortalConnectionFailed(p, n) ==
    /\ Ends(p, n, "failed")
    /\ failures' = [failures EXCEPT ![p] = Append(@, n)]
    /\ \E draws \in Draws(portalMap[p].oldErrs) :
        portalMap' = [portalMap EXCEPT ![p] =
            [authToken |-> Null, loginDate |-> TRUE, loginErr |-> "failed",
             oldErrs |-> AddHistoricErr(@.oldErrs, n, draws)]]
    /\ initResolved' = (initResolved \/ AllEnded(portalMap'))
    /\ UNCHANGED timers

\* Mutant: only a failure completes init.
PortalConnectionSuccessfulQuiet(p, n, authToken) ==
    /\ Ends(p, n, "successful")
    /\ portalMap' = [portalMap EXCEPT ![p] =
            [@ EXCEPT !.authToken = authToken, !.loginDate = TRUE, !.loginErr = Null]]
    /\ UNCHANGED <<timers, failures, initResolved>>

\* Mutant: the connection is replaced, and its history is gone.
PortalConnectionSuccessfulAnew(p, n, authToken) ==
    /\ Ends(p, n, "successful")
    /\ portalMap' = [portalMap EXCEPT ![p] =
            [authToken |-> authToken, loginDate |-> TRUE, loginErr |-> Null]]
    /\ initResolved' = TRUE
    /\ UNCHANGED <<timers, failures>>

\* The token is that of a header, which the portal may leave out.
PortalConnectionSuccessful(p, n, authToken) ==
    /\ Ends(p, n, "successful")
    /\ portalMap' = [portalMap EXCEPT ![p] =
            [@ EXCEPT !.authToken = authToken, !.loginDate = TRUE, !.loginErr = Null]]
    /\ initResolved' = TRUE
    /\ UNCHANGED <<timers, failures>>

----------------------------------------------------------------------------
(* The steps of an attempt.                                                *)

\* Mutant: isMain is not looked at.
TimersAlways(isMain) == 1

\* How many timers a call of connectToPortal sets.
Timers(isMain) == IF isMain THEN 1 ELSE 0

\* Without the seed there is no keypair to log in with.
ConnectToPortal(p) ==
    /\ attempts' = [attempts EXCEPT ![p] =
            Append(@, [step |-> IF seeded THEN "login" ELSE "keypair", main |-> TRUE, accounts |-> 0])]
    /\ UNCHANGED <<portalMap, failures, initResolved>>

\* A timer starts an attempt, a main one, which sets the timer for the next.
TimerFires(p) ==
    /\ timers[p] > 0
    /\ Len(attempts[p]) < MaxAttempts[p] /\ Started(attempts[p]) < MaxOpen
    /\ timers' = [timers EXCEPT ![p] = (@ - 1) + Timers(TRUE)]
    /\ ConnectToPortal(p)
    /\ UNCHANGED <<seeded, query>>

At(p, n, step) ==
    attempts[p][n].step = step /\ UNCHANGED <<seeded, query>>

Goes(p, n, step) ==
    /\ attempts' = [attempts EXCEPT ![p][n].step = step]
    /\ UNCHANGED <<timers, portalMap, failures, initResolved>>

\* The request fails, the status or the body is not what is expected, or the body
\* breaks off.  That the text of a refusal is read first only delays the failure.
AttemptFails(p, n) ==
    /\ attempts[p][n].step \in Waiting
    /\ PortalConnectionFailed(p, n)
    /\ UNCHANGED <<seeded, query>>

\* Status 400: the user is not known, and the main attempt asks for an account.
LoginUnknown(p, n) ==
    /\ At(p, n, "login") /\ attempts[p][n].main
    /\ attempts' = [attempts EXCEPT ![p][n].step = "register", ![p][n].accounts = @ + 1]
    /\ UNCHANGED <<timers, portalMap, failures, initResolved>>

RespondToLoginChallenge(p, n) == At(p, n, "login") /\ Goes(p, n, "loginPost")

LoginEnds(p, n) ==
    /\ At(p, n, "loginPost")
    /\ \E authToken \in {Null, "token"} : PortalConnectionSuccessful(p, n, authToken)

RespondToRegistrationChallenge(p, n) == At(p, n, "register") /\ Goes(p, n, "registerPost")

\* connectToPortal is called again, now not as the main attempt.  Nothing reads
\* registrationAttempted.
RegistrationEnds(p, n) ==
    /\ At(p, n, "registerPost")
    /\ attempts' = [attempts EXCEPT ![p][n].step = "login", ![p][n].main = FALSE]
    /\ timers' = [timers EXCEPT ![p] = @ + Timers(FALSE)]
    /\ UNCHANGED <<portalMap, failures, initResolved>>

----------------------------------------------------------------------------
(* The queries of other modules.                                           *)

\* Every attempt that waited for the seed goes on.
PresentSeed ==
    /\ ~seeded
    /\ seeded' = TRUE
    /\ attempts' = [p \in Portals |->
            [n \in DOMAIN attempts[p] |-> [attempts[p][n] EXCEPT !.step = "login"]]]
    /\ UNCHANGED <<timers, portalMap, failures, initResolved, query>>

Ask(q) ==
    /\ query[q] = "idle"
    /\ query' = [query EXCEPT ![q] = "waiting"]
    /\ UNCHANGED <<seeded, portalVars>>

\* Both handlers wait for init.  Whether the answer is an error, which depends on
\* the connections of that moment, makes no difference here.
Answer(q) ==
    /\ query[q] = "waiting" /\ initResolved
    /\ query' = [query EXCEPT ![q] = "idle"]
    /\ UNCHANGED <<seeded, portalVars>>

----------------------------------------------------------------------------
Init ==
    /\ seeded = FALSE
    /\ attempts = [p \in Portals |-> <<[step |-> "keypair", main |-> TRUE, accounts |-> 0]>>]
    /\ timers = [p \in Portals |-> Timers(TRUE)]
    /\ portalMap = [p \in Portals |-> NewConnection]
    /\ failures = [p \in Portals |-> <<>>]
    /\ initResolved = (Portals = {})
    /\ query = [q \in Queries |-> "idle"]

AttemptStep(p, n) ==
    \/ AttemptFails(p, n)
    \/ LoginUnknown(p, n)
    \/ RespondToLoginChallenge(p, n)
    \/ LoginEnds(p, n)
    \/ RespondToRegistrationChallenge(p, n)
    \/ RegistrationEnds(p, n)

Next ==
    \/ PresentSeed
    \/ \E p \in Portals : TimerFires(p)
    \/ \E p \in Portals : \E n \in DOMAIN attempts[p] : AttemptStep(p, n)
    \/ \E q \in Queries : Ask(q)
    \/ \E q \in Queries : Answer(q)

\* The kernel presents the seed to every module it starts, a fetch settles in the
\* end and so does the reading of a body, and a resolved promise runs its callbacks.
Fairness ==
    /\ WF_vars(PresentSeed)
    /\ \A p \in Portals : WF_vars(\E n \in DOMAIN attempts[p] : AttemptStep(p, n))
    /\ \A q \in Queries : WF_vars(Answer(q))

Spec == Init /\ [][Next]_vars /\ Fairness

----------------------------------------------------------------------------
(* Properties.                                                             *)

\* Types of the variables.
TypeOK ==
    /\ seeded \in BOOLEAN /\ initResolved \in BOOLEAN
    /\ attempts \in [Portals -> Seq(Attempt)]
    /\ timers \in [Portals -> Nat]
    /\ portalMap \in [Portals -> Connection]
    /\ failures \in [Portals -> Seq(Nat)]
    /\ query \in [Queries -> {"idle", "waiting"}]

EndedAs(p, step) == \E n \in DOMAIN attempts[p] : attempts[p][n].step = step

\* initComplete resolves "either when the first portal successfully connects, or
\* when all portals have experienced a connection error", and then at once: not
\* while one may still succeed, and not a failure too late (init.ts:5-7).
InitCompletes ==
    initResolved <=>
        \/ \E p \in Portals : EndedAs(p, "successful")
        \/ \A p \in Portals : EndedAs(p, "failed")

\* However attempts overlap, register and fail, a portal has one timer, so that it
\* is tried again and never twice as often, and no attempt asks for an account twice,
\* though the login after a registration can be refused as the first was
\* (init.ts:203-213, 225-238).
RetriesDoNotMultiply ==
    \A p \in Portals :
        /\ timers[p] = 1
        /\ \A n \in DOMAIN attempts[p] : attempts[p][n].accounts <= 1

IsSubsequence(s, t) ==
    \E picked \in SUBSET DOMAIN t :
        /\ Cardinality(picked) = Len(s)
        /\ \A i \in DOMAIN s : \E j \in picked :
            t[j] = s[i] /\ Cardinality({k \in picked : k < j}) = i - 1

\* What a tracker shows are failures of its portal in the order in which they
\* happened; it never drops one of the first, nor any of the most recent, and it
\* never holds more than MaxErrors (errTracker.ts:1-6).
HistoryKept ==
    \A p \in Portals :
        LET et == portalMap[p].oldErrs
            shown == ViewErrs(et)
            recent == Half - Half \div 2 - 1
            least(m, n) == IF m < n THEN m ELSE n
        IN  /\ IsSubsequence(shown, failures[p])
            /\ Len(et.recentErrs) < Half /\ Len(et.oldErrs) <= Half
            /\ \A i \in 1 .. least(FirstKept, Len(failures[p])) :
                i \in DOMAIN shown /\ shown[i] = failures[p][i]
            /\ Len(et.recentErrs) >= least(recent, Len(failures[p]))
            /\ \A i \in 1 .. Len(et.recentErrs) :
                et.recentErrs[i] = failures[p][Len(failures[p]) - Len(et.recentErrs) + i]

\* Every query is answered once the portals have.
QueriesAnswered ==
    \A q \in Queries : query[q] = "waiting" ~> query[q] = "idle"

\* A connection holds "information about the latest auth attempt" (init.ts:48):
\* but an old attempt that fails late replaces what a newer one achieved.
LatestAttemptShown ==
    \A p \in Portals : \A n \in DOMAIN attempts[p] :
        (/\ attempts[p][n].step = "successful"
         /\ \A m \in DOMAIN attempts[p] : m > n => attempts[p][m].step \notin {"failed", "successful"})
        => portalMap[p].loginErr = Null

\* "If there is an active connection, 'authToken' will be set to a string value"
\* (init.ts:42-43): not if the portal sends no such header.
TokenIfConnected == \A p \in Portals : portalMap[p].loginErr = Null => portalMap[p].authToken # Null

\* "It always keeps 250 of the most recent errors" (errTracker.ts:3-4), a quarter of
\* MAX_ERRORS: one less.
RecentErrsKept ==
    \A p \in Portals : LET shown == ViewErrs(portalMap[p].oldErrs)
                           count == Len(failures[p])
                       IN  \A i \in 1 .. Half \div 2 :
                               i <= count => \E j \in DOMAIN shown : shown[j] = failures[p][count - i + 1]
=============================================================================
