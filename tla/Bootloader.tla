----------------------------- MODULE Bootloader -----------------------------
(***************************************************************************)
(* The bootloader of the kernel (extension/src/bootloader.ts): a document   *)
(* in an iframe that watches the user's seed in localStorage, loads the     *)
(* kernel when there is one, reports the auth status to its parent after    *)
(* every change, and reloads itself when the user logs out.                 *)
(*                                                                         *)
(* The seed is written by another document, the auth page (assets/auth.html *)
(* of the extension), which may write again before the events of its        *)
(* earlier writes have been handled.  A reload is asynchronous: the old     *)
(* document goes on until it is unloaded.                                   *)
(***************************************************************************)
EXTENDS Naturals, Sequences

CONSTANTS
    Users,          \* seeds that decode
    NoSeed,         \* localStorage has no v1-seed
    BadSeeds,       \* values of v1-seed that do not decode from hex
    MaxWrites       \* bound: writes of the auth page

ASSUME BootloaderAssumption ==
    /\ NoSeed \notin Users \cup BadSeeds
    /\ Users \cap BadSeeds = {}
    /\ MaxWrites \in Nat

VARIABLES
    seed,           \* localStorage: v1-seed
    writes,         \* number of writes of the auth page
    events,         \* storage events the document has not handled
    frame,          \* absent (no script runs), running, or reloading
    userSeed,       \* the seed in memory
    loginComplete,
    kernelLoaded,
    logoutComplete,
    fetching,       \* loadKernel is waiting for a download
    statuses        \* kernelAuthStatus messages on their way to the parent

storageVars == <<seed, writes>>
authVars == <<userSeed, loginComplete, kernelLoaded, logoutComplete>>
bootVars == <<storageVars, events, frame, authVars, fetching, statuses>>

----------------------------------------------------------------------------

Seeds == Users \cup BadSeeds \cup {NoSeed}

\* The data of a kernelAuthStatus message.  user is not in the message: it names
\* the session the message is about, for the properties.
Status == [login : BOOLEAN, loaded : {"not yet", "success", "failed"}, logout : BOOLEAN,
           user : Users \cup {NoSeed}]

BootInit ==
    /\ seed \in Seeds
    /\ writes = 0
    /\ events = <<>>
    /\ frame = "absent"
    /\ userSeed = NoSeed
    /\ loginComplete = FALSE
    /\ kernelLoaded = "not yet"
    /\ logoutComplete = FALSE
    /\ fetching = FALSE
    /\ statuses = <<>>

\* sendAuthUpdate reports the values the step leaves the variables with.
SendAuthUpdate ==
    statuses' = Append(statuses, [login |-> loginComplete', loaded |-> kernelLoaded',
                                  logout |-> logoutComplete', user |-> userSeed'])

\* authUser logs in with u; u \in BadSeeds is a value that authUser never writes
\* but that v1-seed may have been left with.
WriteSeed(u) ==
    /\ writes < MaxWrites
    /\ seed # u
    /\ seed' = u
    /\ writes' = writes + 1
    /\ events' = IF frame = "absent" THEN events ELSE Append(events, "v1-seed")
    /\ UNCHANGED <<frame, authVars, fetching, statuses>>

\* logOut of the auth page: localStorage.clear(), whose event has a null key.
ClearStorage ==
    /\ writes < MaxWrites
    /\ seed # NoSeed
    /\ seed' = NoSeed
    /\ writes' = writes + 1
    /\ events' = IF frame = "absent" THEN events ELSE Append(events, "null")
    /\ UNCHANGED <<frame, authVars, fetching, statuses>>

\* The seed in localStorage is read when it is needed, whatever event led here.
LogIn ==
    /\ loginComplete' = TRUE
    /\ userSeed' = seed
    /\ fetching' = TRUE
    /\ UNCHANGED <<kernelLoaded, logoutComplete>>
    /\ SendAuthUpdate

ReportLoggedOut ==
    /\ UNCHANGED <<authVars, fetching>>
    /\ SendAuthUpdate

\* checkForLoadKernel, in a document whose variables are new.
Start ==
    /\ frame = "absent"
    /\ frame' = "running"
    /\ IF seed \in Users THEN LogIn ELSE ReportLoggedOut
    /\ UNCHANGED <<storageVars, events>>

\* Mutant: the document is reloaded without a word.
LogOutQuiet ==
    /\ logoutComplete' = TRUE
    /\ frame' = "reloading"
    /\ UNCHANGED <<userSeed, loginComplete, kernelLoaded, fetching, statuses>>

LogOut ==
    /\ logoutComplete' = TRUE
    /\ frame' = "reloading"
    /\ UNCHANGED <<userSeed, loginComplete, kernelLoaded, fetching>>
    /\ SendAuthUpdate

Ignore == UNCHANGED <<frame, authVars, fetching, statuses>>

\* Mutant: a null key is never a logout.
StorageChangedNotCleared(key) ==
    IF logoutComplete
    THEN frame' = "reloading" /\ UNCHANGED <<authVars, fetching, statuses>>
    ELSE IF key = "null"
    THEN Ignore
    ELSE IF ~loginComplete
    THEN (IF seed \in Users THEN LogIn ELSE ReportLoggedOut) /\ UNCHANGED frame
    ELSE LogOut

StorageChanged(key) ==
    IF logoutComplete
    THEN frame' = "reloading" /\ UNCHANGED <<authVars, fetching, statuses>>
    ELSE IF key = "null" /\ ~loginComplete
    THEN Ignore
    ELSE IF ~loginComplete
    THEN (IF seed \in Users THEN LogIn ELSE ReportLoggedOut) /\ UNCHANGED frame
    ELSE LogOut

HandleStorage ==
    /\ frame # "absent"
    /\ events # <<>>
    /\ events' = Tail(events)
    /\ StorageChanged(Head(events))
    /\ UNCHANGED storageVars

\* loadKernel: the download and the eval end, also in a document that is
\* reloading.
KernelLoads(loaded) ==
    /\ frame # "absent"
    /\ fetching
    /\ fetching' = FALSE
    /\ kernelLoaded' = loaded
    /\ UNCHANGED <<storageVars, events, frame, userSeed, loginComplete, logoutComplete>>
    /\ SendAuthUpdate

\* The old document is unloaded: its variables, events and downloads are gone,
\* the messages it has posted are not.
Unload ==
    /\ frame = "reloading"
    /\ frame' = "absent"
    /\ events' = <<>>
    /\ userSeed' = NoSeed
    /\ loginComplete' = FALSE
    /\ kernelLoaded' = "not yet"
    /\ logoutComplete' = FALSE
    /\ fetching' = FALSE
    /\ UNCHANGED <<storageVars, statuses>>

\* Each auth page offers the login or the logout form by the seed it found when it
\* was loaded; with several of them open, any of the two may be used.
AuthPage == (\E u \in Users \cup BadSeeds : WriteSeed(u)) \/ ClearStorage

Boot ==
    \/ Start
    \/ HandleStorage
    \/ \E loaded \in {"success", "failed"} : KernelLoads(loaded)
    \/ Unload

----------------------------------------------------------------------------

BootTypeOK ==
    /\ seed \in Seeds
    /\ writes \in 0 .. MaxWrites
    /\ events \in Seq({"v1-seed", "null"})
    /\ frame \in {"absent", "running", "reloading"}
    /\ userSeed \in Users \cup {NoSeed}
    /\ loginComplete \in BOOLEAN
    /\ kernelLoaded \in {"not yet", "success", "failed"}
    /\ logoutComplete \in BOOLEAN
    /\ fetching \in BOOLEAN
    /\ statuses \in Seq(Status)

\* However quickly the auth page logs in, out and in again: once the document
\* has handled the events it was sent and is not about to reload, it runs the
\* kernel of the seed in localStorage, or none when there is no seed.
FollowsStorage ==
    frame = "running" /\ events = <<>> =>
        /\ loginComplete <=> seed \in Users
        /\ loginComplete => userSeed = seed
=============================================================================
