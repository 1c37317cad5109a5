# Formal models of the Skynet kernel

TLA+ models of the Skynet kernel: how pages, the browser extension, the kernel
and its modules talk to each other and log in (`src/kernel`, `src/extension`,
`src/libs/libkernel`, `src/libs/libkmodule`), and what the modules do with the
portals (`src/libs/libskynet`, `src/libs/libskynetnode`, `src/modules`): fetches,
verified downloads, registry entries, uploads, files and logins. TLC checks the
models on small instances; TLAPS proves the theorems listed below for any number
of callers, modules, users, pages, portals and files. Every definition is
translated from the source; `PROJECT.json` maps each one to the lines it stands
for.

Contents: [the system](#the-system), [what is modelled](#what-is-modelled),
[the runs](#the-runs), [fairness](#fairness), [what is proved](#what-is-proved),
[findings](#findings), [not modelled](#what-is-not-modelled), [plan](#plan).

## The system

A web page talks to *modules*, programs that run in web workers, through a
*kernel* that runs in an iframe of `kernel.skynet` inside a browser extension.
Modules talk to *portals*, web servers that store files and registry entries and
are not trusted with either.

```
 page                    content script        extension           iframe               workers
 libkernel  <-window->   bridge.ts  <-port->   background.ts  <->  bootloader.ts
                                                              <->  kernel (queries.ts) <-> libkmodule
 auth page (same origin as the bootloader)  --localStorage v1-seed-->  bootloader.ts
 browser requests to kernel.skynet  --filters-->  background.ts  <->  bootloader.ts (requestOverride)

 secure-download, -upload, -registry, skynet-portal  --fetch-->  portals
```

Everything is asynchronous: `postMessage` between documents and workers, ports
between content scripts and the extension, storage events, promises, fetches.
There is no shared memory apart from localStorage and the registry at the
portals. Each party is one event loop.

| component | state | operations | what makes it correct |
|---|---|---|---|
| Kernel query router, `kernel/src/queries.ts` | `queries` (open queries by kernel nonce), `queriesNonce`, `modules`, `modulesLoading`, the worker of each persistent module | `moduleCall` from pages and workers, the loader after its download, the calls that waited for it, `response`, `responseUpdate`, `queryUpdate` | one answer per call and none lost; one download per module; an update reaches only the worker that serves its query; workers do not outlive queries, and queries outlive their workers in one case only (finding 1) |
| Kernel requests, `kernel/src/index.ts` | `moduleOverrideList` | `version`, `checkErrs`, `getModuleOverrides`, `setModuleOverrides`, unknown methods | each query gets the answer to its own method; no page changes the overrides |
| Module library, `libs/libkmodule` | per worker: `queries` it made, `queriesNonce`, `incomingQueries` it serves, updates held until the kernel nonce or the receiver is known | `newKernelQuery` and its `sendUpdate`, `handleResponseNonce/Update/Response`, `handleMessage` with `respond`, `reject`, `sendUpdate`, `setReceiveUpdate` | updates arrive in order, at the handler of their own query, none skipped; the promise resolves with the module's first answer; the maps are empty when nothing is open |
| Bootloader, `extension/src/bootloader.ts` | `userSeed`, `loginComplete`, `kernelLoaded`, `logoutComplete`; localStorage `v1-seed`; the two files of the extension it reads | start, storage event, end of the download, reload, `requestOverride` | in the session of the seed that is stored, whatever the order of writes and events |
| Background script, `extension/src/background.ts` | `authStatus`, `authStatusKnown`, `openPorts`, `queries`, `queriesNonce`; filters of browser requests | new port, message of a page, message of the kernel frame, port closed, browser request and its headers | each page has the last auth status; a response reaches the page, or the request, that asked |
| Bridge, `extension/src/bridge.ts` | last auth status, the port | relay in both directions, `kernelBridgeVersion` | a page that appears late is told what it missed |
| Page library, `libs/libkernel` | auth promises of `auth.ts`, `kernelSource`, `queries` | `init`, the bridge's answer or the timeout, auth statuses, `newKernelQuery`, reload on logout | the stages of `auth.ts` resolve in order and are about the kernel the page uses |
| Independent files, `libkmodule/independentFile.ts` | a file object: revision, metadata and data; the registry entry | `create`, `open`, `view`, `overwriteData` | revisions only grow, one at a time; no write is lost; an object does not fall back |
| Registry values, `libskynet/registry.ts`, `inode.ts`, `secure-registry` | signed entries at portals | keys of an entry, signature, read, write | different names have different keys; what is signed fits one entry only |
| Progressive fetch, `libskynet/apiprogressivefetch.ts`, `libskynetnode/progressivefetch.ts` | portals that remain, failures and their logs | try the next portal on failure or bad data | first verified answer wins, the arrays of failures stay one to one |
| Downloads and uploads: `secure-download`, `secure-upload`, `apidownloadskylink.ts`, `upload.ts` | none that outlives a call | checks, one progressive fetch, the verification of its answer | the data are those of the link; every call is answered |
| Skylinks and Merkle proofs, `skylinkBitfield.ts`, `merkle.ts`, `skylinkVerifyResolver.ts` | none | parse a bitfield, verify a range, a layout, a chain of resolver links | what an upload's link names can be downloaded |
| Portal module, `modules/skynet-portal` | portals in use, login state and error history of each | connect, register, log in, start again every 15 minutes, `connectionStatus` | init completes with the first success or the last failure; timers do not multiply |
| Error tracker, `libskynet/errTracker.ts` | recent and old errors | add, view | bounded, the first and the most recent are kept |
| Seed phrases, `libskynet/seed.ts` | none | phrase to seed and back, derived seeds | a phrase is accepted exactly if its checksum fits |
| Module and page API helpers | none | one call and a check of its result | - |
| Web applications, test modules, build scripts, http-server, cryptography | - | - | mostly outside the models |

What is hard to get right or to test here, and so what the properties are about
(`PROJECT.json` lists each hazard at its line):

- the code after an `await` runs in a world that has moved: a module finished
  loading, a query closed, a seed was replaced, a user logged out, another writer
  took the revision;
- several callers wait for one download, and are released by microtasks that run
  before any other message;
- nonces are translated twice, so a late or repeated message could reach a
  query that reused its number; requests of the browser share the nonces of pages;
- updates race the message that tells the caller where to send them, the handler's
  registration of its receiver, and the response that ends the query;
- workers are terminated while they have queries of their own;
- the bootloader reloads itself with storage events, downloads and messages
  outstanding, while pages connect, time out and reload;
- a write of the registry is reported as failed and taken later; a read sees an
  older entry than the one before it;
- a portal fails, lies, or breaks off in any of the places where an answer is read;
- login attempts outlast the timer that starts the next one;
- nothing in the kernel times out: an answer that is lost is waited for forever.

## What is modelled

| module | models | state and actions |
|---|---|---|
| `QueryProtocol` | the abstract specification of a query | per query a phase and what its caller heard; `Ask`, `TellNonce`, `Update`, `Respond` |
| `KernelQueries` | `kernel/src/queries.ts`, `err.ts`, dispatch of `index.ts` | variables have the code's names; `modulesLoading[d]` is the loader's call followed by the calls that await its promise, `settled` the microtasks of the promise last resolved. `ModuleCallRefused`, `ModuleCallLoaded`, `ModuleCallMustLoad` are the outcomes of `handleModuleCall`; `DownloadFails`, `CreateModuleFails`, `DownloadSucceeds` what follows the `await` in the loader, `DownloadThrows` an `await` that throws or never returns (`hung`); `RunWaiter` the continuation of a waiter; `WorkerResponse`, `WorkerResponseUpdate`, `QueryUpdate` the relays, with well-formed responses, malformed ones, and ones without a data field (`Shapes`) |
| `ModuleQueries` | `libkmodule/src/messages.ts` and `queries.ts`, as caller and as module, with the kernel in between | FIFO channels `outbox`, `inbox`; the caller's actions `NewKernelQuery`, `SendQueryUpdate`, `HandleResponse*`; the module's `HandleCall`, `HandleQueryUpdate`, `RunMicrotask`; what handler code may do, in any order, on the stack or later: `Respond` (with data, an error or null), `SendResponseUpdate`, `SetReceiveUpdate`, `HandlerReturns`, `HandlerThrows`; the kernel's `KernelOpens`, `KernelRefuses`, `KernelRelaysDown`, and `KernelRelaysUp`, which drops a response that is null |
| `Bootloader` | `extension/src/bootloader.ts`, and what the auth page does to localStorage | `seed` is localStorage, `events` the storage events not yet handled, `frame` the document's life; `Start`, `HandleStorage`, `KernelLoads`, `Unload`, and the auth page's `WriteSeed`, `ClearStorage` |
| `ExtensionAuth` | `Bootloader` composed with the auth status parts of `background.ts`, `bridge.ts` and `libkernel/src/queries.ts`, `auth.ts` | FIFO channels `statuses`, `toBridge`, `toPage`; one action per handler at each stop. A logout reloads a page in one step (`HandleStatus`): libkernel first resolves its stages, and the old document lives on until it is unloaded, which is left out here and modelled in `ExtensionRelay` |
| `ExtensionRelay` | queries of pages: `libkernel/src/queries.ts` (`newKernelQuery`, `handleMessage`), `background.ts` (`handleKernelMessage`, `handleBridgeMessage`, `bridgeListener`), and the frame, which is a bootloader until its kernel is loaded | FIFO channels `up`, `down` between frame and background, `toPage`, `fromPage` per document (the bridge only passes on); `FrameStarts`, `FrameLoads`, `LogOut`, `Unload` are the life of a frame's document, `BootloaderAnswers`, `Kernel*` and `Module*` what answers in it, `Handle*`, `Connect` and `PortDisconnected` the background, `NewKernelQuery`, `SendUpdate`, `HandleStatus`, `HandleResponse*` libkernel; `Reloads` and `Closes` unload a page |
| `KernelRequests` | what the frame answers besides module calls: `background.ts` (proxy, request filters, `queryKernel`), `bootloader.ts` (`requestOverride`), `kernel/src/index.ts` (`version`, `checkErrs`, overrides), and the dashboard | `OnBeforeRequest`, `OnHeadersReceived` are the browser's request, `QueryKernel`, `HandleAuthStatus`, `HandleResponse` the background, `FrameStarts`, `AssetLoads`, `AssetFails`, `FrameTakes`, `LogOut`, `Unload` the frame, `PageAsks` a page |
| `Seed` | `libskynet/seed.ts` | operators from words to bytes and back; the hash is a constant operator |
| `Registry` | `registry.ts`, `inode.ts`, `encoding.ts`, `filePrivate.ts` (sizes) | operators on strings and bytes; a hash is the bytes that are hashed |
| `IndependentFile` | `independentFile.ts` with `messageRegistry.ts`, `messageUpload.ts`, `messageDownload.ts`; the registry is external | `accepted` are the versions the registry took, `delayed` those on their way after their call ended, `file` what objects hold, `op` where calls are. One action per stretch between awaits: `CreateReads`, `OpenReads`, `OpenDownloads`, `Upload`, `RegistryTakes`, `Fails`, `CreateEnds`, `OverwriteEnds`; `Crash` closes a document |
| `Skyfile` | `skylinkBitfield.ts`, `skylinkValidate.ts`, `merkle.ts`, `apidownloadverify.ts`, `skylinkVerifyResolver.ts`, and the layout of uploads | recursive functions for trees and stacks of roots; a root is the triple of sector, first and last byte |
| `PortalFetch` | `progressiveFetch` of libskynet and of libskynetnode, the verify functions, and the calls built on them | the midstate has the names of the code; `FetchFails`, `FetchAnswers`, `TextRead`, `TextFails`, `VerifyResolves`, `VerifyRejects` are what the helper waits for, `*Ends` what follows the result. A failed result of libskynetnode has no `messagesFailed` (`messages`); a revision that is read as a JSON number is rounded (`AsNumber`) |
| `ErrTracker` | `errTracker.ts` | operators on the two lists |
| `PortalConnect` | `skynet-portal/src/init.ts` and `index.ts`, `libkmodule/src/seed.ts` | per portal the attempts, where each is and how often it asked for an account, and the timers that run: each call of `connectToPortalThenLogin` takes what `setTimeout` adds from `isMain` (`Timers`); `TimerFires`, `LoginUnknown`, `RespondToLoginChallenge`, `LoginEnds`, `RespondToRegistrationChallenge`, `RegistrationEnds`, `AttemptFails`; `PresentSeed`; the queries' `Ask` and `Answer` |
| `*_proofs` | theorems about the module of that name | |
| `MC*` | the instances for TLC | |

How they are composed: `ExtensionAuth` extends `Bootloader`; `KernelQueries` and
`ExtensionRelay` each implement `QueryProtocol` under a refinement mapping;
`IndependentFile` extends `Registry`, which extends `Seed`; `PortalFetch` extends
`Skyfile`; `PortalConnect` extends `ErrTracker`.

Abstractions used throughout:

- An action is a handler run to completion, or the continuation of one after an
  `await`; nothing else can run in between in JavaScript. Microtasks of a
  resolved promise are drained before the next message (`NoMicrotask`, `due`).
- `KernelQueries` keeps no channels: a message in flight from a worker or a page
  is a sender that has not acted yet, and the messages of one sender do not
  constrain each other there. `ModuleQueries` has the FIFO channels, since order
  is what it is about.
- Nonces are random strings derived from a seed and a counter, and are modelled
  by the counter. Payloads are their identity (which update of which query).
  Error texts are not distinguished unless a property reads them.
- What a portal does is chosen when it answers: any status, any body of the
  instance's contents, a failed request, a body that cannot be read.
- Hashes and signatures are ideal: two are equal if the same bytes went in.
- History variables record what was said to whom: `posted`, `given`, `updated`;
  `said`, `got`, `heard`, `served`; the `user` in a status; `failures` of a portal;
  the `base` and the `entry` of a version, the last version whose data its writer had
  and the last whose entry it had read; `broken`, `accounts`. No guard
  reads them except as a bound, and where a worker's right to answer is at stake
  (`given`).

Operators with a comment that begins `Mutant:` are deliberate mistakes: each
property names one in `PROJECT.json`, and replacing the original by it makes TLC
report that property. They are not part of the specification.

## The runs

| run | question | instance | result |
|---|---|---|---|
| `kernel_queries` | does every interleaving of calls, loads, failures, late, duplicate and malformed replies keep the router consistent, and does it implement `QueryProtocol`? | 3 calls by a page and by workers, one persistent and one ordinary module, downloads that hang, up to 2 replies before updates stop, symmetric nonces | holds |
| `kernel_liveness` | is every call finished with when workers answer, and what are the ways in which it is not? | the same without updates; malformed responses and hanging downloads happen | holds |
| `module_queries` | when every message was handled, what is left in the maps of callers, kernel and modules? | 2 callers of one module, one of which calls itself, 1 update; handlers answer with data, an error, null, twice, or throw | holds |
| `module_updates` | is the answer the module's first, after all its updates, do the caller's updates reach the handler in order, and is no early one lost? | 1 caller, a call to another module or to itself, up to 3 updates in either direction | holds |
| `extension_auth` | does the bootloader follow localStorage, do pages see the stages in order and in the session they were told of, and does every page settle once the user stops? | 1 user and a seed that does not decode, 2 writes, 1 page | holds |
| `extension_relay` | is a query through the extension one query protocol to its page, with logouts in between, and do updates reach the module of their own query? | 1 page, 2 queries, 2 documents of the frame, 1 update in each direction, symmetric queries | holds |
| `relay_sessions` | wherever a logout finds a query, is it answered by the kernel of its page's session, or does its page reload? | 2 pages (or a page and its reload), 1 query, 2 documents of the frame | holds |
| `kernel_requests` | does each request of the browser, and each query of a page beside them, get the answer to itself, and is it answered at all? | 2 requests (favicon, login page by GET or POST, the kernel's own page), 1 query of a page, 2 documents of the frame | holds, but for the POST: finding 24 |
| `independent_file` | do revisions follow each other, is a write lost only to a writer whose data were stale, do objects never fall back, however calls overlap, fail and are taken late? | 2 objects, 2 calls at a time, reads and downloads of any older version, sizes on either side of a block, 4 revisions, 1 late write, symmetric | holds |
| `portal_fetch` | are failures recorded in step, does the first verified response win, can uploads be downloaded, is every call answered but in the six ways that are named? | 3 portals, 11 sectors, the chains of proofs of `MCProofs`, each kind of call with good and bad inputs | holds |
| `download_verify` | are downloaded data those of the link? | the same | violated: finding 7 |
| `portal_connect` | does init complete when it should, do timers and registrations not multiply, is the history kept, is every query answered? | 2 portals with 5 and 1 attempts of which 2 may overlap, 1 query, histories of 6 errors | holds |

### The properties

Kernel: `ReplyOrder` (nonce, updates, one response, nothing more), `CallsAccounted`
(a call is answered exactly when it is in no queue and no open query, so none is
lost or answered twice), `NoLoadRace` (the branch that `queries.ts:441` logs as
impossible), `WorkerLifetimes` (workers and their queries live and die together: a query
has its live worker unless that was terminated for a malformed response, a worker that
is not persistent has its query),
`UpdatesRelayed` (an update never overtakes its nonce and never leaves its
query), the action property `ClosedByAnswer`, the refinement `ImplementsProtocol`,
and `CallsAnswered` (liveness: every call is finished with, that of a terminated caller
too, but for those behind a download that hangs, `Stranded`, and those whose worker
was terminated for a malformed response, `CutOff`).

Module library: `RepliesFaithful`, `QueryUpdatesInOrder`, `NothingLeftAtRest` (the kernel
and the callers keep the queries that were answered with `respond(null)` and no others,
the modules keep nothing), and `AnswersAndUpdatesArrive` (liveness, for responses that
the kernel does not drop). An update at another of several queries, which takes more
queries than `module_updates` has, is excluded by the theorem `UpdatesInOrder`.

Login: `FollowsStorage`, `StageOrder`, `PageInSession`, and `PagesSettle` (liveness).

Pages' queries: `RelayFaithful`, `AnswersInSession`, the refinement `ImplementsProtocol`
(a query is asked when `newKernelQuery` is called, even if it has to wait for
`kernelLoaded`), and `QueriesAnswered` (liveness).

Requests: `AnswersMatch`, and `RequestsServed` (liveness: all but the requests that a
reload or a failed fetch leaves, and those for one of the two files that are no GET).

Files: `ConsecutiveRevisions`, `NoLostUpdate` (a version replaces the very entry that its
writer had read, and unless its download was older than that entry, the data too),
`HistoryCovered` (padding hides all that the file held since the last version of a
writer with such an older download), the action property `ObjectsOnlyAdvance`, and
`EntriesApart`, which compares the names, keys, signatures and seed phrases of the
operators of `Registry` and `Seed` with each other over the instance's strings
(`NamesApart`, `SeedsApart`, `PhrasesRead`).

Portals: `FailuresInOrder`, `FirstVerifiedWins`, `UploadsReadable`, `CallSettles`
(liveness, with the six ways in which a call hangs named in `Unanswerable`);
`InitCompletes`, `RetriesDoNotMultiply`, `HistoryKept`, and `QueriesAnswered`
(liveness).

### Bounds, and why they are enough

- **Three calls** (`CallNonces`): a loader, a waiter behind it and a call that
  finds the module loaded are three different paths to `newModuleQuery`; a call
  made by a worker that serves another call, and is terminated with it, needs two.
- **One persistent and one ordinary module**: the code distinguishes nothing else.
  Modules interact only through calls.
- **MaxReplies = 2** replies to a call after which no update is sent: an update
  before and after the nonce, and a message after the response, are all reachable.
- **MaxUpdates**: with 3, two updates are held and one follows; the two
  callers need only one to reach the wrong query.
- **MaxWrites = 2** writes of the auth page: logout and login behind one
  unhandled event is the shortest way to miss a session; one more write repeats
  it. `seed` starts with any value. A second user adds nothing that the seed that
  does not decode leaves out, and `FollowsStorage`, `StageOrder` and `PageInSession`
  are proved for any sets of users and pages.
- **One page** in `ExtensionAuth`: pages do not interact; the background treats each
  port alone. `relay_sessions` has two, since a document that reloads is a new one
  to the background and may connect before the old one's port is closed.
- **MaxSessions, MaxFrames = 2** documents of the frame: one logout. Messages of the
  first document can be behind the status of the second, which is all that a third
  could repeat.
- **Loads = {"success"}** in the runs of `ExtensionRelay`: with `"failed"` no query is
  ever answered (finding 5).
- **Two calls at a time** on two objects: who loses a race, and a call that fails
  while another of the same object goes on. Revisions grow by 1 and by 2
  (`Increment`), since `overwriteIndependentFileSmall` adds a byte of a hash.
  **MaxDelayed = 1** late write is enough to be taken between any two steps.
- **Stale reads and downloads**: every read of the registry may see any version, and
  every download any version up to the last, older than the entry read before it
  too. Nothing is assumed of portals; finding 13 is what such a download can do.
- **MaxRevision = 3** instead of 2^64 - 1, the largest number that `encodeU64` takes: the
  overflow is then within reach. In `PortalFetch` **MaxRevision = 15** and **Exact = 8** scale
  2^64 - 1 and 2^53, the largest number up to which a JSON number is exact.
- **Three portals**: a failure before, at and after the one that answers. The
  sectors are at the boundaries of fetch sizes and of the largest upload.
- **Five attempts** at one portal, one at the other: init completes by one
  portal or by both, and an attempt overlaps one that started later.
  **MaxErrors = 6** instead of 1000: the recent errors are pruned at the third
  failure, when two of them leave and the most recent one has to stay, and again after it.
- Symmetry is used for nonces, and for files and calls, only in runs without liveness.
- `CHECK_DEADLOCK FALSE`: every model stops when its bounds are used up and every
  message was handled, and the system does too when nobody calls.

## Fairness

- `KernelQueries`: a download that can still return does, a resolved
  promise runs its continuations, and a live worker sends a well-formed response
  to every open query. The last is an assumption about modules; it does not keep a
  download from hanging, nor a worker from sending a malformed response first. The kernel has no
  timeout, so without it a call is open forever.
- `ModuleQueries`: event loops of workers and kernel go on, a handler on the
  stack returns, and a handler that takes updates gives its receiver. No handler is
  assumed to answer: `AnswersAndUpdatesArrive` starts from an answer.
- `ExtensionAuth`: event loops go on, downloads end, a reload unloads the
  document, timers fire, a page calls `init`. The user and the server of
  `skt.us` owe nothing.
- `ExtensionRelay`: the event loops of frame, background and pages go on, a reload
  unloads its document and starts the next, and the worker of each open query
  answers. No load has to end, and nobody has to log in or close a page.
- `KernelRequests`: messages are handled, the fetch of a file of the extension ends,
  a server answers, a reload ends. Nobody has to log out or open a page.
- `PortalFetch`: the one call goes on: a fetch and the reading of a body settle.
- `PortalConnect`: the kernel presents the seed, fetches settle, and a resolved
  promise runs its callbacks. No portal has to accept anybody; timers need not fire.

All fairness is weak: each step stays enabled until it is taken, except where a
worker or a document is terminated.

## What is proved

TLAPS proves these for every value of the constants that satisfies the named
assumptions (`KernelQueriesAssumption`, `ModuleQueriesAssumption`, `BootloaderAssumption`,
`ExtensionRelayAssumption`, `KernelRequestsAssumption`, `RevisionAssumption`,
`SizesAssumption`, `PortalsAssumption`, `CallsAssumption`,
`LayoutAssumption`, `AttemptsAssumption`, `ErrorsAssumption`, each in the module that
declares the constants; TLC evaluates them).

`KernelQueries_proofs`: `TypeCorrect`, `LoadRaceImpossible` (`NoLoadRace`),
`RepliesInOrder` (`ReplyOrder`), `NoCallLost` (`CallsAccounted`). None of these is
inductive. The invariant is a conjunction of named parts, each needed by the
next: `LoadInv`, a module that is loading is not loaded, which is why the race
branch is dead; `SourceInv`, callers are known; `NonceInv`, kernel nonces of given
queries are below the counter, so a new query never has the number of an old
one; `QueueInv`, the calls in a loading queue or in `settled` are distinct and of
that module; `PlaceInv`, a call is in at most one of a loading queue, `settled` and
the open queries, so that answering it there leaves it nowhere; `ToldInv`, what was
posted to a caller fits the place of its call; `CallInv`, `CallsAccounted` for
terminated callers too. Each step of `Next` has its own case, and `NewModuleQuery`,
which four actions share, its own lemma.

`WorkersServeQueries` (`WorkerLifetimes`) and `UpdatesStayInQuery` (`UpdatesRelayed`).
`StepKinds` sums up what a step of the kernel does to queries,
workers and replies; on it rest `DestInv` (an open query has a worker of its
module, and shares it only if the module is persistent), `LifeInv` (who lives), `ServedInv`
(an open query has lost its worker exactly if a malformed response is to blame),
`ToldFirst` and `UpdatesInv`.

`KernelImplementsProtocol` (`ImplementsProtocol`) and `QueriesCloseByAnswer`
(`ClosedByAnswer`). A step that accepts a call maps to `Ask`,
at times with the reply that follows in the same step; every other reply maps
to the protocol's step of that kind (`AskStep`, `ReplyStep`), and everything else
is a stutter.

`ModuleQueries_proofs`: `QueriesTyped` (`TypeOK`), `NothingLeaks` (`NothingLeftAtRest`),
`UpdatesInOrder` (`QueryUpdatesInOrder`), `RepliesAreFaithful` (`RepliesFaithful`). A first
invariant, `QueriesInv`, follows the
calls: `CallInv`, a call has one nonce, and each unopened call has a number left for
it; `MentionInv`, messages and microtasks are about queries that were made or
opened, and a response is the last its caller hears of the kernel; `ComingInv`, the
call reaches a module before the updates of its query and finds nothing of it
there; `AnswerInv`, an open query has its call, its place in the kernel or its
response somewhere, and a module keeps no query it has answered. `UpdatesInv`
adds where the updates are: for each query there are numbers `a <= b <= c` (`Flow`) so that those up to `a` are with the handler or due as
microtasks, up to `b` in the module's list or in its inbox, up to `c` in the caller's
outbox, and the rest held for the nonce. `Run` says that a queue holds just those,
in order, between the messages of everybody else; each kind of step moves a
boundary by one, except that the nonce posts all that was held and the receiver
makes due all that waited. `AnswersInv` says the same of the way back: of what the module of a
query said, the first `a` were heard, those up to `b` are in the caller's inbox and the rest
in the module's outbox, unless the kernel closed the query with `b`, which is then the
first response (`Replied`), or the next was a null that the kernel dropped (`Lost`), after
which the module says nothing (`Mute`). `HeardRun` counts what is heard of such a run.
`NothingLeaks` follows from this: with the channels empty, a query that is still open
has heard all that was said of it, so its one response was null.

`ExtensionAuth_proofs`: `StorageFollowed` (`FollowsStorage`). The property says nothing
while events are pending. `StorageInv` adds what carries it across them: if the
last pending event is a `clear()`, there is no seed. Any other last event makes
the handler read the seed. `StagesInOrder` (`StageOrder`) and `AuthTypeCorrect`
(`TypeOK`), from `OrderInv`: every status the bootloader has sent, on whatever
channel or in whatever memory, is one where a load or a logout is in a login
(`Reported`); it holds because `BootInv` says the bootloader downloads, loads and
logs out only in a session. `PagesInSession` (`PageInSession`) takes an invariant
over the order of the channels: at every stop on the way from the frame to a page
there is a set of users that a login heard there may name (`AtFrame`, `AtPort`,
`AtBridge`, `AtPage`): all if a logout is ahead of it in a channel, else the user of
the frame's session. `SessionInv` says that every status on the way names one of its
stop's users, unless a logout follows it in the same channel, and that a page which
believes in a session has one of those it may still be told of.

`ExtensionRelay_proofs`: `RelayTypes` and `RelayMentions` are what the others rest on:
no map, channel or queue has a query that was not asked, or of another document.
`PagesHearTheirSession` (`AnswersInSession`): a document is in the session of the
kernel it was told of as long as no logout is between the two, in the background's
channel or in its own (`InSession`, `Follows`); `SessionInv` says that the background is
in one such session, every document it has told in one, and that messages of an
earlier kernel are behind its logout. `RelayImplementsProtocol` (`ImplementsProtocol`):
a step maps to a step of `QueryProtocol` only if a call and its nonce are in one
place each, which is `OnceInv`: while a call is on its way down, nothing else of its query
exists (`CallOnce`); a nonce goes before every other reply to its query, in one of the
channels up (`NonceOnce`); a query waits for `kernelLoaded` once (`WaitOnce`).

`RelaysFaithfully` (`RelayFaithful`) adds what the messages say. `Numbers` says that a channel
holds, among everything else, the elements of a set numbered from `a + 1` to `b`, each
once and in order. `AnswersInv`: of what the module of a query said, the updates up to `a` were
heard, up to `b` they are on the way to the page, and the rest is on the way to the
background (`UpRun`); the last of these holds only while the page has an open port and is
not unloaded, the other two always, so a logout, a reload or a closed page cuts the run
off at its end and never inside. A response bears the number of updates that were
said before it (`Totals`), nothing of its query follows it, and the kernel is done
with the query (`EndsOnce`). `UpdatesInv` says the same of the way down (`DownRun`): delivered
up to `a`; while the module serves the query, on the way to the frame up to `b`; while
the port is open, on the way to the background up to `c`, which is all that was sent
unless the page is gone, when its last messages may be lost. Who an update
is for goes by nonces: `NoncesInv` says that a nonce, wherever it is on the way, is that of one
query until its session ends, `HeldInv` that a query knows the one it heard first and
holds its updates until then, `SentInv` and `DeliveredInv` that every update bears it. One
lemma for each kind of step says what it does to a run (`RunSends` to `RunEnds`, `DownStarts`
to `DownLeaves`), and the proofs of the actions only find the kind. `NumbersCount` turns
numbers into positions.

`IndependentFile_proofs`: `RevisionsConsecutive` (`ConsecutiveRevisions`), `NoUpdateLost`
(`NoLostUpdate`), `ObjectsAdvance` (`ObjectsOnlyAdvance`), however old what portals serve is.
The heart of the invariant: a version on its way follows one that was taken,
that of the entry its writer had read (`Claimed`); revisions
grow strictly (`HistoryInv`), so the registry takes it only if that entry is the last.
Data that are not older than the entry, and that the registry has, are then the last too.
The same holds of what objects hold (`FileGood`) and of where calls are (`OpGood`);
of two writes of one object that overlap, the one that is taken first leaves the
other with nothing to win (`PairGood`). `FilesTyped` (`TypeOK`) and `HistoryIsCovered`
(`HistoryCovered`): every version, taken or on its way, remembers a size that is no
smaller than its own and than the one that its base remembers (`SizesInv`), and is
padded to no less than that; where no writer had stale data, each base
is the version before. The latter takes what `Digits` and `PaddingBlock` compute for every
size: `Recursion` shows that the function which each defines exists, `PaddedCovers`
that padding only adds.

`PortalConnect_proofs`: `InitCompletesInTime` (`InitCompletes`), `RetriesStaySingle`
(`RetriesDoNotMultiply`). The code decides by login dates, the property by how
attempts ended: `DatesInv` says that they agree, `SeedInv` that nothing ends before
there is a seed; `Modest`, that an attempt which has asked for an account is past the point
where it could ask again, so that one portal never has two timers.
`ConnectionsTyped` (`TypeOK`) and `HistoryIsKept` (`HistoryKept`), for every
limit of the tracker and every draw of the pruning: `TrackerInv` ties the tracker's
two lists to the list of all failures: the recent errors are its end, the old ones a
selection of the rest in its order, with the first of all (`Picks`, `Kept`); `MovedIs`
says what the recursive function of `Moved` computes.

`PortalFetch_proofs`: `FailuresStayInOrder` (`FailuresInOrder`), `FirstVerifiedTaken`
(`FirstVerifiedWins`), whatever the verify function, the calls and the layouts are.
`ResponseInv` says what is known of a response at each step between its arrival and
its end.

`UploadsAreReadable` (`UploadsReadable`), for every file that a sector has room for: the
run tries sizes at the boundaries, the theorem covers all. `UploadedLink` gives
`secure-upload`'s sizes (it refuses more than a sector, `secure-upload/src/index.ts:131`);
a sector with a fanout is readable if the link's fetch size reaches the end of the file.
The argument has three parts:

- numbers: `UploadFetches` goes through the eight modes of a bitfield and shows that
  what `ParseSkylinkBitfield` reads from `SkylinkV1Bitfield` is 1 to 1024 blocks from
  offset 0 that hold the file;
- the proof stack: `Covers` says that the subtrees on the stack follow one another
  from the first block to the last known, and that each is placed where one of twice
  its size could begin. `AddCovers` shows that adding the next block, or the next
  subtree of the proof, combines to such a stack again, so that a subtree larger than
  its neighbour, the one case in which `AddSubtreeToProofStack` refuses, never comes;
  `ProofCompletes`, that after `TrailingSubtrees` subtrees the sector is complete, which is
  all that the code asks of a proof (finding 7);
- the checks of `VerifyDownload` in their order, in `WholeSectorRead`.

`DataStack`, `ProofStack`, `TrailingSubtrees` and `AddSubtreeToProofStack` are functions
defined by recursion. `RecursionOn` shows once, for any step that makes a natural number
smaller, that the function exists and satisfies its equation.

`KernelRequests_proofs`: `AnswersMeetQuestions` (`AnswersMatch`). `NonceInv` says that the
map `queries` never gives two nonces to one request and that the numbers in it are
below the counter; `BlockedInv`, that a request waits for the bootloader once and is
not in the map yet, so that sending all of them keeps `NonceInv`. `ChannelInv` says of
each message on its way or held by the frame that its nonce, if somebody still
waits for it, belongs to the one who asked for just that file or value. `SendsKeep`
is about the step that two actions share, `MessagesStay` about messages that are on
their way while something else happens.

Only model-checked:

- liveness, which needs ENABLED and is out of the prover's reach;
- `EntriesApart`, which compares strings of the instance: it holds or fails with the
  tags and phrases one chooses (findings 14, 15).

Induction over data: the library's induction theorems take an operator as a
parameter, which no installed prover can instantiate. `WFMin` and
`NatLessThanWellFounded` of `WellFoundedInduction` do not: every set of numbers that is
not empty has a least element. From that `InductionTo` (`PortalConnect_proofs`) and
`StrongInduction` (`IndependentFile_proofs`) follow for sets, and with them that
recursive functions exist and satisfy their equations, on numbers and, with
`RecursionOn` (`PortalFetch_proofs`), on any set with a measure.

## Findings

Where the code differs from what a comment, a doc or a test says. Each is
quoted with its lines in `PROJECT.json`. `download_verify` shows the seventh; each
of the others names the property or definition that fails of it. The properties that
the runs check are stated so that they hold with these as they are.

1. `handleModuleResponse` terminates an ordinary worker (`queries.ts:527`) before it
   checks that exactly one of `err` and `data` is null, and returns with the query
   still in the map when that fails. The caller is never answered. `OpenQueryServed`;
   `WorkerLifetimes` and `CallsAnswered` name the case.
2. The `catch` of `handleMessage` (`messages.ts:223-237`) sends a response without
   setting `responded`, so a handler that throws and later answers sends two. The
   kernel drops the second. `OneResponse`.
3. After `messageBridge` timed out, libkernel uses the frame of `skt.us`, but still
   believes the bridge's statuses: `kernelLoaded` can resolve while the frame has no
   kernel. `KernelReady`.
4. The five stages of `bootloader.ts:511-518` do not include a logout before the
   kernel is loaded, which `handleStorage` reports. `FiveStages`.
5. libkernel drops messages without a `data` field (`queries.ts:78`), and the error
   responses of the bootloader and the bridge have none: after a load that failed,
   the promises of queries never resolve. `QueriesAnswered` with `Loads = {"failed"}`.
6. A logout does not clear the background's `queries`, though a comment says that
   the background's state is reset. `LogoutResets`.
7. `blake2bVerifySectorRangeProof` never compares the root it computes with the one
   it was given (`merkle.ts:255`): any data with a proof of the right length are
   accepted for any link. `DownloadMatchesLink`, run `download_verify`.
8. `verifyDownload` passes the fetch size as the end of the range, so a link with an
   offset can never be downloaded (`apidownloadverify.ts:54`). `WholeAnswerAccepted`.
9. Six ways in which a call to the portals is never answered, from
   `apiprogressivefetch.ts:80` on: the list is `Unanswerable`. `EveryCallSettles`.
10. `seedPhraseToSeed` throws on phrases of 13 and 14 words (`seed.ts:109`), where it is
    said to return an error. `PhrasesNeverThrow`.
11. `createIndependentFileSmall` never returns "exists" (`independentFile.ts:172`): the
    field it looks at is not passed on. `ExistsReturned`.
12. `minFullSize` does not count header and metadata, so a padded file may shrink
    (`filePrivate.ts:138`). `PaddedNeverShrinks`; `HistoryCovered` is what holds.
13. `openIndependentFileSmall` does not compare the revision in the file with the one
    of the entry (`independentFile.ts:335`): with a portal that is behind, the next
    overwrite discards a version it has not seen. `NothingLost`; `NoLostUpdate` and
    `HistoryCovered` name the case.
14. The length of a tag is limited in characters and written in one byte
    (`registry.ts:124`): tags of more than 255 bytes wrap. `KeysApart`.
15. Types of files that differ in trailing underscores have one name
    (`inode.ts:22`). `FiletypesApart`.
16. The first revision is not 0, as a comment says, but derived from the seed
    (`independentFile.ts:193`).
17. A login attempt that outlasts the next one and fails clears the newer one's
    token (`init.ts:271`). `LatestAttemptShown`.
18. A login without a token in its answer counts as a success (`init.ts:536`).
    `TokenIfConnected`.
19. The tracker keeps 249 recent errors, not 250 (`errTracker.ts:72`). `RecentErrsKept`.
20. No origin satisfies `callerIsDashboard` (`kernel/src/index.ts:43`), so the dashboard
    is refused too. `DashboardAllowed`.
21. A module's name is checked for its length only, and `atob` throws on one that is no
    base64 (`queries.ts:424`): the call and all later calls to that name are never
    answered. `CallsAnswered` names the case (`Stranded`).
22. `respond(null)` sends a response that the kernel logs and drops (`queries.ts:537`): the
    caller is never answered and the module cannot answer again. `RespondCloses`.
23. Of the results of `progressiveFetch`: that of libskynetnode lacks `messagesFailed` when
    it failed (`progressivefetch.ts:24`, `MessagesMatch`), and neither library returns the
    first 4XX response (`First4XXReturned`).
24. The frame answers a request for the favicon or the login page only if it is a GET
    (`bootloader.ts:200`), and the background waits for every verb: a POST stays open.
    `EveryVerbServed`.
25. `readRegistryEntry` of libskynetnode reads a revision as a double, so an overwrite of an
    entry with a revision above 2^53 may not surpass it (`registryread.ts:26`).
    `OverwriteSurpasses`.

## What is not modelled

- In the extension: which of the user's and the default kernel is evaluated, and
  the registry write that makes the default kernel the user's kernel. A page that
  uses the frame of `skt.us` talks to bootloader and kernel directly; that path is
  in `ExtensionAuth` only.
- The kernel nonce of a query is the same string when the same user logs in again
  and as many queries were made. `RelayFaithful` says that an update reaches no
  other query in the session that gave out the nonce; if the background is slower
  than a logout, reload, download and login together, an update of the old
  session can reach a query of the new one, and the model has that behaviour.
- `modules/get-set-object`: it calls four functions that are defined nowhere at this
  commit. `skynet-portal/src/progressiveFetch.ts` is commented out, its
  `registrySubscriptions.ts` is a stub.
- The bytes of ciphers, signatures and hashes; base64, base32, hex and JSON; the
  word list; the text of error messages and logs.
- The API helpers of libkernel, which are one call and a check of types each; the
  test modules; the pages of the web applications apart from the auth page and the
  dashboard's queries; build scripts; the http-server. `PROJECT.json`, `components`, has
  the reason for each.

## Plan

1. The choice between the user's and the default kernel in `Bootloader`, on top of
   the calls of `PortalFetch`.
2. The frame of `skt.us` in `ExtensionRelay`.
3. `get-set-object`, once its handlers exist.
