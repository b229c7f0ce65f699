# A TLA+ verification project for localsend-nas

localsend-nas is one Go process that makes a NAS a LocalSend peer: it finds
devices, sends files from configured shares to them, and receives files into
those shares after a decision in its web UI. This directory models its
concurrent core in TLA+, from the basket at one node to the transfer list in a browser
at another, checks the models with TLC and proves with TLAPS every safety property that
the runs check: of its two halves, receiving and sending, alone and joined, of the walks and
expansions on its shares, of what it keeps in its data directory, and of its device registry.

## Inventory

| component | state | operations | interacts with | what is hard |
|---|---|---|---|---|
| `internal/receive` (receive sessions) | `sessions`, `inProgress`; per session `State`, `decision` channel, tokens, `File.Done`, `File.partPath`; the files on the shares | `Prepare`, `Decide`, `Upload`, `CancelSession`, `claimFinalPath`, `setState` | called by `lsserver` (sender) and `httpapi` (UI); calls the job list through `Hooks`; reads `settings` at the countdown; writes below `shares` | `State` read without the lock, hooks after the unlock, a cancel or countdown racing the decision, retries of an upload, names claimed long before they are used |
| `internal/transfer` (send and receive jobs) | `jobs`, `order`, one queue and worker per target, `subs` per job | `Send`, `Cancel`, `Forget`, `Subscribe`, the worker's `run`, the four receive hooks | `httpapi`, `localsend` client, `receive` | cancel against a running worker, a full queue, a subscriber that misses the last snapshot |
| `internal/httpapi` | SSE client channels | REST endpoints, two event streams | everything above, the web UI | streams that must end, events dropped |
| `internal/discovery` | `devices`, `targets.json` | `Upsert`, `Add`, `Remove`, `evict`, announce and listen loops, `loadTargets`, `saveTargets` | `lsserver` (register), `httpapi` | probe outside the lock, the file rewritten from a stale snapshot, restart in the middle of loading |
| `internal/settings` | `cur`, `settings.json` | `Load`, `Get`, `Update` | `receive`, `httpapi` | file and memory written in two unlocked steps, a crash in the middle |
| `internal/identity` | certificate and key files | `Load`, `save` | `lsserver`, `localsend` client | a crash between the two files |
| `internal/lsserver` | none of its own | LocalSend v2 endpoints | `receive`, `discovery` | the answer to a sender that left |
| `internal/localsend` | none | HTTPS client: `Prepare`, `Upload`, `Cancel` | `transfer` | which errors mean cancelled |
| `internal/shares` | roots, fixed at start | `List`, `Open`, `EnsureDir`, `ResolveForWrite`, `SanitizeElement` | `receive`, `transfer`, `httpapi` | path algebra, symlinks |
| `internal/config`, `cmd/localsend-nas` | none after start | parse the environment, wire the parts | all | order of the wiring |
| `web/app.js` (web UI) | DOM, list, watchers, dialog, `navSeq` | boot, transfer list, badge, offers, navigation | `httpapi` | late answers of superseded requests, streams that break or lose a snapshot |

What makes each part correct:

* receive: nothing is stored that was not accepted, where it was accepted to;
  what is reported done is complete on the disk; no received file is ever
  damaged by another upload; partials do not outlive their session; every offer
  is answered; the job list ends up showing what happened.
* transfer: one running job per target, a job that was cancelled while it was queued never
  runs, every queued job is served, every stream that follows a job learns of its end; what
  the sender counts as sent the receiver has.
* basket: what is in a folder is offered, once, whoever works beside the expansion.
* web UI: an offer is put to the user, a dialog does not outlive its offer, list and badge
  come to show what is.
* discovery: a manual target persists until removed.
* settings, identity: after any crash the program starts again with what was
  last acknowledged, and is the node that its peers have seen.
* shares: an upload is only ever given a folder of the share.

## Plan

In order of weight.

1. **Receive**: sessions, uploads, cancels, the disk and the job list. Proofs: what is
   stored (ReceiveProofs), how sessions end (ReceiveOutcomeProofs).
2. **Send** over **JobFeed**, refining **JobService**. Proofs.
3. **Discovery**: registry, `targets.json`, restarts. Proofs.
4. **DataDir**: identity and settings on the disk, the start of `main`. Proofs.
5. **Folders**: the walk of `shares.EnsureDir` by uploads side by side. Proofs.
6. **Delivery**: Send's calls answered by Receive instead of by chance. Proofs, from those
   of the two nodes.
7. **Page** over JobFeed: a browser tab that follows the receiver's job list, its streams
   and the alerts. All that it promises is liveness.
8. **Basket** over Folders: an item's expansion and the files that its job opens later.
   Proofs.

The modules are written to be proved about: constants with named assumptions,
one action per step of the code, invariants as conjunctions of named parts, no
recursive operator: where a path leads, the only recursion over data, is a recursive
function. Three of them compose others: Delivery has Send and Receive, Page
has JobFeed, Basket has Folders.

## Modules

### How steps are cut

Each module has one action per section of code that other goroutines see as one:
what happens under a mutex, one answer of a peer, one system call on a shared
file. A read that the code makes without the lock and uses later is a step of its
own or a choice over what it can have seen. Where a handler sets a state, unlocks
and then calls somebody, that is two steps. Actions carry the mutated forms used
to test the properties beside them; a comment marks each as a mutant, and no
specification uses one.

### Receive (`internal/receive/receive.go`, receive hooks of `transfer/manager.go`)

| state | code |
|---|---|
| `prep`, `verdict`, `decision`, `ctxDone`, `gone` | the `Prepare` goroutine of each session, the decision channel's slot, `sess.cancel()`, the sender's connection |
| `state`, `dest` | `sess.State`, `sess.DestShare` (the tokens exist with it) |
| `upc`, `us`, `uf`, `got`, `want` | each `Upload` request: place in the function, session, file, chunks read |
| `final`, `inProgress`, `partPath`, `fileDone`, `disk` | claimed name, `m.inProgress`, `File.partPath`, `File.Done`, who wrote how much under each name |
| `cpc`, `cs` | each `CancelSession` call |
| `job`, `jobDone` | the session's entry in the job list as the hooks keep it |
| `acked` | history: which decisions `Decide` reported as taken |

`Prepare` is `Offer`, `Announce`, one of `TakeDecision`, `Timeout` and
`SeeCancel` (Go's `select` takes any ready case), `WriteVerdict`,
`ReportVerdict`. `Upload` is `StartUpload`, `CannotOpen` or `Claim`, `OpenPart`,
`NotePart`, `Chunk`s, `EndOfBody` or `StreamError`, `Rename`, `MarkDone`,
`ReportFile`, `WriteResult`, `ReportResult`, with `FailFile` and `Cleanup` on the
error paths. `CancelSession` is `StartCancel`, `CancelCleanup`, `WriteCancelled`,
`ReportCancelled`. Around them are `Decide`, `SenderGoes`, `Forget` and other
users of the disk, `OutsiderCreates`.

Undefined behaviour is a choice: an unlocked read of `sess.State` while another
goroutine stores it may see the old value, the new one or a string that equals no
state (`Torn`); reading `File.partPath` while it is stored may also make
`os.Remove` panic, which ends that request (`CleanupOutcomes`).

Left out: directories (`EnsureDir` is a failure that may happen), byte counts
(sizes are chunks), the rare panic in `failFile` that keeps `m.mu` locked (it takes
three uploads of one file), a disk that refuses `os.Remove`: the code ignores the error, so a
partial then stays whatever `NoOrphanPartials` says. `Decide` checks the state and sends under one step, and
`CancelSession`'s check and `cancel()` are one step, since nothing between them can be
told apart from outside. Outsiders create names that were absent.

### JobFeed and Send (`transfer/manager.go`, stream of `httpapi/api.go`, `localsend/client.go`)

`JobFeed` keeps, per event stream, the job it follows, the bounded channel and what
it has shown; `Broadcast` drops for a full channel, `Deliver` writes one frame and
returns on `done`, `failed` and `cancelled`. `Send` extends it with the job table
(`jobs`, `state`), the `Send` requests (`Register`, then `Enqueue` or `Refuse`),
the queues and the workers. A worker walks `run`: `Take`, `Skip` or `Begin` (which
stores `job.cancel`), for each state `SetState` and then `Tell`, the calls
(`Granted`, `NothingNeeded`, `Progress`, `FileSent`, `CallFails`, `CutOff`) and `Fail`.
`Cancel` marks under the lock and `CallCancel` cancels the context after it. What
`client.go` makes of a cancelled context is kept: its `SendError` wraps no
`context.Canceled`, so `fail` only sees a cancel through the job's state or, for
an answer cut off in its body, through the error.

Files are counts (expanded, granted, taken). The full-queue branch and its store of
`failed` are one step. A request for an unknown device or an empty basket changes
nothing and is left out.

`JobService` is the abstract promise "One active job per target; further jobs
queue" (manager.go:3): a line per target, served in order, one at a time, each job
at most once. `Send!ServesInOrder` maps the channel to the line, the job of the
target's worker to the one served, and everything else that was asked for and
answered to `over`.

### Discovery (`internal/discovery/discovery.go`, `Probe` of `localsend/client.go`)

`devices` is the registry, `file` is `targets.json` (absent, empty, garbled or
whole), `todo` is the rest of `loadTargets`, and each call of `Add` or `Remove`
walks probe, registration under the lock, `Collect` under the lock, `Truncate` and
`Write` outside it, or `SaveFails`. `Upsert`, `Evict` and `Crash` come at any moment.
The servers start when `Start` has returned, so requests and announcements wait for
`loadTargets` (main.go:98). Time is abstract in `Evict`; the saved order is
arbitrary; the node's own announcements are ignored by the code and left out. Any number of
requests are in progress at once, as net/http serves them. The
fingerprint beside each saved address is what the registry had with it, kept to
state the properties; no action reads it.

The histories `acked`, `warned` and `lost` say what the user was told, of whom a
failed save made a warning, and which targets a start could not read or did not
find: `loadTargets` only logs a saved target that does not answer, and the next save
of any other drops it from the file. Requests that overlap may lose one too: a save that
collected before another request changed the registry may land last, and two saves may write
into one file. `late` is the saves which another call has come across in that way, and
`overtaken` says that one of them wrote the file last. The three properties about the
file let go of it just as long: the next save that nobody comes across puts it right, and with
the loss that `AddedTargetsKept` allows there is no other way to lose a target.

### DataDir (`internal/identity/identity.go`, `internal/settings/settings.go`, `main.go`)

`phase` is the place of `main`: identity, shares, settings, servers, or how it ended.
`os.WriteFile` is two steps, the open that truncates and the write, so the save of
the identity is `OpenCert`, `WriteCert`, `OpenKey`, `WriteKey`, with `SaveFails` from
each, and an update of the settings is `AskFor`, `OpenFile`, `WriteFile` or
`WriteFails`, and `Adopt`, which takes the lock that the file is written without. What a
start makes of the files is `Reuse`, `Generate` or `BadPair` and `LoadSettings`,
`LoadDefaults` or `BadSettings`. `Crash` (a kill or a shutdown) comes at any moment;
while the program is down `EditByHand` may write the settings. The histories are the
identity that peers have seen (`announced`), the settings a user may expect
(`legit`, `rivals`) and whether any write was torn (`torn`).

Left out: of the settings all but the clamped timeout, which stands for the whole
record; what can be read of a file that was cut off (`Empty` stands for every one that
does not parse). A directory that cannot be made, or a key that cannot be generated, ends
the start before a file is touched and changes nothing.

### Folders (`EnsureDir` of `internal/shares/shares.go`)

`fs` is the tree below one share, each place missing, a folder, a file or a link to a
folder of the share or out of it. Each call walks its path: `Look` (Lstat), then `Make`,
`MakeTooLate` or `MakeRefused` (Mkdir), or `Check` or `CheckFails` (EvalSymlinks, the
prefix test and Stat, taken as one step because nothing is ever removed here). The disk may
refuse any of these calls although nothing is in the way, for want of a permission or by an I/O
error: `LookRefused`, `MakeRefused`, `CheckRefused`. Other
users make files, folders and links at any moment (`OthersCreate`), but not in `AloneSpec`.
Deleting and
renaming by others is left out, and with it the window between the walk and the
upload's own open.

### Delivery (`localsend/client.go`, `lsserver/server.go`)

Two nodes of this program: `Send` is extended, `Receive` instantiated with a session per job
and an upload per file. `wire` holds the requests on their way: `SendOffer` and `SendFile` put
one there when the sender's call begins, `OfferArrives`, `UploadArrives` and
`UploadTurnedAway` take it off, possibly after the sender gave up, possibly never. A body is
what net/http makes of it (`BodyStep`): exactly the declared length or an error, and of a
declared length of 0 whatever the file holds. The answers are the receiver's: tokens
(`AnswerTokens`) for an accepted session, 204 (`AnswerNothing`) for a cancelled one, 200 on an
upload whose `Upload` returned well (`AnswerStored`), and anything else may come at any time
(`AnswerFails`), because a connection may break when all is done. The sender never calls
`/cancel`; the receiver's users and countdown act as in Receive.

### Page (`web/app.js`, streams of `httpapi/api.go`, receive hooks of `transfer/manager.go`)

The script's callbacks up to their next `await` are the steps of one browser tab: `ShowList`
after the answer of `refreshTransfers`, `OnMessage` and `OnError` of a job's EventSource,
`OnAlert`, `Countdown`, `Decide` and `DecideReturns`, `ShowTab`, `Poll`. A list is asked for,
answered (`Answer` takes the list as it is then) and shown in three steps, so answers overtake
snapshots and each other. The server's side is its job table with the hooks
(`ReceiveRegistered`, `ReceiveState`), where a state is stored under one lock and broadcast
under the next (`Tell`), the alert channel of the tab (`BroadcastJob`, dropped when full), and
the streams, which are `JobFeed`'s. What a session may report is the hull of what Receive
reports: each kind once, in any order that its goroutines allow (`MayReport`).

Left out: the wording, progress, pictures; decisions that the server refuses (the page treats
them alike); other tabs, except that their `Forget` may come.

### Basket (`expand`, `uploadOne` of `transfer/manager.go`, `List`, `Open` of `shares.go`)

The tree is that of Folders, with lengths. `Request` takes an item, `ExpandFolder`, `ExpandFile`,
`ExpandFails` and `ReadRefused` work it off folder by folder in the order of the recursion,
`Expanded` makes the job. Other users create, write and delete at any moment between. A link is
listed as itself (Lstat), so it is offered as a file of the link's length, and never walked.
`ExpandFolder` passes over any entries that the disk will not describe, as `List` does without a
word. `Upload`, `UploadFails` and `UploadRefused` open each file again; the last is a file that is
what it was but that the program may not open or cannot read, which its listing did not
tell. A file that grew usually breaks the request,
but the receiver may answer before the sender notices (`Exceeds`). The answers of the
receiver for other reasons are Send's part and left out here.

## Runs

| run | instance | shows | distinct states |
|---|---|---|---|
| `receive_files` | 1 session, 2 files of one name, 2 shares (one the dropbox), 2 uploads, 1 cancel, another user on the name | `DoneMeansStored`, `NoOrphanPartials`, `JobTellsTheOutcome`, `OnlyWhatWasAccepted`, `ClaimsExclusive`, `ReceivedFilesSurvive` | 3.0 million |
| `receive_live` | 1 session, 2 files, 2 uploads, 1 cancel, fairness | `OffersAnswered`, `AllReceivedEndsJob` | 671 thousand |
| `send_jobs` | 2 jobs, 1 target, queue of 1, fairness | `EndedMeansOver`, `EndIsFinal`, `QueuedCancelHolds`, `ServesInOrder`, `CancelFreesTheWorker`, `NoJobStarves` | 62 thousand |
| `send_feed` | 1 job of 2 files, 1 stream with a channel of 2, fairness | `DoneMeansSent`, `StreamsEndIfTold` | 27 thousand |
| `datadir_restarts` | 3 updates, 3 crashes, 3 key pairs, 3 lengths | `IdentityStays`, `SettingsKept`, `StartsUnlessTorn` | 196 thousand |
| `folders_walks` | 2 walks of up to 2 elements, 2 names, others beside them | `ReadyMeansFolder`, `FailsForAReason` | 2.8 million |
| `folders_raced` | the same walks, nobody beside them | violates `NoNeedlessFailure` | |
| `discovery_registry` | 2 devices, 2 addresses that either may have, 2 requests at once, 1 crash | `ManualTargetsSaved`, `RemovedTargetsUnsaved`, `AddedTargetsKept`, `ManualTargetsStay` | 1.6 million |
| `delivery_done` | 1 job of 2 files, the second empty, 1 receiver, a cancel at either end, fairness | `SentMeansStored`, `BothShowDone`, `HangUpSettles` | 174 thousand |
| `delivery_unneeded` | the same | violates `DoneMeansDelivered` | |
| `page_transfers` | 1 job, 1 event source with a channel of 2, 1 list request, an alert channel of 1, fairness | `StaleDialogsClose`, `OffersPopUp`, `ListSettles`, `BadgeSettles`, `StreamsClose` | 121 thousand |
| `basket_expanded` | 2 names, 2 levels, 3 entries, 1 touch, fairness of the expansion | `NothingLeftOut`, `OfferedOnce`, `UploadFailsForAReason`, `ExpansionEnds` | 558 thousand |

The runs with a type invariant are `receive_files`, `send_feed` and `datadir_restarts`.

### Bounds

* Receive: three candidate names each (`x`, `x (1)`, `x (2)`) are enough for two
  uploads and one outsider; a body is one chunk (none in `receive_live`), so it can
  be short, exact or long. Two uploads serve for two files at once or for a retry of
  one; since both files have one name, they compete for it as two sessions would, whose
  only shared state is `inProgress` and the disk. A third adds no pair of roles. One cancel
  suffices against Prepare and against an upload. For any number of sessions the proofs
  speak.
* Send: a queue of 1 (32 in the code) is full while the first job waits for its worker; a
  channel of 2 (32) both fills and drains. Two targets share nothing, so runs have one.
* Discovery: two devices and two addresses let devices swap addresses; one crash
  reaches every half-written file and the load that follows. `MaxCrashes` bounds the
  counter. Two requests are one that saves and one that comes across it. Devices, addresses
  and requests are symmetric.
* DataDir: three updates let one overlap two others that do not overlap each other;
  the lengths asked for lie below, between and above the bounds 1 and 4 (5 and 300);
  three crashes cut off a first start twice and one later run. Key pairs and
  updates are symmetric.
* Folders: two elements let a link stand before, at or after the element that a walk is
  at; two names let a link lead to a sibling; two walks race for one folder.
* Delivery: two files let a job break off between them; one has a chunk and one none, since
  net/http sends the two differently. One job: jobs meet at a receiver as the sessions of
  Receive do.
* Page: one job and one list request already let an old answer overtake snapshots, and a
  second look at the list correct it; a channel of 2 loses the last snapshot. The order among
  several offers (`Rank`) is idle with one job; `OffersPopUp` and `StaleDialogsClose` speak of one
  offer at a time.
* Basket: two levels let a link lead up and so in a circle; three entries beside the root are
  a folder, a file in it and a link; one touched place is one change by another user.
* Every request is sent at most once in an instance, except the page's, which repeat.

### Fairness

Only the program's own steps are fair: the goroutines of Receive between two points
where they wait for a peer, the countdown (a timer), Send's workers and requests,
an event stream whose browser is connected and reads, the expansion of a basket, and calls
whose context is cancelled, which Go's HTTP client ends. Senders need not upload, users need
not answer, receivers need not reply, disks may fail. So a liveness property here never rests
on a peer. In Delivery the read of a connection that the sender has closed ends in an error
(`HangUp`: TCP tells). In Page the browser's timers go off (the poll of a shown tab, the
dialog's countdown), EventSources connect again as browsers do, and a list that is asked for
again and again is answered and shown now and then (strong fairness of `Answer` and
`ShowList`): a tab that can never reach its server can show nothing true.

## What the code does against its own words

Two runs have a counterexample.

* `folders_raced`: two uploads into a new folder both find it missing, though nobody else works
  on the share; the second `Mkdir` fails, and with it the whole session (shares.go:224,
  shares.go:245).
* `delivery_unneeded`: a receiver's user who cancels an offer makes `Prepare` answer 204,
  which the sender takes for "receiver needs nothing" and shows as done (receive.go:184,
  manager.go:304). `BothShowDone` says that this is the only way for the two ends to differ.

The models reach more behaviours a reviewer may want to know of, for which no run is
kept, some because no text promises otherwise.

Receiving:

* A cancel that arrives between `Prepare`'s select and its store of the verdict is overwritten
  by `accepted`; uploads are then stored (receive.go:206, against the terminal state that
  `CancelSession` sets).
* A cancelled session does not unblock the stream of a sender that has stalled: the loop
  looks at the state only after data (receive.go:346, against the comment at 369).
* `CancelSession` turns a session that became done, failed or declined after its
  check into a cancelled one (receive.go:368-371).
* With a cancel, reordered hooks can leave a job shown as receiving whose session is
  over; it can then neither be cancelled nor removed (receive.go:405, api.go:372).
* Two uploads of one file share `File.partPath`; a cancel deletes only the partial noted
  last. The field is written without the lock that its reader holds (receive.go:292).
* A decline acknowledged by `Decide` can lose to the countdown (receive.go:244).
* The rename replaces what another user of the disk created under the claimed name
  meanwhile (receive.go:309).
* A received file whose own name is that of another's partial can be truncated by that
  other's upload (receive.go:287) or deleted with it (receive.go:394); `ReceivedFilesSurvive`
  speaks of the files whose name is nobody's partial.
* The `inProgress` entries of failed and cancelled uploads stay until a restart
  (receive.go:386).
* A session whose sender stays away after the accept, or left just then, stays accepted for
  ever (receive.go:206), whereas manager.go:367 counts on receivers to expire such sessions.

Sending:

* A worker's next `setState` overwrites a cancelled job, which then shows as preparing and ends
  as failed, or even done (manager.go:350, against the comment at 208).
* A job turned away by a full queue fails without a broadcast (manager.go:159-164).
* A job takes its target's address when it is taken from the queue; of a device that expired
  meanwhile it is empty, and the job fails (manager.go:283).
* A link in a basket is offered with the link's own length; if its file has another, or it
  leads to a folder, the whole job fails (shares.go:153). `UploadFailsForAReason` leaves links
  out.
* An entry that the disk will not describe is left out of the job without a word: of a folder
  that may be read but not searched, all of them (shares.go:153-156). `NothingLeftOut` names
  them (`skipped`).
* A file that the program may see but not read is offered, and then fails its whole job
  (manager.go:331); `UploadFailsForAReason` names it (`unread`).

Streams and web UI:

* The last snapshot of a job can be dropped for a slow browser, whose stream then never
  ends (manager.go:382, against api.go:378); `StreamsEndIfTold` leaves such streams out.
* The server does not end the stream of a declined job (api.go:413). The page closes it
  (`StreamsClose`); another client would keep it.
* An offer that comes between the page's first list and its first alert connection is in
  neither (app.js:575). A tab that does not show Transfers never pops it up, against
  README.md:17 of the program; `OffersPopUp` speaks of a tab that shows it. The same holds of
  an alert dropped for a full channel (api.go:287), which the instance, with one offer, never
  fills.
* `decideOffer` closes the dialog that is open when its post returns, be it another offer's
  (app.js:549); the next poll of a shown tab opens that one again.

Discovery and data directory:

* A saved target that is off while the program starts is erased from `targets.json` by the
  next save of any other (discovery.go:338); `AddedTargetsKept` leaves it out.
* Of two overlapping requests of Discovery the older list may land last, or the two files
  mix: then a target that was added, and answered as such, is not in the file, or one that was
  removed is, until the next save, or for good if the program stops before it
  (discovery.go:353). The properties about the file allow it while `overtaken`.
* An announced move of a manual target is not saved (discovery.go:121), and one announced
  without a port is saved with port 0 (discovery.go:120).
* A kill between the two system calls of a write leaves a file that the next start refuses:
  the program then exits until somebody deletes it (settings.go:72, identity.go:120);
  `StartsUnlessTorn` says that nothing else does this.
* Of two updates of the settings side by side, one may end up in the file and the other in
  force until the next start (settings.go:72-77); `SettingsKept` allows either.

## Proofs

`tlapm` checks every step of the eight proof modules, for all values of the constants that
satisfy the assumptions of the modules they extend. Those say: bounds are natural numbers,
the stand-ins `None`, `Outside` and the like are no members of the sets beside them, different
names have different partials (`ReceiveAssumption`), and a folder has finitely many entries
(`BasketAssumption`).

**ReceiveProofs.** `TypeCorrect` and `FilesSurvive` need nothing else. The latter rests on two
facts about a name that is nobody's partial. `PlainDisk`: what lies there came by a rename of an
upload that claimed the name, or from outside, and is never removed. `PlainClaims`: the name is
claimed once and for all, since it is in `inProgress` or on the disk ever after. So no rename,
truncation or clean-up hits a received file there, whatever else is offered.

The other three theorems assume `PartialsApart`: no offered or foreign name is the partial of
another offered name. The code does not see to it, and without it a received file can be
damaged (see above), so it is a hypothesis of the theorems and not of the module. `ReceiveInv`
is their inductive invariant:

* `Started`: a request that was let in has a session that `Prepare` accepted;
* `Chosen`: that session's destination was acknowledged or is a dropbox share;
* `Drawn`, `Claimed`: a claimed name is a candidate of its upload, is claimed by no
  other, and is in `inProgress` until the upload's data is there; `Upload` drops the
  entry only after the rename, which is why names stay exclusive;
* `OnDisk`: data lies under the claimed name, complete, or under its partial, with as
  much as the upload has read;
* `Reported`: what is marked done is stored. It needs `OnDisk` to survive the other
  uploads' steps, and those need `Claimed`.

`ExclusiveClaims`, `DoneIsStored` and `OnlyAcceptedData` follow.

**SendProofs.** `SendInv` has `Placed` (queued and running jobs were enqueued, for this
target), `Single` (one worker per target, a job in one place), `Shown` (what a job's
state can be, given its place: an active state implies that a worker runs it) and
`Counted` (files granted and taken, given the worker's place). From it follow
`OneActive`, `EndedIsOver`, `DoneIsSent`, the step properties `EndStays` and
`QueuedCancel`, and `ImplementsService`: each step of Send is a step of `JobService`
or leaves line, served and over alone.

**DataDirProofs.** `DataDirInv` has `CertFirst` (the certificate is written before the key,
so a key that is there is the certificate's; where `main` is tells which file is old),
`ShownKept` (an identity that peers have seen is complete in both files, so no start ever
makes another), `Readable` (what does not parse was torn or is being written),
`Overlapping` (updates run only while the servers do, and each has the wishes of the
others among its rivals) and `FromLegit` (whose settings the file holds). Types need
`CertFirst` too: what `WriteCert` writes is a pair only because `Generate` came before.
`IdentityIsKept` is a step property that follows from the first two; `SettingsAreKept` from
the last two: when an update adopts, the file is its own or a rival's, because whoever
wrote since then ran beside it. `StartsWhenUntorn` needs all of them: a key file that
parses is the certificate's, so a pair that does not match has an unreadable key.

**DiscoveryProofs.** All four theorems hold for any number of requests side by side.
`ManualStays` needs only the types and `CallsKnown` (a call that found a device has one). For
`ManualIsSaved`, `RemovedIsUnsaved` and `AddedIsKept` there is `SaveInv`: what a save collected is
what is manual in the registry, and the file it writes into is still empty, unless the save is
`late`. `FileInv` says what the file holds and does not hold while nobody saves, while somebody
saves, and while the start still works off what it read; what it says of the file's content it
says while it is not `overtaken`. A write that is not late makes all of that true at once, which
is why a file that was overtaken needs no history. Crashes are part of it: they may come at every
step of a save.

**ReceiveOutcomeProofs.** How sessions end, over `ReceiveProofs`. Both theorems speak of
sessions of which each file was sent at most once (`SentOnce`): with a retry, two uploads share
`File.partPath` and may report different ends. `OutcomeTold` needs nothing about names. Its
`OutcomeInv` follows every goroutine that still has a report to make: `Entitled` (what an upload
is about to set, and that somebody sets `done` when the last file is in), `Undone` (no upload
fails over a file that is done), `Entered` and `Awaited` (job and state up to the answer),
`Followed` (after it the job shows the state, or an upload is between its store and its
hook), `FilesShown` (the same per file), `CalledOff` (a session is only cancelled by a request
or by its sender's going). `setState` calls the hooks after the unlock, so equality of job and
state is no invariant; that somebody is about to restore it is one. `NoPartialsLeft` needs
`Tracked` (the partial of an upload exists only between the open and the rename or `failFile`,
and then `partPath` leads to it) and, for other uploads' steps, `ReceiveInv` with `PartialsApart`.

**DeliveryProofs.** `SenderRuns` and `ReceiverRuns`: every step of Delivery is a step of Send
or leaves its variables alone, and the same for Receive, so Delivery implements both
and all that was proved of either holds in it (`NodesKnown`). The receiver is instantiated
twice, as `R` in the model and as `RP` with its proofs; `SameNext` and its neighbours say that
the two are one. `DeliveryInv` adds what neither node knows alone: an upload at the receiver is
the one of its job and file (`Named`), a file that the sender counts is done there and its upload
over (`SentTaken`), and a job that got as far as its end got a token for every file unless its
session was cancelled (`NeededThere`). `SentIsStored` then follows
from the receiver's `Reported`, hence under `PartialsApart`; `DoneAtBoth` from `OutcomeInv`
without it.

**FoldersProofs.** What a path leads to is a recursive function over its elements. `LeastNumber`,
from the well-founded order of the naturals, gives induction in first-order form: a claim that
fails of some length fails of a least one. With it `WayExists` and `WaysAgree` say that the
function is what it reads, and `OneFurther` that a path leads where its last element does from
where the others lead. `Tree` is what the share keeps: everything that is there lies in a
folder, and a link leads to a folder no deeper than itself. `Keeps(disk, later, gone)` says which
kinds may change between two disks, and `ReachedStays` that a path which leads to a settled
place still leads there. For walks nothing that is there goes away, so `WalkInv` (a walk under
way has a folder behind it, and what it looked at is still there) is inductive; `FolderIsGiven`
and `FailureHasReason` are its last two parts. Without `Tree` it is not: a link to a place that
is missing could come to lead to a file.

**BasketProofs.** Here files do go away, so only folders and links are kept, and what was
listed of a file holds as long as its place is not in `changed`. `BasketInv` says of every
offered file that the folder it was found in is still there and that it is what was declared
unless it was touched (`AsDeclared`), and that it lies in the item's folder as deep as its path
says (`AsListed`); and of the expansion that it has not begun (`Fresh`), is over with the item
itself (`Single`), or is under way (`Walking`), in which case every untouched file below the
item is offered, in a folder that is still to be listed, or below an entry that `List` passed over
(`Covered`). `NoFileLeftOut` is
`Covered` with nothing left to list. `NoFileTwice`: two paths to one file that both lie as deep
as they say are one path, because links are not walked. `UploadFailureHasReason` is `AsDeclared`
at the upload.

Proved and not run, since the proof says more: `OneActivePerTarget`, and `TypeOK` of Discovery
and of Folders.

**Only model-checked**: the liveness properties, since fairness and `ENABLED` are out of the
prover's reach. All that is checked of Page is among them.

## Not modelled

* Of the web UI: navigation, the basket, the forms for devices and settings, the theme. Each
  keeps its own list in the browser and asks the server for one thing at a time; the server's
  side of each is in Discovery, DataDir and Basket. `goTo` drops answers of superseded requests
  by comparing `navSeq`, one assignment and one comparison.
* Parsing of the environment, formatting of sizes and times, mime types, file names
  (`SanitizeElement`, hidden names): functions of their input, which the tests beside them
  cover.
* The sockets of announcing and listening, beyond the `Upsert` that a packet makes.
* REST handlers that only read: config, shares, files, devices.
* Deletion of folders by others, in Folders and in Basket.
