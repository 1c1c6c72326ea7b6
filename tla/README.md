# MusicDrop in TLA+

MusicDrop is a web service around beets: it imports downloaded albums into a
music library, asks the user when a match is not obvious, and offers
whole-library operations (reorganize, disk sync, lyrics, artist art), edits,
duplicates, a Trash, playlists and a Plex export. One process serves it: an
asyncio event loop, a threadpool for blocking calls, one worker thread per
background job, and two daemon threads (the inbox queue and the review bank's
apply runner). This directory holds TLA+ models of the parts where those
actors meet, the TLC runs that check them and the TLAPS proofs about them.

## The system and what can go wrong in it

| part | state | operations | hard behaviour | correct when | module |
|---|---|---|---|---|---|
| Library lock (`library_busy.py`, `jobs/base.py`, five job registries) | one slot per job type, `_CLAIM_LOCK`, the swap lock and its waiters, `app.state.beets_library` | gate, claim, spawn, finish/fail; acquire, check, work, release | gates read without a lock; threads against loop tasks; `Thread.start` raising; a raise after finish | one job at a time, no job beside a holder, a worker runs on the served library, slots are freed | `LibraryBusy` |
| Review bank (`bank/`, `api/bank.py`) | rows (SQLite, one lock), the apply thread, the folders on disk | decide, ignore, delete, search, rescan, re-bank, claim, apply, classify, reconcile | reads off the lock that are written minutes later; crash while applying; evidence-free ends | rows stay readable, a decision lands once, done and stale say the truth, nothing is stuck | `Bank` |
| Import bridge and registry (`beets/import_session.py`, `import_jobs/registry.py`) | parked album, answer, stop and abort flags, undrained outcomes; the feed of albums and its counters | park, answer, re-search, stop, drain, record, finish | a worker blocked on a user; a stop racing an answer; two drains and a worker | an answer is used once, by the album it was for; a stop always ends the wait; the feed agrees with the library | `ImportJob` |
| Acquisition (`acquisition/`, `api/slskd.py`) | queue, current folder, ledger of handled folders (a file) | webhook, enqueue, drain, wait, record | a lost or repeated webhook, a restart, a busy slot, a re-download | a folder is neither lost nor imported twice, nor hidden before it is in the library | `Acquisition` |
| Trash, delete, duplicates, Replace, sweep (`beets/trash*.py`, `delete.py`, `duplicates.py`, `orphans.py`) | library rows, files, Trash entries, origin records | move in, restore, empty | a crash or fault between file, row and record; a share that is away | only an emptying destroys; a record is of its entry; answers are true | `Trash` |
| Store layout (`beets/store_layout.py`, `protected.py`) | the configured directories, links, mounts | check the layout, walk to the Trash, take identities | a link pointed elsewhere between check and use; a bare mount point | nothing of another store is emptied, moved or imported | `StoreLayout`, `StoreReach` |
| Settings (`config_editor.py`, `config_check.py`, `setup.py`) | `config.yaml`, the served configuration, the library handle | three saves, Apply, boot | two tabs, hand edits, a load that fails half way | what is not pending is served; no save is lost | `Settings` |
| Plex push (`plex/mapping.py`, `plex/sync.py`) | rows of the Plex playlist | match, add, remove, move | ignored or failing requests; repeats a server will not hold | what ends well is on Plex; nothing is lost on the way | `PlexPush` |
| Playlists (`playlists/`, `api/playlists.py`, `plex/sync.py`) | records, `.m3u8` exports, copies on Plex accounts | edit, merge, delete, sync, re-export | long requests with the record read at their start; rebuilt keys | copies stay reachable, strangers untouched, exports and posters told | `Playlists` |
| Artwork (`artwork/`, `api/artists.py`, `artist_art_jobs/`) | disk slots, memory tier, fills under way, what pages show | look, write back, fill, upload, reset, rename, sweep | publishing outside the lock, a single flight, a directory that refuses writes | a reset forgets, a stored image stays, a page is current or told | `ArtistImage` |
| Browse and events (`beets/browse.py`, `events/`, `api/events.py`, `useEventStream.ts`) | kept rows, subscriber queues, what a tab shows | scan, invalidate, publish, subscribe, reconnect | a change during a scan; full queues; lost connections | kept rows and quiet tabs are current | `BrowseCache` |
| Auth, guards (`auth/`) | password file, session epoch | login, change, logout | one request against one file | a revoked session stays revoked | not modelled |
| Folder sources, slskd settings, service life, frontend pages | small files, wiring, browser state | | | | not modelled |

The parts meet at few seams, and the modules are cut along them. Everything
that changes the library goes through the library lock, so `Trash`, `Settings`
and an import job each run alone and are modelled step by step with faults,
while `LibraryBusy` shows that they do run alone. The bank and the inbox are
two producers of import jobs: each carries the small part of the import
registry it sees (a slot, how the job ended, what it landed), with the clauses
`ImportJob` has for it. `StoreLayout` is the library of operators that
`StoreReach` and `Settings` both extend.

## Modules

### LibraryBusy and its promise, LibraryMutex

`LibraryMutex` is the promise: participants enter and leave the library, two
that conflict are never inside together. `LibraryBusy` is the code. A *run* is
one start of a job: `CaptureHandle` (where it reads `beets_library`),
`PassGate`/`RefuseStart` (the unlocked gates), `EnterClaim`, `RefuseClaim`,
`PassClaim`, `Install` (`claim_slot` and the registry's own check under
`_CLAIM_LOCK`), `SpawnWorker`/`SpawnRefused`, `EndWork`, `FailAfterEnd`,
`WorkerReturns`. A *holder* is one request for the swap lock: its own gate
(`PreGate`, by kind), `RequestLock`/`WakeWaiter` (asyncio's FIFO lock, where
`locked()` is false between a release and the wake-up), `Admit`/`Refuse` (the
second gate inside `no_claim_in_flight`), `SwapLibrary`, `Release`. `LoopFree`
says that a start other than an import's runs from gate to spawn in one step of
the event loop, which is also where holders run. `FailAfterEnd` is the worker
that raises after its end: its `fail()` marks whatever job of its type the slot
holds by then. The ghost `disowned` names the runs that lost their job so, and
those they take a job from in turn.

### Bank

One action per store writer (`Decide`, `Ignore`, `Delete`, `BankRow`,
`StoreSearch`, `StoreRescan`, `FlipStale`), one per step of the apply thread
(`PickNext` to `FinishApply`, with `StartRefused`, `FinishUnconfirmed` and
`RunnerRaises`), and the world around them: folders that change
(`ChangeFolder`, `RemoveFolder`), unattended imports that bank, the apply's own
import (`RunImport`) and the restart with `reconcile_interrupted`. A folder's
content is a version, which is what its fingerprint tells apart; a payload is
the version it was looked up from; a decision has a stamp, so `landings` can
say how often one decision put its album in the library. All eight decisions of
`models/bank.py:56` are there, each with its own evidence rule of `_classify`.
A folder may hold several albums: an import ends with one of the `Possible`
outcomes over all of them (what failed, which album was refused, whether the
duplicate hook ran, what landed, what was handed over as tracks). History, read
by no action: `ending` is what became of a decision in its last import,
`flipped` the decisions whose row a search called stale without looking at it.

### ImportJob and its promise, ImportRendezvous

`ImportRendezvous` is the promise of a park: a question is asked, answered
once, by a decision or by a stop, and the answer is used; after a stop nothing
is asked. `ImportJob` is one whole job of three actors.

* The worker thread runs beets' serial pipeline: `StrongMatch`, `NoCandidates`,
  `UncertainMatch`, `DirectiveChoice` (what `choose_match` does by mode),
  `Park`, `TakeReply` and `ReleaseAnswered`/`ReleaseStopped` (`reply.get()` and
  the release of the slot are two steps), `Relook`, the duplicate question with
  `ParkDuplicate`, `ActOnDuplicate`, `RefuseReplace`, the landing with its
  library id, and beets raising anywhere.
* Requests on the event loop decide in two halves, because the code drains the
  bridge before it checks: `SubmitChoice`/`SubmitDuplicate` (first pass),
  `SubmitParks` (second), `Push` (accept or refuse, then mark the row). A
  decision carries the revision of the list it was made from; any tab may send
  any revision that was ever shown, and a client may send none, which is then
  held only to the length of the list (`IsStaleApply`). `RequestStop` sets the flag and overrides
  the parked answer.
* Pollers drain the bridge in the same two passes, `PollOutcomes` and
  `PollParks`, under the registry lock; the worker goes on between them.

The feed is what the drain builds: a row per album with its status, prompt,
note and action, the pending parks, the sweep's counters. `FinishJob` applies
the registry's own classification (`DidNotLand`, `IsImported`, `LandingMap`,
`FullyLanded`) and hands the folder to the recorder. `fate` is history: what
beets really did with each album.

### Acquisition

The inbox: a webhook is `HookArrives`, `Admit`, `Put` (the three reads of
`enqueue`, which more than one webhook can be between); the drain thread goes
`TakeFolder`, `PassGate`, `StartDrained` or `Defer`/`Requeue` or
`RefuseSource`, `SeeEnd`, `ReadAborted`, `ReadState` (with `Verdict`),
`MarkHandled`, `Finish`. The import in the slot is `Walk`, `SetAside`,
`LandAlbum`, `Abort`, `FinishJob`, `FailJob`, and `Record` is the recorder that
writes the ledger after any import, the drain's or not. `Stop` and `Restart`
end and start the thread; what is in the queue is lost, what is in the ledger
stays. `DropArrives`, `FolderRemoved`, `Blocks`, `StartOther` and
`RequestStop` are what people, the downloader and the other jobs do.

A folder has two values: its *identity* (mtime and size, all the ledger sees)
and its *content* (the newest download in it). A download into a subfolder
changes the second alone; one between the walk and the record changes both,
with the record taking the new identity. `silent` remembers the contents that
came in either way, so the property can say which hidden folders the identity
answers for.

### Trash

A file has a set of places (`home` and names of Trash entries), because a move
across filesystems copies and then removes. A row names the place it says its
file is. `op` is the operation under way with its program counter; all hold the
swap lock, so there is one. `StartTrashing` to `FinishTrashing` is a delete of
an album or an artist, a resolved duplicate group or a Replace, album by album:
`LeftInTrash`/`Absent` (rows whose files are in the Trash, or nowhere), `Claim`
(a free name: `Free`, `Recorded`), `MoveTrack`, `Check` (the post-condition),
`RecordAlbum`, `RemoveRows`. One transaction is around a delete; it commits
what was done even when the body raises, which `undo` models. The sweep is
`StartSweep`, `SweepFolder`, the image reset `StartReset` to `RecordFiles`.
Restore is `StartRestore` (`GoesBack`, `OriginFree`), `MoveBack`,
`ImportInPlace`, `ReturnToTrash` (`MoveToTrash`, `InTrash`), or `ImportEntry`,
`LandTrack`, `EndImport`. Empty is `StartEmpty`, `EmptyFile`, `EmptyEntry`,
`EndEmpty`. `Crash` ends the process in any step; `ShareTurns`, `StrangerPuts`,
`StrangerTakes` come from outside.

### StoreLayout, StoreReach and Settings

`StoreLayout` is pure: paths are sequences of names, `links` and `binds` two
rewriting tables, `Rows` and `LayoutAccepted` the refused relations and the
verdict, `Walk`/`TrashChain` the anchored walk from the root with its refusals
(a link below the music root, `ReachesIn`), `Resumed` and `MayCreate` the
creation of what is missing, `ProtectedIds`, `SourceRefused`. `StoreReach` puts
time between the steps: `CheckStores` (the rule), `TakeRoot` (the identity of the
music root), `WalkChain` (the open chain), `TakeIds` (is the library there, by its
path; what is missing, made through the chain; the identities), then `Empty`,
`ClearRecords`, `TrashFolder` or the move of an album (`GuardAlbum`, the cheap
guard, and `MakeByPath`), which a `Replace` of an import reaches with the stores
the registry was given and no walk. `PointLink`, `ShareTurns` and `Serve` happen
in between. An identity taken with the share there is not that of its bare mount
point, and an open chain stays on the one it was walked on. `hidden` is what was
made on the mount point, with the case that excuses it. `Settings` is the editors (load,
validate, save of the text, the naming rules and the switch, each comparing the
hash of what its tab loaded under the save lock), Apply in its steps with
failure and rollback, boot and stop, and a hand that edits the file.

### PlexPush and Playlists

`PlexPush` is one push to one account: the matching of library tracks to Plex
tracks (path, then name, then album and length; `_free` and the claims), the
choice between rewriting the rows and the key-wise difference, and each request
of it, which Plex may ignore once or fail. `Playlists` is everything around it:
each edit of a record under the store's lock followed by the export of the
record that was returned (`Export`, `MergeExports`, `Reexport`: each file may fail
to be written or removed, which is logged and swallowed), syncs that go account by
account (`StartSync`, `Look`, `PushNew`/`PushInPlace`, `Poster`, `Detarget`,
`EndSync`; of a push the stamp and the reconcile may each fail, or both),
deletions, in which each account may fail alone (`Uncopy`), merges, and what
happens on Plex (`Vanish`, `Rebuild`). `unsure` names the
copies, keys, posters and exports that a stated overlap put in doubt.

### ArtistImage

A step is what one thread does between two points where another can come in.
A task (a fill or the sweep) looks (`Look`, `LookInMemory`), writes a strand of
memory back (`BeginWriteBack`, `Publish`/`PublishRefused`, `Release`,
`TakeBack`, `EndWriteBack`), resolves, stores (`StorePositive`, `StoreRefused`,
`StoreNegative`) and announces (`EndFill`, `Notify`). Pages `Ask`, are served
(`Serve`, `GetThumb` to `TagThumb`, `ServeFilled`) or give up. People upload
(`StartUpload`, `WriteOverride`), reset (`ResetPin`, `ClearSlots`,
`ClearMemory`, `Refill`) and rename (`PurgeOld`, `MovePin`, `DropOldSlots`,
`MoveAuto`, `MoveStrand`, `ForgetOld`). `past` are the images a reset was accepted
to forget, each with its key; `held` the keys something was stored for since they
were last forgotten; `doubt` names the keys or the images for which one of the
windows listed under *Observations* was entered.

### BrowseCache

The library is a version of its album rows and one of its item rows. A request
goes `Check`, `Lock`, `Recheck`, `CollectFacts`, `BuildRows`, `Store`,
`Answer`; an edit `StartEdit`, `Change`, `EndEdit` or `FailEdit`; the
announcement is `Invalidate`, `EmitLibraryChanged`, `Publish`, `Fanout`; a tab
opens, subscribes, drops, reconnects, flushes its debounced events and fetches.
The tab asks as its query client does (`Again`): a page without data yet joins the
request under way, a later one drops it and asks anew; a request that fails
is asked once more and then given up, with the old rows still shown
(`Unanswered`, `Fail`). Of a tab the ghosts `missed`, `joined` and `failed` say which
of three windows it went through.

## Runs

Every run is one question, its instance the smallest in which the races of its
module can happen: nearly all need two actors on one object, so two is enough
of each; where three parties meet (a claim, a waiter and a wake-up in `busy`)
there are three.

| run | instance | shows |
|---|---|---|
| `busy` | an import, an album reorganize, two artist-art sweeps; Apply, a mutation, the image reset; two Applies; spawns that fail, workers that raise after their end; fair sweeps and reorganizes | `Exclusion`: one job, and none beside a holder, but for a job another worker's late end took from its slot; `LateCaptureIsCurrent`; `SlotIsFreed`; the refinement of `LibraryMutex` |
| `bank` | one folder of two contents and any albums, two rows, two decisions of all eight, faults and restarts | `RowsAreReadable`, `DecisionLandsOnce`, `DoneIsKept` |
| `bank_requests` | the same folder, one search or rescan in flight, fair threads, no faults | `RescanIsCurrent`, `StaleMeansNotImported`; `QueuedIsSettled`: every queued row leaves the queue, or goes back to the user |
| `job` | every mode and action, two albums, two decisions, a stop, beets raising, fair threads | the park (`AwaitingIsTrue`, `StopReachesThePark`, `ParkIsShown`, `ApplyIsOfShownList`), the counters and outcomes against what happened (`CountsAreTrue`, `OutcomeIsTrue`), `StopEndsJob`; the refinement of `ImportRendezvous` |
| `acq` | one folder, two webhooks, two contents, failing ledger writes, restarts | `WorkIsTrue`: an admitted folder is in one place and the status says so; `QuietHiddenIsImported` |
| `trash` | two albums of three tracks, a husk, an image, two names under one record key; three operations, faults, one change from outside | `OnlyEmptyDestroys`, `RecordIsOfEntry`, `DroppedIsInTrash`, `AnswerIsTrue` |
| `reach` | 48 environments and 5 texts over one small disk, a link with four targets, a bind mount, a share that leaves or returns; one operation with its walk in four steps, one step from outside | `ReachIsTheirs`, `NoTrashOnBareMount` |
| `settings` | two tabs, five texts (fine, silent about music, refused layout, rejected and unreadable by beets), two saves, one Apply, one step from outside | `NotPendingIsServed`, `NoSaveIsLost` |
| `push` | some thirty thousand pushes: two Plex tracks in all relations that matter with up to three entries, and any three rows to any three entries; one fault | `PushLands`, `OneTrackOneItem`, `NothingIsLost` |
| `playlists` | two playlists, the owner and one user, three requests, two at once, one failure, one change made in Plex | `CopiesAreReachable`, `StrangersAreSafe`, `PosterIsTold`, `ExportTells` |
| `portraits` | two artists, two pages of which one shows a thumb, two requests, two images (or one pinned before, one more and one request), one upload, reset, rename or sweep, one refusal, two actors at once | `ResetForgets`, `StoredIsKept`, `PagesAreCurrent` |
| `browse` | a tab with two overlapping requests, two editors and edits, a queue of one, one lost connection, two requests without an answer | `RowsAreCurrent`, `TabsAreCurrent` |

Ten more configurations are no runs of `PROJECT.json`: each checks one formula that
a text of the repository says and the code does not do, and TLC finds it violated
(`tlc -config MCLateEnd.cfg MCLibraryBusy`, and so on), in an instance as small as
the counterexample allows. The properties of the runs say the same with what is
violated as a named exception.

| configuration | formula | what happens |
|---|---|---|
| `MCLateEnd` | `EveryWorkerExcludes` | a late `fail()` ends the next job of its type; an Apply gets in under its worker |
| `MCEarlyCapture` | `WorkerUsesCurrentLibrary` | an Apply between an import's read of the library and its claim |
| `MCBankMerge` | `DoneMergeIsMerged` | a merge over two albums, one landed, one cut short: done, nothing merged |
| `MCBankFlip` | `StaleAlwaysMeansNotImported` | a search calls the row stale whose import has just moved the folder |
| `MCBankSearch` | `SearchIsCurrent` | candidates of the old files under the fingerprint of a re-bank |
| `MCAbsentLibrary` | `NothingMadeInAbsentLibrary` | the share leaves between the root's identity and the walk: a Trash on its mount point |
| `MCNewCopies` | `NewCopiesAreFindable` | a new copy gets neither marker nor recorded key, and the next sync makes another |
| `MCFirstConnect` | `FirstConnectionMissesNothing` | a change announced before a tab's first connection |
| `MCToldTab` | `ToldTabsAskAgain` | an event joins the first request, whose answer is older |
| `MCFailedEdit` | `KeptRowsAreCurrent` | an edit that failed part of the way announces nothing |

The bounds, by name. `MaxApplies` counts swaps (two in `busy`, so that a handle
can be older by one and by two). `MaxVersion` is the contents of a folder: the
looked-up one and a later one; `MaxId` the rows: a row and the one that
replaces it; `MaxStamp` the decisions: one in flight and one later; `MaxClock`
the first download and one re-download. `MaxAlbums` is two, so that an answer
can reach the wrong album and a merge has a partner, and `MaxRequests` (job)
two: an answer and a late one. `MaxOps`, `MaxOutside` (Trash, layout,
settings): in `trash` three operations, since filling the Trash, taking it out
and putting something else under the same name is three; the rest one, since
each hazard is one operation against one change. `MaxHops` is two links where
the code allows forty: only whether a chain ends is told apart. `MaxEntries`,
`MaxRows` are three, the fewest that a longest increasing subsequence, a repeat
and a stranger need together. `MaxRequests`, `MaxFaults`, `MaxMeddling`
(playlists) are three, one and one; `MaxImages`, `MaxTouches`, `MaxFaults`,
`MaxAsks`, `MaxAtOnce` (portraits) two, one, one, two and two: a newer image
against an older, one change against one reader. A refusal of the portraits'
directory begins or ends just before somebody writes (`Writing`): nobody notices
it earlier. The bounds of `portraits` have also been widened, for one page: all
three properties hold with two touches (5 million states), and `ResetForgets`,
`StoredIsKept` and the invariant of their proof with three touches, with three
actors at once, and with a thumb and three images (16 to 36 million, too many for
a run). `MaxQueue`, `MaxSubscribers`, `MaxEdits`, `MaxDrops`, `MaxFailures` (browse)
are one, one, two, one and two, so that the queue overflows, the place of a lost
stream is taken and a request with its retry fails. `CloseCrash`, `Faults` and
`Raises` turn one kind of fault on. Symmetry is used for model values that the
specification only compares, in runs without liveness.

Deadlock is checked in `busy`, `bank`, `bank_requests`, `job` and `acq`, none of
which has a state without a step. In the others everything may be over (all
operations or requests the bound allows are done), and the check is off.

Fairness is assumed in `busy`, `bank_requests` and `job` only. Weak fairness of
a thread's own next step is what the operating system gives it. In `LibraryBusy`
it is of a claimed run's spawn and of the end of a worker that asks nobody: the
worker of an import may wait for a person without a timeout
(`import_session.py:264`), so nothing is assumed of its end and `SlotIsFreed`
takes a slot whose import is at work for good. Strong fairness stands where a thread waits
for something others take again and again: the registry lock between a
decision and the pollers (`ImportJob`), the import slot the apply runner asks
for once a second (`Bank`). No fairness is assumed of users, of downloads, of
faults or of restarts; `QueuedIsSettled` therefore speaks of rows while other
imports do not hold the slot for ever. (The bank's own imports are unattended:
their worker never asks.) No liveness is claimed for the inbox: that a refusal does
not end its thread is part of `WorkIsTrue`.

Every property has a mutant in `PROJECT.json`: a mapped definition changed as a
plausible bug would change it, under which the run finds the property violated.

## Proofs

`tlapm` checks the theorems for every set of runs, holders, folders, requests
and modes and for every bound.

* `LibraryBusyProofs`. The inductive invariant adds to the type: a run is at a
  step under the claim lock exactly when it owns it, the same for holders and
  the swap lock, a slot names the run between its claim and its end, an
  installing run excludes every holder, and a handle read after the claim is
  the current one. Without the first two, "the slot is free" read under the
  lock would say nothing of the other starts. From it `JobsAndHoldersExclude`,
  `LateCaptureCurrent`, the action property `NoSwapUnderAnyJob` and the step
  simulation of `LibraryMutex`. They hold with workers that raise after their end,
  of any number of runs of one type: a job that such a worker ended counts as in
  flight no more (`Owners`), although its own worker goes on. `OnlyLateEnds`
  bounds that exception: a run loses its job to nothing but a late `fail()` of
  its own type, or to the end of a run that lost its own.
* `BankProofs`. Each action is first reduced to its effect on the rows (which
  fields of which row it may change); the invariants are then proved about the
  effects. Readability is inductive with the type and the shape of a row; that
  rescans are current needs a bound on every version a request carries;
  `DecisionsLandOnce` and `DoneMeansKept` need to know that a stamp belongs to
  one row, that stamps above the clock are unused, and what the runner owns
  at each of its steps.
  `StaleSaysNotImported` holds with searches in flight: it excuses the rows a
  search flipped (`flipped`), the flip of `api/bank.py:206` being the one writer of
  "stale" that looks at nothing. Every other flip is either the runner's own,
  after an import that came back unlanded, or a compare-and-set that finds the row
  waiting, and a waiting row has no import.
* `ImportJobProofs`. Every action is one of seven kinds of steps of the park
  (the worker walks, asks, takes, ...); the invariant is about worker, slot,
  request and stop alone. From it `AwaitingIsTrueHolds`,
  `StopReachesTheParkHolds`, `ApplyIsOfShownListHolds` (of a client that echoes
  the revision) and, with the same seven kinds mapped to the abstract steps,
  `KeepsRendezvousHolds`.

* `BrowseCacheProofs`. Both claims say that what is out of date is so by a
  change still on its way, and the invariant follows the way: a part that the
  kept rows show in an old version has an editor who has still to drop them; so
  has a part that a scan read, unless the generation has moved since and the
  scan will keep nothing; a tab that shows less than the library has an event
  in the loop, in its queue or on its timer, a reconnect that will fetch, or a
  request whose reads so far are good, a retry's included; or it went through one
  of three windows, which the tab remembers until it asks anew.
  The last needs the streams: a closed one has nothing queued, an open tab has
  been connected or missed something, a page not yet open waits for nothing. From
  it `RowsStayCurrent` and `TabsBecomeCurrent`.

* `AcquisitionProofs`. Two arguments over one type. The dedupe set is the
  disjoint union of the queue, the drain's folder and the webhooks' folders, and
  each of the three holds a folder once; the counting of `WorkIsTrue` follows
  from that, so the invariant itself counts nothing. For what the page hides the
  invariant follows the word "imported" backwards: a row that says it, a folder
  the recorder holds, the verdict the drain has in hand, the finished run it
  reads and the result of an album that is done are each of a folder that is in
  the library, empty, or changed without a word; an album in work is what was
  walked, or has changed since. Each link needs that a download into a folder in
  hand is remembered (`silent`), and that identities never exceed the clock.
  From it `WorkStaysTrue` and `HiddenIsInTheLibrary`.

* `TrashProofs`. Each action is first reduced to its effect on the operation
  under way; four arguments follow. *Records*: an entry being made is ours and
  has no record, what goes into it is of one album (or a folder without audio),
  and a folder on its way back is the one its record tells of; from it
  `RecordsTell`. *What is left behind*: a track the move passed over was not in
  the music folder if the share was there all along, and what the check lets
  through is not there unless a stray mount point shows rows of the Trash; with
  an open transaction, whose old rows a crash brings back, this gives
  `NoFileIsStranded`. *What is deleted*: no row is in an entry being emptied, and
  what a reset discards was copied; from it the action property
  `OnlyEmptyingDestroys`. *What is told*: before the first album goes all is as it
  was found, of a single album there is one, and what was moved is in the Trash or
  was; from it `AnswersAreTrue`. The proof corrected the model: a stray mount
  point that passes the check because rows are in the Trash, and has left again
  when the rows go, was not counted among what misleads it. That takes two changes
  of the share after a delete, more than the run's bounds have; TLC finds it with
  them widened. It also showed that `DroppedIsInTrash` needs no exception for a
  restore.

* `PlaylistsProofs`. What two requests hold at once is unsure, so a sure playlist
  has one request at its copies and one at its export, and while a request is at
  the copies it, and no longer the record, tells where they are (`Knows`): the
  states a sync has recorded, for the accounts it has not come to what the record
  said, what a deletion has still to delete. Every copy of a sure playlist is
  known so (`ReachInv`), each step that hands them over keeps what is known, and
  when nobody is at them the record knows them: `CopiesStayReachable`. A copy
  looked up once is the one met at the push (`FoundInv`); a key kept anywhere
  leads to no unmarked playlist of another where there is no marked one before it
  (`KeyInv`), and a marker is on a copy of its own playlist or both are in doubt
  (`CopyInv`), from which the action property `StrangersStaySafe`. For
  `ExportsTell` the request that holds the export is about to write what the
  record lists. The proof showed that a copy's account is one the record's map
  names, of which `CopiesAreReachable` had only said that it is a target or named;
  the property now says so.

* `ArtistImageProofs`. Each action is first reduced to its effect on the tasks, on
  what each key holds and on the ghosts; the invariant `IInv` is proved about the
  effects. An image is made once and is nowhere before it is stored (`FreshInv`),
  and a claimed key has one publisher (`ClaimInv`): without the first a reset could
  be undone by an image that bears an old number, without the second a reader could
  take back what another one published. What a reset is to forget is gone from its
  key, or the reset has still to come to it, or a reader has still to check it
  before it leaves it there (`ResetInv`): from it `ForgetsReset`. What was stored is
  there, in the pin, in the slot or as a strand, unless a reset or a rename is
  taking the key apart (`KeptInv`); a slot being published over is covered by the
  strand until its reader has checked it: from it `KeepsStored`. The proof
  corrected the two properties, which held only within the run's bounds: an image
  kept by a refusal and then renamed was blamed on the new name, a strand could
  be covered by a marker at the name it was moved to, a lookup begun before
  a rename could drop the strand the rename brought, and a rename there and back
  during a write-back let its reader take back the image as replaced. Each is
  now a named exception of its own, per image or per key, and the exceptions
  they replace are narrower.

Assumptions are the named ones of the modules: `None` is no member of the sets,
bounds are naturals, the sets of modes and actions are subsets of those of the
code, every run, holder, track and name has its kind, and no run is a holder
(`DisjointAssumption`), tracks, folders without audio and images are different
files (`FilesAssumption`), no entry of the Trash is named like the place outside
it (`HomeAssumption`), the queue of a stream has room for one event
(`QueueAssumption`), nobody is no tab (`NobodyAssumption`), finitely many webhooks
are handled at once (`HooksAssumption`), a playlist is shared with finitely many
users (`UsersAssumption`), and no user, track or playlist is one of the words that
stand for none (the same, `ItemsAssumption`, `IdsAssumption`).

Only model-checked: all liveness properties (fairness and `ENABLED` are beyond
the prover); what scans over feed rows compute (`CountsAreTrue`,
`OutcomeIsTrue`) or a drain leaves of the outcomes (`ParkIsShown`), since these are
folds and recursive functions; and all properties of
`StoreReach` and `Settings` (which reach a `RECURSIVE` walk), of `PlexPush` (folds
over sequences); `PosterIsTold` of `Playlists`, whose
invariant would have to follow the cover file beside the copies; and
`PagesAreCurrent` of `ArtistImage`, whose invariant would have to follow the tag
a page holds through thumbs, fills and the timer of the announcement.

## Observations

Where the code does not do what its own text says, or the property had to
exclude a window, the exclusion is a named part of the property, and where a text
of the repository says it without the exclusion one of the ten configurations above
shows the counterexample. What was seen on the way, by module:

*LibraryBusy.* An import resolves its runner over the attached library
(`import_jobs/registry.py:367`) before `claim_slot` (384); an Apply in between
leaves it on the closed library (`MCEarlyCapture`; "ONE library after Apply",
`config_editor.py:1191`). A reorganize reads the
handle before its gate. `fail()` (`jobs/base.py:117`) marks whatever job the
slot holds: a sweep whose HTTP client fails to close after `finish`
(`artist_art_jobs/runner.py:112,138,160`) fails the *next* job of its type, and
a third, or an Apply, may start beside its worker (`MCLateEnd`; `jobs/base.py:119-124`
counts "the rare double-stamp of finished_at" as the price).

*Bank.* A search stores candidates under a fingerprint they may be older than
(`MCBankSearch`; the runner re-checks only the fingerprint), and its unguarded
stale flip can land on a row whose import has just moved the folder
(`MCBankFlip`): `api/bank.py:195` and 197-199 both take the folder for one nobody
else is moving. `_classify_duplicate` reads the hook and the landed album over all
albums of a folder, so a merge cut short reads done when a sibling landed
(`MCBankMerge`).

*ImportJob.* Between `reply.get()` and the release of the slot a second answer
is accepted and marks the row; `twice` says that it happened, and the counters
and outcomes are claimed only where it did not. A choice without a revision
(`models/import_models.py:321-325` allows it) is held to the length of the list
alone (`import_session.py:1699`), so it may apply another release than the one
shown; `ApplyIsOfShownList` speaks of clients that echo it, as the application's own
page does (`ImportCandidatePage.tsx:364-369`). A second tab's re-emitted
prompt turns a decided row back to awaiting; a banked keep-both keeps the
set-aside status of its row; an as-tracks expansion whose tracks are all in the
library already is counted as imported.

*Acquisition.* A re-download between the walk and the record is recorded as
imported: `HiddenIsImported` fails, `QuietHiddenIsImported` says for what.

*Trash.* `excused` are the tracks whose rows went while the share misled the
check: `require_library_present` draws one row of each sampled album, so rows
already in the Trash make a stray mount point pass, the share may return in the
middle of a move, such a mount point may leave between the check and the removal
of the rows, and Replace looks at the root once. A restore is modelled
with the share up. A stranger's folder under a restored name keeps our record
(`_undo_failure`'s own residual).

*StoreReach.* The sweep of the records opens the store by its path
(`trash.py:1052`), and nobody looks for a mount of the library inside an import
source: what is reached so is `unseen`, and `ReachIsTheirs` speaks of the rest. A Trash
is made on the mount point of an absent share in three cases, which
`NoTrashOnBareMount` names. The share turns between the identity of the music root,
the walk and the presence, which are separate looks at it
(`store_layout.py:1509-1527`): `MCAbsentLibrary`, against "Nothing is created INSIDE a
library that is not there" (1560). A link in the operator's chain is pointed
elsewhere in that window (the residual the code names, 1466-1476). And an album that an
import replaces goes to a Trash made by its path behind the cheap guard
(`trash.py:311,334`), which any entry on the mount point satisfies
(`store_layout.py:1649-1652` records it as a residual, `library.py:143-148` accepts
the stray entry).

*Settings.* A hand that writes between the compare and the write of a save is
overwritten (no lock can see it); every write of the file has a time of its own
and hand edits move it forward.

*PlexPush.* The key-wise difference removes stale rows before it reads back the
additions (`plex/sync.py:475-485`), so an ignored addition can empty a playlist;
`plex/sync.py:14-16` and 510 say of every push that "the playlist never empties". Moves made by
key are not read back: an ignored one leaves the order wrong under "ok".

*Playlists.* A sync writes the whole map of Plex states it computed from the
record read at its start (`api/playlists.py:439,458`): two syncs, or a sync and
a deletion, at once can leave a copy nobody goes back to; an edit made during a
sync is stamped synced; a cover changed during one is told as pushed; a
reordering drops tracks added since it was read; two overlapping exports can
leave the older `.m3u8`. A deletion that Plex refuses leaves the copy. A new copy whose stamp and reconcile
both fail has neither a marker nor a recorded key, and the next sync makes a
second one (`MCNewCopies`; `plex/sync.py:608-610` promises "a findable playlist rather
than an orphan"); either failure alone is harmless. An export that cannot be
written or removed is logged and swallowed (`api/playlists.py:167-179`,
`reexport.py:68-85`): the old file stays until its next write, of a deleted playlist
for good. A vanished copy whose re-creation fails keeps the artwork hash, so its successor
never gets the poster; a rebuilt key with no stamped copy adopts a stranger's
playlist.

*ArtistImage.* `clear_auto` (`cache.py:665-674`) unlinks the slots before it
discards the memory entry, so a write-back that publishes in between passes
`discard_if` (466) and the old image survives the reset ("the reset must stay
reset", 438); rename has the same gap. `ResetStaysReset` fails for it;
`ResetForgets` is the part that holds. `_serve_full` (`api/artists.py:369`)
tags the bytes of a fill with a validator read afterwards, which can yield a
false 304 (`Mistagged`). A thumb may be stale when two derivations cross; a
write-back that publishes over a newer image and then takes it back loses both;
a fill in flight at a rename leaves an image under the old key; an upload
during a rename is overwritten by the moving pin. A take-back that the disk
refuses leaves the image behind (`left behind`). A lookup that was under way when
a rename brought a strand to its key drops it when it ends without an image
(`_or_remember`, 540; `discard`, 283), and a rename there and back during a
write-back makes the reader take back what is its key's again (`taken back`).

*BrowseCache.* An edit that fails part of the way announces nothing, so its
rows stay stale until the next change (`api/albums.py:225`; `MCFailedEdit`). A change
announced between a tab's first request and its first connection is missed
(`useEventStream.ts:93`; `MCFirstConnect`). An event heard while a tab's first request
is under way joins that request instead of asking again (`useEventStream.ts:31-35`;
`MCToldTab`). A request that fails twice leaves the old rows shown
(`queryClient.ts:26-29`). A tab refused with 503 while its old stream lingers does not
try again.

## What is not modelled

beets' matching, tagging and file moves (a library's effects appear as landed,
refused, skipped or raised) and the configuration overlay of
`run_import_worker`; HTTP, rendering and validation of payloads; the SQL of the
bank (its one lock makes each call one step); wording of answers and logs; the
webhook's parsing; the browser but for the event stream of a tab. Of the
modelled parts:

* `Trash`: protected trees and links (their refusals change nothing), sidecars,
  covers, the listing, finding duplicates and orphans.
* `StoreLayout`: `..` in link targets, binds of anything but a whole directory
  of ours, files in a link's way.
* `Settings`: how a text is edited, the naming preview, what beets reads of a
  text (its verdict is part of the text).
* `PlexPush`, `Playlists`: smart playlists, titles, pulling playlists out of
  Plex but for the record made of one, parsing of m3u files, other clients
  that edit a copy during a push, a creation that times out after it was done.
* `ArtistImage`: mime sidecars, the bounds of the memory tier, an unreadable
  directory, the toggles, the folder art the sweep writes, source previews.
* `BrowseCache`: the key of the cache (one library), scoped art events, refetches
  when the window is focused (they only ask more often), an answer 401.
* `Acquisition`: containment of paths, coalescing of disc folders, the settle
  window, the listing's figures.

Components marked `not_modelled` in `PROJECT.json` each have their reason:
library edits hold the library lock (modelled) and otherwise move files through
beets; authentication, folder sources and the slskd settings are one small file
each under one lock; start-up and shutdown order is wiring; the pages of the
frontend are the unconstrained requests of the models.

## What is left

1. Proofs of `PagesAreCurrent` and of `PosterIsTold`.
2. The lyrics sweep and its sidecars, and the folder art of the artist sweep,
   as jobs of their own with a stop in the middle.
3. The configuration overlay of an import: what a concurrent Apply or Validate
   sees while it is forced, and that it is taken back.
4. A Trash of several record keys and of more than two albums, once a smaller
   presentation of a file's places makes room for it.
