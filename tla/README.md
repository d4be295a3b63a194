# TLA+ models of BugLogin

BugLogin is a desktop application (Rust and Tauri under `src/src-tauri`, a React
front end under `src/src`) that manages browser profiles, their proxies, VPNs,
extensions and groups, and synchronises them between devices through
`buglogin-sync` (NestJS under `src/buglogin-sync`), a service in front of an
S3-compatible object store that also holds workspaces, memberships, share
grants, coupons and subscriptions ("control plane").

This directory holds TLA+ modules of the parts whose correctness depends on the
order in which things happen, TLC configurations that check them on small
instances, and proofs that the TLA+ proof system checks.

## 1. The system

| Component | State it keeps | Operations | Talks to | What is hard |
|---|---|---|---|---|
| Sync scheduler (`sync/scheduler.rs`; created in `lib.rs`, `cloud_auth.rs`) | `GLOBAL_SCHEDULER`; per scheduler: running flag, pending, in-flight, tombstone sets | queue, take a batch, claim, sync, clean up; start, stop, restart | sync engine, SSE subscription (channel), registry clean-up, commands | several generations at once, sets behind separate locks, loop that awaits in the middle of a batch |
| Sync engine and manifest (`sync/engine.rs`, `sync/manifest.rs`) | hash cache on disk, remote manifest, files, metadata, tombstones | delta sync of a profile, download of missing profiles, last-write-wins sync of proxies, groups, VPNs, extensions; remote deletion | object store through presigned URLs | several devices, partial failures, timestamps of one-second resolution, edits during a transfer |
| SSE subscription (`sync/subscription.rs`; server side in `sync.service.ts`) | connection, channel | connect, parse, hand on; poll and diff on the server | scheduler | lost events while disconnected, reconnects |
| Team lock (`team_lock.rs`) | cache of locks held by the team | connect, acquire, heartbeat, release | cloud backend, profile launch | a heartbeat's list that is older than a local change, crashes, leases |
| Browser runner (`browser_runner.rs`, `camoufox_manager.rs`, `wayfern_manager.rs`) | `process_id` and runtime state in the profile's metadata | launch, open URL, park, kill, status poll | proxy manager, team lock, profile manager | processes that die on their own, polls racing launches |
| Profile manager (`profile/manager.rs`) | `metadata.json` per profile | create, rename, assign, delete, list | everything | read-modify-write of a file without a lock |
| Local proxies (`proxy_manager.rs`, `proxy_runner.rs`, `proxy_storage.rs`) | active proxies by browser pid and by profile, a config file per worker | start, stop, re-key pid, clean up the dead | browser runner, worker processes | the temporary pid shared by concurrent launches, clean-up racing a start |
| Cloud authentication (`cloud_auth.rs`) | tokens, user state | login, refresh, logout, restart of sync | backend, scheduler, team lock | single-flight refresh, logout racing a refresh |
| Browser download and registry (`downloader.rs`, `downloaded_browsers_registry.rs`, `auto_updater.rs`, `version_updater.rs`) | registry of binaries, downloads in progress | download, verify, register, clean up | profiles, scheduler | clean-up of what is being downloaded |
| Control plane (`control.service.ts`) | workspaces, memberships, invites, share grants, coupons, subscriptions | about forty operations | Stripe, object store (persistence) | asynchronous steps between check and update, restarts, delivery of a payment twice |
| Sync server (`sync.service.ts`) | object store, subscriber state | presign, list, delete, quota, subscribe | devices | check-then-act quota |
| VPN and workers, daemon, MCP and API servers, extension, tag, cookie, settings managers, traffic statistics, importer, entitlement, ephemeral directories, front end | configuration files, processes | CRUD and adapters | the components above | little ordering of their own |

`PROJECT.json` lists every component with its state of modelling and, under
`hazards`, the places where this code can go wrong in ways a test hardly reaches.

## 2. Plan

Done, described in section 3: `SyncScheduler`, `ManifestDiff` and `ProfileSync`,
`TeamLock` over `ExclusiveUse`, `ControlMembership`, `ControlBilling`, `ProxyWorkers`
and `BrowserRuns` over it, `EntitySync`, `BrowserDownloads`; for each of them a module
of proofs, in which every safety property that a run checks is stated.

Left, the most important first:

1. `CloudAuth`: refreshed tokens, a logout during a refresh.
2. The quota of the sync server.

Proofs left: an abstract work queue that `SyncScheduler` implements; the steps of
`BrowserRuns` and `EntitySync` as implementations of simpler promises, as
`ExclusiveUse` is one for the team's locks.

The list of runs is kept to twelve, each a question of its own; the counterexamples
gave up their places, and their cfg files stay in this directory (section 4).

## 3. The modules

Each module's operators carry the names of the functions they model, and `map` in
`PROJECT.json` gives the lines.  Definitions headed "Mutant" are deliberately wrong
versions of one operator, paired with the property that notices in `mutants`.

### SyncScheduler

One generation `g` of the module is one `SyncScheduler` object with the task
that created it (`starter`), its subscription's channel and the loop spawned by
`start()`.  `loop[g]` is the await point at which the loop stands; every action
is one lock scope or one call between two awaits, so commands, other
generations and the periodic clean-up interleave everywhere the runtime lets
them.  The pending sets of the entity kinds are one set partitioned by `KindOf`.
`profile[p]` keeps what the scheduler looks at: whether sync is on and whether a
browser process id is stored.  `owed` is a history variable: the profiles whose
sync was requested and that have not been read from disk since.

Checked: the type invariant; `InFlightExact` (the in-flight set is the profile in
the loop's hands, at every await); `NoLostRequest` (a request is absorbed only by
a sync that has not read the profile yet); `RequestsServed` and `EntitiesDrained`
under fairness of the loop.  That the loop of a scheduler which was replaced ends
(`ReplacedSchedulersEnd`) is refuted by `MCSyncSchedulerStop.cfg`: a restart that falls
between the creation of a scheduler and its start clears a flag that the start then sets.

Bounds: one profile with one proxy attached; one scheduler with an item waiting in
the channel and one command in progress (`scheduler_safe`), or two schedulers that
overlap, with an entity's item waiting in the channel (`scheduler_live`).  Two generations
are the smallest number that overlap, and each has its own sets: a third would only repeat
the pair.

Fairness: `WF(LoopProgress)`, since the runtime polls every task and the engine's
HTTP client fails rather than hangs, and `SF(TakeReadyProfiles)`: each item
received makes `select!` start its 500 ms sleep again, so without pauses in the
stream nothing would ever be synced.  The server polls its store every few
seconds and sends what changed in one burst, which leaves such pauses.
`FairSpecLive` leaves out the steps that write nothing a loop waits for.

Proved (`SyncSchedulerProofs`), for any constants: `TypeCorrect`,
`InFlightExactAlways`, `NoLostRequestAlways`.  The inductive invariant adds to the
type invariant that the loop has a profile in its hands exactly in the places
where it uses it (`CurrentIsProfile`), that a scheduler's loop does not exist
before it is started (`StartedOnce`) and that a batch is empty when the loop is
past it (`BatchConsumed`): without the last one `TakeReadyProfiles` would
overwrite requests.

### ManifestDiff and ProfileSync

`ManifestDiff` is the pure part of `sync/manifest.rs`: manifests as functions from
paths to hashes, `ComputeDiff` with its two directions, and `Patched`, what a
side looks like when its transfers and deletions have succeeded.

`ProfileSync` is one profile on several devices around the object store.  The
devices' directories, hash caches and syncs in progress are functions of the
device; the store is `remote` (files), `remoteMeta` and `manifest`, three kinds of
object that no request writes together.  A sync is a program counter
(`sync[d].at`), the clone of the profile it will save back, the manifest it
generated at its start and the part of the diff that is still to do; each upload,
download and deletion is an action, so that browsers and other devices act
between any two.  metadata.json lies in the directory that is walked and is
therefore a path like the others (`Meta`): it is listed, transferred, and its
rewriting by the save at the end of each sync dates the next manifest.  `unsynced`
(files changed on a device and nowhere else) and `removed` are history variables.

Bounds and parameters, each an assumption a run makes explicit:
`MaxTime` seconds and `MaxVersion` edits (three or four, and two or three: an edit before, one
during and one after a sync, each in a second of its own if it likes); two devices
and the two paths `cookies` and `meta`; `Failures` (requests that end the sync with an
error, "abort"; the upload or download of one file, which is logged and left out; the end of
the application during a sync, "exit", and after the manifest, "quit"); `ExitsIn` (the
scenarios in which it may end); `BrowserRuns` (files change while they are
synced); `SameSize` (an edit may keep the size, which is what the hash cache can
be fooled by); `SlowSync` (the save at the end happens in a later second than the
changes the sync found).  `SlowSync` is the usual case and not a certain one;
equal seconds are where most of the counterexamples of section 4 come from.

Checked (`sync_scenarios`, whose initial state chooses one of two scenarios): with one
device whose browser writes all the time, whose requests fail and whose application ends
in the middle of a sync, no change is replaced by an older content (`NoHiddenOverwrite`),
and once nothing is cut short the store holds every file as it is on disk
(`AloneCatchesUp`).  With two devices that take turns (one is edited when it has what the
store has and synchronises, again when that fails, before the other does anything:
`MyTurn`, `UpToDate`), nothing is overwritten, and nothing vanishes (`NothingVanishes`: a
file that was written stays in the store, whether or not a manifest lists it, or on some
device until a browser removes it), also when a recovery ends with an error.

What the code does not keep, and the run therefore leaves out: a file whose upload failed is
in the manifest and never uploaded (`AloneCatchesUp`, `ProfileScenariosRefuted.cfg`); files
vanish in spite of turns when a download of one file fails or when the application ends
during a recovery or a sync (`ProfileScenariosRefuted.cfg`), and with a third device
(`ProfileScenariosThree.cfg`).  Without turns files are overwritten and vanish
(`MCProfileSyncRefuted.cfg`).

Fairness: time passes, and each device keeps being asked for a sync (edits,
events and start-up all do) and takes its steps.  Edits and failures are not fair.

Proved (`ProfileSyncProofs`), for any paths and contents: a diff changes one side
only and its transfers and deletions are of different paths (`OneSideChanges`); a
first sync stores all (`FirstSyncStoresAll`); a newer side replaces the other
completely, and so does the remote one in the same second
(`NewerLocalReplacesRemote`, `OtherwiseRemoteReplacesLocal`): together they are the
reason why two devices without turns lose changes; and "already in sync" is said
exactly when the listings agree (`EmptyDiffMeansEqual`).

Of the specification, for any devices, paths, times, edits and failures:
`ProfileTypeCorrect`, and about the two scenarios, under `FinishesLate` (`SlowSync`,
and the application does not end between the manifest and the save, which is
`MCProfileSyncQuit.cfg`):

- `ScenariosKeepChanges` (`NoHiddenOverwrite`), for any number of devices, whatever else fails.  The
  invariant: one device at a time has changes or a sync in progress (`OneAtATime`); its
  changes are newer than the manifest (`ChangesAreNewer`), and a device that is alone is
  newer even before it has any (`SingleIsNewer`); and the manifest is older than the
  clock except before the save (`ManifestIsPast`).  So a device with changes never
  downloads.
- `AloneKeepsFiles` (`NothingVanishes`), whatever requests fail and whenever the
  application ends: a device that is alone never downloads, hence deletes no file of its own.
- `TwoKeepFiles` (`NothingVanishes` for both scenarios) when there are at most two
  devices, no single download fails and the application does not end during the syncs of
  devices that take turns; requests that end a sync or a recovery may fail.  Deletions follow the manifest, and the manifest
  need not list what is stored, because a sync that downloads publishes the one it began
  with.  The invariant (`TurnsInv`) says why two devices get away with it: a device that
  is newer than the manifest has every stored file (so nothing is deleted from the
  store), and while it is not, the manifest lists every stored file (so nothing is
  deleted on the device); after a download the manifest may list less, and then both
  devices are newer and have every file.  A sync that ended with an error is repeated by the same device before the
  other one's turn (`FailedSync`).  A third device may be left with neither, and one that missed a download, or whose
  application ended after `metadata.json` had come, is newer without having the files: the
  refuting configurations are what is left without the hypotheses.

### ExclusiveUse and TeamLock

`ExclusiveUse` is what a lock promises: a holder per profile, used by nobody else,
changing hands only when nobody uses it.

`TeamLock` is `team_lock.rs` in each running app, the launch and kill commands around
it, and the backend's locks.  The backend is not in this repository: a lock is
granted to anybody when it is free and to its holder, a heartbeat renews the lock of
its sender, and a lock that is not renewed for `Lease` periods lapses (the client's
types have an expiry).  A period is the 30 seconds of the heartbeat loop; the
requests of a round take less, which is what the guard of `Period` says.  A request
and the storing of its answer are two actions, so that a list may be older than a
lock when it replaces the cache.  `Events` names what else can happen: failed
requests of each kind, launches that fail late, browsers that exit on their own,
logout, the end of the application, and "overlap" of a kill with a relaunch.

Not every browser has a lock.  `acquire_team_lock_if_needed` succeeds without one for a user
who is logged out or has no team, and `open_url_with_profile` never asks (`OpenUnlocked`);
the programming interfaces acquire it before they call the runner.  `running` are the
browsers launched with the lock and `stray` those without.

`Events` is a set per app, so that one member's app may behave and another's not.
The loop that refreshes the tokens calls `connect` again each time it has slept, which is
every `ConnectEvery` periods (`since`).

Checked (`lock_safe`): Ann's app is reliable, although her browsers exit on their own, her
DELETE requests get lost and browsers are opened without the lock; Bob's app loses heartbeats
and may end.  A browser that a reliable app launched with the lock keeps it
(`RunningIsLocked`), and locks and such browsers together implement `ExclusiveUse`
(`KeepsUseExclusive`), with a lease of three periods and a connect every second one.  Both
numbers are necessary: a list that is older than the lock costs one renewal, and a connect,
which starts the 30 seconds over, another; a lease of two, or a connect in every period, and
a lock lapses under its browser.  So is each thing a reliable app does not do (`Reliable`): with
an overlap, a lost renewal, a lost list, a logout, the end of the application or another app of
the same user TLC has a behaviour in which the lock is gone.

`MCTeamLockRefuted.cfg` has what this does not say: two users have one profile open, one of
them without the lock (`OneUserAtATime`), and after a logout not even a browser that was launched
with it keeps it (`LaunchedIsLocked`).

(`lock_live`): the cache and the backend agree again and again (`CacheReconciles`), and a lock
that nobody uses ends unless some app of its user stays connected (`AbandonedLocksLapse`),
with lost DELETE and heartbeat requests, launches that fail after the lock, logout and quitting.
That every unused lock ends (`UnusedLocksEnd`) is refuted: the lock of a browser that its
user closed, or whose DELETE was lost, is renewed for as long as the app is open
(`MCTeamLockExit.cfg`).

Fairness: requests are answered or fail and spawned tasks run (`WF`); time passes
however many commands users give (`SF(Period)`: a command's answer is waited for).

Proved (`TeamLockProofs`), for any apps, users and profiles: `TypeCorrect`, whose
inductive strengthening says that a loop about to replace the cache has a list
(`ListReady`); `LockedUseIsExclusive`: a behaviour in which `RunningIsLocked` holds
implements `ExclusiveUse`; `ExclusiveUseSeparates`: an implementation of `ExclusiveUse`
never has two users on one profile.  `RunningStaysLocked` (`RunningIsLocked`): under
`LeaseIsLong` (a lease of at least three periods, connects at least two apart) the browsers
that reliable apps launched with the lock stay locked whatever the other apps do and whoever
opens browsers without it; hence `ReliableUseIsExclusive` (`KeepsUseExclusive`) and
`ReliableUsersApart`: two reliable apps never both run such a browser of one profile.  The invariant counts the periods
since the last renewal: a lock that was not renewed in this one is on every list that is
on its way and, when the loop has had its turn, in the cache (`Listed`); one that was passed
over once is in the cache and the loop is before its renewal, unless a connect has just
started it over (`Due`).

### ControlMembership

The maps of `control.service.ts` for accounts, workspaces, memberships and
invitations, and the copy of them on disk.  Handlers have no await between their
first check and `persistState`, so an action is a request.  A person is an e-mail
address with up to two user ids: the one the server derives from the address and
one made by the app or by an earlier server, which `migrateAuthUserId` replaces.
`hidden` and `masked` are the accounts and memberships whose address has been
replaced by the placeholder `<id>@local`, which is what writing the tables can do.
A session is a user id some client sends.

`Store` is "snapshot" (SQLite: one JSON value, written before the handler returns) or
"tables" (PostgreSQL: a chain of promises, each writing every table anew in one
transaction, hence `WriteTables` is one step that reads the maps when it runs).
`Failing` and `LoadFailing` let writes and the load fail.  `Restart` may happen at any
time, `Shutdown` is the clean end.

Checked (`members_safe`, SQLite): a workspace has an owner, a person is a member
under one id, nobody has an open invitation to where he is a member, an account
that was saved survives.  (`members_tables`, PostgreSQL): a workspace that was
written stays written, and the tables agree with the maps again and again when
writes stop failing.  `MCControlMembershipOwner.cfg` is the case in which PostgreSQL's
placeholder lets the last owner be invited and so become a member.

Bounds: two people with two ids each, one with an old account, two workspaces, two
invitations (symmetric, as their ids are never compared in order); for the tables one
workspace and one invitation.  Two people are inviter and invited; a third would play
one of these parts.  Fairness: `WF(WriteTables)`, each promise of the chain runs.

Proved (`ControlMembershipProofs`): `TypeCorrect` for either store; for SQLite, for
any people, workspaces and invitations and whatever fails, `OwnersStay`,
`PeopleJoinOnce` and `MembersAreNotInvited`.  `acceptInvite` replaces a role without
counting owners, so owners stay only because no member can be invited; that holds
because every membership has its person's address (`masked = {}`) and one address has
one open invitation (`OneInvite`); and since a restart loads whatever was written,
the copy must satisfy all of it as well (`SavedSound`).  It is the conjunct
`masked = {}` that PostgreSQL breaks.

`WorkspacesStay` (`WorkspacesKept`), for either store and whichever writes fail, when
every start-up can read the copy: a workspace of the copy is known to the maps
(`WorkspacesKnown`), so that no later write leaves it out.  `AccountsStay`
(`AccountsKept`), for SQLite when writing does not fail: the copy has the account of every
address the maps have (`AccountsSaved`), so that a restart finds it, also one that follows a
start-up which read nothing.  A start-up that cannot read (`MCControlMembershipLoad.cfg`)
and the placeholder of PostgreSQL (`MCControlMembershipLogin.cfg`) are the
counterexamples without the hypotheses.

Left out: share grants, entitlements, the audit log, e-mail wording, session tokens
and passwords; clients that send an id without its address (`anonymous@local`) or with
another's, as the application does not; the state file of earlier versions, which a start-up
reads when the tables cannot be loaded; invitations by authors without an address.  Billing
is in `ControlBilling`.

### ControlBilling

Plans, coupons, licences, checkouts and invoices of `control.service.ts`.  A request is
one step, except for a checkout: it is opened and confirmed around a call to Stripe
(`requests[r]` is what waits for it), and between a call and its answer any other request
runs.  Stripe is not in the repository: `stripe[session]` is the amount it was asked for
and whether it is paid.  Amounts are computed as the code does, in tenths of a percent and
rounded: `Amount` when a checkout is quoted and `Billed` when the invoice is written are two
functions, and that they agree needs a whole percentage.  A restart keeps what was saved and
loses what waits; rows of PostgreSQL come back in any order (`Unordered`).

Checked (`billing`): an invoice for a checkout shows what Stripe was asked for and has been
paid (`ChargedAsQuoted`), although the coupon is looked up again when the payment is
confirmed; a coupon is redeemed as often as its code is on invoices and not beyond its cap
(`CouponsAccounted`); a workspace has the plan of its last invoice
(`SubscriptionIsInvoiced`); a completed checkout has its invoice (`CompletedIsInvoiced`).

Bounds: one workspace and its manager, two plans (prices 1 and 4), two requests at Stripe at
a time, one checkout session, one code with at most two coupons of 50 and 75 percent and a
cap of one, one licence, two invoices.  Two coupons of a code are what a confirmation can
confuse; two invoices are one more than a session should have.

Proved (`ControlBillingProofs`), for any constants, in whatever order rows are loaded and
however calls to Stripe overlap: `BillingTypeCorrect`; `CouponsAreAccounted`
(`CouponsAccounted`): the redemptions of a code's coupons and the invoices that name the
code are as many, although a coupon is looked up again by its code when a payment is
confirmed, and no coupon is redeemed beyond its cap (`CapsAreKept`); `PlansAreInvoiced`
(`SubscriptionIsInvoiced`); `CompletedAreInvoiced` (`CompletedIsInvoiced`).  The
invariant `BooksInv` adds that requests name what exists (`RequestsKnown`) and that the
last invoice of a workspace has its plan (`PlanOfLast`); `Accounts` compares the two
sides of the coupons' books as finite sets.

`InvoicesAsQuoted` (`ChargedAsQuoted`) when discounts are whole percentages
(`WholeDiscounts`) and rows keep their order (`~Unordered`).  The invariant: of a code's
coupons only the last is not revoked (`OneActive`), so the coupon consumed at the end is
the one quoted or none; quotes agree with their coupon while they wait (`RequestsQuoted`)
and once recorded (`CheckoutsQuoted`).  Without either assumption TLC has the
counterexample (section 4).

### ProxyWorkers and BrowserRuns

`ProxyWorkers` is a library of steps: the config file of a worker and its two writers
(sidecar and worker), the process, the two tables in which the application tracks workers,
`start_proxy`'s choice of a worker to use again, the re-keying of the temporary pid, stop
and clean-up.

`BrowserRuns` is the rest of a device around it: metadata.json of each profile, the
directories in RAM of ephemeral profiles, browser processes, Wayfern's table of instances,
the status poll and the commands in progress.  A command is a record with its program
counter and the clone of the profile it works on and saves; a step goes from one await to the
next, so that two launches, a launch and a kill, or a command and the poll overlap everywhere
they can.  An upstream is a proxy with its settings, of which `is_same_upstream` compares type,
host and port (`Endpoint`, `SameUpstream`).  `stop_proxy_by_profile_id` looks up two tables
under two locks with no await in between, one step here.  Processes end on their own, and the application may end and start
again (`accidents`).

Checked (`runs_safe`): a browser's traffic goes through a worker of its own profile to the
host and port resolved at its launch, although all launches use one temporary pid
(`OwnProxy`); a
kill stops no other profile's worker (`KillsOwnProxy`); a live worker has its file, so that
it can be found and stopped (`WorkersHaveFiles`).  (`runs_live`): the poll makes metadata and
processes agree in the end (`MetadataSettles`) and frees the RAM of an ephemeral profile
(`RamIsFreed`), whatever stale clones were saved.  That the traffic also has the credentials
and bypass rules of the launch (`OwnCredentials`) is refuted by `MCBrowserRunsRefuted.cfg`: a
worker of before the change of a password is handed out again.

Bounds: a Camoufox and a Wayfern profile, two commands at a time, three in all (two with the
poll), two browser processes, two workers (one), three upstreams (none, a proxy, and the same
proxy with another password), one accident; the Wayfern
profile is ephemeral in `runs_live`.  Two commands overlap; the third one changes the proxy or
relaunches.  Fairness: the poll runs every five seconds per profile and commands run to
their end (`WF`).

Proved (`BrowserRunsProofs`), for any profiles, pids, workers, upstreams and commands and
whatever ends when: `RunsTypeCorrect`, `TrafficIsOwn` (`OwnProxy`), `KillsAreOwn`
(`KillsOwnProxy`) and `LivingWorkersHaveFiles` (`WorkersHaveFiles`).  The invariant says that
what a command has found out about a worker stays true until it uses it (`CommandsFit`),
because a worker that has been started never serves anything else (`WorkersStay`), that a
browser's port is that of a worker of its profile (`BrowsersFit`), and that the tables name
workers that were started (`TablesFit`).  Which entry the temporary pid has plays no part in it:
that is why launches that share it do no harm to traffic.

Left out: what the config file of a worker says beside its pid, and the half second
`stop_proxy_process` waits after SIGTERM: a stop is one step (`Stopped`).  `AutoUpdated` moves
all profiles in one step.

### EntitySync

Proxies, groups, VPNs, extensions and extension groups of several devices: each manager's
copy on disk (and in memory for proxies, whose writes by the engine go to the file only),
the object and the tombstone in the store, what a subscription knows of the store, the
channel, the scheduler's queue and its pass over the kinds, the engine's step with one
entity, and the check for missing entities at the start.  `sync_*`'s requests are steps
(`Stat`, `Put`, `Keep`, `Get`, `Save`), as are a deletion's two requests, so that edits,
deletions, events and restarts happen between any two.  The server's poll compares listings;
a prefix whose listing fails is missing from one (`Failing` names the sets that may fail
together).  `deleted` (by a user) and `dropped` (work that was given up) are history variables.

Checked (`entities`): what no user deleted is lost nowhere (`EntitiesSurvive`): not for a
listing that fails, a late answer, a lost connection or a restart; a proxy or a group that
is created reaches every device (`CreatedArrives`) unless work was given up.

Bounds: two devices, one entity of any kind, two seconds, one edit, one fault; the action
constraint `Relevant` leaves out what makes no difference (the devices are alike; time before
an upload; faults after a deletion that are not its requests').  The properties are about
one entity at a time.  Fairness: a device's tasks run, its subscription is opened again after
six seconds, and the server polls every two (`WF`).

Proved (`EntitySyncProofs`), for any devices, entities and bounds and whatever fails:
`EntitySyncTypeCorrect` and `Survives` (`EntitiesSurvive`).  The invariant says that behind
each tombstone is a user's deletion, wherever it is on its way: store, subscription, channel,
queue (`Buried`), and that the engine never writes without a copy (`HasCopy`).

Left out: the data of an extension beside its metadata, proxies managed by the cloud, names
and their duplicates, more than a thousand objects per listing, profiles (`ProfileSync`), and
that work sent while the loop waits stands in the channel for a moment before the queue.
A poll that the next one supersedes (`switchMap`) counts as dropped work, as a failed one
does, and `MaxFaults` is one fault of any sort.

### BrowserDownloads

The versions of one browser on a device: `download_browser_full` with its locks, its
cancellation and its resumption of a broken stream, the unpacking of the archive, the
registry of versions with its clean-up and consolidation, the updates that move
profiles to another version, and the launches of profiles that hold a clone meanwhile.
A step goes from one await to the next; an unpacking, which takes long, is two steps.
The updates and clean-ups that every download, every kill and a timer spawn may begin at any
time, and each is several steps on a thread of its own (`cleaning`): it lists the profiles,
then moves them one by one, where an update may fail, and removes directories last, while
other commands create, move and launch profiles.  Versions are numbers in the order of
`compare_versions`, the newest is what the server offers.  An archive is a sequence of pieces,
each a chunk of the server's file of some version, since `resolve_download_url` may give the
newest version's file for the one asked for.  An error of the disk may end a download where the
code returns with `?`; the keys such an error leaves behind until the next start are the
history variable `leaked`.

Checked (`downloads`): an archive on disk has no gap and no repetition and its full length
when it is unpacked, whatever was cancelled, broken off, resumed or lost (`ArchiveIntact`); what
a download has opened and written is touched by nothing else while it streams, neither by
clean-ups that go by an old list nor by consolidations (`StreamUndisturbed`); a version is locked
by the one download that works on it or by one that an error of the disk ended (`KeysExact`), so
that it can be asked for again.

What one would expect beside them is refuted by `MCBrowserDownloadsRefuted.cfg`: that an archive
is of one file (`ArchiveOfOneFile`), and that a stopped profile keeps the browser it has
(`StoppedStayLaunchable`): a profile is moved to a version that a clean-up has listed as unused,
or could not be moved from one that a consolidation removes.

Bounds: two versions, two chunks, two downloads and two profiles, two of the four at a time
(`MaxActive`), one thread that cleans up or consolidates, three requests, and one launch, failed
update, loss of files, error or restart.  Two downloads are what can meet on one key; two chunks
are the least a resumption can tell apart; two versions are an old and a new one.

Proved (`BrowserDownloadsProofs`), for any versions, chunks, profiles, downloads and threads:
`DownloadsTypeCorrect`, `ArchivesIntact`, `StreamsUndisturbed` and `KeysGivenBack`.  The invariant
says that a download that works holds its version's key alone (`OwnKeys`), so that nobody else
writes its archive, and that the archive is as long as the download has counted
(`Beginnings`).

Left out: Windows' single executables, profiles of other systems, Chromium's threshold of
versions, the GeoIP database, pending updates and notifications, the caches of version lists.
A download's key and its cancellation token are given back in two steps in the code (`Releases`
is one), and two early returns, for an unknown browser type and for a version without download
information, leak the key as an error of the disk does.  `UpdatedTo` moves the profiles of an update in one
step, and the check and the save of one profile's update are one.

## 4. Runs

| Run | Configuration | Checks | Distinct states |
|---|---|---|---|
| `scheduler_safe` | `MCSyncSchedulerSafe.cfg` | `TypeOK`, `NoLostRequest` | 1.5 million |
| `scheduler_live` | `MCSyncSchedulerLive.cfg` | `InFlightExact`, `RequestsServed`, `EntitiesDrained` | 220 000 |
| `sync_scenarios` | `ProfileScenarios.cfg` | `TypeOK`, `AloneCatchesUp`, `NoHiddenOverwrite`, `NothingVanishes` | 950 000 |
| `lock_safe` | `MCTeamLockSafe.cfg` | `TypeOK`, `RunningIsLocked`, `KeepsUseExclusive` | 1.7 million |
| `lock_live` | `MCTeamLockLive.cfg` | `CacheReconciles`, `AbandonedLocksLapse` | 93 000 |
| `members_safe` | `MCControlMembershipSafe.cfg` | `TypeOK`, `EveryWorkspaceHasAnOwner`, `PersonJoinsOnce`, `InvitesAreForOutsiders`, `AccountsKept` | 340 000 |
| `members_tables` | `MCControlMembershipTables.cfg` | `WorkspacesKept`, `SavedCatchesUp` | 43 000 |
| `billing` | `MCControlBillingSafe.cfg` | `TypeOK`, `ChargedAsQuoted`, `CouponsAccounted`, `SubscriptionIsInvoiced`, `CompletedIsInvoiced` | 1.4 million |
| `runs_safe` | `MCBrowserRunsSafe.cfg` | `RunsTypeOK`, `OwnProxy`, `KillsOwnProxy`, `WorkersHaveFiles` | 1.8 million |
| `runs_live` | `MCBrowserRunsLive.cfg` | `MetadataSettles`, `RamIsFreed` | 160 000 |
| `entities` | `MCEntitySync.cfg` | `TypeOK`, `EntitiesSurvive`, `CreatedArrives` | 350 000 |
| `downloads` | `MCBrowserDownloads.cfg` | `DownloadsTypeOK`, `ArchiveIntact`, `StreamUndisturbed`, `KeysExact` | 1.7 million |

`CHECK_DEADLOCK FALSE` stands where the bounds run out (edits, seconds,
invitations) or where a stopped scheduler is the end.

Counterexamples that TLC finds, not in the list of runs; `findings` in `PROJECT.json`
gives the lines of the code and of what it disagrees with.  Where a configuration
lists several properties TLC stops at the first it refutes; leave only the one
of interest in the file to see its trace:

| Configuration | Module | Refutes | What the trace shows |
|---|---|---|---|
| `MCSyncSchedulerRefuted.cfg` | `MCSyncScheduler` | `WaitsForBrowserToStop` | a profile is synchronised while its browser runs |
| `MCSyncSchedulerStop.cfg` | `MCSyncScheduler` | `ReplacedSchedulersEnd` | a restart clears the flag of a scheduler that has not started; the start sets it, and the loop runs for ever |
| `MCProfileSyncRefuted.cfg` | `MCProfileSync` | `NothingVanishes` | without turns a file that no device deleted is gone everywhere |
| `ProfileScenariosThree.cfg` | `ProfileScenarios` | `NothingVanishes` | a device fetches a file and publishes the manifest of before; a third one that follows it deletes the file everywhere |
| `ProfileScenariosRefuted.cfg` | `ProfileScenarios` | `AloneCatchesUp` | a file whose upload failed is in the manifest, and no later sync uploads it |
| `ProfileScenariosRefuted.cfg` | `ProfileScenarios` | `NothingVanishes` | a file that could not be downloaded, or had not come when the application ended, is taken for deleted by the next sync |
| `MCTeamLockExit.cfg` | `MCTeamLock` | `UnusedLocksEnd` | the lock of a browser its user closed, or whose DELETE was lost, is renewed for ever |
| `MCControlMembershipOwner.cfg` | `MCControlMembership` | `EveryWorkspaceHasAnOwner` | the last owner accepts an invitation as a member |
| `MCControlBillingRefuted.cfg` | `MCControlBilling` | `PaidOnce` | two confirmations of one checkout both pass the check before Stripe's answer |
| `MCControlBillingRefuted.cfg` | `MCControlBilling` | `ChargedAsQuoted` | after a load in another order the code's other coupon is redeemed |
| `MCControlBillingRefuted.cfg` | `MCControlBilling` | `NoDowngrade` | a checkout opened before an upgrade is confirmed after it |
| `MCControlBillingFraction.cfg` | `MCControlBilling` | `ChargedAsQuoted` | a discount of 12.5 percent is quoted as it is and invoiced as 13 |
| `MCEntitySyncRefuted.cfg` | `MCEntitySync` | `DeletedStaysDeleted` | an upload that had begun stores an entity again after its deletion |
| `MCEntitySyncRefuted.cfg` | `MCEntitySync` | `NothingOlder` | an edit is overwritten by the older object another device uploads later |
| `MCEntitySyncRefuted.cfg` | `MCEntitySync` | `OffStaysOff` | synchronisation that was switched off is on again after an upload |
| `MCSyncSchedulerRefuted.cfg` | `MCSyncScheduler` | `NoDuplicateSync` | after a restart the old and the new scheduler sync one profile at once |
| `MCSyncSchedulerRefuted.cfg` | `MCSyncScheduler` | `CleanupOnlyAfterLastProfile` | the clean-up "if this was the last profile" runs with more of the batch to come |
| `MCSyncSchedulerRefuted.cfg` | `MCSyncScheduler` | `PeriodicCleanupAvoidsSync` | the periodic clean-up has looked at the in-flight set before an id moved into it |
| `MCProfileSyncRefuted.cfg` | `MCProfileSync` | `NoHiddenOverwrite` | a file created on one device is deleted there, because the manifest of the other one, which only synchronised, is dated as late |
| `MCProfileSyncRefuted.cfg` | `MCProfileSync` | `ManifestDescribesFiles` | two devices sync at once; the one that ends last leaves its manifest over the other's objects |
| `MCProfileSyncHash.cfg` | `MCProfileSync` | `FreshHashes` | a file of the same size changed within the second of its hashing |
| `MCProfileSyncQuit.cfg` | `MCProfileSync` | `NoHiddenOverwrite` | the application ends between the manifest and the save |
| `MCTeamLockRefuted.cfg` | `MCTeamLock` | `OneUserAtATime` | a browser is opened without the lock while another user has it |
| `MCTeamLockRefuted.cfg` | `MCTeamLock` | `LaunchedIsLocked` | logout ends the heartbeats of browsers that run on |
| `MCBrowserRunsRefuted.cfg` | `MCBrowserRuns` | `OwnCredentials` | a launch after a change of the password is given the worker with the old one |
| `MCControlMembershipConflict.cfg` | `MCControlMembership` | `SavedCatchesUp` | two ids with one address violate the unique column on every write |
| `MCControlMembershipLogin.cfg` | `MCControlMembership` | `AccountsKept` | the account of somebody who invites is filed under the placeholder |
| `MCControlMembershipLoad.cfg` | `MCControlMembership` | `WorkspacesKept` | a start-up that cannot load writes its empty maps over the tables |
| `MCBrowserDownloadsRefuted.cfg` | `MCBrowserDownloads` | `RegisteredAreWhole` | a clean-up registers a version whose unpacking goes on |
| `MCBrowserDownloadsRefuted.cfg` | `MCBrowserDownloads` | `KeysReleased` | an error of the disk leaves the version locked until the next start |
| `MCBrowserDownloadsRefuted.cfg` | `MCBrowserDownloads` | `RunningKeepFiles` | a consolidation removes the version a running profile uses |
| `MCBrowserDownloadsRefuted.cfg` | `MCBrowserDownloads` | `ArchiveOfOneFile` | a resumed download appends the rest of a newer version's file |
| `MCBrowserDownloadsRefuted.cfg` | `MCBrowserDownloads` | `StoppedStayLaunchable` | the version a stopped profile is moved to is removed by a clean-up that listed it as unused |
| `MCBrowserDownloadsRefuted.cfg` | `MCBrowserDownloads` | `NeverDowngraded` | after a download for a missing binary newer profiles go to the older version |

## 5. What the checks do not show

Liveness (`RequestsServed`, `EntitiesDrained`, `AloneCatchesUp`,
`CacheReconciles`, `AbandonedLocksLapse`, `SavedCatchesUp`, `MetadataSettles`, `RamIsFreed`,
`CreatedArrives`) is model-checked only: the proof system reasons about neither fairness
nor ENABLED.  Every other property of every run is a theorem; each theorem's hypotheses on
the constants are in its statement, and section 3 names the counterexample without them.

Taken as given: a lock scope between two awaits is atomic; hashes do not collide;
clocks of the devices agree (the code compares their seconds as if they did); the
object store shows a completed request to the next one; a transaction of PostgreSQL
is atomic; the backend of the team locks behaves as described under `TeamLock`.

Not modelled, with the reasons per part in `PROJECT.json`: what the plan still has;
byte transport (proxies, VPN, SSE framing), process start-up, platform calls,
fingerprint sampling, self-update and the front end, in which the order of steps
decides little or which are I/O throughout.
