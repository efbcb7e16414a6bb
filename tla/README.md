# Iris Drive: specifications

TLA+ models of the parts of Iris Drive in which several processes or devices
act on the same state, the TLC instances that check them, and proofs that
TLAPS checks. Paths are relative to the repository; `core` is
`crates/iris-drive-core/src`, `cli` is `crates/iris-drive-cli/src`, `app` is
`crates/iris-drive-app-core/src`.

Check a run with `tlc -config <cfg> <MC module>.tla`, a proof with
`tlapm <module>.tla`. `PROJECT.json` lists the runs with their properties, the
code each definition stands for, a mutant that breaks each property, the
hazards and the theorems.

## 1. The system

A drive belongs to a profile whose devices each hold an *AppKey*. Every device
publishes its own contribution to the drive as a chain of content-addressed
*roots*, and shows its user the merge of everybody's latest root. There is no
server that orders anything: roots are announced as signed events on relays
and over a direct peer transport, and blocks are fetched by hash. Devices join
and leave by signed roster operations; folders can be shared with other
profiles; friends can keep encrypted backups of one's drive.

| Component | State | Operations | Hard behaviour | What makes it correct |
|---|---|---|---|---|
| Config transaction lock (`core/config_lock.rs`, `daemon_liveness.rs`) | one lock file with a pid and an mtime | acquire, acquire for background work, stale removal, drop | several processes, crashes, failed writes, old files | one holder; an abandoned file is cleared |
| Config store (`core/config.rs`, `config/profile_roster_events.rs`) | `config.toml`, the roster operations beside it, copies in every task | load, change, save with `preserve_newer_app_key_roots` | saves of stale copies, some without the lock, crashes between two files | roster operations and the order of roots survive; under the lock, everything does |
| AppKey roots on record (`core/config.rs`, `relay_sync.rs`, `direct_root_transport.rs`, `nostr_events.rs`) | per AppKey one reference: cid, sequence, time, generation, parents, observed roots | import, web bridge, announce, apply event, apply hint | lost, repeated, late messages; placeholders; clocks of two devices | a follower only moves forward along the owner's roots |
| Direct-root exchange (`core/direct_root_transport.rs`; `cli/publish/direct_root.rs`) | seen keys, cached events, waiting frames, the roster each device knows | announce, hint, forward, apply, pull blocks | an event before its key or its blocks; caches and restarts; an owner that is gone | what counts as seen is had; everybody ends up current |
| Drive roots of all devices (`core/daemon.rs`, `projection.rs`, `root_meta.rs`; `cli/daemon/apply_and_blocks.rs`) | per device its roots, its record of the others', the blocks stored, the tree its user sees | edit, project the merge, hand over to a new device, announce, learn, download | roots before blocks, projections answering projections, observations | observed frontiers only grow; projections stay local; all converge |
| Drive contents and merge (`core/merge.rs`, `projection.rs`, `indexer.rs`; `app/native_provider.rs`; `cli/mount.rs`, `daemon.rs`) | files, tombstones and causal fields of every root; the tree and base of a mount | provider write and delete, mount edit, import, refresh, learn | concurrent edits, deletions, stale trees | an edit touches only what it changed; clashes show both sides |
| Profile, roster and content keys (`core/profile.rs`, `app_keys.rs`) and device approval (`core/device_approval_handoff.rs`, `app_key_link_*.rs`; `cli/profile/`; `app/ffi/`) | membership operations, key epochs, pending receipts, acknowledgements | request, approve, reject, rotate, revoke, repair, publish, receive, confirm | relays and mesh, restarts anywhere, two admins at once | a receipt is dropped only when the device can read; each is confirmed in the end |
| Sharing (`core/sharing.rs`, `shared_content.rs`, `share_actions.rs`, `relay_sync.rs`) | per device an access snapshot with grants, tombstones and key epochs; roots of the share | create, invite, accept, change a role, revoke, leave, publish, adopt; write, checkpoint, learn | late snapshots, several admins, withdrawn writers | keys follow membership; revocations stick; what was shown stays shown |
| Control records (`core/fips_sync/control_runtime.rs`, `queue.rs`) | a queue per peer, TCP streams, half-read and half-sent records | queue, connect, accept, read, flush, drop, restart | both ends connect at once, unauthorized peers, streams that break in a record | records whole, once, in order; bootstrap records get through |
| Friend backups (`core/friend_backup/`) | the host's space, lease, blobs and head per friend; the owner's snapshot and status | offer, transfer, commit, confirm, change settings, recover | transfers cut off, two host processes, settings lowered meanwhile, lost devices | the head is complete, in its space, newer; what is reported stored is stored |
| Path kinds (`core/projection.rs`, `merge.rs`) | replacement barriers per path | file replaces directory and back | conflicts across kinds | old children do not come back |
| Provider filesystem, blocks, runtime, native shells, gateway, updates, identity, status | see section 7 | | | |

Components meet in these places. The *config file* holds every recorded root,
the roster and the settings: each operation loads it, changes it and saves it,
in one lock transaction on the CLI and without one in the app core
(`ConfigLock` is the lock, `ConfigStore` what goes through it). The *record of
roots* feeds the merge, and the merge feeds the mount, whose edited tree comes
back as an import, compared with the tree it started from (the *tombstone
base*). A root *observes* the roots on record when it was made, which is what
every other device's merge goes by. The *roster* decides whose events count and
who can read them. And the direct exchange, receipts, rosters and their
acknowledgements travel as *control records*.

## 2. Modules

    ConfigLock                     the lock file, one step per system call
      MCConfigLock
    RootRef                        one reference replaces another (operators)
      RootSlot                     one AppKey's owner and one follower
        MCRootSlot
      RootRegister                 what RootSlot implements: a register that
                                   only moves forward
      ConfigStore                  tasks loading and saving the config
        MCConfigStore
      DirectRootExchange           announcements between devices, no relays
        MCDirectRootExchange
    DriveRoots                     every device's roots, records and blocks
      DriveRoots_proofs, MCDriveRoots
    Merge                          what one path shows (operators)
      DriveContents                devices editing files through Merge
        DriveContents_proofs, MCDriveContents
    ShareSnapshot                  one access snapshot changes (operators)
      ShareMembership              snapshots and invitations between devices
        MCShareMembership
        SharedFolder               the same with the roots of the share
          Sharing_proofs, MCSharedFolder
    DeviceApproval                 a device joins, is confirmed, revoked
      DeviceApproval_proofs, MCDeviceApproval
    ControlRecords                 two ends of the control service
      ControlRecords_proofs, MCControlRecords
    FriendBackup                   a host and the friends it backs up
      FriendBackup_proofs, MCFriendBackup

The proofs about `ConfigLock` and `ConfigStore` are in one module,
`Config_proofs`; those about `RootSlot` and `DirectRootExchange` are in
`Roots_proofs`, which extends both, and those about `ShareMembership` and
`SharedFolder` in `Sharing_proofs`.

The state machines are layers of one system. `ConfigLock` is the lock that
`ConfigStore` takes as atomic. `RootRef` has the rules by which one reference
replaces another; `RootSlot`, `ConfigStore` and `DirectRootExchange` use the
same operators for their records. `RootSlot` shows that a record of one AppKey
only goes forward; `DriveRoots` takes that as its `Learn` and looks at all
devices, leaving out what roots contain; `DriveContents` keeps the causal
fields of `DriveRoots` and adds the contents. `SharedFolder` extends
`ShareMembership` by contents. `ControlRecords` is what carries the frames of
`DirectRootExchange` and the mail of `DeviceApproval`.

### ConfigLock

`lockFile` is the lock file with its creator, whether the pid is written and
whether its mtime is old; `pc[t]` is where a task is, `found[t]` the pid that a
contender has read and not tested yet. Create, write of the pid, read of the
pid, the test of it by a helper process (`process_is_running`), stat, removal
and drop are separate steps, because other processes see what lies between.
`Crash` kills a process at any of them; `Exit` ends one that holds nothing, as
every CLI command does when it is done. `WritePidFails` leaves an empty file,
`Age` lets two minutes pass. Pids are not reused.

The lock does not exclude always. The owner may drop the lock and exit between
a contender's read of its pid and the test, another task take the lock, and the
contender then remove that task's file: two holders, with nobody killed, late
or failing. The history variable `calm` says how far the lock does exclude: it
ends when a lock file gets two minutes old, and when a process ends, by itself
or killed, whose pid is in the lock file or in the hand of a contender of
another process (`Named`). Processes that end unobserved, writes that fail, and
files left without a pid (until they are old) leave it alone.

### ConfigStore

`file` and `sidecar` are the two files; a task's step takes it from `Begin`
(load, with the lock if it is one that takes it) over `Change` to the four
steps of a save that others can see: the file is read again for newer roots
(`MergeRoots`), the operations beside it are read (`ReadOps`) and written
(`WriteOps`), the config is renamed into place (`WriteConfig`). A task may stop
or be killed between any two. What it loaded the config for is a root of its
own (a user's edit or a materialization), a peer's root, a roster operation or
a setting. `apart` and `guarded` are histories: no two saves have overlapped,
nobody has saved without the lock; `done` is what was saved.

### RootRef and RootSlot

`RootRef` has the replacement rule of each inbound path: full events
(`apply_root_to_app_key_roots`), hints (`apply_direct_root_hint_to_roots`),
web files-roots, and a config save. In `RootSlot` the owner imports roots and
bridges web roots; it announces its entry as an event, which the follower can
open or not, and as a hint; `sent` is never emptied, so any message may come
late, again, or never. One wall clock serves both, but an event carries the
owner's time of publication and a hint's placeholder the follower's.

### DirectRootExchange

Each device has the roster it knows, its records, the blocks it has, the events
of others it has cached, the keys it has seen, and the frames waiting for it.
Saying a root, a hint, a roster operation or another's event again is a step of
its own (`SayRoot`, `SayHint`, `SayOp`, `SayForwarded`); what throttles leave
out is left open by not taking it. `NativeRoot` and `CliRoot` are the two
programs' handlers: the native one downloads before it counts an event as seen,
the CLI records it and pulls the blocks later (`Pull`). `Disconnect`, `Connect`
and `Restart` lose frames and everything in memory.

### DriveRoots

`made[d]` is the chain of roots of device d, each with its parent, the frontier
it observed, whether it is local-only and whether it shows the whole merge.
`Edit`, `Materialize`, `Handoff` and `RefreshView` are the local operations,
each one transaction; all need the blocks of every recorded root, since the
merge reads them. `Announced` is where the CLI and the native shells differ.

### Merge and DriveContents

`Merge` is `merge_drives` and the conflict entries of the projection at one
path: the fold over the snapshots in key order, with the writes, tombstones
and recorded conflict sides it accumulates. `DriveContents` turns an edit of a
tree into a contribution exactly as `local_visible_root_for_mount_import` and
`attach_history_for_current_paths` do. `ProviderEdit` starts from the current
merge; a mount's `tree` and `base` may be older than the record. A version of
a file is named by the device and root that saved it, so that two saves never
look alike. `replaced`, `saved` and `final` are history variables: which
versions a user saw when changing a path, what a device's last root saved, who
ever changed a path.

### ShareSnapshot, ShareMembership and SharedFolder

A snapshot is what `sharing.rs` signs as one event: grants by profile, the
devices listed, tombstones, key epochs with the devices they are wrapped for,
and a time in seconds. `ShareSnapshot` has what each operation makes of one.
In `ShareMembership` `sent` and `invites` are never emptied; a device adopts a
snapshot if it is not older than its record and signed by an administrator of
that record (`Adopt`, `relay_sync.rs:485-510`), and takes an invitation however
old (`Accept`), which only replaces an older record. Each device has a clock of
its own: the time of a change is any time, moved past that of the record it
changes. `forked` is a history: somebody changed the members without knowing
the latest record. `SharedFolder` adds the roots of the writers, the events
relays hold of them with their recipients, and the checkpoint an administrator
makes before it withdraws a writer (`Withdraw`).

### DeviceApproval

Roster operations are kept as sets with what each one's signer had when it
signed (`after`), which is what the external projection goes by: an operation
counts once all of that is there, a tombstone is final, the newest epoch is the
one with the highest number. An admin's `receipt` waits until its confirmation
comes back. The device's disk is `log`, `kept` and `auth`; `relay` holds
operations, receipts and confirmations for ever, `mail` is what the mesh
carries. Every handler of the device - receipt by mesh or relay, operations,
roster, `SyncOnce`, the mobile `Tick` - stores before it confirms. A failure
may cut `Publish`, `RelayReceipt` and `Confirm` short; `Lose` and the restarts
take what waits on the mesh.

### ControlRecords

A step is one turn of an end's loop: an event (`Send`, `SetPolicy`, a segment,
the timer) and then all of `drive` in its order - select streams, expire,
connect, read, flush - as functions on the state of that end (`Turn`). A record
takes two writes (`Pieces`), so that it can be half sent. TCP is external: in
order per stream, acknowledging what has arrived whether it was read or not.

### FriendBackup

The host's settings, its lease, the transfer each of its processes is at
(`job`), and per friend the blobs, the head and what killed writes left
(`junk`); the owner's drive, prepared snapshot and status. `HandleOffer`
reserves, `PutBlob` and `CommitHead` check the reservation again under the
config lock (`recheck_reservation`), `Abandon`, `Kill` and `StopService` cut a
transfer off, `SetCapacity` and `SetAllowance` change settings at any time. A
device may be lost (`LoseDevice`) and recovered from the head (`AskHead`,
`Recover`). Offers and confirmations may come late, again or not at all.

## 3. Runs

| Run | Instance | What it shows |
|---|---|---|
| `config_lock` | 4 tasks in 3 processes, of which one may be killed and one may exit; a write that may fail; fair | one holder until a file is two minutes old or a process ends whose pid is in the file or in a contender's hand; an abandoned file is always cleared |
| `config_store` | two tasks under the lock, one without; 2 own roots, 1 of the peer, 1 setting | no roster operation is lost and no root goes back, killed wherever; under the lock nothing is lost |
| `root_slot` | 3 roots, 3 clock ticks, web roots beside them, fair | the follower implements `RootRegister`, a number names one root, causal metadata is kept, it ends at the latest |
| `direct_root_exchange` | a native admin, a CLI writer and a CLI reader that it admits, 2 roots, 1 break, fair | what is seen is had, all end current, a root whose owner has gone is forwarded |
| `drive_roots_two` | 2 CLI devices, 3 and 2 roots, one hands over, fair | causality accumulates, projections stay local and come to an end, all converge |
| `contents_pair` | a mount and a provider device, 2 paths, 2 roots each, clock 3, deletions | imports are own, a lone writer's file shows, saves stay, clashes show, the last edit shows |
| `share_members` | 3 profiles of one device, 3 changes, clock 1, readers and admins, fair | keys follow membership, revocations stick, members agree |
| `share_contents` | the same with an editor from the start, 2 changes, 1 root each | what was shown at a withdrawal stays shown, members see the same |
| `approval` | a mobile and a CLI admin, a CLI device that anybody may approve, relay, mesh or both, 3 epochs | no receipt is given up the device cannot use, a mobile admin's root comes first, acknowledged rosters are there |
| `approval_settles` | the same, the device mobile, asking one admin or any, fair | every receipt is confirmed in the end |
| `control_records` | 2 ends, one sends 2 records, 2 stream names, 1 change of policy, 1 break or restart, fair | records whole, once and in order; they arrive; one stream is left |
| `friend_backup` | 1 friend whose drive has two trees sharing a blob, 2 host processes, spaces 3 and 6, 2 starts, 2 kills, fair | heads complete and in their space, reports true, heads forward; backed up and recovered in the end |

Why the bounds are enough to mean something.

* The lock needs a holder that goes, a holder that comes after it, a contender
  that removes, and one to take the lock besides: two of them a daemon's, whose
  pid is the same, the others of processes that are killed or exit.
* In `config_store` two roots let a stale copy lack the newer one, and two
  operations are enough for each of two savers to have one the other lacks.
  Tasks under the lock are alike, hence symmetry. The constraint `Apart` ends a
  behaviour once two saves overlap: its properties say nothing of what follows
  except `GuardedTransactionsKept`, which excludes it by the lock.
* A follower can be taken back only by a message older than what it holds, and
  a placeholder needs a root, its hint and its event apart: three roots.
* The exchange needs one device of each program, one that is admitted after the
  root was made (so that its event is unreadable first), and one break.
* Two devices are enough for one to observe the other's second root, to project
  it and to be answered; a projection made twice for the same news would
  already show in three roots. `contents_pair` gives each device an edit that
  saw nothing and one that may have seen the other's first or second; two paths
  are needed because what goes wrong here is what an edit of one path does to
  another.
* Three profiles let one administrator appoint a second that withdraws a third;
  with three changes a revoked member can be met by a late invitation.
* Approval takes two admins who may both approve, rotate or revoke: three
  epochs. The bounds on epochs and breaks depend on the transports there are
  (`MCDeviceApproval`): two of each alone, fewer together. Every single failure
  is met on either transport, and every pair on each alone.
* A bootstrap record that overtakes a half-sent ordinary one needs two records
  of two pieces; two stream names let both ends connect at once.
* A snapshot of two blobs after one of two with one in common has a transfer
  that is partly there, and spaces 3 and 6 are the first tree alone and both
  with their manifests. Two processes are enough to contend for the lease.
  Checked once besides: spaces 3, 5 and 7 of totals 5 and 7 (108,720 states),
  and two friends for the safety properties (160,000 states).

Every bound is a constant, named in its module. Symmetry is used for paths and
for tasks under the lock, in runs without liveness: devices are ordered by
their keys and are not alike. `CHECK_DEADLOCK FALSE` is set where the bounds
end the behaviour (no more roots, changes or epochs) or where a system at rest
has nothing left to do.

Each module has its type invariant (`TypeOK`, `MTypeOK`); they hold in these
instances and are proved for `ConfigLock`, `DriveRoots`, `ShareMembership` and
`DeviceApproval`; they are not among the routine runs, nor are the definitions that only support
a proof or a stronger property (`OwnFile`,
`NothingFromNowhere`, `SomebodyAdministers`, `RecordNeverGoesBack`,
`OneRootPerSequence`). To check one, add it to the INVARIANTS or PROPERTIES of
its module's cfg.

## 4. Fairness

`ConfigLock`: every step of a task that is running is weakly fair, except a
failed write and a timeout: tasks poll in loops that the scheduler runs,
holders finish, and the file grows old. Processes need neither exit nor be
killed. Asking for the lock is fair for tasks of processes that stay
(`Resident`), because daemons ask for ever, which `AbandonedLockIsFreed` needs:
nobody clears a file unless somebody looks.

`RootSlot`: the owner's announcement and the delivery of the *latest* event
that the follower can open are weakly fair. Daemons re-announce periodically
and on request, and relays keep the newest replaceable event. No hint and no
older event need ever arrive.

`DirectRootExchange`: saying roots, operations and forwarded events, handling
what waits, and pulling blocks are weakly fair, per device and owner: each
device has an announcement timer, drains its frames and looks for pending roots
again (`cli/daemon/runtime.rs`). Edits, admissions, hints, connections and
breaks are not. `EventuallyCurrent` supposes that all stay connected from some
time on, `Forwards` that all but the owner are.

`DriveRoots`: announcing, learning what is currently announced, downloading
and refreshing a clean mount are weakly fair; edits, projections and handoffs
are not. A download is fair because it is retried while its root is on record;
it presupposes that somebody holding the blocks is reachable from time to time.

`ShareMembership`, `SharedFolder`: the daemon publishes an administrator's
snapshot and a writer's root with every round of the network sync, and fetches
what relays keep, which is an author's newest. `Kept` is that; older snapshots
need never arrive.

`DeviceApproval`: publications, sending over the mesh until acknowledged,
handling of what arrived, and the mobile tick are weakly fair; users' steps,
repairs, `SyncOnce` and failures are not. `EventuallySettled` says only what
the timers support: a CLI device does not repeat a confirmation the relay
refused, so it supposes the mesh for one; a mobile admin sends by mesh only
what it published, so it supposes the relay for that. And it supposes that the
newest key stays wrapped for the device (`Usable`), see section 6.

`ControlRecords`: the poll timer of each end, and what TCP has to do for each
stream. At some tick the second between attempts is over and TCP takes a whole
record (`FullTick`). Breaks, restarts and expiry are bounded by `MaxBreaks`.

`FriendBackup`: a host process takes the free lease in the end and no transfer
lasts for ever (its minute is over: `Abandon`), weakly. An owner's offer, the
handling of the current one, the next blob, a confirmation and the steps of a
recovery are strongly fair: a blob is fetched well within the minute, so a
transfer that is cut off again and again still gets one further each time, and
what is written stays. The properties suppose both devices running from some
time on (`Served`).

`ConfigStore` and `DriveContents` have no fairness and no liveness property: a
task may stop anywhere, `Learn` may never happen.

## 5. Proofs

For any number of tasks, devices, paths, roots and changes, any clock, and the
assumptions named in the modules.

* `Config_proofs`, of the lock: `LockTypeCorrect`, with all ends of processes
  and failures; and `HoldersExclude`, for as long as `calm` lasts. The invariant
  is `OwnFile`: until then whoever is past O_EXCL owns the file at the path, a
  pid in the file is that of a holder, a pid in a contender's hand is that of a
  running process, so the test finds it running and nobody is at the step that
  removes. Mutual exclusion follows since two holders would both be the file's
  creator. A process that ends without being `Named` leaves no trace in any of
  this.
* `Roots_proofs`, of one AppKey: `SequenceNumbersNameRoots`, `MetadataIsKept` and
  `FollowerImplementsRegister`, with and without web roots. Comparing sequence
  numbers says nothing about the owner's order unless a number names one root
  wherever it appears - own entry, event, hint, placeholder - which is
  inductive together with the shapes (`OwnEntries`: the owner's numbers grow
  along its entries; `Refers`: whatever was sent or recorded refers to one of
  them). Then no message takes the follower back, and each step maps to a step
  of the register or a stutter. That metadata is kept needs besides that every
  reference has none or that of the owner's root it names (`GenuineInv`): else a
  "refresh" by a root of the same cid could bring less.
* `Roots_proofs`, of the exchange: `SeenRootsAreHad`, for any devices of either
  kind and any losses. What a key stands for stays on record because neither a full
  root nor a hint takes a record back (`ApplyFullFacts`, `ApplyHintFacts`), which
  needs that here a root's number names its cid (`RefFacts`; `RootSlot` shows
  why it does); a restart forgets what was seen and keeps what was had.
* `Config_proofs`, of the store: `OperationsSurvive`, `LockedTransactionsSurvive`,
  `RootsGoForward`. The invariant has a part for each of the three ways in which
  a stale copy is harmless: while saves do not overlap, the one under way has
  seen every operation and no newer root (`Ahead`); a peer's root is on file
  only together with its admission (`Admitted`), so a copy that knows of all
  operations carries it along; and under the lock the file is what the holder
  loaded, so what it saves follows on that (`Kept`, `Follows`).
* `DriveRoots_proofs`: `TypeCorrect`, `RecordsAreGenuine`,
  `CausalityAccumulates` and, with no native device,
  `ProjectionsAreNeverAnnounced`. That frontiers grow along a chain needs that
  the newest root observes no more than is on record now
  (`NewestObservesRecord`), which needs records not to go back. That a
  projection's parent is publishable (`ProjectionParents`) needs it of every
  earlier one. `ProjectionsComeToRest` (no native device): every projection
  observes a publishable root that its predecessor did not, so the projections
  of a device map one-to-one into the publishable roots, and are no more.
* `DriveContents_proofs`: `ImportsAreOwn`: whatever the merge shows and however
  stale a mount is, a root holds only files saved by its device. It needs that
  a mounted tree differs from its base only by own files (`MountsEditOwn`),
  through refreshes and imports. The other four are about what is shown, hence
  about the fold of `Merge` over the keys. It is shown to have the values of a
  recursion over the keys (`FoldExists`), and what holds of it follows from a
  least counterexample: the winner is one of the candidates, a root that
  descends from all others wins without a conflict (`ChainOfWrites`,
  `ChainOfGraves`), and of two concurrent ones both are recorded
  (`TwoWrites`). Which of these cases a merge is in comes from the history
  (`HistInv`): observation is acyclic, a tombstone is no older than the file
  it deletes, the mount of a lone writer is based on its latest save, and
  while devices edit in turn their roots are in one order.
  `LoneWriterIsShown` and `LatestEditIsShown` hold for any devices.
  `SavesStay` and `ClashesAreShown` suppose at most two, with any roots,
  paths and clock: of three devices both are false, because the winner is not
  transitive when a root has observed one of two others (section 6).
* `Sharing_proofs`, of the members: `KeysAreMembers`, `NeverOrphaned`,
  `RecordsMoveForward`, `RevocationsStick`, `MembershipTypes`. The invariant
  says of every snapshot that exists - on record, published or in an
  invitation - that an administrator could have made it (`Good`); nobody can
  withdraw itself, so its maker still administers. Revocations need besides
  that, as long as nobody changed the members without knowing the latest
  record, snapshots of one time are one snapshot.
* `Sharing_proofs`, of the folder: `FolderImplementsMembership`, each step is
  one of the membership or leaves it alone; `WithdrawnContentsStay` and
  `NumbersNameRoots`. The invariant (`Growing`) speaks of writers that have not
  left: nobody's record of such a writer is ahead of the writer's own, and its
  root still holds whatever it showed when it withdrew somebody. One that left
  and came back starts again at 1, hence the restriction.
* `DeviceApproval_proofs`: `TypeCorrect`, `SettledReceiptsAreUsable`,
  `RootsComeFirst`, `AcknowledgedRostersAreThere`. Every step either signs one
  thing that was not there or passes signed ones on; logs only grow and contain
  what their operations were signed upon (closed under `after`), and a receipt
  is made by the admin it names. Hence a confirmation on its way, or acted on,
  stands for a receipt that was usable on the device's disk when it was
  written, and remains so: what the device wrote to disk it never takes back.
* `ControlRecords_proofs`: `RecordsAreWhole` and `RecordsInOrder`, for any
  streams, records and changes of policy, and any breaks, restarts and lapses
  (between two ends, and with two writes to a record, as in the model). The
  invariant has a part per end (`Turning`) about what flows towards it (`Flow`).
  What it has decoded of a stream, has not read and has still to receive is
  whole records, the last one perhaps unfinished (`Paired`), each kind sorted
  (`Sorted`) and not behind what was delivered (`Known`); what the peer still
  queues is not before any of it (`Ahead`). Of the streams its peer has up only
  the one in use carries anything, and it ends in half a record exactly if that
  record is at the front of the peer's queue, half written (`Fronts`,
  `AtFront`). That last part is what a bootstrap record put at the front, or
  another stream taken into use, would break; it holds because the queue is
  rewound whenever the stream changes, and the stream dropped when a record was
  overtaken half way (`restart`). An invariant between turns is not enough: an
  end runs the whole of `drive` in one turn, from whatever the event left. So
  each part of a turn is shown to keep `Turning` by itself - selecting and
  opening streams, dropping some, expiring, admitting and delivering record
  after record, popping what was acknowledged, writing - and `Turn` and the
  actions are put together from these; when a turn ends the end is `Calm`, with
  no restart due.
* `FriendBackup_proofs`: `HeadsAreComplete`, `ReportsAreTrue`,
  `HeadsGoForward`, `SpaceIsKept`. Blobs are never deleted, so a head stays
  complete; what reports and the order of heads need is the order of time
  (`InTime`): the head is no newer than the snapshot in transfer, this no newer than what the owner
  exports, and that no newer than the drive - which holds because only the
  process with the lease transfers (`Leased`) and a transfer starts only for
  what is exported now. A report names a tree at or before the head, because
  confirmations do. For the space, a transfer under way never needs more than
  is there and is still reserved at each blob (`recheck_reservation`); the
  totals are counted as the size of a disjoint union of the spaces, so that one
  friend's blob adds one.

Model-checked only: everything temporal (`AbandonedLockIsFreed`,
`EventuallyLatest`, `EventuallyCurrent`, `Forwards`, `Converges`,
`MembersAgree`, `MembersSeeTheSame`, `EventuallySettled`, `RecordsArrive`,
`OneStream`, `EventuallySynced`, `EventuallyRecovered`), since fairness and
ENABLED are out of the prover's reach. For three and more devices `SavedStays`
and `ClashesShown` are false, and no weaker statement of them is proved. Every
other property of the runs is a theorem.

The proofs are checked module by module (`tlapm Roots_proofs.tla`); that of
`ControlRecords_proofs` takes about a quarter of an hour, the others minutes.

## 6. Known disagreements

Statements of the repository, or of a careful reader, that the code does not
keep. Each is a definition in the module named, and an instance kept beside the
runs in which TLC finds it violated (they are not routine runs), or a remark.

| Instance | Definition | Behaviour |
|---|---|---|
| `ConfigLock_dead_owner.cfg` | `MutualExclusion` | two holders though nobody is killed, late or failing: reading the pid, asking whether it runs and removing the path are three steps (`config_lock.rs:175-179`); the owner drops the lock and exits after the first, and the file removed by the third is the next holder's. A killed owner that two contenders find dead does the same |
| `ConfigLock_slow_holder.cfg` | `MutualExclusion` | a holder that works for two minutes loses its lock, and its drop removes the next holder's file |
| `ConfigStore_snapshot.cfg` | `LocalTransactionsKept` | a save without the lock (app core, native exchange) replaces a newer edit of the same sequence, or a newer setting, by what it loaded before (`direct_root_transport.rs:1145`, `network_sync.rs:510-517`, both materializations; `config.rs:392`) |
| `RootSlot_legacy.cfg` | `LegacyOrderKept` | of two legacy roots a late hint restores the older, since its placeholder carries the receiver's clock |
| `DriveRoots_native.cfg` | `ProjectionsStayLocal` | the native exchange does not look at `local_only`; two native shells announce, and answer, projections |
| `DriveContents_deletions.cfg` | `DeletionsStay` | a deleted file returns: the device that wrote it keeps it in its next root (`indexer.rs:364`), and that root has observed the deletion, so its copy wins |
| `DriveContents_restores.cfg` | `RestoresStay` | a restored file vanishes with the next edit of the device that had deleted it, which carries its old tombstone along |
| `DriveContents_conflict.cfg` | `NothingLost` | conflict copies show only while both roots are concurrent; the next edit of any path ends that, and no root contains the copy |
| `DriveContents_third.cfg` | `SavedStays` | with three devices a side of a conflict, recorded earlier, hides the write that followed both |
| `DriveContents_offline.cfg` | `NothingComesBack` | a device that edits x offline brings back its old y, because causality is that of whole roots |
| `DriveContents_threeway.cfg` | `ClashesShown` | with three devices, a deletion that saw one of two concurrent writes hides both |
| `ShareMembership_concurrent.cfg` | `RevocationsAppendOnly` | README.md:147 calls the share logs signed and append-only; a snapshot replaces the record whole (`relay_sync.rs:502`), so two administrators who change the members at once undo a revocation |

Remarks without an instance:

* A writer that leaves a share and comes back restarts its roots at number 1
  (`shared_content.rs:138`), so the others refuse them as stale.
* Two root events of a share of the same second tie (`shared_content.rs:52`);
  which of them relays keep is up to them.
* `device_approval_handoff.rs:3-4` puts the root before the receipt; the CLI's
  timer publishes the receipt without waiting for the root (`PublishEarly`;
  `cli/profile.rs:787-947`), so `RootFirst` speaks of mobile admins.
* A CLI device does not repeat an acknowledgement that the relay refused. The
  pending receipt of a revoked device is never dropped.
* TCP acknowledges what the peer has not read; a record acknowledged and unread
  when the peer drops its stream is popped and gone, so delivery is not quite
  at least once (`control_runtime.rs:601`).
* Two admins who rotate at the same epoch number, one of them without knowing
  a new device, leave that device without the key until the signer repairs its
  wraps or a new epoch begins.
* In shares, `Repair` finds nothing to repair: every snapshot is already
  wrapped for its members (`KeysAreMembers`). An invitation is accepted however
  old it is.
* After a failed backup the host's error may be displayed for up to six hours
  (`friend_backup/exchange.rs:217`).

## 7. What is left out

Within the models, besides the bounds of section 3:

* `ConfigLock`: the `is_stale` callback of background requests answers as it
  likes (a request may end after any attempt, and drop the lock at once); a pid
  is written in one piece and not given to another process; wrong answers of the
  helper that says whether a process runs (`daemon_liveness.rs:95`) are out.
* `ConfigStore`: the settings are one number, there is one peer, and the lock
  is atomic (that it is not quite, is `ConfigLock`).
* `RootSlot`: several followers, shares, changes of the roster.
* `DirectRootExchange`: frames are coalesced on arrival; seen keys and caches of
  roster operations are left out, since applying one twice changes nothing;
  throttles and state requests are nondeterminism; a download fails only if
  nobody within reach has the blocks. Caps of 128 (`direct_root_transport.rs:503`),
  files-roots, share keys and the clock of placeholders
  (`direct_root_transport.rs:1385`, see `RootSlot`) are out.
* `DriveRoots`: contents and garbage collection.
* `DriveContents`: directories, replacement of a file by a directory, legacy
  roots, local-only snapshots, placeholders of operating systems, identical
  contents, edits of conflict copies, the `parents` of the merge. Downloads
  take no time.
* Sharing: `Withdraw` is one step, while the code saves the checkpoint, loads the
  config again and then revokes (`share_actions/content.rs:98-101`), all of it
  under the config lock. A stop after the first save is `Reauthor`; what another
  task saves without the lock in between is left to `ConfigStore`. Pending hints
  of invitations, shortcuts, grants to bare pubkeys, compact links, display are
  out.
* `DeviceApproval`: the projection of roster operations is that of an external
  crate (`nostr-identity`), assumed from its use; a lost mesh loses a whole
  connection; each admin signs an operation once. Several devices at once, caps
  and expiry, profiles, admin roles and link secrets are out.
* `ControlRecords`: budgets, caps, expiry by the clock, and `CloseWait`, which
  is not reached; only one end sends.
* `FriendBackup`: a file is one unit of space; the config lock is atomic; offers
  and receipts are sets. Audits, displayed errors, the lists of peers an
  endpoint accepts, reads through friends, and losses of power (a blob that is
  written and not synced, `storage.rs:291`) are out. Zero space stands for an
  absent and for a paused friend. A failed preparation is an `Offer` not made.

Not modelled, and why:

* *Path kinds* (`core/projection.rs`, `merge.rs`): planned, section 8.
* *Conflict records and the two-way sync engine* (`core/conflict.rs`, `sync.rs`,
  `sync_cache.rs`): no program runs the engine at this commit; the merge shows
  conflicts by projection, which `Merge` has.
* *Provider filesystem and staging* (`core/provider.rs`,
  `cli/provider_staging.rs`, `crates/hashtree-provider`): edits of one hash tree
  by one process. A model has each of them as one new tree, which they are.
* *Block replication* (`core/block_sync.rs`, `blossom_sync.rs`, `fips_sync.rs`):
  blocks are named by their hash, so fetching one twice, from anybody, in any
  order, is the same; what matters is whether they are here, which `Download`
  and `Pull` have.
* *The CLI's runtime loop* (`cli/daemon/runtime.rs`): its handlers are actions
  of the models, any of them at any time. Its retry of a refresh is planned.
* *Native shells, Windows cloud files* (`app/ffi.rs`,
  `cli/daemon/windows_cloud_*.rs`): what they do to the shared state are the
  native devices of the models; the rest depends on the operating system's
  interfaces and is display.
* *Backup targets, gateway, calendar, history, status, labels, relay settings*:
  one request, one answer, on state the models have; no protocol of their own.
* *Identity and recovery phrase*: cryptography and files.
* *Updates and services*: installers and service managers of the system.

## 8. Plan

Done, in this order: the lock, roots on record, roots of all devices, contents
and merge, with their proofs; sharing; the config store; the direct-root
exchange; device approval; control records; friend backups; proofs about each
of these.

Next, by what is still uncovered among the hazards:

1. `PathKind`: a file replaces a directory on one device while another edits
   inside; the barriers of `projection.rs` decide what shows.
2. `MountRefreshLoop`: the refresh that gives up after four dirty attempts
   (`cli/daemon/runtime.rs:661`), and what asks for the next.
3. The caps of the exchange, by sequences of owners longer than the cap.
4. `DriveContents` over `DriveRoots`: contents whose blocks arrive later than
   their root.
