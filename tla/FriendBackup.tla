----------------------------- MODULE FriendBackup -----------------------------
(* Friend backups: a host keeps, for the friends it has given space, what    *)
(* they need to get their drives back. An owner offers the manifest of its   *)
(* current snapshot again and again; the host fetches the manifest and the   *)
(* blobs it lacks, and names the snapshot its head once it is complete.      *)
(* Nothing is ever deleted, and the space promised is never exceeded.        *)
EXTENDS Naturals, Sequences, FiniteSetsExt

CONSTANTS
    Owners,       \* friends whose drives are backed up
    Procs,        \* the host's processes: CLI daemon and native app
    Tree,         \* Tree[o]: the trees o's drive has in turn, as sets of blobs
    Allowances,   \* the space the host may give one friend
    Capacities,   \* the space the host may give altogether
    MaxStarts,    \* bound on the owner's starts
    MaxKills,     \* bound on killed transfers
    None

ASSUME OwnersAssumption == IsFiniteSet(Owners)
ASSUME TreeAssumption ==
    \A o \in Owners :
        /\ Tree[o] \in Seq(SUBSET UNION Range(Tree[o])) /\ Len(Tree[o]) > 0
        /\ \A n \in 1..Len(Tree[o]) : IsFiniteSet(Tree[o][n])
ASSUME BackupBoundsAssumption ==
    /\ Allowances \subseteq Nat \ {0} /\ Capacities \subseteq Nat \ {0}
    /\ MaxStarts \in Nat \ {0} /\ MaxKills \in Nat

VARIABLES
    capacity,    \* friends.toml of the host: the space for all friends, ...
    allowance,   \* ... and each friend's; 0 if absent or paused
    lease,       \* the host's process that holds friend-backup-service.lock
    job,         \* job[p]: the transfer that p's service is working at
    blobs,       \* blobs[o]: o's blobs at the host
    head,        \* head[o]: manifest.json, the last complete snapshot
    junk,        \* junk[o]: files that a killed process was writing
    drive,       \* drive[o]: which of its trees o's drive has
    prepared,    \* prepared[o]: the snapshot that o's process exports
    starts,      \* starts[o]: how often o's process was started
    synced,      \* synced[o]: friend-backup-status.json: the tree stored, or 0
    offers,      \* offers[o]: Offer messages on their way to the host
    receipts,    \* receipts[o]: Stored messages on their way to o
    rescue,      \* rescue[o]: how far the recovery of o's lost device is
    kills        \* bound: processes killed so far

settings == <<capacity, allowance>>
disk == <<blobs, head, junk>>
owner == <<drive, prepared, starts, synced>>
backupVars == <<settings, lease, job, disk, owner, offers, receipts, rescue, kills>>

(* One snapshot's manifest differs from another's of the same tree: each     *)
(* start encrypts the capsule with a new nonce.                              *)
Manifests(o) == [tree : 1..Len(Tree[o]), start : 1..MaxStarts]
AllManifests == UNION {Manifests(o) : o \in Owners}

ASSUME NoneAssumption == None \notin Procs \cup AllManifests

Entries(o, m) == Tree[o][m.tree]
TreeOf(m) == IF m = None THEN 0 ELSE m.tree

Alive(o) == rescue[o].phase = "none"

Init ==
    /\ capacity = 0 /\ allowance = [o \in Owners |-> 0]
    /\ lease = None /\ job = [p \in Procs |-> None]
    /\ blobs = [o \in Owners |-> {}]
    /\ head = [o \in Owners |-> None]
    /\ junk = [o \in Owners |-> 0]
    /\ drive = [o \in Owners |-> 1]
    /\ prepared = [o \in Owners |-> None]
    /\ starts = [o \in Owners |-> 1]
    /\ synced = [o \in Owners |-> 0]
    /\ offers = [o \in Owners |-> {}]
    /\ receipts = [o \in Owners |-> {}]
    /\ rescue = [o \in Owners |-> [phase |-> "none", from |-> None]]
    /\ kills = 0

-----------------------------------------------------------------------------
(* Space, in units of one file.                                              *)
Used(o) == Cardinality(blobs[o]) + junk[o] + (IF head[o] = None THEN 0 ELSE 1)

Usage == [o \in Owners |-> Used(o)]

Missing(o, m) == Entries(o, m) \ blobs[o]

(* Mutant: what an earlier attempt left behind is charged twice. *)
RequiredAgain(o, m) ==
    Used(o) + Cardinality(Entries(o, m)) + (IF head[o] = m THEN 0 ELSE 1)

(* reserve: the old head, the new one and all that is missing                *)
Required(o, m) ==
    Used(o) + Cardinality(Missing(o, m)) + (IF head[o] = m THEN 0 ELSE 1)

Total(space) == MapThenSumSet(LAMBDA o : space[o], Owners)

(* validate, validate_retained: what is retained stays covered, in each      *)
(* friend's space, and the spaces in the total.                              *)
Covered(total, space, used) ==
    /\ Total(space) <= total
    /\ \A o \in Owners : used[o] <= space[o]
    /\ Total(used) <= total

(* Mutant: retained backups are not looked at. *)
ChangeUnchecked(total, space) ==
    /\ Total(space) <= total
    /\ capacity' = total /\ allowance' = space

(* mutate: settings are changed under the config lock.                       *)
Change(total, space) ==
    /\ Covered(total, space, Usage)
    /\ capacity' = total /\ allowance' = space

SetCapacity(total) ==
    /\ total # capacity
    /\ Change(total, allowance)
    /\ UNCHANGED <<lease, job, disk, owner, offers, receipts, rescue, kills>>

(* upsert_friend; remove_friend, or pausing: no space                        *)
SetAllowance(o, space) ==
    /\ space # allowance[o]
    /\ Change(capacity, [allowance EXCEPT ![o] = space])
    /\ UNCHANGED <<lease, job, disk, owner, offers, receipts, rescue, kills>>

-----------------------------------------------------------------------------
(* Mutant: whoever finds no service of its own starts one. *)
TakeLeaseAnyway(p) == lease # p /\ lease' = p

(* service_lease::try_acquire: an OS lock that ends with its process         *)
TakeLease(p) == lease = None /\ lease' = p

Serving(p) == lease = p

StartService(p) ==
    /\ \E o \in Owners : allowance[o] > 0
    /\ TakeLease(p)
    /\ UNCHANGED <<settings, job, disk, owner, offers, receipts, rescue, kills>>

(* No friend is left, syncing is paused or the process ends: the transfer    *)
(* under way is cut off, the lease goes last.                                *)
StopService(p) ==
    /\ Serving(p)
    /\ lease' = None
    /\ job' = [job EXCEPT ![p] = None]
    /\ UNCHANGED <<settings, disk, owner, offers, receipts, rescue, kills>>

(* reserve: the space is reserved before anything is fetched or written.     *)
Admits(o, m) ==
    /\ allowance[o] > 0 /\ Required(o, m) <= allowance[o]
    /\ Covered(capacity, allowance, [Usage EXCEPT ![o] = Required(o, m)])

(* An offer: the manifest is fetched from the owner, which serves only what  *)
(* it exports now. What cannot be accepted is rejected, which the owner's    *)
(* status shows and nothing else.                                            *)
HandleOffer(p, o, m) ==
    /\ Serving(p) /\ job[p] = None
    /\ m \in offers[o]
    /\ offers' = [offers EXCEPT ![o] = @ \ {m}]
    /\ job' = IF prepared[o] = m /\ Admits(o, m)
              THEN [job EXCEPT ![p] = [owner |-> o, manifest |-> m, required |-> Required(o, m)]]
              ELSE job
    /\ UNCHANGED <<settings, lease, disk, owner, receipts, rescue, kills>>

(* Mutant: once reserved, always reserved. *)
StillReservedOnce(j) == TRUE

(* recheck_reservation: each write is allowed by the settings as they are by *)
(* now; the config lock is held until the write is done.                     *)
StillReserved(j) ==
    /\ j.required <= allowance[j.owner]
    /\ Covered(capacity, allowance, [Usage EXCEPT ![j.owner] = j.required])

Working(p) == job[p] # None

(* A blob that is missing is fetched, written and synced.                    *)
PutBlob(p) ==
    /\ Working(p)
    /\ LET j == job[p]
           o == j.owner
       IN  /\ StillReserved(j)
           /\ prepared[o] # None
           /\ \E b \in Missing(o, j.manifest) \cap Entries(o, prepared[o]) :
                blobs' = [blobs EXCEPT ![o] = @ \cup {b}]
    /\ UNCHANGED <<settings, lease, job, head, junk, owner, offers, receipts, rescue, kills>>

(* Mutant: the manifest is written first, as a note of what is coming. *)
CompleteFromStart(j) == TRUE

(* The head names a snapshot that is here as a whole.                        *)
Complete(j) == Missing(j.owner, j.manifest) = {}

(* The manifest replaces the head by a rename, and the owner is told, if the *)
(* message gets away.                                                        *)
CommitHead(p, told) ==
    /\ Working(p)
    /\ LET j == job[p]
           o == j.owner
       IN  /\ StillReserved(j) /\ Complete(j)
           /\ head' = [head EXCEPT ![o] = j.manifest]
           /\ receipts' = IF told THEN [receipts EXCEPT ![o] = @ \cup {j.manifest}]
                                  ELSE receipts
    /\ job' = [job EXCEPT ![p] = None]
    /\ UNCHANGED <<settings, lease, blobs, junk, owner, offers, rescue, kills>>

(* A fetch fails or takes too long, the reservation no longer holds, or the  *)
(* minute is over: what was written stays.                                   *)
Abandon(p) ==
    /\ Working(p)
    /\ job' = [job EXCEPT ![p] = None]
    /\ UNCHANGED <<settings, lease, disk, owner, offers, receipts, rescue, kills>>

(* The process is killed in a write: a temporary file is left, and counts.   *)
Kill(p) ==
    /\ kills < MaxKills
    /\ Working(p) /\ StillReserved(job[p])
    /\ ~Complete(job[p]) \/ head[job[p].owner] # job[p].manifest
    /\ junk' = [junk EXCEPT ![job[p].owner] = @ + 1]
    /\ job' = [job EXCEPT ![p] = None]
    /\ lease' = None
    /\ kills' = kills + 1
    /\ UNCHANGED <<settings, blobs, head, owner, offers, receipts, rescue>>

-----------------------------------------------------------------------------
Edit(o) ==
    /\ Alive(o) /\ drive[o] < Len(Tree[o])
    /\ drive' = [drive EXCEPT ![o] = @ + 1]
    /\ UNCHANGED <<settings, lease, job, disk, prepared, starts, synced, offers, receipts, rescue, kills>>

(* refresh: a new tree is prepared and takes the place of the one exported   *)
(* so far; what was reported of another tree is void. Then, or a minute      *)
(* after the last time, it is offered.                                       *)
Snapshot(o) ==
    IF TreeOf(prepared[o]) = drive[o] THEN prepared[o]
    ELSE [tree |-> drive[o], start |-> starts[o]]

Offer(o) ==
    /\ Alive(o) /\ Snapshot(o) \notin offers[o]
    /\ prepared' = [prepared EXCEPT ![o] = Snapshot(o)]
    /\ synced' = [synced EXCEPT ![o] = IF @ = drive[o] THEN @ ELSE 0]
    /\ offers' = [offers EXCEPT ![o] = @ \cup {Snapshot(o)}]
    /\ UNCHANGED <<settings, lease, job, disk, drive, starts, receipts, rescue, kills>>

(* Mutant: whatever was stored, something was. *)
HandleStoredOfAny(o, m) ==
    /\ Alive(o) /\ m \in receipts[o] /\ prepared[o] # None
    /\ receipts' = [receipts EXCEPT ![o] = @ \ {m}]
    /\ synced' = [synced EXCEPT ![o] = prepared[o].tree]
    /\ UNCHANGED <<settings, lease, job, disk, drive, prepared, starts, offers, rescue, kills>>

(* Stored: it counts if it names the very snapshot that is exported.         *)
HandleStored(o, m) ==
    /\ Alive(o) /\ m \in receipts[o]
    /\ receipts' = [receipts EXCEPT ![o] = @ \ {m}]
    /\ synced' = [synced EXCEPT ![o] = IF prepared[o] = m THEN m.tree ELSE @]
    /\ UNCHANGED <<settings, lease, job, disk, drive, prepared, starts, offers, rescue, kills>>

(* The export ends with the process, what was reported stays on its disk.    *)
Restart(o) ==
    /\ Alive(o) /\ starts[o] < MaxStarts
    /\ starts' = [starts EXCEPT ![o] = @ + 1]
    /\ prepared' = [prepared EXCEPT ![o] = None]
    /\ UNCHANGED <<settings, lease, job, disk, drive, synced, offers, receipts, rescue, kills>>

(* Messages are lost, as when a receiver lags behind.                        *)
Lose(o) ==
    \/ \E m \in offers[o] :
         /\ offers' = [offers EXCEPT ![o] = @ \ {m}]
         /\ UNCHANGED <<settings, lease, job, disk, owner, receipts, rescue, kills>>
    \/ \E m \in receipts[o] :
         /\ receipts' = [receipts EXCEPT ![o] = @ \ {m}]
         /\ UNCHANGED <<settings, lease, job, disk, owner, offers, rescue, kills>>

-----------------------------------------------------------------------------
(* The device is lost with its drive; another one has the recovery file.     *)
LoseDevice(o) ==
    /\ Alive(o)
    /\ rescue' = [rescue EXCEPT ![o].phase = "asking"]
    /\ prepared' = [prepared EXCEPT ![o] = None]
    /\ receipts' = [receipts EXCEPT ![o] = {}]
    /\ UNCHANGED <<settings, lease, job, disk, drive, starts, synced, offers, kills>>

(* RequestHead, answered by whoever serves; without a head it is refused.    *)
AskHead(o) ==
    /\ rescue[o].phase = "asking"
    /\ allowance[o] > 0 /\ head[o] # None
    /\ \E p \in Procs : Serving(p) /\ job[p] = None
    /\ rescue' = [rescue EXCEPT ![o] = [phase |-> "reading", from |-> head[o]]]
    /\ UNCHANGED <<settings, lease, job, disk, owner, offers, receipts, kills>>

(* restore_snapshot: the manifest, served only while it is the head, and all *)
(* its blobs are fetched; the folder is made only if the tree is complete,   *)
(* else the user starts again.                                               *)
Recover(o) ==
    /\ rescue[o].phase = "reading" /\ lease # None /\ allowance[o] > 0
    /\ LET m == rescue[o].from
       IN  rescue' = [rescue EXCEPT ![o].phase =
                        IF head[o] = m /\ Missing(o, m) = {} THEN "back" ELSE "asking"]
    /\ UNCHANGED <<settings, lease, job, disk, owner, offers, receipts, kills>>

-----------------------------------------------------------------------------
ServiceStep(p) ==
    \/ StartService(p) \/ StopService(p)
    \/ PutBlob(p) \/ \E told \in BOOLEAN : CommitHead(p, told)
    \/ Abandon(p) \/ Kill(p)
    \/ \E o \in Owners : \E m \in offers[o] : HandleOffer(p, o, m)

OwnerStep(o) ==
    \/ Edit(o) \/ Offer(o) \/ Restart(o) \/ Lose(o) \/ LoseDevice(o)
    \/ \E m \in receipts[o] : HandleStored(o, m)
    \/ AskHead(o) \/ Recover(o)

SettingsStep ==
    \/ \E total \in Capacities : SetCapacity(total)
    \/ \E o \in Owners, space \in Allowances \cup {0} : SetAllowance(o, space)

Next ==
    \/ \E p \in Procs : ServiceStep(p)
    \/ \E o \in Owners : OwnerStep(o)
    \/ SettingsStep

(* The timers tick, what arrives is handled, and however often a transfer is *)
(* cut off, a blob is fetched well within the minute.                        *)
Fairness ==
    /\ WF_backupVars(\E p \in Procs : StartService(p))
    /\ WF_backupVars(\E p \in Procs : Abandon(p))
    /\ \A o \in Owners :
        /\ SF_backupVars(Offer(o))
        /\ SF_backupVars(\E p \in Procs : HandleOffer(p, o, prepared[o]))
        /\ SF_backupVars(\E p \in Procs : Working(p) /\ job[p].owner = o
                                            /\ (PutBlob(p) \/ CommitHead(p, TRUE)))
        /\ SF_backupVars(\E m \in receipts[o] : m = prepared[o] /\ HandleStored(o, m))
        /\ SF_backupVars(AskHead(o)) /\ SF_backupVars(Recover(o))

Spec == Init /\ [][Next]_backupVars /\ Fairness

-----------------------------------------------------------------------------
Jobs == [owner : Owners, manifest : AllManifests, required : Nat]

TypeOK ==
    /\ capacity \in Capacities \cup {0}
    /\ allowance \in [Owners -> Allowances \cup {0}]
    /\ lease \in Procs \cup {None}
    /\ job \in [Procs -> Jobs \cup {None}]
    /\ \A o \in Owners :
        /\ blobs[o] \subseteq UNION Range(Tree[o])
        /\ drive[o] \in 1..Len(Tree[o]) /\ synced[o] \in 0..Len(Tree[o])
        /\ head[o] \in Manifests(o) \cup {None}
        /\ prepared[o] \in Manifests(o) \cup {None}
        /\ offers[o] \subseteq Manifests(o) /\ receipts[o] \subseteq Manifests(o)
        /\ starts[o] \in 1..MaxStarts
        /\ rescue[o] \in [phase : {"none", "asking", "reading", "back"},
                          from : Manifests(o) \cup {None}]
    /\ junk \in [Owners -> 0..MaxKills] /\ kills \in 0..MaxKills

(* The manifest on the host's disk names blobs that are all there, wherever  *)
(* a transfer was cut off or the process killed.                             *)
HeadComplete == \A o \in Owners : head[o] # None => Missing(o, head[o]) = {}

(* Whatever the settings become while a transfer is under way, and whatever  *)
(* interrupted ones left behind, all that a friend has on this disk fits its *)
(* space, and all friends have fits the total.                               *)
SpaceKept == Covered(capacity, allowance, Usage)

(* An older snapshot never replaces a newer one: offers that arrive late and *)
(* a second process of the host do not undo a backup.                        *)
HeadForward == [][\A o \in Owners : TreeOf(head[o]) <= TreeOf(head'[o])]_backupVars

(* What the owner's status reports as backed up is at the host as a whole,   *)
(* as its head or before it, although the drive has changed, the owner's     *)
(* process restarted or other offers were answered meanwhile.                *)
SyncedIsStored ==
    \A o \in Owners : synced[o] # 0 =>
        TreeOf(head[o]) >= synced[o] /\ Tree[o][synced[o]] \subseteq blobs[o]

(* Once both devices are running, the drive is at rest and its snapshot fits *)
(* the space beside all that is retained, it is backed up in the end, however*)
(* often transfers are cut off and messages lost.                            *)
Fits(o) ==
    Used(o) + Cardinality(Tree[o][drive[o]] \ blobs[o]) + 1 <= allowance[o]

Served == \E p \in Procs : Serving(p)

EventuallySynced ==
    \A o \in Owners :
        <>[](Alive(o) /\ Served /\ Fits(o)) => <>[](synced[o] = drive[o])

(* A device that saw its drive backed up and is lost gets this tree back or  *)
(* a later one, if the host runs again: a friend with a backup keeps its     *)
(* space.                                                                    *)
EventuallyRecovered ==
    <>[]Served => \A o \in Owners :
        (synced[o] # 0 /\ ~Alive(o)) ~>
            (rescue[o].phase = "back" /\ TreeOf(rescue[o].from) >= synced[o])
=============================================================================
