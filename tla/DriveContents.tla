--------------------------- MODULE DriveContents ----------------------------
(* What happens to the files of a drive that several devices edit: each      *)
(* device publishes its own contribution as a chain of roots, learns others' *)
(* latest roots in any order, and shows the merge of the roots on its record.*)
(* An edit is turned into a contribution by comparing the edited tree with   *)
(* the tree the edit started from. Local-only projections carry no           *)
(* contribution and are left to DriveRoots, as are downloads.                *)
EXTENDS Merge, Sequences

CONSTANTS
    N,          \* the devices are 1..N, numbered in the order of their AppKeys
    Paths,      \* the file paths
    Mounts,     \* devices whose user edits a mounted tree; the others edit
                \* through the native provider
    Deletes,    \* whether users delete files
    MaxSeq,     \* bound on the roots of one device
    MaxClock    \* bound on the clocks

ASSUME ContentsAssumption ==
    /\ N \in Nat /\ MaxSeq \in Nat /\ MaxClock \in Nat
    /\ Mounts \subseteq 1..N
    /\ Deletes \in BOOLEAN

VARIABLES
    roots,     \* roots[d]: the roots of d, in order
    rec,       \* rec[d][o]: sequence of o's root on record at d, 0 for none
    tree,      \* tree[d]: the tree the mount of d shows, with the user's changes
    base,      \* base[d]: the tree d's mount last imported or was refreshed to
    replaced,  \* history: versions <<path, version>> some user had in sight when
               \* saving or deleting the path
    saved,     \* saved[d]: history: what the latest root of d was made to save
    final,     \* final[p]: history: who ever changed p, and the latest change
    turns      \* history: so far every edit was made by a device with everyone's
               \* roots on record, to the tree it showed

vars == <<roots, rec, tree, base, replaced, saved, final, turns>>

Devices == 1..N

(* A version is named by the device and root it was first saved in. *)
Version == Devices \X (1..MaxSeq)

Tree == [Paths -> Version \cup {NoFile}]

EmptyTree == [p \in Paths |-> NoFile]

Root == [at : 0..MaxClock, observed : [Devices -> 0..MaxSeq],
         files : Tree, graves : [Paths -> 0..MaxClock]]

NoRoot == [at |-> 0, observed |-> [o \in Devices |-> 0],
           files |-> EmptyTree, graves |-> [p \in Paths |-> 0]]

Init ==
    /\ roots = [d \in Devices |-> <<>>]
    /\ rec = [d \in Devices |-> [o \in Devices |-> 0]]
    /\ tree = [d \in Mounts |-> EmptyTree]
    /\ base = [d \in Mounts |-> EmptyTree]
    /\ replaced = {}
    /\ saved = [d \in Devices |-> <<>>]
    /\ final = [p \in Paths |-> [by |-> {}, file |-> NoFile]]
    /\ turns = TRUE

-----------------------------------------------------------------------------
(* What a device shows *)

SnapshotAt(o, seq, p) ==
    LET r == roots[o][seq]
    IN  Snapshot(o, seq, r.at, r.observed, r.files[p], r.graves[p])

(* drive_merged_view: the recorded roots, in key order *)
Snapshots(d, p) ==
    [o \in {k \in Devices : rec[d][k] > 0} |-> SnapshotAt(o, rec[d][o], p)]

Shown(d) == [p \in Paths |-> Merged(Snapshots(d, p)).file]

Visible(d, p) ==
    LET m == Merged(Snapshots(d, p)) IN {m.file} \cup m.copies

UpToDate(d) == \A o \in Devices : rec[d][o] = Len(roots[o])

-----------------------------------------------------------------------------
(* local_visible_root_for_mount_import: the device's contribution            *)

Previous(d) == IF roots[d] = <<>> THEN NoRoot ELSE roots[d][Len(roots[d])]

(* A file of the device's previous root stays if the edit started from it or *)
(* from a tree without that path.                                            *)
Kept(d, from, to, p) ==
    LET own == Previous(d).files[p]
    IN  \/ own = from[p]
        \/ from[p] = NoFile /\ to[p] = NoFile

(* Mutant: the whole edited tree becomes the device's own. *)
FilesWhole(d, from, to) == to

Files(d, from, to) ==
    [p \in Paths |->
        IF to[p] = from[p]
        THEN IF Kept(d, from, to, p) THEN Previous(d).files[p] ELSE NoFile
        ELSE to[p]]

(* attach_history_for_current_paths: deleted paths get a tombstone, and every*)
(* earlier tombstone is carried along, even where the file is back.          *)
NewGraves(d, from, to, at) ==
    [p \in Paths |->
        IF from[p] # NoFile /\ to[p] = NoFile THEN at ELSE Previous(d).graves[p]]

(* Mutant: the root observes only what the previous one did. *)
PublishUnobserved(d, from, to, now) ==
    LET seq == Len(roots[d]) + 1
        at == IF now > Previous(d).at THEN now ELSE Previous(d).at + 1
    IN  /\ seq <= MaxSeq /\ at <= MaxClock
        /\ roots' = [roots EXCEPT ![d] = Append(@,
              [at |-> at, observed |-> Previous(d).observed,
               files |-> Files(d, from, to), graves |-> NewGraves(d, from, to, at)])]
        /\ rec' = [rec EXCEPT ![d][d] = seq]

(* import_visible_root_with_tombstone_base: the edit that turned the tree    *)
(* `from` into `to` becomes d's next root, observing everything on record.   *)
Publish(d, from, to, now) ==
    LET seq == Len(roots[d]) + 1
        at == IF now > Previous(d).at THEN now ELSE Previous(d).at + 1
    IN  /\ seq <= MaxSeq /\ at <= MaxClock
        /\ roots' = [roots EXCEPT ![d] = Append(@,
              [at |-> at, observed |-> rec[d],
               files |-> Files(d, from, to), graves |-> NewGraves(d, from, to, at)])]
        /\ rec' = [rec EXCEPT ![d][d] = seq]

(* The history variables of an edit: what the user saw replaced, and saved.  *)
Account(d, from, to) ==
    LET changed == {p \in Paths : to[p] # from[p]}
    IN  /\ replaced' = replaced \cup UNION {{p} \X ((Visible(d, p) \cup {from[p]}) \ {NoFile})
                                           : p \in changed}
        /\ saved' = [saved EXCEPT ![d] = [p \in changed |-> to[p]]]
        /\ final' = [p \in Paths |->
                       IF p \in changed
                       THEN [by |-> final[p].by \cup {d}, file |-> to[p]]
                       ELSE final[p]]
        /\ turns' = (turns /\ UpToDate(d) /\ from = Shown(d))

Contribute(d, from, to) ==
    /\ \E now \in 1..MaxClock : Publish(d, from, to, now)
    /\ Account(d, from, to)

(* A user writes p, or deletes it. *)
Edits(d, from, p) ==
    {[from EXCEPT ![p] = <<d, Len(roots[d]) + 1>>]}
        \cup (IF Deletes THEN {[from EXCEPT ![p] = NoFile]} ELSE {})

-----------------------------------------------------------------------------
(* run_native_provider_write and _delete: one transaction that starts from   *)
(* the current merge.                                                        *)
ProviderEdit(d) ==
    /\ d \notin Mounts
    /\ \E p \in Paths : \E to \in Edits(d, Shown(d), p) :
          to # Shown(d) /\ Contribute(d, Shown(d), to)
    /\ UNCHANGED <<tree, base>>

(* The user changes the mounted tree. *)
MountEdit(d) ==
    /\ d \in Mounts
    /\ Len(roots[d]) < MaxSeq
    /\ \E p \in Paths : \E to \in Edits(d, tree[d], p) :
          to # tree[d] /\ tree' = [tree EXCEPT ![d] = to]
    /\ UNCHANGED <<roots, rec, base, replaced, saved, final, turns>>

(* import_mount_visible_root_update: the tombstone base is the tree of the   *)
(* last import or refresh, however much the record has moved on since.       *)
MountImport(d) ==
    /\ d \in Mounts
    /\ tree[d] # base[d]
    /\ Contribute(d, base[d], tree[d])
    /\ base' = [base EXCEPT ![d] = tree[d]]
    /\ UNCHANGED tree

(* refresh_from_config_if_current: only a mount without changes *)
MountRefresh(d) ==
    /\ d \in Mounts
    /\ tree[d] = base[d]
    /\ tree' = [tree EXCEPT ![d] = Shown(d)]
    /\ base' = [base EXCEPT ![d] = Shown(d)]
    /\ UNCHANGED <<roots, rec, replaced, saved, final, turns>>

(* A root of o arrives with its blocks; earlier ones may never. *)
Learn(d, o) ==
    /\ d # o
    /\ \E seq \in (rec[d][o] + 1)..Len(roots[o]) : rec' = [rec EXCEPT ![d][o] = seq]
    /\ UNCHANGED <<roots, tree, base, replaced, saved, final, turns>>

Next ==
    \E d \in Devices :
        \/ ProviderEdit(d)
        \/ MountEdit(d)
        \/ MountImport(d)
        \/ MountRefresh(d)
        \/ \E o \in Devices : Learn(d, o)

Spec == Init /\ [][Next]_vars

-----------------------------------------------------------------------------
TypeOK ==
    /\ roots \in [Devices -> Seq(Root)]
    /\ rec \in [Devices -> [Devices -> 0..MaxSeq]]
    /\ \A d, o \in Devices : rec[d][o] <= Len(roots[o])
    /\ tree \in [Mounts -> Tree] /\ base \in [Mounts -> Tree]
    /\ replaced \subseteq Paths \X Version

(* "Publishing that entire view as the current device's root would re-author *)
(* unchanged remote files locally" (indexer.rs): a device's root holds only  *)
(* files saved there, however stale the tree or the record of the import.    *)
OwnFiles(d, n) == ({d} \X (1..n)) \cup {NoFile}

NothingReauthored ==
    \A d \in Devices : \A i \in 1..Len(roots[d]) : \A p \in Paths :
        roots[d][i].files[p] \in OwnFiles(d, i)

(* A path only one device ever changed shows that device's latest save on    *)
(* every device that is up to date, whatever the others did elsewhere, on    *)
(* trees however old: an import never claims files it did not change.        *)
WriterAlone ==
    \A d \in Devices, p \in Paths :
        UpToDate(d) /\ Cardinality(final[p].by) = 1 => Shown(d)[p] = final[p].file

(* What a user saved stays what the device shows until it learns of a root   *)
(* its save had not observed.                                                *)
SavedStays ==
    \A d \in Devices :
        (\A o \in Devices \ {d} : rec[d][o] <= Previous(d).observed[o]) =>
            \A p \in DOMAIN saved[d] : Shown(d)[p] = saved[d][p]

(* Of two concurrent roots with different files at a path both can be seen,  *)
(* and a file concurrent with a deletion can be, unless a later root follows.*)
Unfollowed(d, p) ==
    {r \in Range(Snapshots(d, p)) : \A s \in Range(Snapshots(d, p)) : ~Descends(s, r)}

ClashesShown ==
    \A d \in Devices, p \in Paths : \A r, s \in Unfollowed(d, p) :
        Concurrent(r, s) /\ r.file # NoFile /\ (s.file # NoFile \/ s.grave > 0)
            => r.file \in Visible(d, p)

(* While devices take turns and nothing was deleted, the latest change of a  *)
(* path is what an up-to-date device shows there.                            *)
LastEditShows ==
    turns /\ (\A d \in Devices : \A i \in 1..Len(roots[d]) :
                roots[d][i].graves = NoRoot.graves)
    => \A d \in Devices, p \in Paths : UpToDate(d) => Shown(d)[p] = final[p].file

(* ... and a deletion in particular stays a deletion.                        *)
DeletionsStay ==
    turns => \A d \in Devices, p \in Paths :
        UpToDate(d) /\ final[p].file = NoFile => Shown(d)[p] = NoFile

(* ... and so does a file put back after a deletion.                         *)
RestoresStay ==
    turns => \A d \in Devices, p \in Paths :
        UpToDate(d) /\ final[p].file # NoFile => Shown(d)[p] # NoFile

(* A version nobody replaced or deleted can be seen somewhere at its path.   *)
NothingLost ==
    \A d \in Devices, p \in Paths, o \in Devices : UpToDate(d) =>
        \A i \in 1..Len(roots[o]) :
            \/ roots[o][i].files[p] \in Visible(d, p) \cup {NoFile}
            \/ <<p, roots[o][i].files[p]>> \in replaced

(* A version a user replaced does not come back to its path.                 *)
NothingComesBack ==
    \A d \in Devices, p \in Paths : UpToDate(d) => <<p, Shown(d)[p]>> \notin replaced
=============================================================================
