----------------------------- MODULE ConfigStore -----------------------------
(* The persisted state of one installation: config.toml with the roots, the  *)
(* roster and the settings, and profile-roster-events.json beside it. Every  *)
(* handler, command and timer loads the config, changes its copy and saves   *)
(* the copy whole. Most hold the config transaction lock meanwhile; the rest *)
(* rely on what a save takes over from the file it is about to replace: newer*)
(* AppKey roots, and every roster operation in the file beside it.           *)
EXTENDS RootRef, Sequences, FiniteSets

CONSTANTS
    Locked,    \* tasks that hold the ConfigMutationLock from load to save:
               \* the daemon's handlers, provider edits, network sync's applies
    Free,      \* tasks that do not: CLI profile commands, native UI actions,
               \* the native direct-root exchange and its materialization
    MaxRoots,  \* bound on the roots this installation makes
    MaxPeer,   \* bound on the peer's roots
    MaxSets    \* bound on the changes of settings

Tasks == Locked \cup Free

ASSUME TasksAssumption == Locked \cap Free = {} /\ "none" \notin Tasks
ASSUME StoreBoundsAssumption ==
    MaxRoots \in Nat /\ MaxPeer \in Nat /\ MaxSets \in Nat

VARIABLES
    file,      \* config.toml
    sidecar,   \* profile-roster-events.json: signed roster operations
    lock,      \* the task holding the config transaction lock, or "none"
    step,      \* step[t]: how far t is between loading and saving
    job,       \* job[t]: what t loaded the config for
    mine,      \* mine[t]: t's copy of the config, as loaded and changed
    copy,      \* copy[t]: the clone that its save merges and writes
    seen,      \* seen[t]: the roster operations t read from the sidecar
    trees,     \* trees[cid]: the edits that the tree of an own root contains
    apart,     \* history: no save has begun while another was under way
    guarded,   \* history: no task has saved without the lock
    done       \* history: what tasks that finished have saved

storeVars == <<file, sidecar, lock, step, job, mine, copy, seen, trees,
               apart, guarded, done>>

(* The operations on the peer: its admission, then its revocation. *)
Ops == {"admit", "revoke"}

(* active_root_writer_app_key_pubkeys has the peer *)
Writes(ops) == "admit" \in ops /\ "revoke" \notin ops

OwnRoots == {NoRef} \cup {[NoRef EXCEPT !.cid = c, !.seq = n, !.local = l] :
                            c \in 1..MaxRoots, n \in 1..MaxRoots, l \in BOOLEAN}

PeerRoots == {NoRef} \cup {[NoRef EXCEPT !.cid = n, !.seq = n] : n \in 1..MaxPeer}

Config == [own : OwnRoots, peer : PeerRoots, ops : SUBSET Ops, setting : 0..MaxSets]

NewConfig == [own |-> NoRef, peer |-> NoRef, ops |-> {}, setting |-> 0]

Init ==
    /\ file = NewConfig
    /\ sidecar = {}
    /\ lock = "none"
    /\ step = [t \in Tasks |-> "idle"]
    /\ job = [t \in Tasks |-> "none"]
    /\ mine = [t \in Tasks |-> NewConfig]
    /\ copy = [t \in Tasks |-> NewConfig]
    /\ seen = [t \in Tasks |-> {}]
    /\ trees = <<>>
    /\ apart = TRUE
    /\ guarded = TRUE
    /\ done = [edits |-> {}, ops |-> {}, setting |-> 0]

Goto(t, s) == step' = [step EXCEPT ![t] = s]

Saving == {t \in Tasks : step[t] \in {"sidecar", "append", "write"}}

-----------------------------------------------------------------------------
(* load_or_default merges the operations beside the config into the roster;  *)
(* Daemon::open (load_or_default_cached_profile) takes the file as it is.    *)
Loaded == [file EXCEPT !.ops = @ \cup sidecar]

Jobs(t) == {"learn", "roster", "setting", "materialize"}
               \cup (IF t \in Locked THEN {"edit"} ELSE {})

(* Mutant: the lock is asked for only when saving. *)
BeginUnlocked(t, kind) ==
    /\ step[t] = "idle"
    /\ lock' = lock
    /\ job' = [job EXCEPT ![t] = kind]
    /\ mine' = [mine EXCEPT ![t] = IF kind \in {"edit", "materialize"} THEN file ELSE Loaded]
    /\ Goto(t, "loaded")
    /\ UNCHANGED <<file, sidecar, copy, seen, trees, apart, guarded, done>>

Begin(t, kind) ==
    /\ step[t] = "idle"
    /\ IF t \in Locked THEN lock = "none" /\ lock' = t ELSE lock' = lock
    /\ job' = [job EXCEPT ![t] = kind]
    /\ mine' = [mine EXCEPT ![t] = IF kind \in {"edit", "materialize"} THEN file ELSE Loaded]
    /\ Goto(t, "loaded")
    /\ UNCHANGED <<file, sidecar, copy, seen, trees, apart, guarded, done>>

(* The task ends, its work done or not, and gives the lock back.             *)
End(t) ==
    /\ Goto(t, "idle")
    /\ lock' = IF lock = t THEN "none" ELSE lock
    /\ job' = [job EXCEPT ![t] = "none"]
    /\ mine' = [mine EXCEPT ![t] = NewConfig]
    /\ copy' = [copy EXCEPT ![t] = NewConfig]
    /\ seen' = [seen EXCEPT ![t] = {}]

(* root_meta_for_import: the next sequence number after the loaded root      *)
OwnRoot(t, local) ==
    [NoRef EXCEPT !.cid = Len(trees) + 1, !.seq = mine[t].own.seq + 1, !.local = local]

Contents(ref) == IF Known(ref) THEN trees[ref.cid] ELSE {}

(* A user's edit is part of the tree that is imported; load_full_profile_for_*)
(* mutation takes the roster, and only the roster, as it is by now. The      *)
(* merged view that is materialized contains this installation's own files.  *)
MakeRoot(t) ==
    /\ job[t] \in {"edit", "materialize"}
    /\ Len(trees) < MaxRoots
    /\ LET new == IF job[t] = "edit" THEN {Len(trees) + 1} ELSE {}
       IN  trees' = Append(trees, Contents(mine[t].own) \cup new)
    /\ mine' = [mine EXCEPT ![t].own = OwnRoot(t, job[t] = "materialize"),
                            ![t].ops = Loaded.ops]

(* apply_remote_drive_root_event: the peer's root, if the roster allows it.  *)
(* The native exchange saves its copy also when that changed nothing.        *)
LearnRoot(t) ==
    /\ job[t] = "learn"
    /\ Writes(mine[t].ops)
    /\ \E seq \in 1..MaxPeer :
         LET ref == [NoRef EXCEPT !.cid = seq, !.seq = seq]
         IN  /\ t \in Locked => FullApplies(mine[t].peer, ref, TRUE)
             /\ mine' = [mine EXCEPT ![t].peer = ApplyFull(@, ref, TRUE)]
    /\ UNCHANGED trees

(* A roster operation made here or received: it follows the ones it knows.   *)
ApplyOp(t) ==
    /\ job[t] = "roster"
    /\ \E op \in Ops :
         /\ op = "revoke" => "admit" \in mine[t].ops
         /\ t \in Locked => op \notin mine[t].ops
         /\ mine' = [mine EXCEPT ![t].ops = @ \cup {op}]
    /\ UNCHANGED trees

ChangeSetting(t) ==
    /\ job[t] = "setting"
    /\ mine[t].setting < MaxSets
    /\ mine' = [mine EXCEPT ![t].setting = @ + 1]
    /\ UNCHANGED trees

Change(t) ==
    /\ step[t] = "loaded"
    /\ MakeRoot(t) \/ LearnRoot(t) \/ ApplyOp(t) \/ ChangeSetting(t)
    /\ Goto(t, "changed")
    /\ UNCHANGED <<file, sidecar, lock, job, copy, seen, apart, guarded, done>>

(* Nothing to change after all, an error, or the process is killed: the next *)
(* one that asks for the lock removes it (ConfigLock).                       *)
Stop(t) ==
    /\ step[t] # "idle"
    /\ End(t)
    /\ UNCHANGED <<file, sidecar, trees, apart, guarded, done>>

-----------------------------------------------------------------------------
(* AppConfig::save, in the steps other processes can see. The file is read   *)
(* again for roots that are newer than the copy's ...                        *)
MergeRoots(t) ==
    /\ step[t] = "changed"
    /\ copy' = [copy EXCEPT ![t] =
                  [mine[t] EXCEPT !.own = Preserve(@, file.own, TRUE),
                                  !.peer = Preserve(@, file.peer, Writes(mine[t].ops))]]
    /\ apart' = (apart /\ Saving = {})
    /\ Goto(t, "sidecar")
    /\ UNCHANGED <<file, sidecar, lock, job, mine, seen, trees, guarded, done>>

(* ... save_profile_roster_events reads the operations beside it ...         *)
ReadOps(t) ==
    /\ step[t] = "sidecar"
    /\ seen' = [seen EXCEPT ![t] = sidecar]
    /\ Goto(t, "append")
    /\ UNCHANGED <<file, sidecar, lock, job, mine, copy, trees, apart, guarded, done>>

(* Mutant: the store is replaced by the operations of the copy. *)
WriteOpsOfCopy(t) ==
    /\ step[t] = "append"
    /\ sidecar' = copy[t].ops
    /\ Goto(t, "write")
    /\ UNCHANGED <<file, lock, job, mine, copy, seen, trees, apart, guarded, done>>

(* ... and writes them back with the copy's; a copy without any operation    *)
(* leaves the store alone ...                                                *)
WriteOps(t) ==
    /\ step[t] = "append"
    /\ sidecar' = IF copy[t].ops = {} THEN sidecar ELSE seen[t] \cup copy[t].ops
    /\ Goto(t, "write")
    /\ UNCHANGED <<file, lock, job, mine, copy, seen, trees, apart, guarded, done>>

(* ... and the config is replaced by the copy in one rename.                 *)
WriteConfig(t) ==
    /\ step[t] = "write"
    /\ file' = copy[t]
    /\ guarded' = (guarded /\ t \in Locked)
    /\ done' = [edits   |-> done.edits \cup (IF job[t] = "edit" THEN {mine[t].own.cid} ELSE {}),
                ops     |-> done.ops \cup mine[t].ops,
                setting |-> IF job[t] = "setting" THEN mine[t].setting ELSE done.setting]
    /\ End(t)
    /\ UNCHANGED <<sidecar, trees, apart>>

TaskStep(t) ==
    \/ \E kind \in Jobs(t) : Begin(t, kind)
    \/ Change(t) \/ Stop(t)
    \/ MergeRoots(t) \/ ReadOps(t) \/ WriteOps(t) \/ WriteConfig(t)

Next == \E t \in Tasks : TaskStep(t)

Spec == Init /\ [][Next]_storeVars

-----------------------------------------------------------------------------
TypeOK ==
    /\ file \in Config
    /\ sidecar \subseteq Ops
    /\ lock \in Locked \cup {"none"}
    /\ step \in [Tasks -> {"idle", "loaded", "changed", "sidecar", "append", "write"}]
    /\ job \in [Tasks -> {"none", "learn", "roster", "setting", "edit", "materialize"}]
    /\ mine \in [Tasks -> Config] /\ copy \in [Tasks -> Config]
    /\ seen \in [Tasks -> SUBSET Ops]
    /\ trees \in Seq(SUBSET (1..MaxRoots)) /\ Len(trees) <= MaxRoots
    /\ apart \in BOOLEAN /\ guarded \in BOOLEAN
    /\ done \in [edits : SUBSET (1..MaxRoots), ops : SUBSET Ops, setting : 0..MaxSets]

(* A roster operation that was saved once is there for every later load,     *)
(* whatever older copies of the config are saved over it, without the lock,  *)
(* and wherever the saving process is killed, unless two saves overlap.      *)
OpsKept == apart => done.ops \subseteq Loaded.ops

(* However old the copy that is saved, the own root on file never goes back  *)
(* to an earlier one, and neither does the peer's while it is a writer for   *)
(* all who save: with the lock, or in a copy that knows of its admission.    *)
RootsForward ==
    [][apart =>
         /\ file.own.seq <= file'.own.seq
         /\ guarded' /\ "revoke" \notin sidecar => file.peer.seq <= file'.peer.seq]_storeVars

(* As long as everybody saves under the lock, what was saved - the edits of  *)
(* the files, the operations, the settings - stays saved, although a save    *)
(* replaces the whole file.                                                  *)
LocalTransactionsKept ==
    /\ done.edits \subseteq Contents(file.own)
    /\ done.setting = file.setting

GuardedTransactionsKept == guarded => LocalTransactionsKept
=============================================================================
