------------------------------ MODULE RootRef -------------------------------
(* AppKeyRootRef (config.rs): what a device remembers of one AppKey's latest *)
(* drive root, and the rules by which the three inbound paths - full signed  *)
(* drive-root events, direct-root hints, web files-root events - and a config*)
(* save replace one reference by another. A cid is abstract; parents and     *)
(* observed are sets, since only their emptiness and members matter here.    *)
EXTENDS Naturals

(* No entry for the AppKey in app_key_roots. *)
NoRef == [cid |-> 0, seq |-> 0, pub |-> 0, gen |-> 0,
          parents |-> {}, observed |-> {}, local |-> FALSE]

Known(ref) == ref.cid # 0

(* AppKeyRootRef::is_newer_than, the rule of a config save *)
IsNewerThan(a, b) ==
    IF a.seq > 0 \/ b.seq > 0 THEN a.seq > b.seq ELSE a.pub > b.pub

(* incoming_root_is_stale: seq 0 is a legacy root of unknown causality *)
IncomingIsStale(existing, seq, pub) ==
    \/ existing.seq > 0 /\ seq <= existing.seq
    \/ existing.seq = 0 /\ seq = 0 /\ pub <= existing.pub

(* app_key_root_ref_may_need_full_event_refresh *)
MayNeedRefresh(existing) ==
    existing.gen = 0 \/ existing.parents = {} \/ existing.observed = {}

(* Mutant: a placeholder is never filled in. *)
RefreshesNever(existing, incoming) == FALSE

(* incoming_full_root_refreshes_existing *)
Refreshes(existing, incoming) ==
    /\ existing.cid = incoming.cid
    /\ \/ incoming.seq > existing.seq
       \/ incoming.gen > existing.gen
       \/ existing.parents = {} /\ incoming.parents # {}
       \/ existing.observed = {} /\ incoming.observed # {}

(* What the signed event says, as the receiver stores it: local_only is not  *)
(* on the wire.                                                              *)
OnWire(ref) == [ref EXCEPT !.local = FALSE]

(* apply_root_to_app_key_roots. canOpen: the event wraps the root key for    *)
(* this device (RootKeyUnavailable otherwise).                               *)
FullApplies(existing, incoming, canOpen) ==
    LET stale == IncomingIsStale(existing, incoming.seq, incoming.pub)
    IN  /\ canOpen
        /\ Known(existing) =>
             /\ stale => MayNeedRefresh(existing)
             /\ (stale \/ existing.cid = incoming.cid) =>
                    Refreshes(existing, incoming)

ApplyFull(existing, incoming, canOpen) ==
    IF FullApplies(existing, incoming, canOpen) THEN OnWire(incoming)
                                                ELSE existing

(* apply_direct_root_hint_to_roots: the hint names owner, seq and cid; the   *)
(* receiver's clock stands in for published_at until the event arrives.      *)
Placeholder(cid, seq, now) ==
    [NoRef EXCEPT !.cid = cid, !.seq = seq, !.pub = now]

(* Mutant: the same cid is not recognised and the comparison not strict. *)
HintAppliesAgain(existing, cid, seq, now) ==
    Known(existing) => existing.seq <= seq

HintApplies(existing, cid, seq, now) ==
    Known(existing) =>
        /\ existing.cid # cid
        /\ IF existing.seq > 0 \/ seq > 0 THEN existing.seq < seq
                                          ELSE existing.pub < now

ApplyHint(existing, cid, seq, now) ==
    IF HintApplies(existing, cid, seq, now) THEN Placeholder(cid, seq, now)
                                            ELSE existing

(* Mutant: only the publication times are compared. *)
FilesRootAppliesByTime(existing, cid, pub) ==
    Known(existing) => existing.pub < pub

(* apply_remote_files_root_event: a web app's root for this very AppKey is   *)
(* taken only while the native side has no sequenced root of its own.        *)
FilesRootApplies(existing, cid, pub) ==
    Known(existing) =>
        /\ existing.cid # cid
        /\ existing.seq = 0
        /\ existing.pub < pub

ApplyFilesRoot(existing, cid, pub) ==
    IF FilesRootApplies(existing, cid, pub) THEN Placeholder(cid, 0, pub)
                                            ELSE existing

(* Mutant: the process writes what it loaded. *)
PreserveMine(mine, disk, writer) == IF writer THEN mine ELSE NoRef

(* preserve_newer_app_key_roots for one AppKey: what a save writes when the  *)
(* file on disk holds `disk' and the process wants to write `mine'. writer:  *)
(* the roster still lists the AppKey as a root writer.                       *)
Preserve(mine, disk, writer) ==
    IF ~writer THEN NoRef
    ELSE IF Known(disk) /\ (~Known(mine) \/ IsNewerThan(disk, mine)) THEN disk
    ELSE mine
=============================================================================
