----------------------------- MODULE DriveRoots -----------------------------
(* The primary drive of several devices: each keeps a root of its own and a  *)
(* record of everyone's latest, announces its own, learns and downloads the  *)
(* others', folds what it sees into a local-only projection root, and imports*)
(* the user's edits. What a root contains is left to Merge; here it is where *)
(* it stands: its sequence, its parent and which roots it claims to observe. *)
(* How one recorded root replaces another is RootSlot's subject: a record    *)
(* only goes forward.                                                        *)
EXTENDS Naturals, Sequences, FiniteSets

CONSTANTS
    Devices,  \* the authorised root writers
    Admins,   \* those that approve new AppKeys and hand the drive over to them
    Native,   \* those running a native shell (DirectRootExchange of core)
    MaxSeq    \* MaxSeq[d]: bound on the roots device d makes

ASSUME DevicesAssumption == IsFiniteSet(Devices) /\ Native \subseteq Devices
ASSUME MaxSeqAssumption == MaxSeq \in [Devices -> Nat]

VARIABLES
    made,    \* made[d]: the roots device d has made, in order
    rec,     \* rec[d][o]: sequence of o's root on record at d, 0 for none
    blocks,  \* blocks[d]: the roots <<owner, seq>> whose blocks d stores
    view,    \* view[d]: the records the user's mounted tree was built from
    sent     \* the roots <<owner, seq>> that have been announced

vars == <<made, rec, blocks, view, sent>>

Frontier == [Devices -> Nat]

Nothing == [o \in Devices |-> 0]

(* DriveRootMeta, and whether the root shows the merged tree (a projection)  *)
(* or only what this user made of it (an edit).                              *)
Root == [local : BOOLEAN, whole : BOOLEAN, parent : Nat, observed : Frontier]

Init ==
    /\ made = [d \in Devices |-> <<>>]
    /\ rec = [d \in Devices |-> Nothing]
    /\ blocks = [d \in Devices |-> {}]
    /\ view = [d \in Devices |-> Nothing]
    /\ sent = {}

-----------------------------------------------------------------------------
(* What is derived from a device's own record                                *)

Current(d) == made[d][rec[d][d]]

(* primary_merged_root walks every recorded root. *)
AllBlocksHere(d) ==
    \A o \in Devices : rec[d][o] > 0 => <<o, rec[d][o]>> \in blocks[d]

(* current_root_observes_drive_roots *)
ObservesRecord(d) ==
    /\ rec[d][d] > 0
    /\ \A o \in Devices \ {d} : rec[d][o] <= Current(d).observed[o]

(* previous_publishable_root_ref_for_import and publishable_app_key_root: a  *)
(* local-only root's parent is the publishable root it was projected over.   *)
Publishable(d) ==
    IF rec[d][d] = 0 THEN 0
    ELSE IF ~Current(d).local THEN rec[d][d] ELSE Current(d).parent

(* Mutant: what the user was shown counts as observed, not what is on record.*)
RecordFromView(d, local, whole, parent) ==
    LET seq == rec[d][d] + 1
    IN  /\ seq <= MaxSeq[d]
        /\ made' = [made EXCEPT ![d] = Append(@,
                      [local |-> local, whole |-> whole, parent |-> parent,
                       observed |-> view[d]])]
        /\ rec' = [rec EXCEPT ![d][d] = seq]
        /\ blocks' = [blocks EXCEPT ![d] = @ \cup {<<d, seq>>}]

(* root_meta_for_import_for_drive and update_drive: one more than the own    *)
(* sequence on record, everything on record observed.                        *)
Record(d, local, whole, parent) ==
    LET seq == rec[d][d] + 1
    IN  /\ seq <= MaxSeq[d]
        /\ made' = [made EXCEPT ![d] = Append(@,
                      [local |-> local, whole |-> whole, parent |-> parent,
                       observed |-> rec[d]])]
        /\ rec' = [rec EXCEPT ![d][d] = seq]
        /\ blocks' = [blocks EXCEPT ![d] = @ \cup {<<d, seq>>}]

-----------------------------------------------------------------------------
(* Local operations, each taken as one transaction on the config            *)

(* import_visible_root_with_tombstone_base: the mounted tree the user edited *)
(* stays as it is, with the new own root in it.                              *)
Edit(d) ==
    /\ AllBlocksHere(d)
    /\ Record(d, FALSE, FALSE, rec[d][d])
    /\ view' = [view EXCEPT ![d][d] = rec[d][d] + 1]
    /\ UNCHANGED sent

(* refresh_from_config_if_current of a clean mount *)
RefreshView(d) ==
    /\ AllBlocksHere(d)
    /\ view[d] # rec[d]
    /\ view' = [view EXCEPT ![d] = rec[d]]
    /\ UNCHANGED <<made, rec, blocks, sent>>

(* Mutant: a projection is made on every download. *)
MaterializeAlways(d) ==
    /\ rec[d] # Nothing
    /\ AllBlocksHere(d)
    /\ Record(d, TRUE, TRUE, Publishable(d))
    /\ UNCHANGED <<view, sent>>

(* materialize_primary_merged_root: nothing to do while the current own root *)
(* observes every record and shows the merged tree, which a projection of    *)
(* the same records does and a user's root may.                              *)
Materialize(d) ==
    /\ rec[d] # Nothing
    /\ AllBlocksHere(d)
    /\ ~(ObservesRecord(d) /\ Current(d).whole)
    /\ Record(d, TRUE, TRUE, Publishable(d))
    /\ UNCHANGED <<view, sent>>

(* materialize_primary_merged_root_for_device_approval: the same fold as a   *)
(* publishable root, for an AppKey that can read nothing older.              *)
Handoff(d) ==
    /\ d \in Admins
    /\ AllBlocksHere(d)
    /\ ~(ObservesRecord(d) /\ Current(d).whole /\ ~Current(d).local)
    /\ Record(d, FALSE, TRUE, rec[d][d])
    /\ UNCHANGED <<view, sent>>

(* Mutant: local_only is not looked at. *)
AnnouncedAsIs(d) == rec[d][d]

(* The CLI daemon announces its publishable root, the native shells announce *)
(* the own entry as it stands.                                               *)
Announced(d) == IF d \in Native THEN rec[d][d] ELSE Publishable(d)

Announce(d) ==
    /\ Announced(d) > 0
    /\ sent' = sent \cup {<<d, Announced(d)>>}
    /\ UNCHANGED <<made, rec, blocks, view>>

-----------------------------------------------------------------------------
(* Remote roots *)

(* Mutant: a root is taken only if its predecessor is on record. *)
LearnNext(d, o, seq) ==
    /\ <<o, seq>> \in sent
    /\ seq = rec[d][o] + 1
    /\ rec' = [rec EXCEPT ![d][o] = seq]
    /\ UNCHANGED <<made, blocks, view, sent>>

(* An event or a hint for o's root arrives, perhaps late and again. *)
Learn(d, o, seq) ==
    /\ <<o, seq>> \in sent
    /\ seq > rec[d][o]
    /\ rec' = [rec EXCEPT ![d][o] = seq]
    /\ UNCHANGED <<made, blocks, view, sent>>

(* download_direct_root: the blocks of a recorded root, from any device that *)
(* stores them.                                                              *)
Download(d, o) ==
    /\ rec[d][o] > 0
    /\ <<o, rec[d][o]>> \notin blocks[d]
    /\ \E e \in Devices : <<o, rec[d][o]>> \in blocks[e]
    /\ blocks' = [blocks EXCEPT ![d] = @ \cup {<<o, rec[d][o]>>}]
    /\ UNCHANGED <<made, rec, view, sent>>

Next ==
    \E d \in Devices :
        \/ Edit(d)
        \/ RefreshView(d)
        \/ Materialize(d)
        \/ Handoff(d)
        \/ Announce(d)
        \/ \E o \in Devices : Download(d, o)
        \/ \E root \in sent : Learn(d, root[1], root[2])

Spec == Init /\ [][Next]_vars

(* Daemons announce, exchange state, download and refresh periodically; users*)
(* need never edit and projections need never be made. A lost announcement   *)
(* is repeated, so what a device keeps announcing arrives.                   *)
Fairness ==
    \A d \in Devices :
        /\ WF_vars(Announce(d))
        /\ WF_vars(RefreshView(d))
        /\ \A o \in Devices :
              /\ WF_vars(Download(d, o))
              /\ WF_vars(Learn(d, o, Announced(o)))

FairSpec == Spec /\ Fairness

-----------------------------------------------------------------------------
TypeOK ==
    /\ made \in [Devices -> Seq(Root)]
    /\ \A d \in Devices : Len(made[d]) <= MaxSeq[d]
    /\ rec \in [Devices -> Frontier]
    /\ blocks \in [Devices -> SUBSET (Devices \X Nat)]
    /\ view \in [Devices -> Frontier]
    /\ sent \subseteq Devices \X Nat

(* A device's own record is the newest root it made, and nobody's record,    *)
(* view or observation is ahead of what the owner has made and announced.    *)
NothingFromNowhere ==
    /\ \A d \in Devices : rec[d][d] = Len(made[d])
    /\ \A d, o \in Devices : view[d][o] <= rec[d][o] /\ rec[d][o] <= rec[o][o]
    /\ \A d, o \in Devices : d # o /\ rec[d][o] > 0 => <<o, rec[d][o]>> \in sent

(* Along one device's roots causality only accumulates: every root observes  *)
(* its predecessor and at least what the predecessor observed, through       *)
(* projections, edits and handoffs alike. The merge relies on it to let a    *)
(* device's newest root speak for all of them.                               *)
HistoryAccumulates ==
    \A d \in Devices : \A i \in 1..Len(made[d]) :
        /\ made[d][i].observed[d] = i - 1
        /\ i > 1 => \A o \in Devices :
                      made[d][i - 1].observed[o] <= made[d][i].observed[o]

(* "Local bookkeeping root that ... should not be announced as this AppKey's *)
(* own edit" (config.rs, local_only).                                        *)
ProjectionsStayLocal ==
    \A o \in Devices : \A i \in 1..Len(made[o]) :
        <<o, i>> \in sent => ~made[o][i].local

(* Background convergence comes to rest: a device makes a projection only    *)
(* for news, so it never makes more of them than there are publishable roots.*)
Projections(d) == {i \in DOMAIN made[d] : made[d][i].local}

Edits(d) == DOMAIN made[d] \ Projections(d)

ProjectionsAreForNews ==
    \A d \in Devices :
        Cardinality(Projections(d))
            <= Cardinality(UNION {{o} \X Edits(o) : o \in Devices})

(* When editing stops, every device ends with every other's publishable root *)
(* on record, its blocks at hand, and in the user's view.                    *)
Converges ==
    <>[](\A d, o \in Devices :
           d # o => /\ rec[d][o] = Publishable(o)
                    /\ rec[d][o] > 0 => <<o, rec[d][o]>> \in blocks[d]
                    /\ view[d][o] = rec[d][o])
=============================================================================
