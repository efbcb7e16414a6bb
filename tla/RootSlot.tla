------------------------------ MODULE RootSlot ------------------------------
(* One AppKey's root, followed by one other device. The owner imports native *)
(* roots and bridges web files-roots into its own entry, and announces that  *)
(* entry as signed events and direct-root hints; the network repeats, delays,*)
(* reorders and loses them; the follower keeps one reference.                *)
EXTENDS RootRef, Sequences

CONSTANTS
    MaxRoots,  \* bound on the owner's roots
    MaxClock,  \* bound on the wall clock (seconds)
    WebRoots   \* whether a web app publishes files-roots for this AppKey

ASSUME BoundsAssumption == MaxRoots \in Nat /\ MaxClock \in Nat \ {0}

VARIABLES
    taken,  \* every reference the owner has had in its own entry, in order
    web,    \* files-root events on the relays
    sent,   \* drive-root events and hints the owner has announced
    slot,   \* the follower's reference
    now     \* the wall clock, one for everybody

vars == <<taken, web, sent, slot, now>>

Own == IF taken = <<>> THEN NoRef ELSE taken[Len(taken)]

Later(a, b) == IF a > b THEN a ELSE b

SlotInit ==
    /\ taken = <<>>
    /\ web = {}
    /\ sent = {}
    /\ slot = NoRef
    /\ now = 1

Tick == now < MaxClock /\ now' = now + 1 /\ UNCHANGED <<taken, web, sent, slot>>

-----------------------------------------------------------------------------
(* Mutant: only the first is counted. *)
ImportedUncounted(cid) ==
    [cid |-> cid, seq |-> IF Own.seq = 0 THEN 1 ELSE Own.seq, pub |-> now, gen |-> 1,
     parents |-> {}, observed |-> {}, local |-> FALSE]

(* update_drive with root_meta_for_import_for_drive and                      *)
(* next_import_timestamp: the next sequence number, the previous root as     *)
(* parent, and every sequenced root on record as observed.                   *)
Imported(cid) ==
    [cid      |-> cid,
     seq      |-> Own.seq + 1,
     pub      |-> IF Known(Own) THEN Later(now, Own.pub + 1) ELSE now,
     gen      |-> 1,
     parents  |-> IF Known(Own) THEN {Own.cid} ELSE {},
     observed |-> IF Own.seq > 0 THEN {Own.cid} ELSE {},
     local    |-> FALSE]

Import ==
    /\ Len(taken) < MaxRoots
    /\ taken' = Append(taken, Imported(Len(taken) + 1))
    /\ UNCHANGED <<web, sent, slot, now>>

(* A web app publishes the AppKey's tree as a hashtree root event ...        *)
WebPublish ==
    /\ WebRoots
    /\ \A event \in web : event.pub < now
    /\ web' = web \cup {[cid |-> MaxRoots + now, pub |-> now]}
    /\ UNCHANGED <<taken, sent, slot, now>>

(* ... and the native daemon bridges it into its own entry.                  *)
BridgeWeb ==
    /\ Len(taken) < MaxRoots
    /\ \E event \in web :
         /\ FilesRootApplies(Own, event.cid, event.pub)
         /\ taken' = Append(taken, ApplyFilesRoot(Own, event.cid, event.pub))
    /\ UNCHANGED <<web, sent, slot, now>>

(* build_drive_root_publish_event: created_at moves on even for an unchanged *)
(* root; open: the recipients include the follower by now.                   *)
EventOf(ref, open) ==
    [hint |-> FALSE, open |-> open,
     ref |-> OnWire([ref EXCEPT !.pub = Later(now, ref.pub + 1)])]

HintOf(ref) ==
    [hint |-> TRUE, open |-> FALSE, ref |-> Placeholder(ref.cid, ref.seq, 0)]

Announce(open) ==
    /\ Known(Own)
    /\ sent' = sent \cup {EventOf(Own, open), HintOf(Own)}
    /\ UNCHANGED <<taken, web, slot, now>>

-----------------------------------------------------------------------------
(* A message arrives, perhaps not for the first time. *)
Received(msg) ==
    IF msg.hint THEN ApplyHint(slot, msg.ref.cid, msg.ref.seq, now)
                ELSE ApplyFull(slot, msg.ref, msg.open)

Deliver(msg) == slot' = Received(msg) /\ UNCHANGED <<taken, web, sent, now>>

SlotNext ==
    \/ Tick
    \/ Import
    \/ WebPublish
    \/ BridgeWeb
    \/ \E open \in BOOLEAN : Announce(open)
    \/ \E msg \in sent : Deliver(msg)

SlotSpec == SlotInit /\ [][SlotNext]_vars

(* Devices announce and request current state periodically and the relays    *)
(* keep the newest event, so the owner's latest root is announced to its     *)
(* recipients and arrives; hints and older events need never arrive.         *)
LatestEvents ==
    {msg \in sent : ~msg.hint /\ msg.open /\ msg.ref.cid = Own.cid}

SlotFairness ==
    /\ WF_vars(Tick)
    /\ WF_vars(Announce(TRUE))
    /\ WF_vars(\E msg \in LatestEvents : Deliver(msg))

SlotFairSpec == SlotSpec /\ SlotFairness

-----------------------------------------------------------------------------
Cids == 1..(MaxRoots + MaxClock)

SlotRefs == [cid : {0} \cup Cids, seq : 0..MaxRoots,
         pub : 0..(MaxClock + MaxRoots + 1), gen : 0..1,
         parents : SUBSET Cids, observed : SUBSET Cids, local : {FALSE}]

SlotTypeOK ==
    /\ Len(taken) <= MaxRoots
    /\ \A i \in 1..Len(taken) : taken[i] \in SlotRefs
    /\ \A event \in web : event.cid \in Cids /\ event.pub \in 1..MaxClock
    /\ \A msg \in sent : msg.ref \in SlotRefs
    /\ slot \in SlotRefs
    /\ now \in 1..MaxClock

(* Whatever arrives, in whatever order and however often, and though hints   *)
(* and events carry different clocks, the follower's entry moves along the   *)
(* owner's sequenced roots in their order and never back; and no root of     *)
(* unknown causality displaces a sequenced one, neither a web root that was  *)
(* published earlier at the owner nor what is left from before.              *)
Register == INSTANCE RootRegister WITH made <- Own.seq, seen <- slot.seq

FollowsOwner == Register!Spec

(* Why: a sequence number names one root of the owner, the one the owner     *)
(* gave it to, wherever it is seen.                                          *)
NamesRoot(ref) ==
    ref.seq > 0 => \E i \in 1..Len(taken) : taken[i].seq = ref.seq /\ taken[i].cid = ref.cid

SeqNamesRoot ==
    /\ \A i, j \in 1..Len(taken) : taken[i].seq = taken[j].seq => i = j \/ taken[i].seq = 0
    /\ \A msg \in sent : NamesRoot(msg.ref)
    /\ NamesRoot(slot)

(* Once the full reference of a root is known - generation, parents, observed*)
(* roots - neither a hint nor an older copy of its event takes it away.      *)
CausalMetadataKept ==
    [][slot'.cid = slot.cid =>
         /\ slot.gen <= slot'.gen
         /\ slot.parents \subseteq slot'.parents
         /\ slot.observed \subseteq slot'.observed]_vars

(* When the owner stops, having made a root of its own, the follower ends    *)
(* with exactly the owner's latest root and its causal metadata, also after a*)
(* hint had put a placeholder there and after events sealed before the       *)
(* follower was a recipient.                                                 *)
EventuallyLatest ==
    <>[](Own.seq > 0 => /\ slot.cid = Own.cid
                        /\ slot.gen = Own.gen
                        /\ slot.parents = Own.parents)

(* The owner's place of a root, 0 for none. *)
Place(cid) ==
    IF \E i \in 1..Len(taken) : taken[i].cid = cid
    THEN CHOOSE i \in 1..Len(taken) : taken[i].cid = cid
    ELSE 0

(* "the deterministic ordering when a legacy root has no causal fields"      *)
(* (config.rs on published_at): of two legacy roots the follower never goes  *)
(* back to the one its owner published first.                                *)
LegacyOrderKept == [][Place(slot.cid) <= Place(slot'.cid)]_vars
=============================================================================
