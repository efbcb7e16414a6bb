----------------------------- MODULE Roots_proofs -----------------------------
(* Proofs about roots on their way between devices. First one AppKey's roots *)
(* followed by one other device, for any number of roots, any clock, with    *)
(* and without web roots, and any loss, repetition and reordering of the     *)
(* messages. Then the direct-root exchange, for any devices of either kind,  *)
(* owners, joiners and bounds: what a device ignores as seen, it has.        *)
EXTENDS RootSlot, DirectRootExchange, TLAPS

-----------------------------------------------------------------------------
(* One AppKey's roots.                                                       *)


RefType == [cid : Nat, seq : Nat, pub : Nat, gen : Nat, parents : SUBSET Nat,
            observed : SUBSET Nat, local : BOOLEAN]

(* The owner's n-th entry, when it made it itself, has cid n; web roots have *)
(* cids beyond; and its sequence numbers go up from there.                   *)
OwnEntries ==
    \A i \in 1..Len(taken) :
        /\ taken[i].cid = IF taken[i].seq = 0 THEN taken[i].cid ELSE i
        /\ taken[i].seq = 0 => taken[i].cid > MaxRoots
        /\ taken[i].seq <= i
        /\ \A j \in 1..Len(taken) : i < j =>
              taken[i].seq = 0 \/ taken[i].seq < taken[j].seq

(* A reference to one of these, or to none.                                  *)
Refers(ref) ==
    /\ ref.seq = 0 => ref.cid = 0 \/ ref.cid > MaxRoots
    /\ ref.seq > 0 => ref.cid \in 1..Len(taken) /\ taken[ref.cid].seq = ref.seq

(* The inductive invariant: shapes, and what sequence numbers stand for.     *)
SlotInv ==
    /\ taken \in Seq(RefType)
    /\ Len(taken) <= MaxRoots
    /\ now \in Nat \ {0}
    /\ web \subseteq [cid : {n \in Nat : n > MaxRoots}, pub : Nat]
    /\ sent \subseteq [hint : BOOLEAN, open : BOOLEAN, ref : RefType]
    /\ slot \in RefType
    /\ OwnEntries
    /\ \A msg \in sent : Refers(msg.ref)
    /\ Refers(slot)

LEMMA NoRefType == NoRef \in RefType /\ NoRef.cid = 0 /\ NoRef.seq = 0
BY DEF NoRef, RefType

LEMMA PlaceholderType ==
    ASSUME NEW cid \in Nat, NEW seq \in Nat, NEW pub \in Nat
    PROVE  /\ Placeholder(cid, seq, pub) \in RefType
           /\ Placeholder(cid, seq, pub).cid = cid
           /\ Placeholder(cid, seq, pub).seq = seq
BY DEF Placeholder, NoRef, RefType

LEMMA OnWireType ==
    ASSUME NEW ref \in RefType
    PROVE  OnWire(ref) \in RefType /\ OnWire(ref).cid = ref.cid
                                   /\ OnWire(ref).seq = ref.seq
BY DEF OnWire, RefType

LEMMA TakenType ==
    ASSUME SlotInv, NEW i \in 1..Len(taken)
    PROVE  /\ taken[i] \in RefType /\ taken[i].seq \in Nat /\ taken[i].cid \in Nat
           /\ Refers(taken[i])
<1>1. taken[i] \in RefType
  BY DEF SlotInv
<1>2. taken[i].seq \in Nat /\ taken[i].cid \in Nat
  BY <1>1 DEF RefType
<1>3. /\ taken[i].seq = 0 => taken[i].cid > MaxRoots
      /\ taken[i].seq # 0 => taken[i].cid = i
  BY DEF SlotInv, OwnEntries
<1> QED BY <1>1, <1>2, <1>3 DEF Refers

(* The owner's own entry is the last of its roots, and the highest in number.*)
LEMMA OwnType ==
    ASSUME SlotInv
    PROVE  /\ Own \in RefType /\ Own.seq \in Nat /\ Own.seq <= Len(taken)
           /\ Len(taken) \in Nat /\ Refers(Own)
           /\ \A i \in 1..Len(taken) : taken[i].seq <= Own.seq
<1>1. CASE taken = <<>>
  BY <1>1, NoRefType DEF Own, Refers
<1>2. CASE taken # <<>>
  <2>1. Len(taken) \in Nat /\ Len(taken) \in 1..Len(taken)
    BY <1>2 DEF SlotInv
  <2>2. Own = taken[Len(taken)]
    BY <1>2 DEF Own
  <2>3. /\ Own \in RefType /\ Own.seq \in Nat /\ Refers(Own)
        /\ Own.seq <= Len(taken)
    BY <2>1, <2>2, TakenType DEF SlotInv, OwnEntries
  <2>4. ASSUME NEW i \in 1..Len(taken) PROVE taken[i].seq <= Own.seq
    <3>1. taken[i].seq \in Nat
      BY TakenType
    <3>2. CASE i = Len(taken)
      BY <2>2, <2>3, <3>2
    <3>3. CASE i < Len(taken)
      <4>1. taken[i].seq = 0 \/ taken[i].seq < taken[Len(taken)].seq
        BY <2>1, <3>3 DEF SlotInv, OwnEntries
      <4> QED BY <2>2, <2>3, <3>1, <4>1
    <3> QED BY <2>1, <3>2, <3>3
  <2> QED BY <2>1, <2>3, <2>4
<1> QED BY <1>1, <1>2

(* What is referred to is numbered no higher than the owner counted, and one *)
(* cid has one number.                                                       *)
LEMMA ReferredIsCounted ==
    ASSUME SlotInv, NEW ref \in RefType, Refers(ref)
    PROVE  ref.seq \in Nat /\ ref.seq <= Own.seq
<1>1. ref.seq \in Nat
  BY DEF RefType
<1> QED BY <1>1, OwnType DEF Refers

LEMMA OneNumberPerCid ==
    ASSUME SlotInv, NEW a \in RefType, NEW b \in RefType,
           Refers(a), Refers(b), a.cid = b.cid
    PROVE  a.seq = b.seq
<1>1. a.seq \in Nat /\ b.seq \in Nat /\ Len(taken) \in Nat /\ a.cid \in Nat
  BY OwnType DEF RefType
<1>2. Len(taken) <= MaxRoots /\ MaxRoots \in Nat
  BY BoundsAssumption DEF SlotInv
<1> QED BY <1>1, <1>2 DEF Refers

(* A message never takes the follower's entry to an earlier root: hint and   *)
(* event alike either leave it, refresh the same root, or go to a later one. *)
LEMMA ReceivedAdvances ==
    ASSUME SlotInv, NEW msg \in sent
    PROVE  /\ Received(msg) \in RefType
           /\ Refers(Received(msg))
           /\ slot.seq <= Received(msg).seq
<1>1. /\ msg.ref \in RefType /\ slot \in RefType
      /\ Refers(msg.ref) /\ Refers(slot) /\ now \in Nat
  BY DEF SlotInv
<1>2. /\ msg.ref.cid \in Nat /\ msg.ref.seq \in Nat
      /\ slot.cid \in Nat /\ slot.seq \in Nat
  BY <1>1 DEF RefType
<1>3. slot.cid = 0 => slot.seq = 0
  BY <1>1, <1>2 DEF Refers
<1>4. slot.cid = msg.ref.cid => slot.seq = msg.ref.seq
  BY <1>1, OneNumberPerCid
<1>5. CASE msg.hint
  <2>1. CASE HintApplies(slot, msg.ref.cid, msg.ref.seq, now)
    <3>1. Received(msg) = Placeholder(msg.ref.cid, msg.ref.seq, now)
      BY <1>5, <2>1 DEF Received, ApplyHint
    <3>2. /\ Placeholder(msg.ref.cid, msg.ref.seq, now) \in RefType
          /\ Placeholder(msg.ref.cid, msg.ref.seq, now).cid = msg.ref.cid
          /\ Placeholder(msg.ref.cid, msg.ref.seq, now).seq = msg.ref.seq
      BY <1>1, <1>2 DEF Placeholder, NoRef, RefType
    <3>3. slot.seq <= msg.ref.seq
      BY <1>2, <1>3, <2>1 DEF HintApplies, Known
    <3> QED BY <1>1, <3>1, <3>2, <3>3 DEF Refers
  <2>2. CASE ~HintApplies(slot, msg.ref.cid, msg.ref.seq, now)
    BY <1>1, <1>2, <1>5, <2>2 DEF Received, ApplyHint
  <2> QED BY <2>1, <2>2
<1>6. CASE ~msg.hint
  <2>1. CASE FullApplies(slot, msg.ref, msg.open)
    <3>1. Received(msg) = OnWire(msg.ref)
      BY <1>6, <2>1 DEF Received, ApplyFull
    <3>2. slot.seq <= msg.ref.seq
      BY <1>2, <1>3, <1>4, <2>1 DEF FullApplies, Known, IncomingIsStale, Refreshes
    <3>3. OnWire(msg.ref) \in RefType /\ OnWire(msg.ref).cid = msg.ref.cid
                                      /\ OnWire(msg.ref).seq = msg.ref.seq
      BY <1>1, OnWireType
    <3> QED BY <1>1, <3>1, <3>2, <3>3 DEF Refers
  <2>2. CASE ~FullApplies(slot, msg.ref, msg.open)
    BY <1>1, <1>2, <1>6, <2>2 DEF Received, ApplyFull
  <2> QED BY <2>1, <2>2
<1> QED BY <1>5, <1>6

LEMMA ImportedType ==
    ASSUME SlotInv, NEW cid \in Nat
    PROVE  Imported(cid) \in RefType /\ Imported(cid).cid = cid
                                     /\ Imported(cid).seq = Own.seq + 1
<1>1. Own \in RefType /\ Own.seq \in Nat /\ now \in Nat
  BY OwnType DEF SlotInv
<1>2. Own.cid \in Nat /\ Own.pub \in Nat
  BY <1>1 DEF RefType
<1>3. Later(now, Own.pub + 1) \in Nat
  BY <1>1, <1>2 DEF Later
<1>4. {Own.cid} \in SUBSET Nat /\ {} \in SUBSET Nat
  BY <1>2
<1> QED BY <1>1, <1>2, <1>3, <1>4 DEF Imported, RefType

LEMMA EventType ==
    ASSUME SlotInv, NEW open \in BOOLEAN
    PROVE  /\ EventOf(Own, open) \in [hint : BOOLEAN, open : BOOLEAN, ref : RefType]
           /\ EventOf(Own, open).ref.cid = Own.cid
           /\ EventOf(Own, open).ref.seq = Own.seq
<1>1. Own \in RefType /\ now \in Nat
  BY OwnType DEF SlotInv
<1> DEFINE ts == Later(now, Own.pub + 1)
<1>2. ts \in Nat
  BY <1>1 DEF Later, RefType
<1>3. /\ [Own EXCEPT !.pub = ts] \in RefType
      /\ [Own EXCEPT !.pub = ts].cid = Own.cid
      /\ [Own EXCEPT !.pub = ts].seq = Own.seq
  BY <1>1, <1>2 DEF RefType
<1> QED BY <1>3, OnWireType DEF EventOf

LEMMA HintType ==
    ASSUME SlotInv
    PROVE  /\ HintOf(Own) \in [hint : BOOLEAN, open : BOOLEAN, ref : RefType]
           /\ HintOf(Own).ref.cid = Own.cid
           /\ HintOf(Own).ref.seq = Own.seq
<1>1. Own.cid \in Nat /\ Own.seq \in Nat
  BY OwnType DEF RefType
<1> QED BY <1>1, PlaceholderType DEF HintOf

(* Another entry at the end of the owner's leaves references what they were. *)
LEMMA EntryAdded ==
    ASSUME SlotInv, NEW new \in RefType, taken' = Append(taken, new),
           Len(taken) < MaxRoots,
           \/ new.seq = Own.seq + 1 /\ new.cid = Len(taken) + 1
           \/ new.seq = 0 /\ Own.seq = 0 /\ new.cid > MaxRoots
    PROVE  /\ taken' \in Seq(RefType) /\ Len(taken') <= MaxRoots
           /\ OwnEntries'
           /\ \A ref \in RefType : Refers(ref) => Refers(ref)'
           /\ Own' = new
<1>1. /\ taken \in Seq(RefType) /\ Len(taken) \in Nat /\ MaxRoots \in Nat
      /\ Own.seq \in Nat /\ Own.seq <= Len(taken) /\ new.seq \in Nat
      /\ \A i \in 1..Len(taken) : taken[i].seq <= Own.seq /\ taken[i].seq \in Nat
  BY OwnType, TakenType, BoundsAssumption DEF SlotInv, RefType
<1>2. /\ taken' \in Seq(RefType) /\ Len(taken') = Len(taken) + 1
      /\ \A i \in 1..Len(taken) : taken'[i] = taken[i]
      /\ taken'[Len(taken) + 1] = new
  BY <1>1
<1>3. Own' = new
  <2>1. taken' # <<>>
    BY <1>1, <1>2
  <2> QED BY <1>2, <2>1 DEF Own
<1>4. OwnEntries'
  <2> SUFFICES ASSUME NEW i \in 1..Len(taken')
               PROVE  /\ taken'[i].cid = IF taken'[i].seq = 0 THEN taken'[i].cid ELSE i
                      /\ taken'[i].seq = 0 => taken'[i].cid > MaxRoots
                      /\ taken'[i].seq <= i
                      /\ \A j \in 1..Len(taken') : i < j =>
                            taken'[i].seq = 0 \/ taken'[i].seq < taken'[j].seq
    BY DEF OwnEntries
  <2>1. CASE i = Len(taken) + 1
    BY <1>1, <1>2, <2>1
  <2>2. CASE i \in 1..Len(taken)
    <3>1. /\ taken[i].cid = IF taken[i].seq = 0 THEN taken[i].cid ELSE i
          /\ taken[i].seq = 0 => taken[i].cid > MaxRoots
          /\ taken[i].seq <= i
          /\ \A j \in 1..Len(taken) : i < j =>
                taken[i].seq = 0 \/ taken[i].seq < taken[j].seq
      BY <2>2 DEF SlotInv, OwnEntries
    <3>2. taken[i].seq = 0 \/ taken[i].seq < new.seq
      BY <1>1, <2>2
    <3> QED BY <1>1, <1>2, <2>2, <3>1, <3>2, SMTT(20)
  <2> QED BY <1>1, <1>2, <2>1, <2>2
<1>5. ASSUME NEW ref \in RefType, Refers(ref) PROVE Refers(ref)'
  BY <1>1, <1>2, <1>5 DEF Refers
<1>6. Len(taken') <= MaxRoots
  BY <1>1, <1>2
<1> QED BY <1>2, <1>3, <1>4, <1>5, <1>6

(* SlotInit establishes the invariant and every step keeps it. *)
LEMMA Inductive == (SlotInit => SlotInv) /\ (SlotInv /\ [SlotNext]_vars => SlotInv')
<1>1. SlotInit => SlotInv
  BY BoundsAssumption, NoRefType DEF SlotInit, SlotInv, OwnEntries, Refers
<1>2. ASSUME SlotInv, [SlotNext]_vars PROVE SlotInv'
  <2>1. CASE Tick
    BY <1>2, <2>1 DEF Tick, SlotInv, OwnEntries, Refers
  <2>2. CASE Import
    <3> DEFINE new == Imported(Len(taken) + 1)
    <3>1. /\ Len(taken) \in Nat /\ Len(taken) < MaxRoots /\ taken' = Append(taken, new)
      BY <1>2, <2>2, OwnType DEF Import
    <3>2. new \in RefType /\ new.cid = Len(taken) + 1 /\ new.seq = Own.seq + 1
      BY <1>2, <3>1, ImportedType
    <3> HIDE DEF new
    <3> QED
      BY <1>2, <2>2, <3>1, <3>2, EntryAdded DEF Import, SlotInv
  <2>3. CASE WebPublish
    <3>1. [cid |-> MaxRoots + now, pub |-> now] \in [cid : {n \in Nat : n > MaxRoots}, pub : Nat]
      BY <1>2, BoundsAssumption DEF SlotInv
    <3> QED BY <1>2, <2>3, <3>1 DEF WebPublish, SlotInv, OwnEntries, Refers
  <2>4. CASE BridgeWeb
    <3>1. PICK event \in web :
             /\ FilesRootApplies(Own, event.cid, event.pub)
             /\ taken' = Append(taken, ApplyFilesRoot(Own, event.cid, event.pub))
      BY <2>4 DEF BridgeWeb
    <3> DEFINE new == ApplyFilesRoot(Own, event.cid, event.pub)
    <3>2. event.cid \in Nat /\ event.cid > MaxRoots /\ event.pub \in Nat
      BY <1>2 DEF SlotInv
    <3>3. new \in RefType /\ new.cid = event.cid /\ new.seq = 0
      BY <3>1, <3>2, PlaceholderType DEF ApplyFilesRoot
    <3>4. Own.seq = 0
      BY <1>2, <3>1, OwnType DEF FilesRootApplies, Known, Refers
    <3> HIDE DEF new
    <3>5. taken' = Append(taken, new) /\ Len(taken) < MaxRoots
      BY <2>4, <3>1 DEF BridgeWeb, new
    <3> QED
      BY <1>2, <2>4, <3>2, <3>3, <3>4, <3>5, EntryAdded DEF BridgeWeb, SlotInv
  <2>5. ASSUME NEW open \in BOOLEAN, Announce(open) PROVE SlotInv'
    <3>1. Refers(Own)
      BY <1>2, OwnType
    <3>2. sent' = sent \cup {EventOf(Own, open), HintOf(Own)}
      BY <2>5 DEF Announce
    <3>3. Refers(EventOf(Own, open).ref) /\ Refers(HintOf(Own).ref)
      BY <1>2, <3>1, EventType, HintType DEF Refers
    <3> QED
      BY <1>2, <2>5, <3>2, <3>3, EventType, HintType
      DEF Announce, SlotInv, OwnEntries, Refers
  <2>6. ASSUME NEW msg \in sent, Deliver(msg) PROVE SlotInv'
    BY <1>2, <2>6, ReceivedAdvances DEF Deliver, SlotInv, OwnEntries, Refers
  <2>7. CASE UNCHANGED vars
    BY <1>2, <2>7 DEF vars, SlotInv, OwnEntries, Refers
  <2> QED
    BY <1>2, <2>1, <2>2, <2>3, <2>4, <2>5, <2>6, <2>7 DEF SlotNext
<1> QED BY <1>1, <1>2

(* A follower implements the forward-only register: each step is a step of   *)
(* RootRegister or none, whether or not a web app publishes for the AppKey   *)
(* too, so a sequenced root is never displaced by one of unknown causality.  *)
THEOREM FollowerImplementsRegister == SlotSpec => FollowsOwner
<1>1. SlotInit => Register!Init
  BY NoRefType DEF SlotInit, Own, Register!Init
<1>2. SlotInv /\ SlotInv' /\ [SlotNext]_vars => [Register!Next]_<<Own.seq, slot.seq>>
  <2> SUFFICES ASSUME SlotInv, SlotInv', [SlotNext]_vars
               PROVE  [Register!Next]_<<Own.seq, slot.seq>>
    OBVIOUS
  <2>1. /\ Own.seq \in Nat /\ Own.seq <= Len(taken) /\ Len(taken) \in Nat
        /\ slot.seq \in Nat
    BY OwnType, ReferredIsCounted DEF SlotInv
  <2>2. CASE Import
    <3> DEFINE new == Imported(Len(taken) + 1)
    <3>1. /\ Len(taken) < MaxRoots /\ taken' = Append(taken, new) /\ slot' = slot
      BY <2>2 DEF Import
    <3>2. new \in RefType /\ new.cid = Len(taken) + 1 /\ new.seq = Own.seq + 1
      BY <2>1, ImportedType
    <3> HIDE DEF new
    <3>3. Own' = new
      BY <3>1, <3>2, EntryAdded
    <3> QED
      BY <2>1, <3>1, <3>2, <3>3, BoundsAssumption DEF Register!Next, Register!Make
  <2>3. ASSUME NEW msg \in sent, Deliver(msg)
        PROVE  [Register!Next]_<<Own.seq, slot.seq>>
    <3>1. /\ Received(msg) \in RefType /\ Refers(Received(msg))
          /\ slot.seq <= Received(msg).seq
      BY ReceivedAdvances
    <3>2. Received(msg).seq \in Nat /\ Received(msg).seq <= Own.seq
      BY <3>1, ReferredIsCounted
    <3>3. slot' = Received(msg) /\ Own' = Own
      BY <2>3 DEF Deliver, Own
    <3>4. CASE Received(msg).seq = slot.seq
      BY <3>3, <3>4
    <3>5. CASE Received(msg).seq # slot.seq
      <4>1. Received(msg).seq \in (slot.seq + 1)..Own.seq
        BY <2>1, <3>1, <3>2, <3>5
      <4> QED BY <3>3, <4>1 DEF Register!Next, Register!Learn
    <3> QED BY <3>4, <3>5
  <2>4. CASE BridgeWeb
    <3>1. PICK event \in web :
             /\ FilesRootApplies(Own, event.cid, event.pub)
             /\ taken' = Append(taken, ApplyFilesRoot(Own, event.cid, event.pub))
      BY <2>4 DEF BridgeWeb
    <3> DEFINE new == ApplyFilesRoot(Own, event.cid, event.pub)
    <3>2. event.cid \in Nat /\ event.cid > MaxRoots /\ event.pub \in Nat
      BY DEF SlotInv
    <3>3. new \in RefType /\ new.cid = event.cid /\ new.seq = 0
      BY <3>1, <3>2, PlaceholderType DEF ApplyFilesRoot
    <3>4. Own.seq = 0
      BY <3>1, OwnType DEF FilesRootApplies, Known, Refers
    <3> HIDE DEF new
    <3>5. taken' = Append(taken, new) /\ Len(taken) < MaxRoots /\ slot' = slot
      BY <2>4, <3>1 DEF BridgeWeb, new
    <3>6. Own' = new
      BY <3>2, <3>3, <3>4, <3>5, EntryAdded
    <3> QED BY <3>3, <3>4, <3>5, <3>6
  <2>5. CASE taken' = taken /\ slot' = slot
    BY <2>5 DEF Own
  <2> QED
    BY <2>2, <2>3, <2>4, <2>5 DEF SlotNext, Tick, WebPublish, Announce, vars
<1> QED
  BY <1>1, <1>2, Inductive, PTL DEF SlotSpec, FollowsOwner, Register!Spec

(* A sequence number names one root of the owner, wherever it is seen: the   *)
(* part of the inductive invariant that the run checks.                      *)
THEOREM SequenceNumbersNameRoots == SlotSpec => []SeqNamesRoot
<1>1. SlotInv => SeqNamesRoot
  <2> SUFFICES ASSUME SlotInv PROVE SeqNamesRoot
    OBVIOUS
  <2>1. ASSUME NEW i \in 1..Len(taken), NEW j \in 1..Len(taken),
               taken[i].seq = taken[j].seq
        PROVE  i = j \/ taken[i].seq = 0
    <3>1. /\ i < j => taken[i].seq = 0 \/ taken[i].seq < taken[j].seq
          /\ j < i => taken[j].seq = 0 \/ taken[j].seq < taken[i].seq
      BY DEF SlotInv, OwnEntries
    <3>2. taken[i].seq \in Nat /\ i \in Nat /\ j \in Nat
      BY TakenType, OwnType
    <3> QED BY <2>1, <3>1, <3>2
  <2>2. ASSUME NEW ref \in RefType, Refers(ref) PROVE NamesRoot(ref)
    <3> SUFFICES ASSUME ref.seq > 0
                 PROVE  \E i \in 1..Len(taken) :
                            taken[i].seq = ref.seq /\ taken[i].cid = ref.cid
      BY DEF NamesRoot
    <3>1. ref.cid \in 1..Len(taken) /\ taken[ref.cid].seq = ref.seq /\ ref.seq # 0
      BY <2>2 DEF Refers, RefType
    <3>2. taken[ref.cid].cid = ref.cid
      BY <3>1 DEF SlotInv, OwnEntries
    <3> QED BY <3>1, <3>2
  <2> QED BY <2>1, <2>2 DEF SeqNamesRoot, SlotInv
<1> QED BY <1>1, Inductive, PTL DEF SlotSpec

-----------------------------------------------------------------------------
(* A reference has no causal metadata, as placeholders and web roots do, or  *)
(* that of the owner's root that it refers to.                               *)
Bare(ref) == ref.gen = 0 /\ ref.parents = {} /\ ref.observed = {}

SameMetadata(a, b) ==
    a.gen = b.gen /\ a.parents = b.parents /\ a.observed = b.observed

Genuine(ref) ==
    Bare(ref) \/ (ref.cid \in 1..Len(taken) /\ SameMetadata(ref, taken[ref.cid]))

GenuineInv ==
    /\ \A i \in 1..Len(taken) : Genuine(taken[i])
    /\ \A msg \in sent : Genuine(msg.ref)
    /\ Genuine(slot)

LEMMA BareFacts ==
    /\ Bare(NoRef)
    /\ \A cid, seq, pub \in Nat : Bare(Placeholder(cid, seq, pub))
BY DEF Bare, NoRef, Placeholder

LEMMA OnWireMetadata ==
    ASSUME NEW ref \in RefType
    PROVE  SameMetadata(OnWire(ref), ref)
BY DEF SameMetadata, OnWire, RefType

LEMMA GenuineCopy ==
    ASSUME NEW a \in RefType, NEW b \in RefType, Genuine(a), a.cid = b.cid, SameMetadata(a, b)
    PROVE  Genuine(b)
BY DEF Genuine, Bare, SameMetadata

LEMMA OwnGenuine == SlotInv /\ GenuineInv => Genuine(Own)
BY BareFacts DEF Own, GenuineInv, Genuine, SlotInv

(* What was received brings the metadata of the root it refers to, or leaves *)
(* what there is.                                                            *)
LEMMA ReceivedGenuine ==
    ASSUME SlotInv, GenuineInv, NEW msg \in sent
    PROVE  Genuine(Received(msg))
<1>1. msg.ref \in RefType /\ now \in Nat
  BY DEF SlotInv
<1>2. Genuine(msg.ref) /\ Genuine(slot)
  BY DEF GenuineInv
<1>3. Bare(Placeholder(msg.ref.cid, msg.ref.seq, now))
  BY <1>1, BareFacts DEF RefType
<1>4. Genuine(OnWire(msg.ref))
  <2>1. /\ OnWire(msg.ref) \in RefType /\ OnWire(msg.ref).cid = msg.ref.cid
        /\ SameMetadata(OnWire(msg.ref), msg.ref)
    BY <1>1, OnWireType, OnWireMetadata
  <2> QED BY <1>1, <1>2, <2>1, GenuineCopy DEF SameMetadata
<1> QED BY <1>2, <1>3, <1>4 DEF Received, ApplyHint, ApplyFull, Genuine

(* A new entry leaves what is genuine so.                                    *)
LEMMA EntryGenuine ==
    ASSUME SlotInv, GenuineInv, NEW new \in RefType, taken' = Append(taken, new),
           Bare(new) \/ new.cid = Len(taken) + 1,
           UNCHANGED <<sent, slot>>
    PROVE  GenuineInv'
<1>1. /\ Len(taken) \in Nat /\ Len(taken') = Len(taken) + 1
      /\ \A i \in 1..Len(taken) : taken'[i] = taken[i]
      /\ taken'[Len(taken) + 1] = new
  BY OwnType DEF SlotInv
<1>2. \A ref : Genuine(ref) => Genuine(ref)'
  BY <1>1 DEF Genuine, SameMetadata, Bare
<1>3. Genuine(new)'
  BY <1>1 DEF Genuine, SameMetadata, Bare
<1>4. \A i \in 1..Len(taken') : Genuine(taken[i])'
  BY <1>1, <1>2, <1>3 DEF GenuineInv
<1>5. (\A msg \in sent' : Genuine(msg.ref)') /\ Genuine(slot)'
  BY <1>2 DEF GenuineInv
<1> QED BY <1>4, <1>5 DEF GenuineInv

LEMMA GenuineInitially == SlotInit => GenuineInv
BY BareFacts DEF SlotInit, GenuineInv, Genuine

LEMMA GenuineKept == SlotInv /\ GenuineInv /\ [SlotNext]_vars => GenuineInv'
<1> SUFFICES ASSUME SlotInv, GenuineInv, [SlotNext]_vars PROVE GenuineInv'
  OBVIOUS
<1>1. CASE Import
  <2> DEFINE new == Imported(Len(taken) + 1)
  <2>1. /\ Len(taken) \in Nat /\ taken' = Append(taken, new) /\ UNCHANGED <<sent, slot>>
    BY <1>1, OwnType DEF Import
  <2>2. new \in RefType /\ new.cid = Len(taken) + 1
    BY <2>1, ImportedType
  <2> HIDE DEF new
  <2> QED BY <2>1, <2>2, EntryGenuine
<1>2. CASE BridgeWeb
  <2>1. PICK event \in web :
           /\ FilesRootApplies(Own, event.cid, event.pub)
           /\ taken' = Append(taken, ApplyFilesRoot(Own, event.cid, event.pub))
           /\ UNCHANGED <<sent, slot>>
    BY <1>2 DEF BridgeWeb
  <2> DEFINE new == Placeholder(event.cid, 0, event.pub)
  <2>2. event.cid \in Nat /\ event.pub \in Nat
    BY DEF SlotInv
  <2>3. new \in RefType /\ Bare(new)
    BY <2>2, PlaceholderType, BareFacts
  <2>4. taken' = Append(taken, new)
    BY <2>1 DEF ApplyFilesRoot
  <2> HIDE DEF new
  <2> QED BY <2>1, <2>3, <2>4, EntryGenuine
<1>3. ASSUME NEW open \in BOOLEAN, Announce(open) PROVE GenuineInv'
  <2> DEFINE dated == [Own EXCEPT !.pub = Later(now, Own.pub + 1)]
  <2>1. Own \in RefType /\ now \in Nat /\ Genuine(Own)
    BY OwnType, OwnGenuine DEF SlotInv
  <2>2. Own.cid \in Nat /\ Own.seq \in Nat /\ Later(now, Own.pub + 1) \in Nat
    BY <2>1 DEF Later, RefType
  <2>3. dated \in RefType /\ dated.cid = Own.cid /\ SameMetadata(dated, Own)
    BY <2>1, <2>2 DEF RefType, SameMetadata
  <2> HIDE DEF dated
  <2>4. /\ OnWire(dated) \in RefType /\ OnWire(dated).cid = Own.cid
        /\ SameMetadata(Own, OnWire(dated))
    BY <2>3, OnWireType, OnWireMetadata DEF SameMetadata
  <2>5. Genuine(OnWire(dated))
    BY <2>1, <2>4, GenuineCopy
  <2>6. Genuine(EventOf(Own, open).ref)
    BY <2>5 DEF EventOf, dated
  <2>7. Genuine(HintOf(Own).ref)
    BY <2>2, BareFacts DEF HintOf, Genuine
  <2>8. sent' = sent \cup {EventOf(Own, open), HintOf(Own)} /\ UNCHANGED <<taken, slot>>
    BY <1>3 DEF Announce
  <2>9. \A msg \in sent' : Genuine(msg.ref)
    BY <2>6, <2>7, <2>8 DEF GenuineInv
  <2> QED BY <2>8, <2>9 DEF GenuineInv, Genuine
<1>4. ASSUME NEW msg \in sent, Deliver(msg) PROVE GenuineInv'
  BY <1>4, ReceivedGenuine DEF Deliver, GenuineInv, Genuine
<1>5. CASE UNCHANGED <<taken, sent, slot>>
  BY <1>5 DEF GenuineInv, Genuine
<1> QED BY <1>1, <1>2, <1>3, <1>4, <1>5 DEF SlotNext, Tick, WebPublish, vars

(* The entry that stays with its root loses none of the root's metadata.     *)
LEMMA MetadataStays ==
    ASSUME SlotInv, GenuineInv, NEW msg \in sent, Received(msg).cid = slot.cid
    PROVE  /\ slot.gen <= Received(msg).gen
           /\ slot.parents \subseteq Received(msg).parents
           /\ slot.observed \subseteq Received(msg).observed
<1>1. /\ msg.ref \in RefType /\ slot \in RefType /\ now \in Nat
      /\ Refers(msg.ref) /\ Refers(slot) /\ Genuine(msg.ref) /\ Genuine(slot)
  BY DEF SlotInv, GenuineInv
<1>2. /\ msg.ref.cid \in Nat /\ msg.ref.seq \in Nat /\ msg.ref.gen \in Nat
      /\ slot.cid \in Nat /\ slot.seq \in Nat /\ slot.gen \in Nat
      /\ Received(msg) \in RefType /\ Received(msg).gen \in Nat
  BY <1>1, ReceivedAdvances DEF RefType
<1>3. CASE Received(msg) = slot
  BY <1>2, <1>3
<1>4. CASE Bare(slot)
  BY <1>2, <1>4 DEF Bare
<1>5. CASE Received(msg) # slot /\ ~Bare(slot)
  <2>1. /\ slot.cid \in 1..Len(taken) /\ SameMetadata(slot, taken[slot.cid])
        /\ Known(slot)
    BY <1>1, <1>5, OwnType DEF Genuine, Known
  <2>2. CASE msg.hint
    <3>1. /\ Received(msg) = Placeholder(msg.ref.cid, msg.ref.seq, now)
          /\ slot.cid # msg.ref.cid
      BY <1>5, <2>1, <2>2 DEF Received, ApplyHint, HintApplies
    <3>2. Placeholder(msg.ref.cid, msg.ref.seq, now).cid = msg.ref.cid
      BY DEF Placeholder, NoRef
    <3> QED BY <3>1, <3>2
  <2>3. CASE ~msg.hint
    <3>1. /\ FullApplies(slot, msg.ref, msg.open)
          /\ Received(msg) = OnWire(msg.ref)
      BY <1>5, <2>3 DEF Received, ApplyFull
    <3>2. /\ Received(msg).cid = msg.ref.cid /\ SameMetadata(Received(msg), msg.ref)
      BY <1>1, <3>1, OnWireType, OnWireMetadata
    <3>3. msg.ref.cid = slot.cid /\ msg.ref.seq = slot.seq
      BY <1>1, <3>2, OneNumberPerCid
    <3>4. ~Bare(msg.ref)
      BY <1>2, <2>1, <3>1, <3>3 DEF FullApplies, Refreshes, Bare
    <3>5. SameMetadata(msg.ref, taken[slot.cid])
      BY <1>1, <3>3, <3>4 DEF Genuine
    <3>6. SameMetadata(slot, Received(msg))
      BY <2>1, <3>2, <3>5 DEF SameMetadata
    <3> QED BY <1>2, <3>6 DEF SameMetadata
  <2> QED BY <2>2, <2>3
<1> QED BY <1>3, <1>4, <1>5

(* Neither a hint nor an older or later copy of its event takes away the     *)
(* generation, parents and observed roots of the root on record, whatever    *)
(* arrives in whatever order (incoming_full_root_refreshes_existing).        *)
THEOREM MetadataIsKept == SlotSpec => CausalMetadataKept
<1> DEFINE Keeps == slot'.cid = slot.cid =>
                       /\ slot.gen <= slot'.gen
                       /\ slot.parents \subseteq slot'.parents
                       /\ slot.observed \subseteq slot'.observed
<1>1. SlotInv /\ GenuineInv /\ [SlotNext]_vars => [Keeps]_vars
  <2> SUFFICES ASSUME SlotInv, GenuineInv, SlotNext PROVE Keeps
    OBVIOUS
  <2>1. ASSUME NEW msg \in sent, Deliver(msg) PROVE Keeps
    BY <2>1, MetadataStays DEF Deliver
  <2>2. CASE slot' = slot
    BY <2>2 DEF SlotInv, RefType
  <2> QED BY <2>1, <2>2 DEF SlotNext, Tick, Import, WebPublish, BridgeWeb, Announce
<1> QED BY <1>1, Inductive, GenuineInitially, GenuineKept, PTL DEF SlotSpec, CausalMetadataKept
-----------------------------------------------------------------------------
(* The direct-root exchange.                                                *)

(* TypeOK without what only the model checker looks at.                      *)
Shapes ==
    /\ DOMAIN knows = Devices
    /\ \A d \in Devices : knows[d] \subseteq Devices
    /\ rec \in [Devices -> [Owners -> Refs]]
    /\ has \in [Devices -> SUBSET (Owners \X (1..MaxSeq))]
    /\ cache \in [Devices -> SUBSET RootKeys]
    /\ seen \in [Devices -> SUBSET RootKeys]
    /\ inbox \in [Devices -> SUBSET Frames]

(* The root of `key' or a later one is on record as `ref', with metadata if  *)
(* it is this one.                                                           *)
OnRecord(ref, key) == ref.seq > key.seq \/ ref = Full(key.seq)

Had(d, key) ==
    /\ OnRecord(rec[d][key.owner], key)
    /\ d \in Native => <<key.owner, key.seq>> \in has[d]

AllHad == \A d \in Devices : \A key \in seen[d] : Had(d, key)

IInv == Shapes /\ AllHad

-----------------------------------------------------------------------------
(* What the references are; a root's number names its cid.                   *)
LEMMA RefFacts ==
    ASSUME NEW ref \in Refs
    PROVE  /\ ref.seq \in 0..MaxSeq /\ ref.cid = ref.seq /\ ref.gen \in {0, 1}
           /\ ref.parents = {} /\ ref.observed = {}
           /\ Known(ref) => ref.seq \in 1..MaxSeq
           /\ ref.gen = 1 => ref = Full(ref.seq)
<1>1. CASE ref = NoRef
    BY <1>1, ExchangeBoundsAssumption DEF NoRef, Known
<1>2. CASE \E n \in 1..MaxSeq : ref = Full(n)
    <2> PICK n \in 1..MaxSeq : ref = Full(n)
        BY <1>2
    <2> QED BY ExchangeBoundsAssumption DEF Full, NoRef, Known
<1>3. CASE \E n \in 1..MaxSeq : ref = Placeholder(n, n, 0)
    <2> PICK n \in 1..MaxSeq : ref = Placeholder(n, n, 0)
        BY <1>3
    <2> QED BY ExchangeBoundsAssumption DEF Placeholder, NoRef, Known
<1> QED BY <1>1, <1>2, <1>3 DEF Refs

(* Taking a full root: it or a later one is on record then, and what was on  *)
(* record stays so.                                                          *)
LEMMA ApplyFullFacts ==
    ASSUME NEW ref \in Refs, NEW n \in 1..MaxSeq
    PROVE  LET after == ApplyFull(ref, Full(n), TRUE)
           IN  /\ after \in Refs
               /\ after.seq > n \/ after = Full(n) \/ ref = after
               /\ \A key \in RootKeys : OnRecord(ref, key) => OnRecord(after, key)
               /\ \A key \in RootKeys : key.seq = n => OnRecord(after, key)
<1> DEFINE after == ApplyFull(ref, Full(n), TRUE)
<1>1. Full(n) \in Refs /\ OnWire(Full(n)) = Full(n)
    <2>1. Full(n) \in Refs
        BY DEF Refs
    <2>2. Full(n) \in RefType /\ Full(n).local = FALSE
        <3>1. NoRef \in RefType /\ NoRef.local = FALSE
            BY DEF RefType, NoRef
        <3>2. \A r \in RefType, m \in Nat :
                 LET full == [r EXCEPT !.cid = m, !.seq = m, !.gen = 1]
                 IN  full \in RefType /\ full.local = r.local
            BY DEF RefType
        <3>3. n \in Nat
            BY ExchangeBoundsAssumption
        <3> QED BY <3>1, <3>2, <3>3 DEF Full
    <2>3. \A r \in RefType : r.local = FALSE => [r EXCEPT !.local = FALSE] = r
        BY DEF RefType
    <2> QED BY <2>1, <2>2, <2>3 DEF OnWire
<1>2. Full(n).seq = n /\ Full(n).cid = n /\ Full(n).gen = 1 /\ Full(n).pub = 0
        /\ Full(n).parents = {} /\ Full(n).observed = {}
    BY DEF Full, NoRef
<1>3. \A key \in RootKeys : key.seq \in 1..MaxSeq /\ Full(key.seq).seq = key.seq
    BY DEF RootKeys, Full, NoRef
<1>4. CASE FullApplies(ref, Full(n), TRUE)
    <2>1. after = Full(n)
        BY <1>1, <1>4 DEF ApplyFull
    <2>2. ref.seq <= n
        BY <1>2, <1>4, RefFacts, ExchangeBoundsAssumption
        DEF FullApplies, IncomingIsStale, Refreshes, Known
    <2>3. ref.seq \in 0..MaxSeq
        BY RefFacts
    <2>4. \A key \in RootKeys : OnRecord(ref, key) => key.seq <= ref.seq
        BY <1>3, <2>3, ExchangeBoundsAssumption DEF OnRecord
    <2>5. \A key \in RootKeys : key.seq <= n => OnRecord(Full(n), key)
        BY <1>2, <1>3, ExchangeBoundsAssumption DEF OnRecord
    <2>6. \A key \in RootKeys : key.seq = n => key.seq <= n
        BY ExchangeBoundsAssumption
    <2>7. \A key \in RootKeys : OnRecord(ref, key) => OnRecord(Full(n), key)
        BY <1>3, <2>2, <2>3, <2>4, <2>5, ExchangeBoundsAssumption
    <2> QED BY <1>1, <2>1, <2>5, <2>6, <2>7
<1>5. CASE ~FullApplies(ref, Full(n), TRUE)
    <2>1. after = ref
        BY <1>5 DEF ApplyFull
    <2>2. ref.seq > n \/ (ref.seq = n /\ ref.gen = 1)
        BY <1>2, <1>5, RefFacts, ExchangeBoundsAssumption
        DEF FullApplies, IncomingIsStale, Refreshes, Known, MayNeedRefresh
    <2>3. ref.seq > n \/ ref = Full(n)
        BY <2>2, RefFacts
    <2> QED BY <1>3, <2>1, <2>3 DEF OnRecord
<1> QED BY <1>4, <1>5

(* A hint does not put a placeholder over a root of its number or a later.   *)
LEMMA ApplyHintFacts ==
    ASSUME NEW ref \in Refs, NEW n \in 1..MaxSeq
    PROVE  LET after == ApplyHint(ref, n, n, 0)
           IN  /\ after \in Refs
               /\ \A key \in RootKeys : OnRecord(ref, key) => OnRecord(after, key)
<1>1. Placeholder(n, n, 0) \in Refs /\ Placeholder(n, n, 0).seq = n
    BY DEF Refs, Placeholder, NoRef
<1>2. \A key \in RootKeys : key.seq \in 1..MaxSeq /\ Full(key.seq).seq = key.seq
    BY DEF RootKeys, Full, NoRef
<1>3. CASE HintApplies(ref, n, n, 0)
    <2>1. ref.seq < n
        BY <1>3, RefFacts, ExchangeBoundsAssumption DEF HintApplies, Known
    <2> QED BY <1>1, <1>2, <1>3, <2>1, RefFacts, ExchangeBoundsAssumption
            DEF ApplyHint, OnRecord
<1> QED BY <1>3 DEF ApplyHint

(* A frame carries a root's key or an operation.                             *)
LEMMA FrameFacts ==
    ASSUME NEW frame \in Frames
    PROVE  "full" \in DOMAIN frame =>
               /\ IsRoot(frame.full) => frame.full \in RootKeys
               /\ ~IsRoot(frame.full) => frame.full.op \in Joiners
<1>1. \A key \in RootKeys : IsRoot(key)
    BY DEF RootKeys, IsRoot
<1>2. \A key \in OpKeys : ~IsRoot(key) /\ key.op \in Joiners
    BY DEF OpKeys, IsRoot
<1> QED BY <1>1, <1>2 DEF Frames

(* What is cached is what was, or what came.                                 *)
LEMMA CacheFacts ==
    ASSUME NEW cached \in SUBSET RootKeys, NEW key \in RootKeys
    PROVE  CacheEvents(cached, key) \in SUBSET RootKeys
BY DEF CacheEvents

(* Sending leaves only frames in the inboxes.                                *)
LEMMA SendFacts ==
    ASSUME Shapes, NEW d \in Devices, NEW frame \in Frames, Send(d, frame)
    PROVE  inbox' \in [Devices -> SUBSET Frames]
<1>1. \A x \in Devices : Coalesced(inbox[x], frame) \in SUBSET Frames
    BY DEF Shapes, Coalesced
<1> QED BY <1>1 DEF Send, Shapes

-----------------------------------------------------------------------------
(* The invariant holds initially ...                                         *)
LEMMA Initially == Init => IInv
<1> SUFFICES ASSUME Init PROVE IInv
    OBVIOUS
<1>1. NoRef \in Refs
    BY DEF Refs
<1>2. \A d \in Devices : knows[d] \subseteq Devices
    BY DevicesAssumption DEF Init
<1>3. Shapes
    BY <1>1, <1>2 DEF Init, Shapes
<1>4. AllHad
    BY DEF Init, AllHad
<1> QED BY <1>3, <1>4 DEF IInv

(* A record or the held blocks change, but what was on record stays so and   *)
(* what was held is; nothing new counts as seen.                             *)
Grows ==
    /\ \A d \in Devices, o \in Owners : \A key \in RootKeys :
          OnRecord(rec[d][o], key) => OnRecord(rec'[d][o], key)
    /\ \A d \in Devices : has[d] \subseteq has'[d]

LEMMA HadStays ==
    ASSUME IInv, Grows, NEW d \in Devices, NEW key \in seen[d]
    PROVE  Had(d, key)'
<1>1. key \in RootKeys /\ key.owner \in Owners
    BY DEF IInv, Shapes, RootKeys
<1> QED BY <1>1 DEF IInv, AllHad, Had, Grows

LEMMA AllHadStays ==
    ASSUME IInv, Grows, \A d \in Devices : seen'[d] \subseteq seen[d]
    PROVE  AllHad'
BY HadStays DEF AllHad

(* One record and one device's blocks change as Record and Got have it.      *)
LEMMA RecordFacts ==
    ASSUME IInv, NEW d \in Devices, NEW o \in Owners, NEW ref \in Refs,
           Record(d, o, ref),
           \A key \in RootKeys : OnRecord(rec[d][o], key) => OnRecord(ref, key),
           NEW n \in 1..MaxSeq, UNCHANGED has \/ Got(d, o, n)
    PROVE  /\ Grows
           /\ rec' \in [Devices -> [Owners -> Refs]]
           /\ has' \in [Devices -> SUBSET (Owners \X (1..MaxSeq))]
           /\ rec'[d][o] = ref
<1>1. rec' \in [Devices -> [Owners -> Refs]] /\ rec'[d][o] = ref
    BY DEF IInv, Shapes, Record
<1>2. has' \in [Devices -> SUBSET (Owners \X (1..MaxSeq))]
    BY DEF IInv, Shapes, Got
<1>3. \A x \in Devices, y \in Owners : rec'[x][y] = rec[x][y] \/ (x = d /\ y = o)
    BY DEF IInv, Shapes, Record
<1>4. \A x \in Devices : has[x] \subseteq has'[x]
    BY DEF IInv, Shapes, Got
<1> QED BY <1>1, <1>2, <1>3, <1>4 DEF Grows

(* A key that counts as seen from now on, of a root that is had.             *)
LEMMA RememberFacts ==
    ASSUME IInv, Grows, NEW d \in Devices, NEW key \in RootKeys,
           Remember(d, key), Had(d, key)'
    PROVE  /\ AllHad'
           /\ cache' \in [Devices -> SUBSET RootKeys]
           /\ seen' \in [Devices -> SUBSET RootKeys]
<1>1. /\ cache \in [Devices -> SUBSET RootKeys]
      /\ seen \in [Devices -> SUBSET RootKeys]
    BY DEF IInv, Shapes
<1>2. seen' \in [Devices -> SUBSET RootKeys]
    BY <1>1 DEF Remember
<1>3. cache' \in [Devices -> SUBSET RootKeys]
    BY <1>1, CacheFacts DEF Remember
<1>4. \A x \in Devices : \A k \in seen'[x] : k \in seen[x] \/ (x = d /\ k = key)
    BY <1>1 DEF Remember
<1>5. AllHad'
    BY <1>4, HadStays DEF AllHad
<1> QED BY <1>2, <1>3, <1>5

(* Nothing is recorded, fetched, seen or learned.                            *)
LEMMA QuietKeeps ==
    ASSUME IInv, UNCHANGED <<persisted, cache, seen>>, inbox' \in [Devices -> SUBSET Frames]
    PROVE  IInv'
<1>1. Shapes'
    BY DEF IInv, Shapes, persisted
<1>2. AllHad'
    BY DEF IInv, AllHad, Had, OnRecord, persisted
<1> QED BY <1>1, <1>2 DEF IInv

(* What a device says is a root's key or an operation.                       *)
LEMMA LocalFacts ==
    ASSUME Shapes, NEW d \in Devices, NEW key \in LocalEvents(d)
    PROVE  /\ key \in RootKeys \cup OpKeys
           /\ IsRoot(key) => key \in RootKeys
<1>1. \A x \in OpKeys : ~IsRoot(x)
    BY DEF OpKeys, IsRoot
<1>2. CASE key \in {[op |-> x] : x \in knows[d] \cap Joiners}
    BY <1>1, <1>2 DEF OpKeys
<1>3. CASE key \in {[owner |-> o, seq |-> rec[d][o].seq, to |-> knows[d]] :
                       o \in {x \in Owners : x = d /\ Known(rec[d][x])}}
    <2> PICK o \in Owners : /\ Known(rec[d][o])
                            /\ key = [owner |-> o, seq |-> rec[d][o].seq, to |-> knows[d]]
        BY <1>3
    <2>1. rec[d][o] \in Refs /\ knows[d] \in SUBSET Devices
        BY DEF Shapes
    <2>2. rec[d][o].seq \in 1..MaxSeq
        BY <2>1, RefFacts
    <2>3. \A x \in Owners, m \in 1..MaxSeq, ds \in SUBSET Devices :
             [owner |-> x, seq |-> m, to |-> ds] \in RootKeys
        BY DEF RootKeys
    <2>4. key \in RootKeys
        BY <2>1, <2>2, <2>3
    <2> QED BY <2>4
<1> QED BY <1>2, <1>3 DEF LocalEvents

LEMMA SayKeeps ==
    ASSUME IInv, NEW d \in Devices, NEW frame \in Frames, Say(d, frame)
    PROVE  IInv'
BY SendFacts, QuietKeeps DEF Say, IInv, persisted

LEMMA SayingKeeps ==
    ASSUME IInv, NEW d \in Devices,
           \/ SayRoot(d) \/ SayHint(d)
           \/ \E j \in Joiners : SayOp(d, j)
           \/ \E o \in Owners : SayForwarded(d, o)
    PROVE  IInv'
<1>1. CASE SayRoot(d)
    <2> PICK key \in LocalEvents(d) : IsRoot(key) /\ Say(d, [full |-> key])
        BY <1>1 DEF SayRoot
    <2>1. [full |-> key] \in Frames
        BY LocalFacts DEF IInv, Frames
    <2> QED BY <2>1, SayKeeps
<1>2. CASE SayHint(d)
    <2> PICK key \in LocalEvents(d) : IsRoot(key) /\ Say(d, [hint |-> key])
        BY <1>2 DEF SayHint
    <2>1. [hint |-> key] \in Frames
        BY LocalFacts DEF IInv, Frames
    <2> QED BY <2>1, SayKeeps
<1>3. CASE \E j \in Joiners : SayOp(d, j)
    <2> PICK j \in Joiners : Say(d, [full |-> [op |-> j]])
        BY <1>3 DEF SayOp
    <2>1. [full |-> [op |-> j]] \in Frames
        BY DEF Frames, OpKeys
    <2> QED BY <2>1, SayKeeps
<1>4. CASE \E o \in Owners : SayForwarded(d, o)
    <2> PICK key \in Forwarded(d) : Say(d, [full |-> key])
        BY <1>4 DEF SayForwarded
    <2>1. [full |-> key] \in Frames
        BY DEF Forwarded, Frames, IInv, Shapes
    <2> QED BY <2>1, SayKeeps
<1> QED BY <1>1, <1>2, <1>3, <1>4

-----------------------------------------------------------------------------
(* A full root comes in, at a device of either kind.                         *)
LEMMA NativeRootKeeps ==
    ASSUME IInv, NEW d \in Devices, NEW key \in RootKeys, NativeRoot(d, key),
           inbox' \in [Devices -> SUBSET Frames]
    PROVE  IInv'
<1> DEFINE o == key.owner
           before == rec[d][o]
           after == ApplyFull(before, Full(key.seq), TRUE)
<1>1. o \in Owners /\ key.seq \in 1..MaxSeq
    BY DEF RootKeys
<1>2. before \in Refs
    BY <1>1 DEF IInv, Shapes
<1>3. CASE key \in seen[d] \/ Retryable(d, key)
    <2>1. UNCHANGED <<persisted, cache, seen>>
        BY <1>3 DEF NativeRoot, Forget, persisted
    <2> QED BY <2>1, QuietKeeps
<1>4. CASE ~(key \in seen[d] \/ Retryable(d, key))
    <2>1. /\ UNCHANGED knows
          /\ Record(d, o, after)
          /\ \/ UNCHANGED has /\ Forget
             \/ Got(d, o, key.seq) /\ (Forget \/ Remember(d, key))
        BY <1>4 DEF NativeRoot
    <2>2. /\ after \in Refs
          /\ \A k \in RootKeys : OnRecord(before, k) => OnRecord(after, k)
          /\ OnRecord(after, key)
        BY <1>1, <1>2, ApplyFullFacts
    <2>3. UNCHANGED has \/ Got(d, o, key.seq)
        BY <2>1
    <2> HIDE DEF after, o
    <2>4. /\ Grows
          /\ rec' \in [Devices -> [Owners -> Refs]]
          /\ has' \in [Devices -> SUBSET (Owners \X (1..MaxSeq))]
          /\ rec'[d][o] = after
        BY <1>1, <2>1, <2>2, <2>3, RecordFacts
    <2>5. CASE Forget
        <3>1. Shapes'
            BY <2>1, <2>4, <2>5 DEF IInv, Shapes, Forget
        <3>2. AllHad'
            BY <2>4, <2>5, AllHadStays DEF Forget
        <3> QED BY <3>1, <3>2 DEF IInv
    <2>6. CASE Got(d, o, key.seq) /\ Remember(d, key)
        <3>1. <<o, key.seq>> \in has'[d]
            BY <2>6 DEF Got, IInv, Shapes
        <3>2. Had(d, key)'
            BY <2>2, <2>4, <3>1 DEF Had, o
        <3>3. /\ AllHad'
              /\ cache' \in [Devices -> SUBSET RootKeys]
              /\ seen' \in [Devices -> SUBSET RootKeys]
            BY <2>4, <2>6, <3>2, RememberFacts
        <3> QED BY <2>1, <2>4, <3>3 DEF IInv, Shapes
    <2> QED BY <2>1, <2>5, <2>6
<1> QED BY <1>3, <1>4

LEMMA CliRootKeeps ==
    ASSUME IInv, NEW d \in Devices \ Native, NEW key \in RootKeys, CliRoot(d, key),
           inbox' \in [Devices -> SUBSET Frames]
    PROVE  IInv'
<1> DEFINE o == key.owner
           after == ApplyFull(rec[d][o], Full(key.seq), TRUE)
<1>1. o \in Owners /\ key.seq \in 1..MaxSeq
    BY DEF RootKeys
<1>2. rec[d][o] \in Refs
    BY <1>1 DEF IInv, Shapes
<1>3. CASE UNCHANGED rec /\ Forget
    <2>1. UNCHANGED <<persisted, cache, seen>>
        BY <1>3 DEF CliRoot, Forget, persisted
    <2> QED BY <2>1, QuietKeeps
<1>4. CASE Record(d, o, after) /\ Remember(d, key)
    <2>1. UNCHANGED <<knows, has>>
        BY DEF CliRoot
    <2>2. /\ after \in Refs
          /\ \A k \in RootKeys : OnRecord(rec[d][o], k) => OnRecord(after, k)
          /\ OnRecord(after, key)
        BY <1>1, <1>2, ApplyFullFacts
    <2> HIDE DEF after, o
    <2>3. /\ Grows
          /\ rec' \in [Devices -> [Owners -> Refs]]
          /\ has' \in [Devices -> SUBSET (Owners \X (1..MaxSeq))]
          /\ rec'[d][o] = after
        BY <1>1, <1>4, <2>1, <2>2, RecordFacts
    <2>4. Had(d, key)'
        BY <2>2, <2>3 DEF Had, o
    <2>5. /\ AllHad'
          /\ cache' \in [Devices -> SUBSET RootKeys]
          /\ seen' \in [Devices -> SUBSET RootKeys]
        BY <1>4, <2>3, <2>4, RememberFacts
    <2> QED BY <2>1, <2>3, <2>5 DEF IInv, Shapes
<1> QED BY <1>3, <1>4 DEF CliRoot

(* The roster grows by a joiner.                                             *)
LEMMA RosterOpKeeps ==
    ASSUME IInv, NEW d \in Devices, NEW key, key.op \in Joiners, RosterOp(d, key),
           inbox' \in [Devices -> SUBSET Frames]
    PROVE  IInv'
<1>1. key.op \in Devices
    BY DevicesAssumption
<1>2. Shapes'
    BY <1>1 DEF IInv, Shapes, RosterOp, Forget
<1>3. AllHad'
    BY DEF IInv, AllHad, Had, OnRecord, RosterOp, Forget
<1> QED BY <1>2, <1>3 DEF IInv

LEMMA ReceiveFullKeeps ==
    ASSUME IInv, NEW d \in Devices, NEW frame \in inbox[d], ReceiveFull(d, frame)
    PROVE  IInv'
<1>1. frame \in Frames /\ "full" \in DOMAIN frame
    BY DEF IInv, Shapes, ReceiveFull
<1>2. inbox' \in [Devices -> SUBSET Frames]
    BY DEF IInv, Shapes, ReceiveFull, Take
<1>3. CASE ~IsRoot(frame.full)
    BY <1>1, <1>2, <1>3, FrameFacts, RosterOpKeeps DEF ReceiveFull
<1>4. CASE IsRoot(frame.full)
    <2>1. frame.full \in RootKeys
        BY <1>1, <1>4, FrameFacts
    <2>2. CASE d \in Native
        BY <1>2, <1>4, <2>1, <2>2, NativeRootKeeps DEF ReceiveFull
    <2>3. CASE d \notin Native
        BY <1>2, <1>4, <2>1, <2>3, CliRootKeeps DEF ReceiveFull
    <2> QED BY <2>2, <2>3
<1> QED BY <1>3, <1>4

LEMMA ReceiveHintKeeps ==
    ASSUME IInv, NEW d \in Devices, NEW frame \in inbox[d], ReceiveHint(d, frame),
           frame.hint \in RootKeys
    PROVE  IInv'
<1> DEFINE key == frame.hint
           o == key.owner
           after == ApplyHint(rec[d][o], key.seq, key.seq, 0)
<1>1. o \in Owners /\ key.seq \in 1..MaxSeq
    BY DEF RootKeys
<1>2. inbox' \in [Devices -> SUBSET Frames] /\ UNCHANGED <<knows, cache, seen>>
    BY DEF IInv, Shapes, ReceiveHint, Take
<1>3. CASE UNCHANGED <<rec, has>>
    BY <1>2, <1>3, QuietKeeps DEF persisted
<1>4. CASE Record(d, o, after) /\ (UNCHANGED has \/ Got(d, o, key.seq))
    <2>1. rec[d][o] \in Refs
        BY <1>1 DEF IInv, Shapes
    <2>2. /\ after \in Refs
          /\ \A k \in RootKeys : OnRecord(rec[d][o], k) => OnRecord(after, k)
        BY <1>1, <2>1, ApplyHintFacts
    <2> HIDE DEF after, o, key
    <2>3. /\ Grows
          /\ rec' \in [Devices -> [Owners -> Refs]]
          /\ has' \in [Devices -> SUBSET (Owners \X (1..MaxSeq))]
        BY <1>1, <1>4, <2>2, RecordFacts
    <2>4. AllHad'
        BY <1>2, <2>3, AllHadStays
    <2> QED BY <1>2, <2>3, <2>4 DEF IInv, Shapes
<1> QED BY <1>3, <1>4 DEF ReceiveHint

LEMMA ReceivingKeeps ==
    ASSUME IInv, NEW d \in Devices,
           ReceiveOp(d) \/ \E o \in Owners : ReceiveRoot(d, o)
    PROVE  IInv'
<1>1. PICK frame \in inbox[d] : ReceiveFull(d, frame) \/ ReceiveHint(d, frame)
    BY DEF ReceiveOp, ReceiveRoot
<1>2. CASE ReceiveFull(d, frame)
    BY <1>2, ReceiveFullKeeps
<1>3. CASE ReceiveHint(d, frame)
    <2>1. frame \in Frames /\ "hint" \in DOMAIN frame
        BY <1>3 DEF IInv, Shapes, ReceiveHint
    <2>2. frame.hint \in RootKeys
        BY <2>1 DEF Frames
    <2> QED BY <1>3, <2>2, ReceiveHintKeeps
<1> QED BY <1>1, <1>2, <1>3

-----------------------------------------------------------------------------
LEMMA PullKeeps ==
    ASSUME IInv, NEW d \in Devices, NEW o \in Owners, Pull(d, o)
    PROVE  IInv'
<1>1. rec[d][o].seq \in 1..MaxSeq
    BY RefFacts DEF IInv, Shapes, Pull
<1>2. has' \in [Devices -> SUBSET (Owners \X (1..MaxSeq))]
    BY <1>1 DEF IInv, Shapes, Pull, Got
<1>3. Shapes'
    BY <1>2 DEF IInv, Shapes, Pull
<1>4. Grows
    BY DEF Grows, Pull, Got, IInv, Shapes
<1>5. AllHad'
    BY <1>4, AllHadStays DEF Pull
<1> QED BY <1>3, <1>5 DEF IInv

(* A root of one's own is later than all on record.                          *)
LEMMA EditKeeps ==
    ASSUME IInv, NEW d \in Devices, Edit(d)
    PROVE  IInv'
<1> DEFINE n == rec[d][d].seq + 1
<1>1. d \in Owners /\ rec[d][d] \in Refs /\ rec[d][d].seq < MaxSeq
    BY DEF IInv, Shapes, Edit
<1>2. rec[d][d].seq \in 0..MaxSeq
    BY <1>1, RefFacts
<1>3. n \in 1..MaxSeq
    BY <1>1, <1>2, ExchangeBoundsAssumption
<1>4. Full(n) \in Refs /\ Full(n).seq = n
    BY <1>3 DEF Refs, Full, NoRef
<1>5. \A k \in RootKeys : OnRecord(rec[d][d], k) => OnRecord(Full(n), k)
    <2> SUFFICES ASSUME NEW k \in RootKeys, OnRecord(rec[d][d], k)
                 PROVE  Full(n).seq > k.seq
        BY DEF OnRecord
    <2>1. k.seq \in 1..MaxSeq /\ Full(k.seq).seq = k.seq
        BY DEF RootKeys, Full, NoRef
    <2>2. k.seq <= rec[d][d].seq
        BY <1>2, <2>1, ExchangeBoundsAssumption DEF OnRecord
    <2> QED BY <1>2, <1>4, <2>1, <2>2, ExchangeBoundsAssumption
<1>6. /\ Record(d, d, Full(n)) /\ Got(d, d, n)
      /\ UNCHANGED <<knows, cache, seen, inbox>>
    BY DEF Edit
<1> HIDE DEF n
<1>7. /\ Grows
      /\ rec' \in [Devices -> [Owners -> Refs]]
      /\ has' \in [Devices -> SUBSET (Owners \X (1..MaxSeq))]
    BY <1>1, <1>3, <1>4, <1>5, <1>6, RecordFacts
<1>8. AllHad'
    BY <1>6, <1>7, AllHadStays
<1> QED BY <1>6, <1>7, <1>8 DEF IInv, Shapes

LEMMA AdmitKeeps ==
    ASSUME IInv, NEW j \in Joiners, Admit(j)
    PROVE  IInv'
<1>1. j \in Devices /\ Admin \in Devices
    BY DevicesAssumption
<1>2. Shapes'
    BY <1>1 DEF IInv, Shapes, Admit
<1>3. AllHad'
    BY DEF IInv, AllHad, Had, OnRecord, Admit
<1> QED BY <1>2, <1>3 DEF IInv

(* What happens to a device's connections and memory; a restart forgets what *)
(* was seen, and keeps what was had.                                         *)
LEMMA BreakKeeps ==
    ASSUME IInv, NEW d \in Devices, Disconnect(d) \/ Connect(d) \/ Restart(d)
    PROVE  IInv'
<1>1. CASE Disconnect(d)
    <2>1. inbox' \in [Devices -> SUBSET Frames]
        BY <1>1 DEF IInv, Shapes, Disconnect
    <2>2. UNCHANGED <<persisted, cache, seen>>
        BY <1>1 DEF Disconnect
    <2> QED BY <2>1, <2>2, QuietKeeps
<1>2. CASE Connect(d)
    <2>1. inbox' \in [Devices -> SUBSET Frames] /\ UNCHANGED <<persisted, cache, seen>>
        BY <1>2 DEF IInv, Shapes, Connect
    <2> QED BY <2>1, QuietKeeps
<1>3. CASE Restart(d)
    <2>1. Shapes'
        BY <1>3 DEF IInv, Shapes, Restart, persisted
    <2>2. Grows /\ \A x \in Devices : seen'[x] \subseteq seen[x]
        BY <1>3 DEF IInv, Shapes, Restart, persisted, Grows
    <2> QED BY <2>1, <2>2, AllHadStays DEF IInv
<1> QED BY <1>1, <1>2, <1>3

(* ... and every step keeps it.                                              *)
LEMMA StepKeeps == IInv /\ [Next]_exchangeVars => IInv'
<1> SUFFICES ASSUME IInv, [Next]_exchangeVars PROVE IInv'
    OBVIOUS
<1>1. CASE UNCHANGED exchangeVars
    <2>1. inbox' \in [Devices -> SUBSET Frames] /\ UNCHANGED <<persisted, cache, seen>>
        BY <1>1 DEF IInv, Shapes, exchangeVars, persisted
    <2> QED BY <2>1, QuietKeeps
<1>2. CASE \E d \in Devices : DeviceStep(d)
    <2> PICK d \in Devices : DeviceStep(d)
        BY <1>2
    <2> QED BY SayingKeeps, ReceivingKeeps, PullKeeps, EditKeeps, BreakKeeps DEF DeviceStep
<1>3. CASE \E j \in Joiners : Admit(j)
    BY <1>3, AdmitKeeps
<1> QED BY <1>1, <1>2, <1>3 DEF Next

THEOREM Invariant == Spec => []IInv
BY Initially, StepKeeps, PTL DEF Spec

(* What a device ignores because it has seen it, it has - the root on record *)
(* is this one with its metadata or a later one, and in a native device its  *)
(* blocks are there - for any mesh, however frames are lost, coalesced,      *)
(* repeated, forwarded or reordered and whoever restarts: the seen_keys of   *)
(* direct_root_transport.rs never keep a device from a root it lacks.        *)
THEOREM SeenRootsAreHad == Spec => []SeenIsHad
<1>1. IInv => SeenIsHad
    <2> SUFFICES ASSUME IInv, NEW d \in Devices, NEW key \in seen[d]
                 PROVE  /\ \/ rec[d][key.owner].seq > key.seq
                           \/ rec[d][key.owner] = Full(key.seq)
                        /\ d \in Native => <<key.owner, key.seq>> \in has[d]
        BY DEF SeenIsHad
    <2> QED BY DEF IInv, AllHad, Had, OnRecord
<1> QED BY Invariant, <1>1, PTL
=============================================================================
