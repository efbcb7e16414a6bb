------------------------ MODULE DriveContents_proofs ------------------------
(* Proofs about the contributions devices publish and what devices show of   *)
(* them, for any paths, clocks and number of roots, and for any devices      *)
(* except where a theorem says how many.                                     *)
EXTENDS DriveContents, FiniteSetTheorems, WellFoundedInduction, TLAPS

-----------------------------------------------------------------------------
(* The contributions *)

(* A mounted tree departs from its base only by files saved on the mount.    *)
MountsEditOwn ==
    \A d \in Mounts : \A p \in Paths :
        tree[d][p] = base[d][p] \/ tree[d][p] \in OwnFiles(d, Len(roots[d]) + 1)

IInv ==
    /\ roots \in [Devices -> Seq(Root)]
    /\ rec \in [Devices -> [Devices -> 0..MaxSeq]]
    /\ \A d \in Devices : Len(roots[d]) <= MaxSeq
    /\ DOMAIN tree = Mounts /\ DOMAIN base = Mounts
    /\ \A d \in Mounts : DOMAIN tree[d] = Paths
    /\ MountsEditOwn
    /\ NothingReauthored

LEMMA OwnFilesGrow ==
    ASSUME NEW d \in Devices, NEW n \in Nat
    PROVE  OwnFiles(d, n) \subseteq OwnFiles(d, n + 1) /\ NoFile \in OwnFiles(d, n)
BY DEF OwnFiles

LEMMA OwnFilesAreVersions ==
    ASSUME NEW d \in Devices, NEW n \in 0..MaxSeq
    PROVE  OwnFiles(d, n) \subseteq Version \cup {NoFile}
BY ContentsAssumption DEF OwnFiles, Version

LEMMA NoRootType == NoRoot \in Root
BY ContentsAssumption DEF NoRoot, Root, Tree, EmptyTree

LEMMA PreviousType ==
    ASSUME IInv, NEW d \in Devices
    PROVE  /\ Previous(d) \in Root
           /\ \A p \in Paths : Previous(d).files[p] \in OwnFiles(d, Len(roots[d]))
<1>1. roots[d] \in Seq(Root) /\ Len(roots[d]) \in Nat
  BY DEF IInv
<1>2. CASE roots[d] = <<>>
  BY <1>1, <1>2, NoRootType, OwnFilesGrow DEF Previous, NoRoot, EmptyTree
<1>3. CASE roots[d] # <<>>
  <2>1. Len(roots[d]) \in 1..Len(roots[d])
    BY <1>1, <1>3
  <2>2. roots[d][Len(roots[d])] \in Root
    BY <1>1, <2>1
  <2> QED BY <1>3, <2>1, <2>2 DEF Previous, IInv, NothingReauthored
<1> QED BY <1>2, <1>3

(* An import claims only what its device had claimed before or the user saved*)
(* there since; the merge the edit started from does not matter.             *)
LEMMA FilesAreOwn ==
    ASSUME IInv, NEW d \in Devices, NEW from, NEW to,
           \A p \in Paths : \/ to[p] = from[p]
                            \/ to[p] \in OwnFiles(d, Len(roots[d]) + 1)
    PROVE  \A p \in Paths : Files(d, from, to)[p] \in OwnFiles(d, Len(roots[d]) + 1)
<1> SUFFICES ASSUME NEW p \in Paths
             PROVE  Files(d, from, to)[p] \in OwnFiles(d, Len(roots[d]) + 1)
  OBVIOUS
<1>1. Len(roots[d]) \in Nat
  BY DEF IInv
<1>2. /\ Previous(d).files[p] \in OwnFiles(d, Len(roots[d]) + 1)
      /\ NoFile \in OwnFiles(d, Len(roots[d]) + 1)
  BY <1>1, PreviousType, OwnFilesGrow
<1> QED BY <1>2 DEF Files

(* So publishing such an import keeps every root its device's own.           *)
LEMMA PublishKeepsRoots ==
    ASSUME IInv, NEW d \in Devices, NEW from, NEW to, NEW now \in 1..MaxClock,
           Publish(d, from, to, now),
           \A p \in Paths : \/ to[p] = from[p]
                            \/ to[p] \in OwnFiles(d, Len(roots[d]) + 1)
    PROVE  /\ roots' \in [Devices -> Seq(Root)]
           /\ rec' \in [Devices -> [Devices -> 0..MaxSeq]]
           /\ \A e \in Devices : Len(roots'[e]) <= MaxSeq
           /\ \A e \in Devices \ {d} : roots'[e] = roots[e]
           /\ Len(roots'[d]) = Len(roots[d]) + 1
           /\ NothingReauthored'
<1> DEFINE at == IF now > Previous(d).at THEN now ELSE Previous(d).at + 1
           new == [at |-> at, observed |-> rec[d], files |-> Files(d, from, to),
                   graves |-> NewGraves(d, from, to, at)]
<1>1. /\ roots[d] \in Seq(Root) /\ Len(roots[d]) \in Nat
      /\ rec[d] \in [Devices -> 0..MaxSeq] /\ MaxSeq \in Nat /\ MaxClock \in Nat
  BY ContentsAssumption DEF IInv
<1>2. /\ Len(roots[d]) + 1 <= MaxSeq /\ at <= MaxClock
      /\ roots' = [roots EXCEPT ![d] = Append(roots[d], new)]
      /\ rec' = [rec EXCEPT ![d][d] = Len(roots[d]) + 1]
  BY DEF Publish
<1>3. Previous(d) \in Root
  BY PreviousType
<1>4. at \in 0..MaxClock
  <2>1. Previous(d).at \in 0..MaxClock
    BY <1>3 DEF Root
  <2> QED BY <1>1, <1>2, <2>1
<1>5. \A p \in Paths : Files(d, from, to)[p] \in OwnFiles(d, Len(roots[d]) + 1)
  BY FilesAreOwn
<1>6. Files(d, from, to) \in Tree
  <2>1. OwnFiles(d, Len(roots[d]) + 1) \subseteq Version \cup {NoFile}
    BY <1>1, <1>2, OwnFilesAreVersions
  <2>2. Files(d, from, to) = [p \in Paths |-> Files(d, from, to)[p]]
    BY DEF Files
  <2> QED BY <1>5, <2>1, <2>2 DEF Tree
<1>7. NewGraves(d, from, to, at) \in [Paths -> 0..MaxClock]
  <2>1. \A p \in Paths : Previous(d).graves[p] \in 0..MaxClock
    BY <1>3 DEF Root
  <2> QED BY <1>4, <2>1 DEF NewGraves
<1>8. new \in Root
  BY <1>1, <1>4, <1>6, <1>7 DEF Root
<1>9. new.files = Files(d, from, to)
  OBVIOUS
<1> HIDE DEF new, at
<1>10. /\ Append(roots[d], new) \in Seq(Root)
       /\ Len(Append(roots[d], new)) = Len(roots[d]) + 1
       /\ \A i \in 1..Len(roots[d]) : Append(roots[d], new)[i] = roots[d][i]
       /\ Append(roots[d], new)[Len(roots[d]) + 1] = new
  BY <1>1, <1>8
<1>11. /\ roots' \in [Devices -> Seq(Root)] /\ roots'[d] = Append(roots[d], new)
       /\ \A e \in Devices \ {d} : roots'[e] = roots[e]
  BY <1>2, <1>10 DEF IInv
<1>12. rec' \in [Devices -> [Devices -> 0..MaxSeq]]
  <2>1. [rec[d] EXCEPT ![d] = Len(roots[d]) + 1] \in [Devices -> 0..MaxSeq]
    BY <1>1, <1>2
  <2>2. rec' = [rec EXCEPT ![d] = [rec[d] EXCEPT ![d] = Len(roots[d]) + 1]]
    BY <1>2
  <2> QED BY <2>1, <2>2 DEF IInv
<1>13. \A e \in Devices : Len(roots'[e]) <= MaxSeq
  BY <1>2, <1>10, <1>11 DEF IInv
<1>14. NothingReauthored'
  <2> SUFFICES ASSUME NEW e \in Devices, NEW i \in 1..Len(roots'[e]), NEW p \in Paths
               PROVE  roots'[e][i].files[p] \in OwnFiles(e, i)
    BY DEF NothingReauthored
  <2>1. CASE e # d
    BY <1>11, <2>1 DEF IInv, NothingReauthored
  <2>2. CASE e = d /\ i \in 1..Len(roots[d])
    BY <1>10, <1>11, <2>2 DEF IInv, NothingReauthored
  <2>3. CASE e = d /\ i = Len(roots[d]) + 1
    BY <1>5, <1>9, <1>10, <1>11, <2>3
  <2>4. Len(roots'[d]) = Len(roots[d]) + 1
    BY <1>10, <1>11
  <2> QED BY <1>1, <2>1, <2>2, <2>3, <2>4
<1> QED BY <1>10, <1>11, <1>12, <1>13, <1>14

(* What a user makes of a tree is own at the edited path and unchanged else. *)
LEMMA EditsAreOwn ==
    ASSUME NEW d \in Devices, NEW from, DOMAIN from = Paths, NEW q \in Paths,
           Len(roots[d]) \in Nat, NEW to \in Edits(d, from, q)
    PROVE  /\ DOMAIN to = Paths
           /\ \A p \in Paths : \/ to[p] = from[p]
                               \/ to[p] \in OwnFiles(d, Len(roots[d]) + 1)
<1> DEFINE own == <<d, Len(roots[d]) + 1>>
<1>1. own \in OwnFiles(d, Len(roots[d]) + 1) /\ NoFile \in OwnFiles(d, Len(roots[d]) + 1)
  BY DEF OwnFiles
<1>2. to = [from EXCEPT ![q] = own] \/ to = [from EXCEPT ![q] = NoFile]
  BY DEF Edits
<1> HIDE DEF own
<1> QED BY <1>1, <1>2

-----------------------------------------------------------------------------
LEMMA InitEstablishesInvariant == Init => IInv
<1> SUFFICES ASSUME Init PROVE IInv
  OBVIOUS
<1>1. roots \in [Devices -> Seq(Root)] /\ \A d \in Devices : roots[d] = <<>>
  BY DEF Init
<1>2. rec \in [Devices -> [Devices -> 0..MaxSeq]]
  BY ContentsAssumption DEF Init
<1>3. /\ DOMAIN tree = Mounts /\ DOMAIN base = Mounts
      /\ \A d \in Mounts : DOMAIN tree[d] = Paths /\ tree[d] = base[d]
  BY DEF Init, EmptyTree
<1>4. \A d \in Devices : Len(roots[d]) <= MaxSeq
  BY <1>1, ContentsAssumption
<1>5. MountsEditOwn
  BY <1>3 DEF MountsEditOwn
<1>6. NothingReauthored
  BY <1>1 DEF NothingReauthored
<1> QED BY <1>1, <1>2, <1>3, <1>4, <1>5, <1>6 DEF IInv

LEMMA ProviderEditKeepsInvariant ==
    ASSUME IInv, NEW d \in Devices, ProviderEdit(d)
    PROVE  IInv'
<1>1. PICK q \in Paths : \E to \in Edits(d, Shown(d), q) :
          to # Shown(d) /\ Contribute(d, Shown(d), to)
  BY DEF ProviderEdit
<1>2. PICK to \in Edits(d, Shown(d), q) : Contribute(d, Shown(d), to)
  BY <1>1
<1>3. PICK now \in 1..MaxClock : Publish(d, Shown(d), to, now)
  BY <1>2 DEF Contribute
<1>4. \A p \in Paths : \/ to[p] = Shown(d)[p]
                       \/ to[p] \in OwnFiles(d, Len(roots[d]) + 1)
  <2>1. DOMAIN Shown(d) = Paths /\ Len(roots[d]) \in Nat
    BY DEF Shown, IInv
  <2> QED BY <2>1, EditsAreOwn
<1>5. /\ roots' \in [Devices -> Seq(Root)]
      /\ rec' \in [Devices -> [Devices -> 0..MaxSeq]]
      /\ \A e \in Devices : Len(roots'[e]) <= MaxSeq
      /\ \A e \in Devices \ {d} : roots'[e] = roots[e]
      /\ NothingReauthored'
  BY <1>3, <1>4, PublishKeepsRoots
<1>6. d \notin Mounts /\ tree' = tree /\ base' = base /\ Mounts \subseteq Devices
  BY ContentsAssumption DEF ProviderEdit, Devices
<1> QED BY <1>5, <1>6 DEF IInv, MountsEditOwn

LEMMA MountEditKeepsInvariant ==
    ASSUME IInv, NEW d \in Devices, MountEdit(d)
    PROVE  IInv'
<1>1. PICK q \in Paths : \E to \in Edits(d, tree[d], q) :
          to # tree[d] /\ tree' = [tree EXCEPT ![d] = to]
  BY DEF MountEdit
<1>2. PICK to \in Edits(d, tree[d], q) : tree' = [tree EXCEPT ![d] = to]
  BY <1>1
<1>3. d \in Mounts /\ UNCHANGED <<roots, rec, base>>
  BY DEF MountEdit
<1>4. /\ DOMAIN to = Paths
      /\ \A p \in Paths : \/ to[p] = tree[d][p]
                          \/ to[p] \in OwnFiles(d, Len(roots[d]) + 1)
  <2>1. DOMAIN tree[d] = Paths /\ Len(roots[d]) \in Nat
    BY <1>3 DEF IInv
  <2> QED BY <2>1, EditsAreOwn
<1>5. /\ DOMAIN tree' = Mounts /\ tree'[d] = to
      /\ \A e \in Mounts \ {d} : tree'[e] = tree[e]
  BY <1>2, <1>3 DEF IInv
<1>6. MountsEditOwn'
  BY <1>3, <1>4, <1>5 DEF IInv, MountsEditOwn
<1> QED BY <1>3, <1>4, <1>5, <1>6 DEF IInv, NothingReauthored

LEMMA MountImportKeepsInvariant ==
    ASSUME IInv, NEW d \in Devices, MountImport(d)
    PROVE  IInv'
<1>1. PICK now \in 1..MaxClock : Publish(d, base[d], tree[d], now)
  BY DEF MountImport, Contribute
<1>2. d \in Mounts /\ tree' = tree /\ base' = [base EXCEPT ![d] = tree[d]]
  BY DEF MountImport
<1>3. /\ roots' \in [Devices -> Seq(Root)]
      /\ rec' \in [Devices -> [Devices -> 0..MaxSeq]]
      /\ \A e \in Devices : Len(roots'[e]) <= MaxSeq
      /\ \A e \in Devices \ {d} : roots'[e] = roots[e]
      /\ NothingReauthored'
  BY <1>1, <1>2, PublishKeepsRoots DEF IInv, MountsEditOwn
<1>4. /\ DOMAIN base' = Mounts /\ base'[d] = tree[d]
      /\ \A e \in Mounts \ {d} : base'[e] = base[e]
  BY <1>2 DEF IInv
<1>5. MountsEditOwn'
  BY <1>2, <1>3, <1>4, ContentsAssumption DEF IInv, MountsEditOwn, Devices
<1> QED BY <1>2, <1>3, <1>4, <1>5 DEF IInv

LEMMA MountRefreshKeepsInvariant ==
    ASSUME IInv, NEW d \in Devices, MountRefresh(d)
    PROVE  IInv'
<1>1. /\ d \in Mounts /\ UNCHANGED <<roots, rec>>
      /\ tree' = [tree EXCEPT ![d] = Shown(d)] /\ base' = [base EXCEPT ![d] = Shown(d)]
  BY DEF MountRefresh
<1>2. DOMAIN Shown(d) = Paths
  BY DEF Shown
<1>3. /\ DOMAIN tree' = Mounts /\ DOMAIN base' = Mounts
      /\ tree'[d] = Shown(d) /\ base'[d] = Shown(d)
      /\ \A e \in Mounts \ {d} : tree'[e] = tree[e] /\ base'[e] = base[e]
  BY <1>1 DEF IInv
<1>4. MountsEditOwn'
  BY <1>1, <1>3 DEF IInv, MountsEditOwn
<1> QED BY <1>1, <1>2, <1>3, <1>4 DEF IInv, NothingReauthored

LEMMA LearnKeepsInvariant ==
    ASSUME IInv, NEW d \in Devices, NEW o \in Devices, Learn(d, o)
    PROVE  IInv'
<1>1. PICK seq \in (rec[d][o] + 1)..Len(roots[o]) : rec' = [rec EXCEPT ![d][o] = seq]
  BY DEF Learn
<1>2. seq \in 0..MaxSeq
  <2>1. rec[d][o] \in Nat /\ Len(roots[o]) \in Nat /\ Len(roots[o]) <= MaxSeq /\ MaxSeq \in Nat
    BY ContentsAssumption DEF IInv
  <2> QED BY <1>1, <2>1
<1>3. rec' \in [Devices -> [Devices -> 0..MaxSeq]]
  <2>1. [rec[d] EXCEPT ![o] = seq] \in [Devices -> 0..MaxSeq]
    BY <1>2 DEF IInv
  <2>2. rec' = [rec EXCEPT ![d] = [rec[d] EXCEPT ![o] = seq]]
    BY <1>1
  <2> QED BY <2>1, <2>2 DEF IInv
<1>4. UNCHANGED <<roots, tree, base>>
  BY DEF Learn
<1> QED BY <1>3, <1>4 DEF IInv, MountsEditOwn, NothingReauthored

LEMMA NextKeepsInvariant == IInv /\ [Next]_vars => IInv'
<1> SUFFICES ASSUME IInv, [Next]_vars PROVE IInv'
  OBVIOUS
<1>1. ASSUME NEW d \in Devices, ProviderEdit(d) PROVE IInv'
  BY <1>1, ProviderEditKeepsInvariant
<1>2. ASSUME NEW d \in Devices, MountEdit(d) PROVE IInv'
  BY <1>2, MountEditKeepsInvariant
<1>3. ASSUME NEW d \in Devices, MountImport(d) PROVE IInv'
  BY <1>3, MountImportKeepsInvariant
<1>4. ASSUME NEW d \in Devices, MountRefresh(d) PROVE IInv'
  BY <1>4, MountRefreshKeepsInvariant
<1>5. ASSUME NEW d \in Devices, NEW o \in Devices, Learn(d, o) PROVE IInv'
  BY <1>5, LearnKeepsInvariant
<1>6. CASE UNCHANGED vars
  BY <1>6 DEF vars, IInv, MountsEditOwn, NothingReauthored
<1> QED BY <1>1, <1>2, <1>3, <1>4, <1>5, <1>6 DEF Next

(* A device's roots hold only files saved on that device: no import, of a    *)
(* tree however stale and on a merge whatever it shows, publishes another    *)
(* device's file as its own (local_visible_root_for_mount_import).           *)
THEOREM ImportsAreOwn == Spec => []NothingReauthored
<1>1. IInv => NothingReauthored
  BY DEF IInv
<1> QED BY <1>1, InitEstablishesInvariant, NextKeepsInvariant, PTL DEF Spec

-----------------------------------------------------------------------------
(* The fold of the merge. It is a recursion over the keys of the snapshots,  *)
(* so what it computes is shown in the least set of keys that could have it  *)
(* otherwise.                                                                *)

(* The two folds, of the writes and of the tombstones, and a step of each.   *)
OfWrites == "writes"
OfGraves == "graves"

Step(kind, s, acc) == IF kind = OfWrites THEN InsertWrite(acc, s) ELSE InsertGrave(acc, s)

Start(kind) == IF kind = OfWrites THEN [write |-> {}, sides |-> {}] ELSE {}

(* it[s] is what the fold makes of the snapshots of the keys in s.           *)
Folds(kind, snaps, keys, it) ==
    it = [s \in SUBSET keys |->
            IF s = {} THEN Start(kind)
            ELSE Step(kind, snaps[Max(s)], it[s \ {Max(s)}])]

LEMMA DevicesAreFinite ==
    /\ IsFiniteSet(Devices)
    /\ \A s \in SUBSET Devices : IsFiniteSet(s)
<1>1. IsFiniteSet(Devices)
  BY ContentsAssumption, FS_Interval DEF Devices
<1> QED BY <1>1, FS_Subset

(* A non-empty set of numbers has a least element.                           *)
LEMMA Least ==
    ASSUME NEW T \in SUBSET Nat, T # {}
    PROVE  \E n \in T : \A m \in T : n <= m
<1> DEFINE R == OpToRel(<, Nat)
<1>1. IsWellFoundedOn(R, Nat)
  BY NatLessThanWellFounded
<1>2. PICK n \in T : \A m \in T : <<m, n>> \notin R
  <2> HIDE DEF R
  <2> QED BY <1>1, WFMin
<1>3. \A m \in T : ~(m < n)
  BY <1>2 DEF OpToRel
<1> QED BY <1>3

(* Among some sets of devices there is one that no other becomes by losing a *)
(* member.                                                                   *)
LEMMA LeastSet ==
    ASSUME NEW bad \in SUBSET (SUBSET Devices), bad # {}
    PROVE  \E s \in bad : \A o \in s : s \ {o} \notin bad
<1> DEFINE sizes == {Cardinality(s) : s \in bad}
<1>1. sizes \in SUBSET Nat /\ sizes # {}
  BY DevicesAreFinite, FS_CardinalityType
<1>2. PICK n \in sizes : \A m \in sizes : n <= m
  <2> HIDE DEF sizes
  <2> QED BY <1>1, Least
<1>3. PICK s \in bad : n = Cardinality(s)
  OBVIOUS
<1>4. ASSUME NEW o \in s PROVE s \ {o} \notin bad
  <2>1. IsFiniteSet(s)
    BY DevicesAreFinite
  <2>2. Cardinality(s \ {o}) = n - 1 /\ n \in Nat
    BY <1>3, <2>1, FS_RemoveElement, FS_CardinalityType
  <2> QED BY <1>2, <2>2
<1> QED BY <1>4

LEMMA MaxIsGreatest ==
    ASSUME NEW s \in SUBSET Devices, s # {}
    PROVE  Max(s) \in s /\ \A o \in s : Max(s) >= o
<1> DEFINE T == {N - o : o \in s}
<1>1. N \in Nat /\ \A o \in s : o \in 1..N
  BY ContentsAssumption DEF Devices
<1>2. T \in SUBSET Nat /\ T # {}
  BY <1>1
<1>3. PICK n \in T : \A m \in T : n <= m
  <2> HIDE DEF T
  <2> QED BY <1>2, Least
<1>4. PICK x \in s : n = N - x
  OBVIOUS
<1>5. \A o \in s : N - x <= N - o
  BY <1>3, <1>4
<1>6. \A o \in s : x >= o
  BY <1>1, <1>5
<1> QED BY <1>6 DEF Max

LEMMA FoldExists ==
    ASSUME NEW kind, NEW snaps, NEW keys \in SUBSET Devices
    PROVE  \E it : Folds(kind, snaps, keys, it)
<1> DEFINE bad == {s \in SUBSET Devices : ~\E it : Folds(kind, snaps, s, it)}
<1> SUFFICES ASSUME bad # {} PROVE FALSE
  OBVIOUS
<1>1. PICK s \in bad : \A o \in s : s \ {o} \notin bad
  <2>1. bad \in SUBSET (SUBSET Devices)
    OBVIOUS
  <2> HIDE DEF bad
  <2> QED BY <2>1, LeastSet
<1>2. s \in SUBSET Devices /\ ~\E it : Folds(kind, snaps, s, it)
  OBVIOUS
<1>3. CASE s = {}
  <2> DEFINE it == [t \in {{}} |-> Start(kind)]
  <2>1. SUBSET s = {{}}
    BY <1>3
  <2>2. Folds(kind, snaps, s, it)
    BY <2>1 DEF Folds
  <2> QED BY <1>2, <2>2
<1>4. CASE s # {}
  <2> DEFINE x == Max(s)
  <2>0. \A o \in s : o \in Nat
    BY <1>2, ContentsAssumption DEF Devices
  <2>1. x \in s /\ \A o \in s : x >= o
    BY <1>2, <1>4, MaxIsGreatest
  <2>2. PICK part : Folds(kind, snaps, s \ {x}, part)
    BY <1>1, <1>2, <2>1
  <2> DEFINE it == [t \in SUBSET s |-> IF x \in t THEN Step(kind, snaps[x], part[t \ {x}])
                                       ELSE part[t]]
  <2>3. ASSUME NEW t \in SUBSET s
        PROVE  it[t] = IF t = {} THEN Start(kind)
                       ELSE Step(kind, snaps[Max(t)], it[t \ {Max(t)}])
    <3>1. CASE t = {}
      <4>1. t \in SUBSET (s \ {x})
        BY <3>1
      <4> QED BY <2>2, <3>1, <4>1 DEF Folds
    <3>2. CASE t # {} /\ x \notin t
      <4>1. t \in SUBSET (s \ {x}) /\ t \ {Max(t)} \in SUBSET (s \ {x})
        BY <3>2
      <4>2. part[t] = Step(kind, snaps[Max(t)], part[t \ {Max(t)}])
        BY <2>2, <3>2, <4>1 DEF Folds
      <4> QED BY <3>2, <4>1, <4>2
    <3>3. CASE x \in t
      <4>1. Max(t) \in t /\ \A o \in t : Max(t) >= o
        BY <1>2, <3>3, MaxIsGreatest
      <4>2. x \in Nat /\ Max(t) \in Nat
        BY <2>0, <2>1, <4>1
      <4>3. Max(t) >= x /\ x >= Max(t)
        BY <2>1, <3>3, <4>1
      <4>4. Max(t) = x
        BY <4>2, <4>3
      <4>5. t \ {x} \in SUBSET s /\ x \notin t \ {x}
        OBVIOUS
      <4>6. it[t \ {x}] = part[t \ {x}]
        BY <4>5
      <4> QED BY <3>3, <4>4, <4>6
    <3> QED BY <3>1, <3>2, <3>3
  <2>4. DOMAIN it = SUBSET s
    OBVIOUS
  <2>5. Folds(kind, snaps, s, it)
    <3> HIDE DEF x
    <3>1. it = [t \in SUBSET s |-> it[t]]
      OBVIOUS
    <3> HIDE DEF it
    <3> QED BY <2>3, <3>1 DEF Folds
  <2> QED BY <1>2, <2>5
<1> QED BY <1>3, <1>4

(* The two folds of Merge, over the keys that count: it[s] is what the last  *)
(* of the keys in s makes of what the others have made.                      *)
Having(snaps) == {o \in DOMAIN snaps : snaps[o].file # NoFile}
Buried(snaps) == {o \in DOMAIN snaps : snaps[o].grave > 0}

WriteSteps(snaps, keys, it) ==
    /\ it[{}] = [write |-> {}, sides |-> {}]
    /\ \A s \in SUBSET keys :
          s # {} => \E x \in s : it[s] = InsertWrite(it[s \ {x}], snaps[x])

GraveSteps(snaps, keys, it) ==
    /\ it[{}] = {}
    /\ \A s \in SUBSET keys :
          s # {} => \E x \in s : it[s] = InsertGrave(it[s \ {x}], snaps[x])

LEMMA WritesFold ==
    ASSUME NEW snaps, Having(snaps) \in SUBSET Devices
    PROVE  \E it : WriteSteps(snaps, Having(snaps), it) /\ Writes(snaps) = it[Having(snaps)]
<1> DEFINE keys == Having(snaps)
           it == CHOOSE it : Folds(OfWrites, snaps, keys, it)
<1>1. Folds(OfWrites, snaps, keys, it)
  BY FoldExists
<1>2. OfWrites # OfGraves
  BY DEF OfWrites, OfGraves
<1>3. Writes(snaps) = it[keys]
  BY <1>2 DEF Writes, InKeyOrder, MapThenFoldSet, Folds, Step, Start, Having
<1> HIDE DEF keys, it
<1>4. {} \in SUBSET keys /\ keys \in SUBSET Devices
  BY DEF keys
<1>5. it[{}] = Start(OfWrites)
  BY <1>1, <1>4 DEF Folds
<1>6. ASSUME NEW s \in SUBSET keys, s # {}
      PROVE  Max(s) \in s /\ it[s] = Step(OfWrites, snaps[Max(s)], it[s \ {Max(s)}])
  BY <1>1, <1>4, <1>6, MaxIsGreatest DEF Folds
<1>7. WriteSteps(snaps, keys, it)
  BY <1>2, <1>5, <1>6 DEF Start, Step, WriteSteps
<1> QED BY <1>3, <1>7 DEF keys

LEMMA GravesFold ==
    ASSUME NEW snaps, Buried(snaps) \in SUBSET Devices
    PROVE  \E it : GraveSteps(snaps, Buried(snaps), it) /\ Graves(snaps) = it[Buried(snaps)]
<1> DEFINE keys == Buried(snaps)
           it == CHOOSE it : Folds(OfGraves, snaps, keys, it)
<1>1. Folds(OfGraves, snaps, keys, it)
  BY FoldExists
<1>2. OfWrites # OfGraves
  BY DEF OfWrites, OfGraves
<1>3. Graves(snaps) = it[keys]
  BY <1>2 DEF Graves, InKeyOrder, MapThenFoldSet, Folds, Step, Start, Buried
<1> HIDE DEF keys, it
<1>4. {} \in SUBSET keys /\ keys \in SUBSET Devices
  BY DEF keys
<1>5. it[{}] = Start(OfGraves)
  BY <1>1, <1>4 DEF Folds
<1>6. ASSUME NEW s \in SUBSET keys, s # {}
      PROVE  Max(s) \in s /\ it[s] = Step(OfGraves, snaps[Max(s)], it[s \ {Max(s)}])
  BY <1>1, <1>4, <1>6, MaxIsGreatest DEF Folds
<1>7. GraveSteps(snaps, keys, it)
  BY <1>2, <1>5, <1>6 DEF Start, Step, GraveSteps
<1> QED BY <1>3, <1>7 DEF keys

LEMMA FirstWrite ==
    ASSUME NEW s
    PROVE  InsertWrite([write |-> {}, sides |-> {}], s) = [write |-> {s}, sides |-> {}]
BY DEF InsertWrite

LEMMA NextWrite ==
    ASSUME NEW s, NEW e
    PROVE  InsertWrite([write |-> {e}, sides |-> {}], s) =
             [write |-> IF WriteWins(s, e) THEN {s} ELSE {e},
              sides |-> IF s.file # e.file /\ Concurrent(s, e) THEN {s, e} ELSE {}]
<1> DEFINE acc == [write |-> {e}, sides |-> {}]
<1>1. acc.write = {e} /\ acc.sides = {} /\ acc.write # {}
  OBVIOUS
<1>2. (CHOOSE x \in acc.write : TRUE) = e
  BY <1>1
<1> HIDE DEF acc
<1>3. InsertWrite(acc, s) =
        [write |-> IF WriteWins(s, e) THEN {s} ELSE {e},
         sides |-> IF s.file # e.file /\ Concurrent(s, e) THEN {s, e} ELSE {}]
  BY <1>1, <1>2 DEF InsertWrite
<1> QED BY <1>3 DEF acc

(* Snapshots of roots are by the keys they are listed under.                 *)
Keyed(snaps) == DOMAIN snaps \in SUBSET Devices /\ \A o \in DOMAIN snaps : snaps[o].by = o

LEMMA NoWrites ==
    ASSUME NEW snaps, Having(snaps) = {}
    PROVE  Writes(snaps) = [write |-> {}, sides |-> {}]
<1>1. PICK it : WriteSteps(snaps, {}, it) /\ Writes(snaps) = it[{}]
  <2>1. Having(snaps) \in SUBSET Devices
    OBVIOUS
  <2>2. PICK it : WriteSteps(snaps, Having(snaps), it) /\ Writes(snaps) = it[Having(snaps)]
    BY <2>1, WritesFold
  <2> QED BY <2>2
<1> QED BY <1>1 DEF WriteSteps

(* Of writes none of which are concurrent, the one that descends from the    *)
(* others is the one at the path, and there is no conflict.                  *)
LEMMA ChainOfWrites ==
    ASSUME NEW snaps, Keyed(snaps), NEW top \in Having(snaps),
           \A o \in Having(snaps) \ {top} : Descends(snaps[top], snaps[o]),
           \A o, e \in Having(snaps) : o # e => ~Concurrent(snaps[o], snaps[e])
    PROVE  Writes(snaps) = [write |-> {snaps[top]}, sides |-> {}]
<1> DEFINE keys == Having(snaps)
<1>1. keys \in SUBSET Devices /\ \A o \in keys : snaps[o].by = o
  BY DEF Keyed, Having
<1>2. PICK it : WriteSteps(snaps, keys, it) /\ Writes(snaps) = it[keys]
  BY <1>1, WritesFold
<1> HIDE DEF keys
<1>3. /\ it[{}] = [write |-> {}, sides |-> {}]
      /\ \A s \in SUBSET keys :
            s # {} => \E x \in s : it[s] = InsertWrite(it[s \ {x}], snaps[x])
  BY <1>2 DEF WriteSteps
<1> DEFINE Fine(s) ==
             \/ s = {} /\ it[s] = [write |-> {}, sides |-> {}]
             \/ \E o \in s : /\ it[s] = [write |-> {snaps[o]}, sides |-> {}]
                             /\ top \in s => o = top
           bad == {s \in SUBSET keys : ~Fine(s)}
<1>4. bad = {}
  <2> SUFFICES ASSUME bad # {} PROVE FALSE
    OBVIOUS
  <2>1. PICK s \in bad : \A o \in s : s \ {o} \notin bad
    <3>1. bad \in SUBSET (SUBSET Devices)
      BY <1>1
    <3> HIDE DEF bad
    <3> QED BY <3>1, LeastSet
  <2>2. s \in SUBSET keys /\ ~Fine(s)
    BY <2>1
  <2>3. s # {}
    BY <2>2, <1>3
  <2>4. PICK x \in s : it[s] = InsertWrite(it[s \ {x}], snaps[x])
    BY <1>3, <2>2, <2>3
  <2>5. Fine(s \ {x})
    BY <2>1, <2>2
  <2>6. CASE s \ {x} = {}
    <3>1. it[s \ {x}] = [write |-> {}, sides |-> {}]
      BY <2>5, <2>6
    <3>2. it[s] = [write |-> {snaps[x]}, sides |-> {}]
      BY <2>4, <3>1, FirstWrite
    <3> QED BY <2>2, <2>6, <3>2
  <2>7. CASE s \ {x} # {}
    <3>1. PICK o \in s \ {x} : /\ it[s \ {x}] = [write |-> {snaps[o]}, sides |-> {}]
                               /\ top \in s \ {x} => o = top
      BY <2>5, <2>7
    <3>2. o # x /\ o \in keys /\ x \in keys
      BY <2>2
    <3>3. ~Concurrent(snaps[x], snaps[o])
      BY <3>2 DEF keys
    <3>4. it[s] = [write |-> IF WriteWins(snaps[x], snaps[o]) THEN {snaps[x]} ELSE {snaps[o]},
                   sides |-> {}]
      BY <2>4, <3>1, <3>3, NextWrite
    <3>5. CASE top \notin s
      BY <2>2, <3>1, <3>4, <3>5
    <3>6. CASE top = x
      <4>1. WriteWins(snaps[x], snaps[o])
        BY <3>2, <3>6 DEF WriteWins, keys
      <4> QED BY <2>2, <3>4, <3>6, <4>1
    <3>7. CASE top \in s \ {x}
      <4>1. o = top
        BY <3>1, <3>7
      <4>2. Descends(snaps[o], snaps[x])
        BY <3>2, <4>1 DEF keys
      <4>3. ~SameRoot(snaps[x], snaps[o])
        BY <1>1, <3>2 DEF SameRoot
      <4>4. ~WriteWins(snaps[x], snaps[o])
        BY <3>3, <4>2, <4>3 DEF WriteWins, Descends
      <4> QED BY <2>2, <3>1, <3>4, <4>1, <4>4
    <3> QED BY <3>5, <3>6, <3>7
  <2> QED BY <2>6, <2>7
<1>5. Fine(keys)
  BY <1>4
<1> QED BY <1>2, <1>5 DEF keys

(* The tombstone the merge uses is one of a snapshot.                        *)
LEMMA GravesAreThere ==
    ASSUME NEW snaps, Keyed(snaps)
    PROVE  \A g \in Graves(snaps) : \E o \in Buried(snaps) : g = snaps[o]
<1> DEFINE keys == Buried(snaps)
<1>1. keys \in SUBSET Devices
  BY DEF Keyed, Buried
<1>2. PICK it : GraveSteps(snaps, keys, it) /\ Graves(snaps) = it[keys]
  BY <1>1, GravesFold
<1> HIDE DEF keys
<1>3. /\ it[{}] = {}
      /\ \A s \in SUBSET keys :
            s # {} => \E x \in s : it[s] = InsertGrave(it[s \ {x}], snaps[x])
  BY <1>2 DEF GraveSteps
<1> DEFINE Fine(s) == \A g \in it[s] : \E o \in s : g = snaps[o]
           bad == {s \in SUBSET keys : ~Fine(s)}
<1>4. bad = {}
  <2> SUFFICES ASSUME bad # {} PROVE FALSE
    OBVIOUS
  <2>1. PICK s \in bad : \A o \in s : s \ {o} \notin bad
    <3>1. bad \in SUBSET (SUBSET Devices)
      BY <1>1
    <3> HIDE DEF bad
    <3> QED BY <3>1, LeastSet
  <2>2. s \in SUBSET keys /\ ~Fine(s)
    BY <2>1
  <2>3. s # {}
    BY <2>2, <1>3
  <2>4. PICK x \in s : it[s] = InsertGrave(it[s \ {x}], snaps[x])
    BY <1>3, <2>2, <2>3
  <2>5. Fine(s \ {x})
    BY <2>1, <2>2
  <2> QED BY <2>2, <2>4, <2>5 DEF InsertGrave
<1> QED BY <1>2, <1>4 DEF keys

(* A tombstone of a root that descends from the others with one is the one   *)
(* the merge uses.                                                           *)
LEMMA ChainOfGraves ==
    ASSUME NEW snaps, Keyed(snaps), NEW top \in Buried(snaps),
           \A o \in Buried(snaps) \ {top} : Descends(snaps[top], snaps[o])
    PROVE  Graves(snaps) = {snaps[top]}
<1> DEFINE keys == Buried(snaps)
<1>1. keys \in SUBSET Devices /\ \A o \in keys : snaps[o].by = o
  BY DEF Keyed, Buried
<1>2. PICK it : GraveSteps(snaps, keys, it) /\ Graves(snaps) = it[keys]
  BY <1>1, GravesFold
<1> HIDE DEF keys
<1>3. /\ it[{}] = {}
      /\ \A s \in SUBSET keys :
            s # {} => \E x \in s : it[s] = InsertGrave(it[s \ {x}], snaps[x])
  BY <1>2 DEF GraveSteps
<1> DEFINE Fine(s) ==
             \/ s = {} /\ it[s] = {}
             \/ \E o \in s : it[s] = {snaps[o]} /\ (top \in s => o = top)
           bad == {s \in SUBSET keys : ~Fine(s)}
<1>4. bad = {}
  <2> SUFFICES ASSUME bad # {} PROVE FALSE
    OBVIOUS
  <2>1. PICK s \in bad : \A o \in s : s \ {o} \notin bad
    <3>1. bad \in SUBSET (SUBSET Devices)
      BY <1>1
    <3> HIDE DEF bad
    <3> QED BY <3>1, LeastSet
  <2>2. s \in SUBSET keys /\ ~Fine(s)
    BY <2>1
  <2>3. s # {}
    BY <2>2, <1>3
  <2>4. PICK x \in s : it[s] = InsertGrave(it[s \ {x}], snaps[x])
    BY <1>3, <2>2, <2>3
  <2>5. Fine(s \ {x})
    BY <2>1, <2>2
  <2>6. CASE s \ {x} = {}
    <3>1. it[s] = {snaps[x]}
      BY <2>4, <2>5, <2>6 DEF InsertGrave
    <3> QED BY <2>2, <2>6, <3>1
  <2>7. CASE s \ {x} # {}
    <3>1. PICK o \in s \ {x} : /\ it[s \ {x}] = {snaps[o]}
                               /\ top \in s \ {x} => o = top
      BY <2>5, <2>7
    <3>2. o # x /\ o \in keys /\ x \in keys
      BY <2>2
    <3>3. it[s] = IF GraveWins(snaps[x], snaps[o]) THEN {snaps[x]} ELSE {snaps[o]}
      BY <2>4, <3>1 DEF InsertGrave
    <3>4. CASE top \notin s
      BY <2>2, <3>1, <3>3, <3>4
    <3>5. CASE top = x
      <4>1. GraveWins(snaps[x], snaps[o])
        BY <3>2, <3>5 DEF GraveWins, keys
      <4> QED BY <2>2, <3>3, <3>5, <4>1
    <3>6. CASE top \in s \ {x}
      <4>1. o = top
        BY <3>1, <3>6
      <4>2. Descends(snaps[o], snaps[x])
        BY <3>2, <4>1 DEF keys
      <4>3. ~SameRoot(snaps[x], snaps[o])
        BY <1>1, <3>2 DEF SameRoot
      <4>4. ~GraveWins(snaps[x], snaps[o])
        BY <4>2, <4>3 DEF GraveWins, Descends, Concurrent
      <4> QED BY <2>2, <3>1, <3>3, <4>1, <4>4
    <3> QED BY <3>4, <3>5, <3>6
  <2> QED BY <2>6, <2>7
<1>5. Fine(keys)
  BY <1>4
<1> QED BY <1>2, <1>5 DEF keys

(* Two concurrent writes: the newer is at the path, and if they differ both  *)
(* sides are recorded.                                                       *)
LEMMA TwoWrites ==
    ASSUME NEW snaps, Keyed(snaps), NEW o \in Devices, NEW e \in Devices, o # e,
           Having(snaps) = {o, e}, Concurrent(snaps[o], snaps[e]),
           snaps[o].at \in Nat, snaps[e].at \in Nat
    PROVE  \E w, l \in {o, e} :
              /\ w # l /\ snaps[w].at >= snaps[l].at
              /\ Writes(snaps) = [write |-> {snaps[w]},
                                  sides |-> IF snaps[o].file # snaps[e].file
                                            THEN {snaps[o], snaps[e]} ELSE {}]
<1>1. snaps[o].by = o /\ snaps[e].by = e /\ o \in Nat /\ e \in Nat
  BY ContentsAssumption DEF Keyed, Having, Devices
<1> DEFINE keys == {o, e}
<1>2. PICK it : WriteSteps(snaps, keys, it) /\ Writes(snaps) = it[keys]
  BY WritesFold
<1>3. keys \in SUBSET Devices
  OBVIOUS
<1> HIDE DEF keys
<1>4. /\ it[{}] = [write |-> {}, sides |-> {}]
      /\ \A s \in SUBSET keys :
            s # {} => \E x \in s : it[s] = InsertWrite(it[s \ {x}], snaps[x])
  BY <1>2 DEF WriteSteps
<1>5. PICK x \in keys : it[keys] = InsertWrite(it[keys \ {x}], snaps[x])
  BY <1>4 DEF keys
<1>6. PICK y \in keys : y # x /\ keys \ {x} = {y}
  BY DEF keys
<1>7. it[{y}] = [write |-> {snaps[y]}, sides |-> {}]
  <2>1. PICK z \in {y} : it[{y}] = InsertWrite(it[{y} \ {z}], snaps[z])
    BY <1>4
  <2>2. z = y /\ {y} \ {z} = {}
    OBVIOUS
  <2> QED BY <1>4, <2>1, <2>2, FirstWrite
<1>8. {snaps[x], snaps[y]} = {snaps[o], snaps[e]}
  BY <1>6 DEF keys
<1>9. /\ Concurrent(snaps[x], snaps[y])
      /\ snaps[x].file # snaps[y].file <=> snaps[o].file # snaps[e].file
  BY <1>6 DEF Concurrent, SameRoot, keys
<1>10. it[keys] = [write |-> IF WriteWins(snaps[x], snaps[y]) THEN {snaps[x]} ELSE {snaps[y]},
                   sides |-> IF snaps[o].file # snaps[e].file
                             THEN {snaps[o], snaps[e]} ELSE {}]
  <2>1. it[keys] = InsertWrite([write |-> {snaps[y]}, sides |-> {}], snaps[x])
    BY <1>5, <1>6, <1>7
  <2> QED BY <1>8, <1>9, <2>1, NextWrite
<1>11. snaps[x].at \in Nat /\ snaps[y].at \in Nat
  BY DEF keys
<1>12. CASE WriteWins(snaps[x], snaps[y])
  <2>1. snaps[x].at >= snaps[y].at
    BY <1>1, <1>6, <1>9, <1>11, <1>12 DEF WriteWins, Descends, Concurrent, Newer, SameRoot, keys
  <2> QED BY <1>2, <1>6, <1>10, <1>12, <2>1 DEF keys
<1>13. CASE ~WriteWins(snaps[x], snaps[y])
  <2>1. ~Newer(snaps[x].at, snaps[x].by, snaps[y].at, snaps[y].by)
    BY <1>9, <1>13 DEF WriteWins
  <2>2. snaps[y].at >= snaps[x].at
    BY <1>11, <2>1 DEF Newer
  <2> QED BY <1>2, <1>6, <1>10, <1>13, <2>2 DEF keys
<1> QED BY <1>12, <1>13

-----------------------------------------------------------------------------
(* What the merge shows then                                                 *)

LEMMA PlainMerge ==
    ASSUME NEW snaps, NEW w, Writes(snaps) = [write |-> {w}, sides |-> {}],
           \A g \in Graves(snaps) : ~Suppresses(g, w)
    PROVE  Merged(snaps).file = w.file
BY DEF Merged

LEMMA EmptyMerge ==
    ASSUME NEW snaps, Writes(snaps).write = {}
    PROVE  Merged(snaps).file = NoFile
BY DEF Merged

LEMMA HiddenMerge ==
    ASSUME NEW snaps, NEW w, Writes(snaps).write = {w},
           NEW g, Graves(snaps) = {g}, Suppresses(g, w)
    PROVE  Merged(snaps).file = NoFile
BY DEF Merged

-----------------------------------------------------------------------------
(* The histories of the devices                                              *)

Records ==
    \A d, o \in Devices : rec[d][d] = Len(roots[d]) /\ rec[d][o] <= Len(roots[o])

(* A root observes only roots there are, and none that observed it.          *)
Acyclic ==
    \A d \in Devices : \A i \in 1..Len(roots[d]) : \A o \in Devices \ {d} :
        /\ roots[d][i].observed[o] <= Len(roots[o])
        /\ \A j \in 1..Len(roots[o]) :
              roots[d][i].observed[o] >= j => roots[o][j].observed[d] < i

(* A root's tombstones are older than the root but for those of the paths it *)
(* deletes itself.                                                           *)
GravesAreDated ==
    \A d \in Devices : \A i \in 1..Len(roots[d]) : \A p \in Paths :
        /\ roots[d][i].graves[p] <= roots[d][i].at
        /\ roots[d][i].graves[p] = roots[d][i].at => roots[d][i].files[p] = NoFile

SavedIsLatest ==
    \A d \in Devices : \A p \in DOMAIN saved[d] :
        /\ p \in Paths
        /\ roots[d] # <<>>
        /\ Previous(d).files[p] = saved[d][p]
        /\ saved[d][p] = NoFile => Previous(d).graves[p] > 0

(* While nobody but e has changed a path, no other device's roots have       *)
(* anything there, and e's mount holds what e saved last.                    *)
Untouched(o, p) ==
    \A i \in 1..Len(roots[o]) :
        roots[o][i].files[p] = NoFile /\ roots[o][i].graves[p] = 0

Alone(e, p) ==
    /\ \A o \in Devices \ {e} : Untouched(o, p)
    /\ Previous(e).files[p] = final[p].file
    /\ e \in Mounts => base[e][p] = final[p].file

OneWriter ==
    \A p \in Paths :
        /\ final[p].by \subseteq Devices
        /\ \A e \in Devices : final[p].by \subseteq {e} => Alone(e, p)

(* While devices take turns, of any two the one that published last has      *)
(* observed the other.                                                       *)
InTurn ==
    turns => \A d, o \in Devices :
        d # o /\ roots[d] # <<>> /\ roots[o] # <<>> =>
            \/ Previous(d).observed[o] = Len(roots[o])
            \/ Previous(o).observed[d] = Len(roots[d])

(* ... and while nothing is deleted the latest change of a path is in a root *)
(* that has observed every other with a file there.                          *)
NothingDeleted ==
    \A d \in Devices : \A i \in 1..Len(roots[d]) : roots[d][i].graves = NoRoot.graves

LatestAt(e, p) ==
    /\ Previous(e).files[p] = final[p].file
    /\ \A o \in Devices \ {e} :
          Previous(o).files[p] # NoFile => Previous(e).observed[o] = Len(roots[o])

LatestChange ==
    turns /\ NothingDeleted => \A p \in Paths :
        IF final[p].file = NoFile
        THEN \A d \in Devices : Previous(d).files[p] = NoFile
        ELSE \E e \in Devices : LatestAt(e, p)

HistInv ==
    /\ IInv
    /\ DOMAIN saved = Devices /\ DOMAIN final = Paths
    /\ Records
    /\ Acyclic
    /\ GravesAreDated
    /\ SavedIsLatest
    /\ OneWriter
    /\ InTurn
    /\ LatestChange

-----------------------------------------------------------------------------
(* What a device shows, from the histories                                   *)

(* s is the snapshot of o's root i at p.                                     *)
IsSnapshot(s, o, i, p) ==
    /\ s.by = o
    /\ s.seq = i
    /\ s.at = roots[o][i].at
    /\ s.observed = roots[o][i].observed
    /\ s.file = roots[o][i].files[p]
    /\ s.grave = roots[o][i].graves[p]

LEMMA SnapshotFields ==
    ASSUME NEW by, NEW seq, NEW at, NEW observed, NEW file, NEW grave
    PROVE  LET s == Snapshot(by, seq, at, observed, file, grave)
           IN  /\ s.by = by /\ s.seq = seq /\ s.at = at /\ s.observed = observed
               /\ s.file = file /\ s.grave = grave
BY DEF Snapshot

LEMMA SnapshotsOf ==
    ASSUME IInv, Records, NEW d \in Devices, NEW p \in Paths
    PROVE  /\ DOMAIN Snapshots(d, p) = {o \in Devices : rec[d][o] > 0}
           /\ Keyed(Snapshots(d, p))
           /\ \A o \in DOMAIN Snapshots(d, p) :
                 /\ rec[d][o] \in 1..Len(roots[o])
                 /\ IsSnapshot(Snapshots(d, p)[o], o, rec[d][o], p)
<1> DEFINE snaps == Snapshots(d, p)
<1>1. DOMAIN snaps = {o \in Devices : rec[d][o] > 0}
  BY DEF Snapshots
<1>2. \A o \in Devices : rec[d][o] \in Nat /\ Len(roots[o]) \in Nat /\ rec[d][o] <= Len(roots[o])
  BY ContentsAssumption DEF IInv, Records
<1>3. \A o \in DOMAIN snaps : rec[d][o] \in 1..Len(roots[o])
  BY <1>1, <1>2
<1>4. ASSUME NEW o \in DOMAIN snaps
      PROVE  snaps[o] = SnapshotAt(o, rec[d][o], p)
  BY DEF Snapshots
<1> HIDE DEF snaps
<1>5. ASSUME NEW o \in DOMAIN snaps
      PROVE  IsSnapshot(snaps[o], o, rec[d][o], p)
  BY <1>4, SnapshotFields DEF SnapshotAt, IsSnapshot
<1>6. Keyed(snaps)
  BY <1>1, <1>5 DEF Keyed, IsSnapshot
<1> QED BY <1>1, <1>3, <1>5, <1>6 DEF snaps

LEMMA RootFacts ==
    ASSUME IInv, NEW o \in Devices, NEW i \in 1..Len(roots[o])
    PROVE  /\ roots[o][i] \in Root
           /\ roots[o][i].at \in Nat
           /\ \A e \in Devices : roots[o][i].observed[e] \in Nat
           /\ \A p \in Paths : roots[o][i].graves[p] \in Nat
<1>1. roots[o][i] \in Root
  BY DEF IInv
<1>2. /\ roots[o][i].at \in 0..MaxClock
      /\ roots[o][i].observed \in [Devices -> 0..MaxSeq]
      /\ roots[o][i].graves \in [Paths -> 0..MaxClock]
  BY <1>1 DEF Root
<1>3. 0..MaxClock \subseteq Nat /\ 0..MaxSeq \subseteq Nat
  BY ContentsAssumption
<1> QED BY <1>1, <1>2, <1>3

LEMMA LatestRoot ==
    ASSUME IInv, NEW e \in Devices
    PROVE  /\ Len(roots[e]) \in Nat
           /\ roots[e] = <<>> <=> Len(roots[e]) = 0
           /\ Len(roots[e]) = 0 => \A p \in Paths : Previous(e).files[p] = NoFile
           /\ Len(roots[e]) > 0 => Previous(e) = roots[e][Len(roots[e])]
<1>1. roots[e] \in Seq(Root)
  BY DEF IInv
<1>2. Len(roots[e]) \in Nat /\ (roots[e] = <<>> <=> Len(roots[e]) = 0)
  BY <1>1
<1> QED BY <1>2 DEF Previous, NoRoot, EmptyTree

(* A root that observed another comes after it.                              *)
LEMMA SeenDescends ==
    ASSUME IInv, Records, Acyclic, NEW d \in Devices, NEW p \in Paths,
           NEW o \in DOMAIN Snapshots(d, p), NEW e \in DOMAIN Snapshots(d, p), o # e,
           roots[o][rec[d][o]].observed[e] >= rec[d][e]
    PROVE  /\ Descends(Snapshots(d, p)[o], Snapshots(d, p)[e])
           /\ ~Concurrent(Snapshots(d, p)[o], Snapshots(d, p)[e])
           /\ ~Concurrent(Snapshots(d, p)[e], Snapshots(d, p)[o])
<1> DEFINE r == Snapshots(d, p)[o]
           s == Snapshots(d, p)[e]
<1>0. /\ o \in Devices /\ e \in Devices
      /\ rec[d][o] \in 1..Len(roots[o]) /\ rec[d][e] \in 1..Len(roots[e])
      /\ IsSnapshot(r, o, rec[d][o], p) /\ IsSnapshot(s, e, rec[d][e], p)
  BY SnapshotsOf
<1>1. /\ r.by = o /\ r.seq = rec[d][o] /\ r.observed = roots[o][rec[d][o]].observed
      /\ s.by = e /\ s.seq = rec[d][e] /\ s.observed = roots[e][rec[d][e]].observed
  BY <1>0 DEF IsSnapshot
<1>2. roots[e][rec[d][e]].observed[o] < rec[d][o]
  BY <1>0 DEF Acyclic
<1>3. roots[e][rec[d][e]].observed[o] \in Nat /\ rec[d][o] \in Nat
  BY <1>0, RootFacts
<1> HIDE DEF r, s
<1>4. Observes(r, s) /\ ~Observes(s, r)
  BY <1>1, <1>2, <1>3 DEF Observes
<1>5. Descends(r, s) /\ ~Concurrent(r, s) /\ ~Concurrent(s, r)
  BY <1>4 DEF Descends, Concurrent
<1> QED BY <1>5 DEF r, s

(* A device that has the latest root of a path's only writer shows its file. *)
LEMMA AloneIsShown ==
    ASSUME IInv, Records, NEW d \in Devices, NEW e \in Devices, NEW p \in Paths,
           rec[d][e] = Len(roots[e]), \A o \in Devices \ {e} : Untouched(o, p)
    PROVE  Shown(d)[p] = Previous(e).files[p]
<1> DEFINE snaps == Snapshots(d, p)
<1>0. /\ DOMAIN snaps = {o \in Devices : rec[d][o] > 0}
      /\ Keyed(snaps)
      /\ \A o \in DOMAIN snaps : /\ rec[d][o] \in 1..Len(roots[o])
                                /\ IsSnapshot(snaps[o], o, rec[d][o], p)
  BY SnapshotsOf
<1>1. /\ DOMAIN snaps = {o \in Devices : rec[d][o] > 0}
      /\ Keyed(snaps)
      /\ \A o \in DOMAIN snaps : /\ rec[d][o] \in 1..Len(roots[o])
                                /\ snaps[o].by = o
                                /\ snaps[o].file = roots[o][rec[d][o]].files[p]
                                /\ snaps[o].grave = roots[o][rec[d][o]].graves[p]
  BY <1>0 DEF IsSnapshot
<1>2. Shown(d)[p] = Merged(snaps).file
  BY DEF Shown
<1> HIDE DEF snaps
<1>3. \A o \in DOMAIN snaps : o # e => snaps[o].file = NoFile /\ snaps[o].grave = 0
  BY <1>1 DEF Untouched
<1>4. Having(snaps) \subseteq {e} /\ Buried(snaps) \subseteq {e}
  BY <1>3 DEF Having, Buried
<1>5. CASE e \in Having(snaps)
  <2>1. Having(snaps) = {e}
    BY <1>4, <1>5
  <2>2. Writes(snaps) = [write |-> {snaps[e]}, sides |-> {}]
    BY <1>1, <2>1, ChainOfWrites
  <2>3. \A g \in Graves(snaps) : ~Suppresses(g, snaps[e])
    BY <1>1, <1>4, GravesAreThere DEF Suppresses, SameRoot
  <2>4. Merged(snaps).file = snaps[e].file
    BY <2>2, <2>3, PlainMerge
  <2>5. rec[d][e] > 0 /\ snaps[e].file = roots[e][rec[d][e]].files[p]
    BY <1>1, <1>5 DEF Having
  <2> QED BY <1>2, <2>4, <2>5, LatestRoot
<1>6. CASE e \notin Having(snaps)
  <2>1. Writes(snaps) = [write |-> {}, sides |-> {}]
    BY <1>4, <1>6, NoWrites
  <2>2. Merged(snaps).file = NoFile
    BY <2>1, EmptyMerge
  <2>3. rec[d][e] > 0 => roots[e][rec[d][e]].files[p] = NoFile
    BY <1>1, <1>6 DEF Having
  <2> QED BY <1>2, <2>2, <2>3, LatestRoot
<1> QED BY <1>5, <1>6

(* Of a device and one other, the file it saved is shown, or the lack of one,*)
(* unless a root of the other is on record that the save had not observed.   *)
LEMMA SavedIsShown ==
    ASSUME IInv, Records, Acyclic, SavedIsLatest, N <= 2, NEW d \in Devices,
           \A o \in Devices \ {d} : rec[d][o] <= Previous(d).observed[o],
           NEW p \in DOMAIN saved[d]
    PROVE  Shown(d)[p] = saved[d][p]
<1> DEFINE snaps == Snapshots(d, p)
<1>1. /\ p \in Paths /\ roots[d] # <<>> /\ Previous(d).files[p] = saved[d][p]
      /\ saved[d][p] = NoFile => Previous(d).graves[p] > 0
  BY DEF SavedIsLatest
<1>2. rec[d][d] = Len(roots[d]) /\ rec[d][d] > 0 /\ Previous(d) = roots[d][rec[d][d]]
  BY <1>1, LatestRoot DEF Records
<1>3. /\ DOMAIN snaps = {o \in Devices : rec[d][o] > 0}
      /\ Keyed(snaps)
      /\ snaps[d].by = d
      /\ snaps[d].file = saved[d][p]
      /\ snaps[d].grave = Previous(d).graves[p]
  <2>1. /\ DOMAIN snaps = {o \in Devices : rec[d][o] > 0} /\ Keyed(snaps)
        /\ \A o \in DOMAIN snaps : IsSnapshot(snaps[o], o, rec[d][o], p)
    BY <1>1, SnapshotsOf
  <2>2. d \in DOMAIN snaps
    BY <1>2, <2>1
  <2> HIDE DEF snaps
  <2> QED BY <1>1, <1>2, <2>1, <2>2 DEF IsSnapshot
<1>4. ASSUME NEW o \in DOMAIN snaps, o # d
      PROVE  /\ Descends(snaps[d], snaps[o])
             /\ ~Concurrent(snaps[d], snaps[o]) /\ ~Concurrent(snaps[o], snaps[d])
  <2>1. o \in Devices /\ d \in DOMAIN snaps /\ rec[d][d] \in 1..Len(roots[d])
    BY <1>2, <1>3, LatestRoot
  <2>2. roots[d][rec[d][d]].observed[o] \in Nat /\ rec[d][o] \in Nat
    BY <2>1, RootFacts, ContentsAssumption DEF IInv
  <2>3. roots[d][rec[d][d]].observed[o] >= rec[d][o]
    BY <1>2, <1>4, <2>1, <2>2
  <2> QED BY <1>1, <1>4, <2>1, <2>3, SeenDescends
<1>5. \A o, e \in DOMAIN snaps : o # e => o = d \/ e = d
  BY <1>3, ContentsAssumption DEF Devices
<1>6. Shown(d)[p] = Merged(snaps).file
  BY <1>1 DEF Shown
<1> HIDE DEF snaps
<1>7. Having(snaps) \subseteq DOMAIN snaps /\ Buried(snaps) \subseteq DOMAIN snaps
  BY DEF Having, Buried
<1>8. CASE saved[d][p] # NoFile
  <2>1. d \in Having(snaps)
    BY <1>2, <1>3, <1>8 DEF Having
  <2>2. Writes(snaps) = [write |-> {snaps[d]}, sides |-> {}]
    BY <1>3, <1>4, <1>5, <1>7, <2>1, ChainOfWrites
  <2>3. ASSUME NEW g \in Graves(snaps) PROVE ~Suppresses(g, snaps[d])
    <3>1. PICK o \in DOMAIN snaps : g = snaps[o]
      BY <1>3, <1>7, GravesAreThere
    <3>2. CASE o = d
      BY <3>1, <3>2 DEF Suppresses, SameRoot
    <3>3. CASE o # d
      BY <1>4, <3>1, <3>3 DEF Suppresses, Descends
    <3> QED BY <3>2, <3>3
  <2>4. Merged(snaps).file = snaps[d].file
    BY <2>2, <2>3, PlainMerge
  <2> QED BY <1>3, <1>6, <2>4
<1>9. CASE saved[d][p] = NoFile
  <2>1. d \in Buried(snaps) /\ d \notin Having(snaps)
    BY <1>1, <1>2, <1>3, <1>9 DEF Buried, Having
  <2>2. Graves(snaps) = {snaps[d]}
    BY <1>3, <1>4, <1>7, <2>1, ChainOfGraves
  <2>3. CASE Having(snaps) = {}
    <3>1. Writes(snaps).write = {}
      BY <2>3, NoWrites
    <3> QED BY <1>6, <1>9, <3>1, EmptyMerge
  <2>4. CASE Having(snaps) # {}
    <3>1. PICK o \in Having(snaps) : TRUE
      BY <2>4
    <3>2. o # d /\ o \in DOMAIN snaps /\ Having(snaps) = {o}
      BY <1>5, <1>7, <2>1, <3>1
    <3>3. Writes(snaps) = [write |-> {snaps[o]}, sides |-> {}]
      BY <1>3, <3>2, ChainOfWrites
    <3>4. Suppresses(snaps[d], snaps[o])
      <4>1. snaps[o].by = o
        BY <1>3, <3>2 DEF Keyed
      <4> QED BY <1>3, <1>4, <3>2, <4>1 DEF Suppresses, SameRoot
    <3> QED BY <1>6, <1>9, <2>2, <3>3, <3>4, HiddenMerge
  <2> QED BY <2>3, <2>4
<1> QED BY <1>8, <1>9

(* While devices take turns and delete nothing, an up-to-date device shows   *)
(* the latest change of a path.                                              *)
LEMMA LatestIsShown ==
    ASSUME IInv, Records, Acyclic, InTurn, LatestChange, turns, NothingDeleted,
           NEW d \in Devices, UpToDate(d), NEW p \in Paths
    PROVE  Shown(d)[p] = final[p].file
<1> DEFINE snaps == Snapshots(d, p)
<1>1. /\ DOMAIN snaps = {o \in Devices : rec[d][o] > 0}
      /\ Keyed(snaps)
      /\ \A o \in DOMAIN snaps : /\ rec[d][o] \in 1..Len(roots[o])
                                /\ IsSnapshot(snaps[o], o, rec[d][o], p)
  BY SnapshotsOf
<1>2. Shown(d)[p] = Merged(snaps).file
  BY DEF Shown
<1>3. ASSUME NEW o \in DOMAIN snaps, NEW e \in DOMAIN snaps, o # e,
             Previous(o).observed[e] = Len(roots[e])
      PROVE  /\ Descends(snaps[o], snaps[e])
             /\ ~Concurrent(snaps[o], snaps[e]) /\ ~Concurrent(snaps[e], snaps[o])
  <2>1. o \in Devices /\ e \in Devices /\ Len(roots[e]) \in Nat
    BY <1>1, LatestRoot
  <2>2. Previous(o) = roots[o][rec[d][o]] /\ rec[d][e] = Len(roots[e])
    BY <1>1, <2>1, LatestRoot DEF UpToDate
  <2>3. roots[o][rec[d][o]].observed[e] >= rec[d][e]
    BY <1>3, <2>1, <2>2
  <2> QED BY <1>3, <2>3, SeenDescends
<1> HIDE DEF snaps
<1>4. \A o \in DOMAIN snaps :
         /\ o \in Devices /\ roots[o] # <<>>
         /\ snaps[o].file = Previous(o).files[p]
         /\ snaps[o].grave = 0
  <2> SUFFICES ASSUME NEW o \in DOMAIN snaps
               PROVE  /\ o \in Devices /\ roots[o] # <<>>
                      /\ snaps[o].file = Previous(o).files[p]
                      /\ snaps[o].grave = 0
    OBVIOUS
  <2>1. o \in Devices /\ rec[d][o] = Len(roots[o]) /\ rec[d][o] > 0
    BY <1>1 DEF UpToDate
  <2>2. Previous(o) = roots[o][rec[d][o]] /\ roots[o] # <<>>
    BY <2>1, LatestRoot
  <2>3. roots[o][rec[d][o]].graves[p] = 0
    BY <1>1, <2>1 DEF NothingDeleted, NoRoot
  <2> QED BY <1>1, <2>1, <2>2, <2>3 DEF IsSnapshot
<1>5. \A g \in Graves(snaps) : FALSE
  BY <1>1, <1>4, GravesAreThere DEF Buried
<1>6. Having(snaps) = {o \in DOMAIN snaps : Previous(o).files[p] # NoFile}
  BY <1>4 DEF Having
<1>7. CASE final[p].file = NoFile
  <2>1. Having(snaps) = {}
    BY <1>4, <1>6, <1>7 DEF LatestChange
  <2> QED BY <1>2, <1>7, <2>1, NoWrites, EmptyMerge
<1>8. CASE final[p].file # NoFile
  <2>1. PICK e \in Devices : LatestAt(e, p)
    BY <1>8 DEF LatestChange
  <2>2. Previous(e).files[p] = final[p].file
    BY <2>1 DEF LatestAt
  <2>3. e \in Having(snaps)
    <3>1. Len(roots[e]) > 0
      BY <1>8, <2>2, LatestRoot
    <3> QED BY <1>1, <1>6, <1>8, <2>2, <3>1 DEF UpToDate
  <2>4. Having(snaps) \subseteq DOMAIN snaps /\ \A o \in Having(snaps) : snaps[o].by = o
    BY <1>1, <1>6 DEF Keyed
  <2>5. \A o \in Having(snaps) \ {e} : Descends(snaps[e], snaps[o])
    BY <1>3, <1>4, <1>6, <2>1, <2>3, <2>4 DEF LatestAt
  <2>6. \A o, a \in Having(snaps) : o # a => ~Concurrent(snaps[o], snaps[a])
    BY <1>3, <1>4, <2>4 DEF InTurn
  <2>7. Writes(snaps) = [write |-> {snaps[e]}, sides |-> {}]
    BY <1>1, <2>3, <2>5, <2>6, ChainOfWrites
  <2>8. Merged(snaps).file = snaps[e].file
    BY <1>5, <2>7, PlainMerge
  <2> QED BY <1>2, <1>4, <2>2, <2>3, <2>4, <2>8
<1> QED BY <1>7, <1>8

LEMMA ConflictMerge ==
    ASSUME NEW snaps, NEW w, NEW S, S # {}, Writes(snaps) = [write |-> {w}, sides |-> S],
           \A g \in Graves(snaps) : ~Suppresses(g, w),
           ~DeleteConflict(S, {w}, Graves(snaps))
    PROVE  /\ Merged(snaps).file = TopSide(S).file
           /\ Merged(snaps).copies = {s.file : s \in S} \ {TopSide(S).file}
BY DEF Merged

LEMMA DeletedMerge ==
    ASSUME NEW snaps, NEW w, Writes(snaps) = [write |-> {w}, sides |-> {}],
           NEW g \in Graves(snaps), Suppresses(g, w), Concurrent(w, g)
    PROVE  Merged(snaps).copies = {w.file}
<1>1. DeleteConflict({}, {w}, Graves(snaps))
  BY DEF DeleteConflict
<1> QED BY <1>1 DEF Merged

(* Of the roots of two devices, a file concurrent with another or with a     *)
(* deletion can be seen.                                                     *)
LEMMA ClashIsShown ==
    ASSUME IInv, Records, GravesAreDated, N <= 2, NEW d \in Devices, NEW p \in Paths,
           NEW o \in DOMAIN Snapshots(d, p), NEW e \in DOMAIN Snapshots(d, p),
           Concurrent(Snapshots(d, p)[o], Snapshots(d, p)[e]),
           Snapshots(d, p)[o].file # NoFile,
           Snapshots(d, p)[e].file # NoFile \/ Snapshots(d, p)[e].grave > 0
    PROVE  Snapshots(d, p)[o].file \in Visible(d, p)
<1> DEFINE snaps == Snapshots(d, p)
<1>1. /\ DOMAIN snaps \subseteq Devices
      /\ Keyed(snaps)
      /\ \A a \in DOMAIN snaps : /\ rec[d][a] \in 1..Len(roots[a])
                                /\ IsSnapshot(snaps[a], a, rec[d][a], p)
  BY SnapshotsOf
<1>2. Visible(d, p) = {Merged(snaps).file} \cup Merged(snaps).copies
  BY DEF Visible
<1> HIDE DEF snaps
<1>3. /\ o \in DOMAIN snaps /\ e \in DOMAIN snaps /\ Concurrent(snaps[o], snaps[e])
      /\ snaps[o].file # NoFile /\ (snaps[e].file # NoFile \/ snaps[e].grave > 0)
  BY DEF snaps
<1>4. o # e /\ Concurrent(snaps[e], snaps[o])
  BY <1>3 DEF Concurrent, SameRoot
<1>5. DOMAIN snaps = {o, e}
  <2>1. \A a \in DOMAIN snaps : a \in 1..N
    BY <1>1 DEF Devices
  <2>2. \A a \in DOMAIN snaps : a = 1 \/ a = 2
    BY <2>1, ContentsAssumption
  <2>3. \A a \in DOMAIN snaps : a = o \/ a = e
    BY <1>3, <1>4, <2>2
  <2> QED BY <1>3, <2>3
<1>6. \A a \in DOMAIN snaps :
         /\ snaps[a].at \in Nat /\ snaps[a].grave \in Nat
         /\ snaps[a].grave <= snaps[a].at
         /\ snaps[a].grave = snaps[a].at => snaps[a].file = NoFile
  <2> SUFFICES ASSUME NEW a \in DOMAIN snaps
               PROVE  /\ snaps[a].at \in Nat /\ snaps[a].grave \in Nat
                      /\ snaps[a].grave <= snaps[a].at
                      /\ snaps[a].grave = snaps[a].at => snaps[a].file = NoFile
    OBVIOUS
  <2>1. /\ a \in Devices /\ rec[d][a] \in 1..Len(roots[a])
        /\ IsSnapshot(snaps[a], a, rec[d][a], p)
    BY <1>1
  <2> QED BY <2>1, RootFacts DEF IsSnapshot, GravesAreDated
<1>7. \A g \in Graves(snaps) : g = snaps[o] \/ g = snaps[e]
  BY <1>1, <1>5, GravesAreThere DEF Buried
<1>8. CASE snaps[e].file # NoFile
  <2>1. Having(snaps) = {o, e}
    BY <1>3, <1>5, <1>8 DEF Having
  <2>2. PICK w, l \in {o, e} :
           /\ w # l /\ snaps[w].at >= snaps[l].at
           /\ Writes(snaps) = [write |-> {snaps[w]},
                               sides |-> IF snaps[o].file # snaps[e].file
                                         THEN {snaps[o], snaps[e]} ELSE {}]
    BY <1>1, <1>3, <1>4, <1>6, <2>1, TwoWrites
  <2>3. Concurrent(snaps[l], snaps[w])
    BY <1>3, <1>4, <2>2
  <2>4. ~Suppresses(snaps[l], snaps[w])
    <3>1. ~Descends(snaps[l], snaps[w])
      BY <2>3 DEF Descends, Concurrent
    <3>2. snaps[l].file # NoFile /\ l \in DOMAIN snaps /\ w \in DOMAIN snaps
      BY <1>3, <1>5, <1>8
    <3>3. ~(snaps[l].grave >= snaps[w].at)
      BY <1>6, <2>2, <3>2
    <3> QED BY <3>1, <3>3 DEF Suppresses
  <2>5. ~Suppresses(snaps[w], snaps[w])
    BY DEF Suppresses, SameRoot
  <2>6. \A g \in Graves(snaps) : ~Suppresses(g, snaps[w])
    BY <1>7, <2>2, <2>4, <2>5
  <2>7. CASE snaps[o].file = snaps[e].file
    <3>1. Writes(snaps) = [write |-> {snaps[w]}, sides |-> {}]
      BY <2>2, <2>7
    <3>2. Merged(snaps).file = snaps[w].file
      BY <2>6, <3>1, PlainMerge
    <3>3. Merged(snaps).file = snaps[o].file
      BY <2>2, <2>7, <3>2
    <3> QED BY <1>2, <3>3 DEF snaps
  <2>8. CASE snaps[o].file # snaps[e].file
    <3> DEFINE S == {snaps[o], snaps[e]}
    <3>1. Writes(snaps) = [write |-> {snaps[w]}, sides |-> S]
      BY <2>2, <2>8
    <3>2. ~DeleteConflict(S, {snaps[w]}, Graves(snaps))
      BY <1>7 DEF DeleteConflict, SameRoot
    <3>3. S # {} /\ snaps[o].file \in {s.file : s \in S}
      OBVIOUS
    <3> HIDE DEF S
    <3>4. /\ Merged(snaps).file = TopSide(S).file
          /\ Merged(snaps).copies = {s.file : s \in S} \ {TopSide(S).file}
      BY <2>6, <3>1, <3>2, <3>3, ConflictMerge
    <3>5. snaps[o].file \in Visible(d, p)
      BY <1>2, <3>3, <3>4
    <3> QED BY <3>5 DEF snaps
  <2> QED BY <2>7, <2>8
<1>9. CASE snaps[e].file = NoFile
  <2>1. Having(snaps) = {o}
    BY <1>3, <1>5, <1>9 DEF Having
  <2>2. Writes(snaps) = [write |-> {snaps[o]}, sides |-> {}]
    BY <1>1, <2>1, ChainOfWrites
  <2>3. ~Suppresses(snaps[o], snaps[o])
    BY DEF Suppresses, SameRoot
  <2>4. CASE \A g \in Graves(snaps) : ~Suppresses(g, snaps[o])
    <3>1. Merged(snaps).file = snaps[o].file
      BY <2>2, <2>4, PlainMerge
    <3> QED BY <1>2, <3>1 DEF snaps
  <2>5. CASE \E g \in Graves(snaps) : Suppresses(g, snaps[o])
    <3>1. snaps[e] \in Graves(snaps) /\ Suppresses(snaps[e], snaps[o])
      BY <1>7, <2>3, <2>5
    <3>2. Merged(snaps).copies = {snaps[o].file}
      BY <1>3, <2>2, <3>1, DeletedMerge
    <3> QED BY <1>2, <3>2 DEF snaps
  <2> QED BY <2>4, <2>5
<1> QED BY <1>8, <1>9

-----------------------------------------------------------------------------
(* Publishing keeps the histories                                            *)

(* The next root of d, made of the edit that turned `from` into `to`.        *)
NextRoot(d, from, to) ==
    LET new == roots'[d][Len(roots[d]) + 1]
    IN  /\ \A e \in Devices \ {d} : roots'[e] = roots[e]
        /\ Len(roots'[d]) = Len(roots[d]) + 1
        /\ \A i \in 1..Len(roots[d]) : roots'[d][i] = roots[d][i]
        /\ \A e \in Devices \ {d} : Previous(e)' = Previous(e)
        /\ Previous(d)' = new
        /\ new.observed = rec[d]
        /\ new.files = Files(d, from, to)
        /\ new.graves = NewGraves(d, from, to, new.at)
        /\ new.at \in Nat /\ new.at > Previous(d).at /\ new.at > 0
        /\ \A e \in Devices, o \in Devices :
              rec'[e][o] = IF e = d /\ o = d THEN Len(roots[d]) + 1 ELSE rec[e][o]

LEMMA NewFields ==
    ASSUME NEW at, NEW observed, NEW files, NEW graves
    PROVE  LET new == [at |-> at, observed |-> observed, files |-> files, graves |-> graves]
           IN  /\ new.at = at /\ new.observed = observed
               /\ new.files = files /\ new.graves = graves
OBVIOUS

LEMMA PublishMakesRoot ==
    ASSUME IInv, IInv', NEW d \in Devices, NEW from, NEW to, NEW now \in 1..MaxClock,
           Publish(d, from, to, now)
    PROVE  NextRoot(d, from, to)
<1> DEFINE at == IF now > Previous(d).at THEN now ELSE Previous(d).at + 1
           new == [at |-> at, observed |-> rec[d], files |-> Files(d, from, to),
                   graves |-> NewGraves(d, from, to, at)]
           n == Len(roots[d])
<1>1. /\ roots' = [roots EXCEPT ![d] = Append(roots[d], new)]
      /\ rec' = [rec EXCEPT ![d][d] = n + 1]
  BY DEF Publish
<1>2. at \in Nat /\ at > Previous(d).at /\ at > 0
  <2>1. Previous(d).at \in 0..MaxClock
    BY PreviousType DEF Root
  <2>2. now \in Nat /\ now > 0 /\ Previous(d).at \in Nat
    BY <2>1, ContentsAssumption
  <2> QED BY <2>2
<1>3. /\ new.at = at /\ new.observed = rec[d]
      /\ new.files = Files(d, from, to) /\ new.graves = NewGraves(d, from, to, at)
  BY NewFields
<1> HIDE DEF new, at
<1>4. roots[d] \in Seq(Root) /\ n \in Nat
  BY DEF IInv
<1>5. /\ roots'[d] = Append(roots[d], new)
      /\ \A e \in Devices \ {d} : roots'[e] = roots[e]
  BY <1>1 DEF IInv
<1>6. roots'[d] \in Seq(Root)
  BY DEF IInv
<1>7. /\ Len(roots'[d]) = n + 1
      /\ roots'[d][n + 1] = new
      /\ \A i \in 1..n : roots'[d][i] = roots[d][i]
  BY <1>4, <1>5
<1>8. Previous(d)' = new /\ \A e \in Devices \ {d} : Previous(e)' = Previous(e)
  <2>1. roots'[d] # <<>>
    BY <1>4, <1>7
  <2>2. Previous(d)' = roots'[d][Len(roots'[d])]
    BY <2>1 DEF Previous
  <2> QED BY <1>5, <1>7, <2>2 DEF Previous
<1>9. \A e \in Devices, o \in Devices :
         rec'[e][o] = IF e = d /\ o = d THEN n + 1 ELSE rec[e][o]
  <2>1. rec \in [Devices -> [Devices -> 0..MaxSeq]]
    BY DEF IInv
  <2> QED BY <1>1, <2>1
<1> QED BY <1>2, <1>3, <1>5, <1>7, <1>8, <1>9 DEF NextRoot

(* What the new root holds at a path.                                        *)
LEMMA FilesAt ==
    ASSUME NEW d, NEW from, NEW to, NEW p \in Paths
    PROVE  /\ to[p] # from[p] => Files(d, from, to)[p] = to[p]
           /\ to[p] = from[p] => \/ Files(d, from, to)[p] = Previous(d).files[p]
                                 \/ Files(d, from, to)[p] = NoFile
           /\ to[p] = from[p] /\ from[p] = Previous(d).files[p]
                => Files(d, from, to)[p] = from[p]
           /\ to[p] = from[p] /\ from[p] # NoFile
                => Files(d, from, to)[p] \in {from[p], NoFile}
BY DEF Files, Kept

LEMMA GravesAt ==
    ASSUME NEW d, NEW from, NEW to, NEW at, NEW p \in Paths
    PROVE  /\ from[p] # NoFile /\ to[p] = NoFile => NewGraves(d, from, to, at)[p] = at
           /\ ~(from[p] # NoFile /\ to[p] = NoFile)
                => NewGraves(d, from, to, at)[p] = Previous(d).graves[p]
BY DEF NewGraves

LEMMA RootsThen ==
    ASSUME IInv, NEW d \in Devices, NEW from, NEW to, NextRoot(d, from, to)
    PROVE  /\ Len(roots[d]) \in Nat
           /\ \A e \in Devices \ {d} : roots'[e] = roots[e]
           /\ 1..Len(roots'[d]) = 1..Len(roots[d]) \cup {Len(roots[d]) + 1}
           /\ \A i \in 1..Len(roots[d]) : roots'[d][i] = roots[d][i]
           /\ roots'[d][Len(roots[d]) + 1].observed = rec[d]
BY LatestRoot DEF NextRoot

LEMMA NextRootKeepsRecords ==
    ASSUME IInv, Records, NEW d \in Devices, NEW from, NEW to, NextRoot(d, from, to)
    PROVE  Records'
<1>1. \A e \in Devices : Len(roots[e]) \in Nat
  BY LatestRoot
<1>2. \A e, o \in Devices : rec[e][o] \in Nat
  BY ContentsAssumption DEF IInv
<1>3. SUFFICES ASSUME NEW e \in Devices, NEW o \in Devices
               PROVE  rec'[e][e] = Len(roots'[e]) /\ rec'[e][o] <= Len(roots'[o])
  BY DEF Records
<1>4. rec'[e][e] = Len(roots'[e])
  BY DEF Records, NextRoot
<1>5. rec[e][o] <= Len(roots[o]) /\ Len(roots[o]) <= Len(roots'[o])
  BY <1>1 DEF Records, NextRoot
<1>6. rec'[e][o] = rec[e][o] \/ e = o
  BY DEF NextRoot
<1>7. rec'[e][o] <= Len(roots'[o])
  <2>1. CASE e = o
    BY <1>1, <1>4, <2>1 DEF NextRoot
  <2>2. CASE e # o
    <3>1. Len(roots'[o]) \in Nat
      BY <1>1 DEF NextRoot
    <3> QED BY <1>1, <1>2, <1>5, <1>6, <2>2, <3>1
  <2> QED BY <2>1, <2>2
<1> QED BY <1>4, <1>7

LEMMA NextRootKeepsAcyclic ==
    ASSUME IInv, Records, Acyclic, NEW d \in Devices, NEW from, NEW to, NextRoot(d, from, to)
    PROVE  Acyclic'
<1>1. /\ Len(roots[d]) \in Nat
      /\ \A e \in Devices \ {d} : roots'[e] = roots[e]
      /\ 1..Len(roots'[d]) = 1..Len(roots[d]) \cup {Len(roots[d]) + 1}
      /\ \A i \in 1..Len(roots[d]) : roots'[d][i] = roots[d][i]
      /\ roots'[d][Len(roots[d]) + 1].observed = rec[d]
      /\ Len(roots'[d]) = Len(roots[d]) + 1
  BY RootsThen DEF NextRoot
<1>2. SUFFICES ASSUME NEW e \in Devices, NEW i \in 1..Len(roots'[e]),
                      NEW o \in Devices \ {e}
               PROVE  /\ roots'[e][i].observed[o] <= Len(roots'[o])
                      /\ \A j \in 1..Len(roots'[o]) :
                            roots'[e][i].observed[o] >= j => roots'[o][j].observed[e] < i
  BY DEF Acyclic
<1>3. CASE e = d /\ i = Len(roots[d]) + 1
  <2>1. roots'[e][i].observed[o] <= Len(roots'[o])
    BY <1>1, <1>3 DEF Records
  <2>2. ASSUME NEW j \in 1..Len(roots'[o]) PROVE roots'[o][j].observed[e] < i
    <3>1. j \in 1..Len(roots[o]) /\ roots'[o] = roots[o]
      BY <1>1, <1>3
    <3>2. roots[o][j].observed[d] <= Len(roots[d]) /\ roots[o][j].observed[d] \in Nat
      BY <1>3, <3>1, RootFacts DEF Acyclic
    <3> QED BY <1>1, <1>3, <3>1, <3>2
  <2> QED BY <2>1, <2>2
<1>4. CASE e = d /\ i \in 1..Len(roots[d])
  BY <1>1, <1>4 DEF Acyclic
<1>5. CASE e # d /\ o = d
  <2>1. i \in 1..Len(roots[e]) /\ roots'[e] = roots[e]
    BY <1>1, <1>5
  <2>2. roots[e][i].observed[o] <= Len(roots[o]) /\ roots[e][i].observed[o] \in Nat
    BY <1>5, <2>1, RootFacts DEF Acyclic
  <2>3. roots'[e][i].observed[o] <= Len(roots'[o])
    BY <1>1, <1>5, <2>1, <2>2
  <2>4. ASSUME NEW j \in 1..Len(roots'[o]), roots'[e][i].observed[o] >= j
        PROVE  roots'[o][j].observed[e] < i
    <3>1. j \in 1..Len(roots[d]) \/ j = Len(roots[d]) + 1
      BY <1>1, <1>5
    <3>2. j # Len(roots[d]) + 1
      BY <1>1, <1>5, <2>1, <2>2, <2>4
    <3>3. j \in 1..Len(roots[d]) /\ roots'[o][j] = roots[o][j]
      BY <1>1, <1>5, <3>1, <3>2
    <3> QED BY <1>5, <2>1, <2>4, <3>3 DEF Acyclic
  <2> QED BY <2>3, <2>4
<1>6. CASE e # d /\ o # d
  BY <1>1, <1>6 DEF Acyclic
<1>7. e = d => i \in 1..Len(roots[d]) \/ i = Len(roots[d]) + 1
  BY <1>1
<1> QED BY <1>3, <1>4, <1>5, <1>6, <1>7

LEMMA PreviousGraves ==
    ASSUME IInv, GravesAreDated, NEW d \in Devices, NEW p \in Paths
    PROVE  /\ Previous(d).graves[p] \in Nat /\ Previous(d).at \in Nat
           /\ Previous(d).graves[p] <= Previous(d).at
<1>1. CASE Len(roots[d]) = 0
  <2>1. Previous(d) = NoRoot
    BY <1>1, LatestRoot DEF Previous
  <2>2. NoRoot.at = 0 /\ NoRoot.graves[p] = 0
    BY DEF NoRoot
  <2> QED BY <2>1, <2>2
<1>2. CASE Len(roots[d]) > 0
  <2>1. Len(roots[d]) \in 1..Len(roots[d]) /\ Previous(d) = roots[d][Len(roots[d])]
    BY <1>2, LatestRoot
  <2> QED BY <2>1, RootFacts DEF GravesAreDated
<1> QED BY <1>1, <1>2, LatestRoot

LEMMA NextRootKeepsDates ==
    ASSUME IInv, GravesAreDated, NEW d \in Devices, NEW from, NEW to, NextRoot(d, from, to)
    PROVE  GravesAreDated'
<1>1. SUFFICES ASSUME NEW e \in Devices, NEW i \in 1..Len(roots'[e]), NEW p \in Paths
               PROVE  /\ roots'[e][i].graves[p] <= roots'[e][i].at
                      /\ roots'[e][i].graves[p] = roots'[e][i].at
                           => roots'[e][i].files[p] = NoFile
  BY DEF GravesAreDated
<1>2. CASE e # d
  BY <1>2, RootsThen DEF GravesAreDated
<1>3. CASE e = d /\ i \in 1..Len(roots[d])
  BY <1>3, RootsThen DEF GravesAreDated
<1>4. CASE e = d /\ i = Len(roots[d]) + 1
  <2> DEFINE new == roots'[d][Len(roots[d]) + 1]
  <2>1. /\ new.files = Files(d, from, to) /\ new.graves = NewGraves(d, from, to, new.at)
        /\ new.at \in Nat /\ new.at > Previous(d).at
    BY DEF NextRoot
  <2> HIDE DEF new
  <2>2. CASE from[p] # NoFile /\ to[p] = NoFile
    <3>1. new.graves[p] = new.at
      BY <2>1, <2>2, GravesAt
    <3>2. new.files[p] = NoFile
      BY <2>1, <2>2, FilesAt
    <3> QED BY <1>4, <2>1, <3>1, <3>2 DEF new
  <2>3. CASE ~(from[p] # NoFile /\ to[p] = NoFile)
    <3>1. new.graves[p] = Previous(d).graves[p]
      BY <2>1, <2>3, GravesAt
    <3>2. new.graves[p] < new.at
      BY <2>1, <3>1, PreviousGraves
    <3>3. new.graves[p] \in Nat
      BY <3>1, PreviousGraves
    <3> QED BY <1>4, <2>1, <3>2, <3>3 DEF new
  <2> QED BY <2>2, <2>3
<1> QED BY <1>2, <1>3, <1>4, RootsThen

(* The changes an edit is charged with.                                      *)
Changes(from, to) == {p \in Paths : to[p] # from[p]}

LEMMA EditKeepsSaved ==
    ASSUME IInv, DOMAIN saved = Devices, SavedIsLatest, NEW d \in Devices, NEW from, NEW to,
           NextRoot(d, from, to), Account(d, from, to)
    PROVE  DOMAIN saved' = Devices /\ SavedIsLatest'
<1> DEFINE changed == Changes(from, to)
           new == roots'[d][Len(roots[d]) + 1]
<1>1. saved' = [saved EXCEPT ![d] = [p \in changed |-> to[p]]]
  BY DEF Account, Changes
<1>2. /\ DOMAIN saved' = Devices /\ saved'[d] = [p \in changed |-> to[p]]
      /\ \A e \in Devices \ {d} : saved'[e] = saved[e]
  BY <1>1
<1>3. /\ Previous(d)' = new /\ new.files = Files(d, from, to)
      /\ new.graves = NewGraves(d, from, to, new.at) /\ new.at > 0
      /\ Len(roots'[d]) = Len(roots[d]) + 1 /\ Len(roots[d]) \in Nat
  BY LatestRoot DEF NextRoot
<1> HIDE DEF new
<1>4. roots'[d] # <<>>
  BY <1>3
<1>5. SUFFICES ASSUME NEW e \in Devices, NEW p \in DOMAIN saved'[e]
               PROVE  /\ p \in Paths /\ roots'[e] # <<>>
                      /\ Previous(e)'.files[p] = saved'[e][p]
                      /\ saved'[e][p] = NoFile => Previous(e)'.graves[p] > 0
  BY <1>2 DEF SavedIsLatest
<1>6. CASE e # d
  BY <1>2, <1>6 DEF SavedIsLatest, NextRoot
<1>7. CASE e = d
  <2>1. p \in Paths /\ to[p] # from[p] /\ saved'[e][p] = to[p]
    BY <1>2, <1>7 DEF Changes
  <2>2. new.files[p] = to[p]
    BY <1>3, <2>1, FilesAt
  <2>3. to[p] = NoFile => new.graves[p] = new.at
    BY <1>3, <2>1, GravesAt
  <2> QED BY <1>3, <1>4, <1>7, <2>1, <2>2, <2>3
<1> QED BY <1>6, <1>7

LEMMA UntouchedPrevious ==
    ASSUME IInv, NEW o \in Devices, NEW p \in Paths, Untouched(o, p)
    PROVE  Previous(o).files[p] = NoFile /\ Previous(o).graves[p] = 0
<1>1. CASE Len(roots[o]) = 0
  <2>1. Previous(o) = NoRoot
    BY <1>1, LatestRoot DEF Previous
  <2> QED BY <2>1 DEF NoRoot, EmptyTree
<1>2. CASE Len(roots[o]) > 0
  <2>1. Len(roots[o]) \in 1..Len(roots[o]) /\ Previous(o) = roots[o][Len(roots[o])]
    BY <1>2, LatestRoot
  <2> QED BY <2>1 DEF Untouched
<1> QED BY <1>1, <1>2, LatestRoot

(* An edit of one path claims no other, and has its base right where its     *)
(* device is the only writer.                                                *)
LEMMA EditKeepsWriters ==
    ASSUME IInv, OneWriter, NEW d \in Devices, NEW from, NEW to, NextRoot(d, from, to),
           Account(d, from, to),
           \A p \in Paths : final[p].by \subseteq {d} => from[p] = final[p].file,
           \A e \in Mounts : \A p \in Paths : base'[e][p] = IF e = d THEN to[p] ELSE base[e][p]
    PROVE  DOMAIN final' = Paths /\ OneWriter'
<1> DEFINE new == roots'[d][Len(roots[d]) + 1]
<1>1. /\ Previous(d)' = new /\ new.files = Files(d, from, to)
      /\ new.graves = NewGraves(d, from, to, new.at)
      /\ \A e \in Devices \ {d} : Previous(e)' = Previous(e)
  BY DEF NextRoot
<1>2. /\ \A e \in Devices \ {d} : roots'[e] = roots[e]
      /\ 1..Len(roots'[d]) = 1..Len(roots[d]) \cup {Len(roots[d]) + 1}
      /\ \A i \in 1..Len(roots[d]) : roots'[d][i] = roots[d][i]
  BY RootsThen
<1>3. /\ DOMAIN final' = Paths
      /\ \A p \in Paths : final'[p] = IF to[p] # from[p]
                                      THEN [by |-> final[p].by \cup {d}, file |-> to[p]]
                                      ELSE final[p]
  BY DEF Account
<1>4. \A e \in Devices \ {d} : \A p \in Paths : Untouched(e, p) => Untouched(e, p)'
  BY <1>2 DEF Untouched
<1>5. SUFFICES ASSUME NEW p \in Paths
               PROVE  /\ final'[p].by \subseteq Devices
                      /\ \A e \in Devices : final'[p].by \subseteq {e} => Alone(e, p)'
  BY <1>3 DEF OneWriter
<1>6. CASE to[p] # from[p]
  <2>1. final'[p].by = final[p].by \cup {d} /\ final'[p].file = to[p]
    BY <1>3, <1>6
  <2>2. ASSUME NEW e \in Devices, final'[p].by \subseteq {e} PROVE Alone(e, p)'
    <3>1. e = d /\ final[p].by \subseteq {d}
      BY <2>1, <2>2
    <3>2. Alone(d, p)
      BY <3>1 DEF OneWriter
    <3>3. \A o \in Devices \ {d} : Untouched(o, p)'
      BY <1>4, <3>2 DEF Alone
    <3>4. new.files[p] = to[p]
      BY <1>1, <1>6, FilesAt
    <3>5. d \in Mounts => base'[d][p] = to[p]
      OBVIOUS
    <3> QED BY <1>1, <2>1, <3>1, <3>3, <3>4, <3>5 DEF Alone
  <2> QED BY <2>1, <2>2 DEF OneWriter
<1>7. CASE to[p] = from[p]
  <2>1. final'[p] = final[p]
    BY <1>3, <1>7
  <2>2. ASSUME NEW e \in Devices, final'[p].by \subseteq {e} PROVE Alone(e, p)'
    <3>1. Alone(e, p) /\ final[p].by \subseteq {e}
      BY <2>1, <2>2 DEF OneWriter
    <3>2. CASE e = d
      <4>1. from[p] = final[p].file /\ Previous(d).files[p] = from[p]
        BY <3>1, <3>2 DEF Alone
      <4>2. new.files[p] = final[p].file
        BY <1>1, <1>7, <4>1, FilesAt
      <4>3. \A o \in Devices \ {e} : Untouched(o, p)'
        BY <1>4, <3>1, <3>2 DEF Alone
      <4>4. e \in Mounts => base'[e][p] = final[p].file
        BY <1>7, <3>2, <4>1
      <4> QED BY <1>1, <2>1, <3>2, <4>2, <4>3, <4>4 DEF Alone
    <3>3. CASE e # d
      <4>1. Untouched(d, p)
        BY <3>1, <3>3 DEF Alone
      <4>2. Previous(d).files[p] = NoFile /\ Previous(d).graves[p] = 0
        BY <4>1, UntouchedPrevious
      <4>3. new.files[p] = NoFile
        BY <1>1, <1>7, <4>2, FilesAt
      <4>4. new.graves[p] = 0
        BY <1>1, <1>7, <4>2, GravesAt
      <4>5. Untouched(d, p)'
        BY <1>2, <4>1, <4>3, <4>4 DEF Untouched
      <4>6. \A o \in Devices \ {e} : Untouched(o, p)'
        BY <1>4, <3>1, <4>5 DEF Alone
      <4>7. e \in Mounts => base'[e][p] = final[p].file
        BY <3>1, <3>3 DEF Alone
      <4>8. Previous(e)' = Previous(e)
        BY <1>1, <3>3
      <4> QED BY <2>1, <3>1, <4>6, <4>7, <4>8 DEF Alone
    <3> QED BY <3>2, <3>3
  <2> QED BY <2>1, <2>2 DEF OneWriter
<1> QED BY <1>6, <1>7

LEMMA EditKeepsTurns ==
    ASSUME IInv, InTurn, NEW d \in Devices, NEW from, NEW to, NextRoot(d, from, to),
           Account(d, from, to)
    PROVE  InTurn'
<1>1. SUFFICES ASSUME turns', NEW e \in Devices, NEW o \in Devices, e # o,
                      roots'[e] # <<>>, roots'[o] # <<>>
               PROVE  \/ Previous(e)'.observed[o] = Len(roots'[o])
                      \/ Previous(o)'.observed[e] = Len(roots'[e])
  BY DEF InTurn
<1>2. turns /\ UpToDate(d)
  BY <1>1 DEF Account
<1>3. ASSUME NEW a \in Devices, a # d PROVE Previous(d)'.observed[a] = Len(roots'[a])
  BY <1>2, <1>3 DEF NextRoot, UpToDate
<1>4. CASE e # d /\ o # d
  BY <1>1, <1>2, <1>4 DEF InTurn, NextRoot
<1> QED BY <1>1, <1>3, <1>4

LEMMA EditKeepsLatest ==
    ASSUME IInv, Records, Acyclic, InTurn, LatestChange, NEW d \in Devices, NEW from, NEW to,
           NextRoot(d, from, to), Account(d, from, to)
    PROVE  LatestChange'
<1> DEFINE new == roots'[d][Len(roots[d]) + 1]
<1>1. SUFFICES ASSUME turns', NothingDeleted', NEW p \in Paths
               PROVE  IF final'[p].file = NoFile
                      THEN \A e \in Devices : Previous(e)'.files[p] = NoFile
                      ELSE \E e \in Devices : LatestAt(e, p)'
  BY DEF LatestChange
<1>2. turns /\ UpToDate(d) /\ from = Shown(d)
  BY <1>1 DEF Account
<1>3. /\ Len(roots[d]) \in Nat
      /\ \A e \in Devices \ {d} : roots'[e] = roots[e]
      /\ 1..Len(roots'[d]) = 1..Len(roots[d]) \cup {Len(roots[d]) + 1}
      /\ \A i \in 1..Len(roots[d]) : roots'[d][i] = roots[d][i]
  BY RootsThen
<1>4. NothingDeleted
  BY <1>1, <1>3 DEF NothingDeleted
<1>5. from[p] = final[p].file
  BY <1>2, <1>4, LatestIsShown
<1>6. /\ Previous(d)' = new /\ new.files = Files(d, from, to) /\ new.observed = rec[d]
      /\ new.graves = NewGraves(d, from, to, new.at) /\ new.at > 0 /\ new.at \in Nat
      /\ \A e \in Devices \ {d} : Previous(e)' = Previous(e)
  BY DEF NextRoot
<1>7. new.graves[p] = 0
  BY <1>1, <1>3 DEF NothingDeleted, NoRoot
<1> HIDE DEF new
<1>8. \A o \in Devices \ {d} : new.observed[o] = Len(roots'[o])
  BY <1>2, <1>3, <1>6 DEF UpToDate
<1>9. final'[p] = IF to[p] # from[p] THEN [by |-> final[p].by \cup {d}, file |-> to[p]]
                  ELSE final[p]
  BY DEF Account
<1>10. new.files[p] = final'[p].file => LatestAt(d, p)'
  BY <1>6, <1>8 DEF LatestAt
<1>11. CASE to[p] # from[p]
  <2>1. to[p] # NoFile
    BY <1>6, <1>7, <1>11, GravesAt
  <2>2. new.files[p] = to[p] /\ final'[p].file = to[p]
    BY <1>6, <1>9, <1>11, FilesAt
  <2> QED BY <1>10, <2>1, <2>2
<1>12. CASE to[p] = from[p] /\ final[p].file = NoFile
  <2>1. final'[p].file = NoFile /\ \A e \in Devices : Previous(e).files[p] = NoFile
    BY <1>2, <1>4, <1>9, <1>12 DEF LatestChange
  <2>2. new.files[p] = NoFile
    BY <1>6, <1>12, <2>1, FilesAt
  <2> QED BY <1>6, <2>1, <2>2
<1>13. CASE to[p] = from[p] /\ final[p].file # NoFile
  <2>1. final'[p] = final[p]
    BY <1>9, <1>13
  <2>2. CASE new.files[p] = final[p].file
    BY <1>10, <1>13, <2>1, <2>2
  <2>3. CASE new.files[p] # final[p].file
    <3>1. new.files[p] = NoFile
      BY <1>5, <1>6, <1>13, <2>3, FilesAt
    <3>2. PICK e \in Devices : LatestAt(e, p)
      BY <1>2, <1>4, <1>13 DEF LatestChange
    <3>3. e # d
      <4>1. e = d => Previous(d).files[p] = from[p]
        BY <1>5, <3>2 DEF LatestAt
      <4> QED BY <1>5, <1>6, <1>13, <2>3, <4>1, FilesAt
    <3>4. Previous(e)' = Previous(e) /\ Previous(e).files[p] = final'[p].file
      BY <1>6, <2>1, <3>2, <3>3 DEF LatestAt
    <3>5. ASSUME NEW o \in Devices \ {e}, Previous(o)'.files[p] # NoFile
          PROVE  Previous(e).observed[o] = Len(roots'[o])
      <4>1. o # d
        BY <1>6, <3>1, <3>5
      <4> QED BY <1>3, <1>6, <3>2, <3>5, <4>1 DEF LatestAt
    <3>6. LatestAt(e, p)'
      BY <3>4, <3>5 DEF LatestAt
    <3> QED BY <1>13, <2>1, <3>6
  <2> QED BY <2>2, <2>3
<1> QED BY <1>11, <1>12, <1>13

-----------------------------------------------------------------------------
LEMMA InitEstablishesHistories == Init => HistInv
<1> SUFFICES ASSUME Init PROVE HistInv
  OBVIOUS
<1>1. IInv
  BY InitEstablishesInvariant
<1>2. /\ \A d \in Devices : roots[d] = <<>> /\ Len(roots[d]) = 0
      /\ \A d, o \in Devices : rec[d][o] = 0
      /\ \A d \in Devices : saved[d] = <<>>
      /\ DOMAIN saved = Devices /\ DOMAIN final = Paths
      /\ \A p \in Paths : final[p].by = {} /\ final[p].file = NoFile
  BY DEF Init
<1>3. \A d \in Devices, p \in Paths : Previous(d).files[p] = NoFile
  BY <1>2 DEF Previous, NoRoot, EmptyTree
<1>4. \A d \in Mounts, p \in Paths : base[d][p] = NoFile
  BY DEF Init, EmptyTree
<1>5. Records
  BY <1>2 DEF Records
<1>6. \A d \in Devices : 1..Len(roots[d]) = {}
  BY <1>2
<1>7. Acyclic /\ GravesAreDated
  BY <1>6 DEF Acyclic, GravesAreDated
<1>8. SavedIsLatest
  BY <1>2 DEF SavedIsLatest
<1>9. OneWriter
  BY <1>2, <1>3, <1>4, <1>6 DEF OneWriter, Alone, Untouched
<1>10. InTurn /\ LatestChange
  BY <1>2, <1>3 DEF InTurn, LatestChange
<1> QED BY <1>1, <1>2, <1>5, <1>7, <1>8, <1>9, <1>10 DEF HistInv

LEMMA EditKeepsHistories ==
    ASSUME HistInv, IInv', NEW d \in Devices, NEW from, NEW to, Contribute(d, from, to),
           \A p \in Paths : final[p].by \subseteq {d} => from[p] = final[p].file,
           \A e \in Mounts : \A p \in Paths : base'[e][p] = IF e = d THEN to[p] ELSE base[e][p]
    PROVE  HistInv'
<1>1. IInv /\ Account(d, from, to)
  BY DEF HistInv, Contribute
<1>2. PICK now \in 1..MaxClock : Publish(d, from, to, now)
  BY DEF Contribute
<1>3. NextRoot(d, from, to)
  BY <1>1, <1>2, PublishMakesRoot
<1>4. Records' /\ Acyclic' /\ GravesAreDated'
  BY <1>1, <1>3, NextRootKeepsRecords, NextRootKeepsAcyclic, NextRootKeepsDates DEF HistInv
<1>5. DOMAIN saved' = Devices /\ SavedIsLatest'
  BY <1>1, <1>3, EditKeepsSaved DEF HistInv
<1>6. DOMAIN final' = Paths /\ OneWriter'
  BY <1>1, <1>3, EditKeepsWriters DEF HistInv
<1>7. InTurn' /\ LatestChange'
  BY <1>1, <1>3, EditKeepsTurns, EditKeepsLatest DEF HistInv
<1> QED BY <1>4, <1>5, <1>6, <1>7 DEF HistInv

LEMMA ProviderEditKeepsHistories ==
    ASSUME HistInv, IInv', NEW d \in Devices, ProviderEdit(d)
    PROVE  HistInv'
<1>1. PICK p \in Paths : \E to \in Edits(d, Shown(d), p) : Contribute(d, Shown(d), to)
  BY DEF ProviderEdit
<1>2. PICK to : Contribute(d, Shown(d), to)
  BY <1>1
<1>3. ASSUME NEW q \in Paths, final[q].by \subseteq {d}
      PROVE  Shown(d)[q] = final[q].file
  <2>1. Alone(d, q) /\ rec[d][d] = Len(roots[d]) /\ IInv /\ Records
    BY <1>3 DEF HistInv, OneWriter, Records
  <2>2. Shown(d)[q] = Previous(d).files[q]
    BY <2>1, AloneIsShown DEF Alone
  <2> QED BY <2>1, <2>2 DEF Alone
<1>4. d \notin Mounts /\ base' = base
  BY DEF ProviderEdit
<1> QED BY <1>2, <1>3, <1>4, EditKeepsHistories

LEMMA MountImportKeepsHistories ==
    ASSUME HistInv, IInv', NEW d \in Devices, MountImport(d)
    PROVE  HistInv'
<1>1. d \in Mounts /\ Contribute(d, base[d], tree[d]) /\ base' = [base EXCEPT ![d] = tree[d]]
  BY DEF MountImport
<1>2. \A q \in Paths : final[q].by \subseteq {d} => base[d][q] = final[q].file
  BY <1>1 DEF HistInv, OneWriter, Alone
<1>3. \A e \in Mounts : \A q \in Paths :
         base'[e][q] = IF e = d THEN tree[d][q] ELSE base[e][q]
  <2>1. DOMAIN base = Mounts
    BY DEF HistInv, IInv
  <2> QED BY <1>1, <2>1
<1> QED BY <1>1, <1>2, <1>3, EditKeepsHistories

LEMMA MountEditKeepsHistories ==
    ASSUME HistInv, IInv', NEW d \in Devices, MountEdit(d)
    PROVE  HistInv'
<1>1. UNCHANGED <<roots, rec, base, saved, final, turns>>
  BY DEF MountEdit
<1>2. Records' /\ Acyclic' /\ GravesAreDated' /\ SavedIsLatest' /\ InTurn' /\ LatestChange'
  BY <1>1 DEF HistInv, Records, Acyclic, GravesAreDated, SavedIsLatest,
        InTurn, LatestChange, LatestAt, NothingDeleted, Previous
<1>3. OneWriter'
  BY <1>1 DEF HistInv, OneWriter, Alone, Untouched, Previous
<1> QED BY <1>1, <1>2, <1>3 DEF HistInv

LEMMA MountRefreshKeepsHistories ==
    ASSUME HistInv, IInv', NEW d \in Devices, MountRefresh(d)
    PROVE  HistInv'
<1>1. d \in Mounts /\ base' = [base EXCEPT ![d] = Shown(d)]
  BY DEF MountRefresh
<1>2. UNCHANGED <<roots, rec, saved, final, turns>>
  BY DEF MountRefresh
<1>3. /\ Records' /\ Acyclic' /\ GravesAreDated' /\ SavedIsLatest' /\ InTurn' /\ LatestChange'
      /\ \A e \in Devices : Previous(e)' = Previous(e)
      /\ \A o \in Devices, p \in Paths : Untouched(o, p) => Untouched(o, p)'
  BY <1>2 DEF HistInv, Records, Acyclic, GravesAreDated, SavedIsLatest,
        Untouched, InTurn, LatestChange, LatestAt, NothingDeleted, Previous
<1>4. ASSUME NEW p \in Paths, NEW e \in Devices, final[p].by \subseteq {e}
      PROVE  Alone(e, p)'
  <2>1. Alone(e, p) /\ rec[e][e] = Len(roots[e]) /\ IInv /\ Records
    BY <1>4 DEF HistInv, OneWriter, Records
  <2>2. Shown(e)[p] = Previous(e).files[p]
    BY <2>1, AloneIsShown DEF Alone
  <2>3. DOMAIN base = Mounts
    BY <2>1 DEF IInv
  <2>4. e \in Mounts => base'[e][p] = final[p].file
    BY <1>1, <2>1, <2>2, <2>3 DEF Alone
  <2> QED BY <1>2, <1>3, <2>1, <2>4 DEF Alone
<1>5. OneWriter'
  BY <1>2, <1>4 DEF OneWriter, HistInv
<1> QED BY <1>2, <1>3, <1>5 DEF HistInv

LEMMA LearnKeepsHistories ==
    ASSUME HistInv, IInv', NEW d \in Devices, NEW o \in Devices, Learn(d, o)
    PROVE  HistInv'
<1>1. PICK seq \in (rec[d][o] + 1)..Len(roots[o]) : rec' = [rec EXCEPT ![d][o] = seq]
  BY DEF Learn
<1>2. d # o /\ UNCHANGED <<roots, base, saved, final, turns>>
  BY DEF Learn
<1>3. /\ rec \in [Devices -> [Devices -> 0..MaxSeq]] /\ Len(roots[o]) \in Nat
      /\ rec[d][o] \in Nat
  <2>1. IInv /\ rec \in [Devices -> [Devices -> 0..MaxSeq]]
    BY DEF HistInv, IInv
  <2>2. rec[d][o] \in 0..MaxSeq
    BY <2>1
  <2> QED BY <2>1, <2>2, LatestRoot, ContentsAssumption
<1>4. seq <= Len(roots[o])
  BY <1>1, <1>3
<1>5. \A e \in Devices, a \in Devices :
         rec'[e][a] = IF e = d /\ a = o THEN seq ELSE rec[e][a]
  BY <1>1, <1>3
<1>6. Records'
  BY <1>2, <1>4, <1>5 DEF HistInv, Records
<1> QED BY <1>2, <1>6 DEF HistInv, Acyclic, GravesAreDated, SavedIsLatest, OneWriter, Alone,
           Untouched, InTurn, LatestChange, LatestAt, NothingDeleted, Previous

LEMMA NextKeepsHistories == HistInv /\ [Next]_vars => HistInv'
<1> SUFFICES ASSUME HistInv, [Next]_vars PROVE HistInv'
  OBVIOUS
<1>1. IInv'
  BY NextKeepsInvariant DEF HistInv
<1>2. ASSUME NEW d \in Devices, ProviderEdit(d) PROVE HistInv'
  BY <1>1, <1>2, ProviderEditKeepsHistories
<1>3. ASSUME NEW d \in Devices, MountEdit(d) PROVE HistInv'
  BY <1>1, <1>3, MountEditKeepsHistories
<1>4. ASSUME NEW d \in Devices, MountImport(d) PROVE HistInv'
  BY <1>1, <1>4, MountImportKeepsHistories
<1>5. ASSUME NEW d \in Devices, MountRefresh(d) PROVE HistInv'
  BY <1>1, <1>5, MountRefreshKeepsHistories
<1>6. ASSUME NEW d \in Devices, NEW o \in Devices, Learn(d, o) PROVE HistInv'
  BY <1>1, <1>6, LearnKeepsHistories
<1>7. CASE UNCHANGED vars
  BY <1>1, <1>7 DEF vars, HistInv, Records, Acyclic, GravesAreDated, SavedIsLatest, OneWriter,
        Alone, Untouched, InTurn, LatestChange, LatestAt, NothingDeleted, Previous
<1> QED BY <1>2, <1>3, <1>4, <1>5, <1>6, <1>7 DEF Next

LEMMA Histories == Spec => []HistInv
BY InitEstablishesHistories, NextKeepsHistories, PTL DEF Spec

(* A path that only one device ever changed shows that device's latest save  *)
(* on every device that has everyone's roots, on trees however old: imports  *)
(* claim nothing they did not change (local_visible_root_for_mount_import),  *)
(* and a merge of the roots of one writer is that writer's latest.           *)
THEOREM LoneWriterIsShown == Spec => []WriterAlone
<1>1. HistInv => WriterAlone
  <2> SUFFICES ASSUME HistInv, NEW d \in Devices, NEW p \in Paths, UpToDate(d),
                      Cardinality(final[p].by) = 1
               PROVE  Shown(d)[p] = final[p].file
    BY DEF WriterAlone
  <2>1. final[p].by \subseteq Devices
    BY DEF HistInv, OneWriter
  <2>2. PICK e : final[p].by = {e}
    BY <2>1, DevicesAreFinite, FS_Singleton
  <2>3. e \in Devices /\ Alone(e, p)
    BY <2>1, <2>2 DEF HistInv, OneWriter
  <2>4. Shown(d)[p] = Previous(e).files[p]
    BY <2>3, AloneIsShown DEF Alone, UpToDate, HistInv
  <2> QED BY <2>3, <2>4 DEF Alone
<1> QED BY <1>1, Histories, PTL

(* While devices edit in turn, each with everyone's roots and the tree it    *)
(* shows, and nothing is deleted, every up-to-date device shows the latest   *)
(* change of each path (insert_write_candidate on causally ordered roots).   *)
THEOREM LatestEditIsShown == Spec => []LastEditShows
<1>1. HistInv => LastEditShows
  <2> SUFFICES ASSUME HistInv, turns, NothingDeleted,
                      NEW d \in Devices, NEW p \in Paths, UpToDate(d)
               PROVE  Shown(d)[p] = final[p].file
    BY DEF LastEditShows, NothingDeleted
  <2> QED BY LatestIsShown DEF HistInv
<1> QED BY <1>1, Histories, PTL

(* Of two devices, however many roots they publish and in whatever order they*)
(* learn them, what a user saved or deleted stays so on that device until a  *)
(* root arrives that the save had not observed. Of three it need not.        *)
THEOREM SavesStay == N <= 2 => (Spec => []SavedStays)
<1> SUFFICES ASSUME N <= 2 PROVE Spec => []SavedStays
  OBVIOUS
<1>1. HistInv => SavedStays
  BY SavedIsShown DEF SavedStays, HistInv
<1> QED BY <1>1, Histories, PTL

(* Of two devices, a file concurrent with the other's file or deletion at its*)
(* path can be seen, at the path or as a conflict copy                       *)
(* (add_visible_conflict_entries). Of three it need not.                     *)
THEOREM ClashesAreShown == N <= 2 => (Spec => []ClashesShown)
<1> SUFFICES ASSUME N <= 2 PROVE Spec => []ClashesShown
  OBVIOUS
<1>1. HistInv => ClashesShown
  <2> SUFFICES ASSUME HistInv, NEW d \in Devices, NEW p \in Paths,
                      NEW r \in Unfollowed(d, p), NEW s \in Unfollowed(d, p),
                      Concurrent(r, s), r.file # NoFile, s.file # NoFile \/ s.grave > 0
               PROVE  r.file \in Visible(d, p)
    BY DEF ClashesShown
  <2>1. PICK o \in DOMAIN Snapshots(d, p) : r = Snapshots(d, p)[o]
    BY DEF Unfollowed, Range
  <2>2. PICK e \in DOMAIN Snapshots(d, p) : s = Snapshots(d, p)[e]
    BY DEF Unfollowed, Range
  <2> QED BY <2>1, <2>2, ClashIsShown DEF HistInv
<1> QED BY <1>1, Histories, PTL
=============================================================================
