------------------------- MODULE FriendBackup_proofs -------------------------
(* Proofs about FriendBackup, for any owners, drives, processes, settings    *)
(* and bounds: what is named the head is here as a whole, heads go forward,  *)
(* and what an owner is told was stored is stored.                           *)
EXTENDS FriendBackup, FiniteSetTheorems, WellFoundedInduction, TLAPS

(* The part of TypeOK the proofs need.                                       *)
Shapes ==
    /\ DOMAIN job = Procs
    /\ \A p \in Procs : job[p] # None =>
        job[p].owner \in Owners /\ job[p].manifest \in Manifests(job[p].owner)
    /\ DOMAIN blobs = Owners /\ DOMAIN head = Owners
    /\ DOMAIN drive = Owners /\ DOMAIN prepared = Owners
    /\ DOMAIN starts = Owners /\ DOMAIN synced = Owners
    /\ DOMAIN offers = Owners /\ DOMAIN receipts = Owners
    /\ \A o \in Owners :
        /\ head[o] \in Manifests(o) \cup {None}
        /\ prepared[o] \in Manifests(o) \cup {None}
        /\ offers[o] \subseteq Manifests(o) /\ receipts[o] \subseteq Manifests(o)
        /\ drive[o] \in 1..Len(Tree[o]) /\ starts[o] \in 1..MaxStarts
        /\ synced[o] \in Nat

(* Only the process with the lease is at a transfer.                         *)
Leased == \A p \in Procs : job[p] # None => lease = p

(* Time order: the head is no newer than what is being transferred, this no  *)
(* newer than what is exported, and that no newer than the drive.            *)
InTime ==
    /\ \A o \in Owners :
        /\ TreeOf(prepared[o]) <= drive[o]
        /\ TreeOf(head[o]) <= drive[o]
        /\ prepared[o] # None => TreeOf(head[o]) <= prepared[o].tree
    /\ \A p \in Procs : job[p] # None =>
        LET o == job[p].owner
            n == job[p].manifest.tree
        IN  /\ TreeOf(head[o]) <= n /\ n <= drive[o]
            /\ prepared[o] # None => n <= prepared[o].tree

(* The tree n of o is here, and no newer than the head.                      *)
Stored(o, n) == Tree[o][n] \subseteq blobs[o] /\ n <= TreeOf(head[o])

HeadsStored == \A o \in Owners : head[o] # None => Stored(o, head[o].tree)

ReceiptsStored == \A o \in Owners : \A m \in receipts[o] : Stored(o, m.tree)

ReportsStored == \A o \in Owners : synced[o] # 0 => Stored(o, synced[o])

IInv == Shapes /\ Leased /\ InTime /\ HeadsStored /\ ReceiptsStored /\ ReportsStored

-----------------------------------------------------------------------------
(* A manifest is not None, and its tree is one of the drive's.               *)
LEMMA ManifestFacts ==
    ASSUME NEW o \in Owners, NEW m \in Manifests(o)
    PROVE  m # None /\ TreeOf(m) = m.tree /\ m.tree \in 1..Len(Tree[o])
BY NoneAssumption DEF Manifests, AllManifests, TreeOf

(* A drive has at least one tree.                                            *)
LEMMA DriveFacts == \A o \in Owners : Len(Tree[o]) \in Nat \ {0}
<1> SUFFICES ASSUME NEW o \in Owners PROVE Len(Tree[o]) \in Nat \ {0}
    OBVIOUS
<1> DEFINE S == SUBSET UNION Range(Tree[o])
<1>1. Tree[o] \in Seq(S) /\ Len(Tree[o]) > 0
  BY TreeAssumption
<1> HIDE DEF S
<1> QED BY <1>1

LEMMA StartsFacts == MaxStarts \in Nat \ {0}
BY BackupBoundsAssumption

(* Every step keeps the shapes.                                             *)
LEMMA ShapesStep == Shapes /\ [Next]_backupVars => Shapes'
<1> SUFFICES ASSUME Shapes, [Next]_backupVars PROVE Shapes'
    OBVIOUS
<1> USE DEF Shapes, settings, disk, owner
<1>1. ASSUME NEW t \in Capacities, SetCapacity(t) PROVE Shapes'
  BY <1>1 DEF SetCapacity
<1>2. ASSUME NEW o \in Owners, NEW s \in Allowances \cup {0}, SetAllowance(o, s)
      PROVE Shapes'
  BY <1>2 DEF SetAllowance
<1>3. ASSUME NEW p \in Procs, StartService(p) PROVE Shapes'
  BY <1>3 DEF StartService
<1>4. ASSUME NEW p \in Procs, StopService(p) PROVE Shapes'
  BY <1>4 DEF StopService
<1>5. ASSUME NEW p \in Procs, NEW o \in Owners, NEW m \in offers[o], HandleOffer(p, o, m)
      PROVE Shapes'
  BY <1>5 DEF HandleOffer
<1>6. ASSUME NEW p \in Procs, PutBlob(p) PROVE Shapes'
  BY <1>6 DEF PutBlob, Working
<1>7. ASSUME NEW p \in Procs, NEW told \in BOOLEAN, CommitHead(p, told) PROVE Shapes'
  <2> DEFINE o == job[p].owner
             m == job[p].manifest
  <2>1. o \in Owners /\ m \in Manifests(o)
    BY <1>7 DEF CommitHead, Working
  <2>2. /\ job' = [job EXCEPT ![p] = None]
        /\ head' = [head EXCEPT ![o] = m]
        /\ receipts' = receipts \/ receipts' = [receipts EXCEPT ![o] = @ \cup {m}]
        /\ UNCHANGED <<blobs, drive, prepared, starts, synced, offers>>
    BY <1>7 DEF CommitHead
  <2> HIDE DEF o, m
  <2>3. DOMAIN head' = Owners /\ \A x \in Owners : head'[x] \in Manifests(x) \cup {None}
    BY <2>1, <2>2
  <2>5. DOMAIN receipts' = Owners /\ \A x \in Owners : receipts'[x] \subseteq Manifests(x)
    <3>1. \A x \in Owners : receipts[x] \subseteq Manifests(x)
      OBVIOUS
    <3>2. DOMAIN receipts' = Owners /\ \A x \in Owners : x # o => receipts'[x] = receipts[x]
      BY <2>2
    <3>3. receipts'[o] \subseteq receipts[o] \cup {m}
      BY <2>1, <2>2
    <3> HIDE DEF Shapes
    <3> QED BY <2>1, <3>1, <3>2, <3>3
  <2>4. /\ DOMAIN job' = Procs
        /\ \A q \in Procs : job'[q] # None =>
              job'[q].owner \in Owners /\ job'[q].manifest \in Manifests(job'[q].owner)
    BY <2>2
  <2> QED BY <2>2, <2>3, <2>4, <2>5
<1>8. ASSUME NEW p \in Procs, Abandon(p) PROVE Shapes'
  BY <1>8 DEF Abandon
<1>9. ASSUME NEW p \in Procs, Kill(p) PROVE Shapes'
  BY <1>9 DEF Kill
<1>10. ASSUME NEW o \in Owners, Edit(o) PROVE Shapes'
  BY <1>10, DriveFacts DEF Edit
<1>11. ASSUME NEW o \in Owners, Offer(o) PROVE Shapes'
  <2>1. Snapshot(o) \in Manifests(o)
    BY DEF Snapshot, TreeOf, Manifests
  <2> QED BY <1>11, <2>1 DEF Offer
<1>12. ASSUME NEW o \in Owners, NEW m \in receipts[o], HandleStored(o, m) PROVE Shapes'
  BY <1>12, DriveFacts, ManifestFacts DEF HandleStored
<1>13. ASSUME NEW o \in Owners, Restart(o) PROVE Shapes'
  BY <1>13, StartsFacts DEF Restart
<1>14. ASSUME NEW o \in Owners, Lose(o) PROVE Shapes'
  <2>1. CASE \E m \in offers[o] :
               /\ offers' = [offers EXCEPT ![o] = @ \ {m}]
               /\ UNCHANGED <<settings, lease, job, disk, owner, receipts, rescue, kills>>
    BY <2>1
  <2>2. CASE \E m \in receipts[o] :
               /\ receipts' = [receipts EXCEPT ![o] = @ \ {m}]
               /\ UNCHANGED <<settings, lease, job, disk, owner, offers, rescue, kills>>
    BY <2>2
  <2> QED BY <1>14, <2>1, <2>2 DEF Lose
<1>15. ASSUME NEW o \in Owners, LoseDevice(o) PROVE Shapes'
  BY <1>15 DEF LoseDevice
<1>16. ASSUME NEW o \in Owners, AskHead(o) PROVE Shapes'
  BY <1>16 DEF AskHead
<1>17. ASSUME NEW o \in Owners, Recover(o) PROVE Shapes'
  BY <1>17 DEF Recover
<1>18. CASE UNCHANGED backupVars
  BY <1>18 DEF backupVars
<1> HIDE DEF Shapes
<1> QED
  BY <1>1, <1>2, <1>3, <1>4, <1>5, <1>6, <1>7, <1>8, <1>9, <1>10, <1>11, <1>12,
     <1>13, <1>14, <1>15, <1>16, <1>17, <1>18
  DEF Next, ServiceStep, OwnerStep, SettingsStep

(* Who moves a job, a head, an export or a drive, and how.                   *)
LEMMA Movers ==
    ASSUME Shapes, [Next]_backupVars
    PROVE  \/ UNCHANGED <<job, head, prepared, drive>>
           \/ \E p \in Procs :
                /\ job' = [job EXCEPT ![p] = None] /\ UNCHANGED <<head, prepared, drive>>
                /\ lease' \in {lease, None}
           \/ \E p \in Procs, o \in Owners : \E m \in offers[o] :
                HandleOffer(p, o, m) /\ UNCHANGED <<lease, head, prepared, drive>>
           \/ \E p \in Procs, told \in BOOLEAN :
                CommitHead(p, told) /\ UNCHANGED <<lease, prepared, drive>>
           \/ \E o \in Owners :
                /\ UNCHANGED <<lease, job, head>>
                /\ \/ drive' = [drive EXCEPT ![o] = @ + 1] /\ UNCHANGED prepared
                   \/ Offer(o) /\ UNCHANGED drive
                   \/ prepared' = [prepared EXCEPT ![o] = None] /\ UNCHANGED drive
<1>1. CASE UNCHANGED backupVars
  BY <1>1 DEF backupVars, disk, owner
<1>2. CASE SettingsStep
  BY <1>2 DEF SettingsStep, SetCapacity, SetAllowance, disk, owner
<1>3. ASSUME NEW p \in Procs, ServiceStep(p)
      PROVE  \/ UNCHANGED <<job, head, prepared, drive>>
             \/ /\ job' = [job EXCEPT ![p] = None] /\ UNCHANGED <<head, prepared, drive>>
                /\ lease' \in {lease, None}
             \/ \E o \in Owners : \E m \in offers[o] :
                  HandleOffer(p, o, m) /\ UNCHANGED <<lease, head, prepared, drive>>
             \/ \E told \in BOOLEAN : CommitHead(p, told) /\ UNCHANGED <<lease, prepared, drive>>
  BY <1>3 DEF ServiceStep, StartService, StopService, HandleOffer, PutBlob, CommitHead,
              Abandon, Kill, disk, owner
<1>4. ASSUME NEW o \in Owners, OwnerStep(o)
      PROVE  \/ UNCHANGED <<job, head, prepared, drive>>
             \/ /\ UNCHANGED <<lease, job, head>>
                /\ \/ drive' = [drive EXCEPT ![o] = @ + 1] /\ UNCHANGED prepared
                   \/ Offer(o) /\ UNCHANGED drive
                   \/ prepared' = [prepared EXCEPT ![o] = None] /\ UNCHANGED drive
  BY <1>4 DEF OwnerStep, Edit, Offer, Restart, Lose, LoseDevice, HandleStored, AskHead,
              Recover, disk, owner
<1> QED BY <1>1, <1>2, <1>3, <1>4 DEF Next

(* The lease is taken when nobody works, and whoever lets go of it stops.    *)
LEMMA LeasedStep == Shapes /\ Leased /\ [Next]_backupVars => Leased'
<1> SUFFICES ASSUME Shapes, Leased, [Next]_backupVars PROVE Leased'
    OBVIOUS
<1> USE NoneAssumption DEF Leased, Shapes, settings, disk, owner
<1>1. CASE UNCHANGED backupVars
  BY <1>1 DEF backupVars
<1>2. CASE SettingsStep
  BY <1>2 DEF SettingsStep, SetCapacity, SetAllowance
<1>3. ASSUME NEW p \in Procs, ServiceStep(p) PROVE Leased'
  <2>1. CASE StartService(p)
    BY <2>1 DEF StartService, TakeLease
  <2>2. CASE StopService(p)
    BY <2>2 DEF StopService, Serving
  <2>3. CASE PutBlob(p) \/ Abandon(p)
    BY <2>3 DEF PutBlob, Abandon
  <2>4. CASE \E told \in BOOLEAN : CommitHead(p, told)
    BY <2>4 DEF CommitHead
  <2>5. CASE Kill(p)
    BY <2>5 DEF Kill, Working
  <2>6. CASE \E o \in Owners : \E m \in offers[o] : HandleOffer(p, o, m)
    BY <2>6 DEF HandleOffer, Serving
  <2> QED BY <1>3, <2>1, <2>2, <2>3, <2>4, <2>5, <2>6 DEF ServiceStep
<1>4. ASSUME NEW o \in Owners, OwnerStep(o) PROVE Leased'
  <2>1. UNCHANGED <<lease, job>>
    BY <1>4 DEF OwnerStep, Edit, Offer, Restart, Lose, LoseDevice, HandleStored, AskHead, Recover
  <2> QED BY <2>1
<1> QED BY <1>1, <1>2, <1>3, <1>4 DEF Next

(* What is taken up is what is exported by then, a head is made by the only  *)
(* transfer there is, and a new export is of the drive as it is.             *)
LEMMA InTimeStep == Shapes /\ Leased /\ InTime /\ [Next]_backupVars => InTime'
<1> SUFFICES ASSUME Shapes, Leased, InTime, [Next]_backupVars PROVE InTime'
    OBVIOUS
<1>0. \A o \in Owners : /\ TreeOf(head[o]) \in Nat /\ TreeOf(prepared[o]) \in Nat
                        /\ drive[o] \in Nat \ {0}
  BY ManifestFacts, DriveFacts DEF Shapes, TreeOf
<1>1. CASE UNCHANGED <<job, head, prepared, drive>>
  BY <1>1 DEF InTime, TreeOf
<1>2. ASSUME NEW p \in Procs, job' = [job EXCEPT ![p] = None],
             UNCHANGED <<head, prepared, drive>>
      PROVE  InTime'
  BY <1>2 DEF InTime, TreeOf, Shapes
<1>3. ASSUME NEW p \in Procs, NEW o \in Owners, NEW m \in offers[o], HandleOffer(p, o, m),
             UNCHANGED <<head, prepared, drive>>
      PROVE  InTime'
  <2>1. m \in Manifests(o)
    BY DEF Shapes
  <2>2. \/ job' = job
        \/ /\ prepared[o] = m
           /\ job' = [job EXCEPT ![p] =
                        [owner |-> o, manifest |-> m, required |-> Required(o, m)]]
    BY <1>3 DEF HandleOffer
  <2>3. prepared[o] = m => TreeOf(head[o]) <= m.tree /\ m.tree <= drive[o] /\ m.tree \in Nat
    BY <2>1, ManifestFacts, DriveFacts DEF InTime
  <2> QED BY <1>3, <2>2, <2>3 DEF InTime, TreeOf, Shapes
<1>4. ASSUME NEW p \in Procs, NEW told \in BOOLEAN, CommitHead(p, told),
             UNCHANGED <<prepared, drive>>
      PROVE  InTime'
  <2> DEFINE o == job[p].owner
             m == job[p].manifest
  <2>1. job[p] # None /\ o \in Owners /\ m \in Manifests(o)
    BY <1>4 DEF CommitHead, Working, Shapes
  <2>2. m # None /\ TreeOf(m) = m.tree
    BY <2>1, ManifestFacts
  <2>3. m.tree <= drive[o] /\ (prepared[o] # None => m.tree <= prepared[o].tree)
    BY <2>1 DEF InTime
  <2>4. head' = [head EXCEPT ![o] = m] /\ \A q \in Procs : job'[q] = None
    BY <1>4, <2>1 DEF CommitHead, Leased, Shapes
  <2> HIDE DEF o, m
  <2>5. \A x \in Owners : /\ TreeOf(head'[x]) <= drive[x]
                          /\ prepared[x] # None => TreeOf(head'[x]) <= prepared[x].tree
    BY <2>1, <2>2, <2>3, <2>4 DEF InTime, Shapes
  <2>6. \A x \in Owners : TreeOf(prepared[x]) <= drive[x]
    BY DEF InTime
  <2> QED BY <1>4, <2>4, <2>5, <2>6 DEF InTime, TreeOf
<1>5. ASSUME NEW o \in Owners, drive' = [drive EXCEPT ![o] = @ + 1],
             UNCHANGED <<job, head, prepared>>
      PROVE  InTime'
  <2>1. \A x \in Owners : drive'[x] \in Nat /\ drive[x] <= drive'[x]
    BY <1>5, <1>0 DEF Shapes
  <2>2. \A x \in Owners : TreeOf(prepared[x]) <= drive'[x] /\ TreeOf(head[x]) <= drive'[x]
    BY <1>0, <2>1 DEF InTime
  <2>3. ASSUME NEW p \in Procs, job[p] # None
        PROVE  job[p].manifest.tree <= drive'[job[p].owner]
    <3>1. /\ job[p].owner \in Owners /\ job[p].manifest.tree \in Nat
          /\ job[p].manifest.tree <= drive[job[p].owner]
      BY <2>3, ManifestFacts, DriveFacts DEF InTime, Shapes
    <3> QED BY <1>0, <2>1, <3>1
  <2> QED BY <1>5, <2>2, <2>3 DEF InTime, TreeOf
<1>6. ASSUME NEW o \in Owners, Offer(o), UNCHANGED <<job, head, drive>>
      PROVE  InTime'
  <2> DEFINE m == Snapshot(o)
  <2>1. prepared' = [prepared EXCEPT ![o] = m]
    BY <1>6 DEF Offer
  <2>2. m \in Manifests(o) /\ m.tree = drive[o]
    BY <1>0, NoneAssumption DEF Snapshot, TreeOf, Manifests, AllManifests, Shapes
  <2>3. m # None /\ TreeOf(m) = drive[o]
    BY <2>2, ManifestFacts
  <2> HIDE DEF m
  <2>4. \A x \in Owners : /\ TreeOf(prepared'[x]) <= drive[x]
                          /\ prepared'[x] # None => TreeOf(head[x]) <= prepared'[x].tree
    BY <1>0, <2>1, <2>2, <2>3 DEF InTime, Shapes
  <2>5. ASSUME NEW p \in Procs, job[p] # None, prepared'[job[p].owner] # None
        PROVE  job[p].manifest.tree <= prepared'[job[p].owner].tree
    BY <2>1, <2>2, <2>5 DEF InTime, Shapes
  <2> QED BY <1>6, <2>4, <2>5 DEF InTime, TreeOf
<1>7. ASSUME NEW o \in Owners, prepared' = [prepared EXCEPT ![o] = None],
             UNCHANGED <<job, head, drive>>
      PROVE  InTime'
  BY <1>7, <1>0 DEF InTime, TreeOf, Shapes
<1> QED BY <1>1, <1>2, <1>3, <1>4, <1>5, <1>6, <1>7, Movers

(* Who writes what: blobs and heads are the host's, receipts it makes only   *)
(* with a head, and a report is made of a receipt.                           *)
LEMMA Writers ==
    ASSUME [Next]_backupVars
    PROVE  /\ blobs' = blobs \/ \E p \in Procs : PutBlob(p)
           /\ head' = head \/ \E p \in Procs, told \in BOOLEAN : CommitHead(p, told)
           /\ \/ receipts' = receipts
              \/ \E p \in Procs, told \in BOOLEAN : CommitHead(p, told)
              \/ \E o \in Owners : \E m \in receipts[o] : HandleStored(o, m)
              \/ \E o \in Owners : Lose(o) \/ LoseDevice(o)
           /\ \/ synced' = synced
              \/ \E o \in Owners : Offer(o)
              \/ \E o \in Owners : \E m \in receipts[o] : HandleStored(o, m)
<1>1. CASE UNCHANGED backupVars
  BY <1>1 DEF backupVars, disk, owner
<1>2. CASE SettingsStep
  BY <1>2 DEF SettingsStep, SetCapacity, SetAllowance, disk, owner
<1>3. ASSUME NEW p \in Procs, ServiceStep(p)
      PROVE  \/ UNCHANGED <<blobs, head, receipts, synced>>
             \/ PutBlob(p) /\ UNCHANGED <<head, receipts, synced>>
             \/ \E told \in BOOLEAN : CommitHead(p, told) /\ UNCHANGED <<blobs, synced>>
  BY <1>3 DEF ServiceStep, StartService, StopService, HandleOffer, PutBlob, CommitHead,
              Abandon, Kill, disk, owner
<1>4. ASSUME NEW o \in Owners, OwnerStep(o)
      PROVE  /\ UNCHANGED <<blobs, head>>
             /\ \/ UNCHANGED <<receipts, synced>>
                \/ Offer(o) /\ UNCHANGED receipts
                \/ \E m \in receipts[o] : HandleStored(o, m)
                \/ (Lose(o) \/ LoseDevice(o)) /\ UNCHANGED synced
  BY <1>4 DEF OwnerStep, Edit, Offer, Restart, Lose, LoseDevice, HandleStored, AskHead,
              Recover, disk, owner
<1> QED BY <1>1, <1>2, <1>3, <1>4 DEF Next

(* A transfer that ends puts a newer snapshot in the head's place, all of it *)
(* on the disk, and nobody else's head or blobs change.                      *)
LEMMA CommitFacts ==
    ASSUME Shapes, Leased, InTime,
           NEW p \in Procs, NEW told \in BOOLEAN, CommitHead(p, told)
    PROVE  /\ job[p].owner \in Owners /\ job[p].manifest \in Manifests(job[p].owner)
           /\ \A o \in Owners :
                head'[o] = IF o = job[p].owner THEN job[p].manifest ELSE head[o]
           /\ Tree[job[p].owner][job[p].manifest.tree] \subseteq blobs[job[p].owner]
           /\ TreeOf(head[job[p].owner]) <= job[p].manifest.tree
           /\ blobs' = blobs
           /\ \A o \in Owners : receipts'[o] \subseteq receipts[o]
                 \cup (IF o = job[p].owner THEN {job[p].manifest} ELSE {})
<1>1. job[p] # None
  BY DEF CommitHead, Working
<1>2. Missing(job[p].owner, job[p].manifest) = {}
  BY DEF CommitHead, Complete
<1>3. /\ head' = [head EXCEPT ![job[p].owner] = job[p].manifest] /\ blobs' = blobs
      /\ \/ receipts' = receipts
         \/ receipts' = [receipts EXCEPT ![job[p].owner] = @ \cup {job[p].manifest}]
  BY DEF CommitHead, disk
<1>4. \A o \in Owners : receipts'[o] \subseteq receipts[o]
         \cup (IF o = job[p].owner THEN {job[p].manifest} ELSE {})
  BY <1>3 DEF Shapes
<1> QED BY <1>1, <1>2, <1>3, <1>4 DEF Shapes, InTime, Missing, Entries

(* What is on the host's disk stays there, and no head goes back.            *)
LEMMA NothingIsLost ==
    ASSUME Shapes, Leased, InTime, [Next]_backupVars
    PROVE  \A o \in Owners : /\ blobs[o] \subseteq blobs'[o]
                             /\ TreeOf(head[o]) <= TreeOf(head'[o])
<1> SUFFICES ASSUME NEW o \in Owners
             PROVE  blobs[o] \subseteq blobs'[o] /\ TreeOf(head[o]) <= TreeOf(head'[o])
    OBVIOUS
<1>1. blobs[o] \subseteq blobs'[o]
  <2>1. ASSUME NEW p \in Procs, PutBlob(p) PROVE blobs[o] \subseteq blobs'[o]
    BY <2>1 DEF PutBlob, Shapes
  <2> QED BY <2>1, Writers
<1>2. TreeOf(head[o]) <= TreeOf(head'[o])
  <2>1. TreeOf(head[o]) \in Nat
    BY DriveFacts, ManifestFacts DEF Shapes, TreeOf
  <2>2. ASSUME NEW p \in Procs, NEW told \in BOOLEAN, CommitHead(p, told)
        PROVE  TreeOf(head[o]) <= TreeOf(head'[o])
    <3>1. CASE o = job[p].owner
      <4>1. head'[o] = job[p].manifest /\ TreeOf(head[o]) <= job[p].manifest.tree
        BY <2>2, <3>1, CommitFacts
      <4>2. TreeOf(job[p].manifest) = job[p].manifest.tree
        BY <2>2, <3>1, CommitFacts, ManifestFacts
      <4> QED BY <4>1, <4>2
    <3>2. CASE o # job[p].owner
      BY <2>1, <2>2, <3>2, CommitFacts
    <3> QED BY <3>1, <3>2
  <2> QED BY <2>1, <2>2, Writers
<1> QED BY <1>1, <1>2

LEMMA StoredStays ==
    ASSUME Shapes, Leased, InTime, [Next]_backupVars, Shapes',
           NEW o \in Owners, NEW n \in Nat, Stored(o, n)
    PROVE  Stored(o, n)'
<1>1. TreeOf(head[o]) \in Nat /\ TreeOf(head'[o]) \in Nat
  BY DriveFacts, ManifestFacts DEF Shapes, TreeOf
<1>2. blobs[o] \subseteq blobs'[o] /\ TreeOf(head[o]) <= TreeOf(head'[o])
  BY NothingIsLost
<1>3. TreeOf(head[o])' = TreeOf(head'[o])
  BY DEF TreeOf
<1> QED BY <1>1, <1>2, <1>3 DEF Stored

(* A snapshot whose transfer ends is stored then.                            *)
LEMMA CommitStores ==
    ASSUME Shapes, Leased, InTime,
           NEW p \in Procs, NEW told \in BOOLEAN, CommitHead(p, told),
           NEW o \in Owners, NEW m \in Manifests(o),
           o = job[p].owner, m = job[p].manifest
    PROVE  Stored(o, m.tree)'
<1>1. head'[o] = m /\ Tree[o][m.tree] \subseteq blobs'[o]
  BY CommitFacts
<1>2. TreeOf(m) = m.tree /\ m.tree \in Nat
  BY ManifestFacts, DriveFacts
<1> QED BY <1>1, <1>2 DEF Stored, TreeOf

LEMMA HeadsStep ==
    ASSUME Shapes, Leased, InTime, HeadsStored, [Next]_backupVars, Shapes'
    PROVE  HeadsStored'
<1> SUFFICES ASSUME NEW o \in Owners, NEW m \in Manifests(o), m = head'[o]
             PROVE  Stored(o, m.tree)'
    BY DEF HeadsStored, Shapes
<1>1. CASE m = head[o]
  <2>1. m.tree \in Nat /\ Stored(o, m.tree)
    BY <1>1, ManifestFacts, DriveFacts DEF HeadsStored
  <2> QED BY <2>1, StoredStays
<1>2. ASSUME NEW p \in Procs, NEW told \in BOOLEAN, CommitHead(p, told), m # head[o]
      PROVE  Stored(o, m.tree)'
  <2>1. o = job[p].owner /\ m = job[p].manifest
    BY <1>2, CommitFacts
  <2> QED BY <1>2, <2>1, CommitStores
<1> QED BY <1>1, <1>2, Writers

LEMMA ReceiptsStep ==
    ASSUME Shapes, Leased, InTime, ReceiptsStored, [Next]_backupVars, Shapes'
    PROVE  ReceiptsStored'
<1> SUFFICES ASSUME NEW o \in Owners, NEW m \in receipts'[o] PROVE Stored(o, m.tree)'
    BY DEF ReceiptsStored
<1>1. CASE m \in receipts[o]
  <2>1. m.tree \in Nat /\ Stored(o, m.tree)
    BY <1>1, ManifestFacts, DriveFacts DEF ReceiptsStored, Shapes
  <2> QED BY <2>1, StoredStays
<1>2. ASSUME NEW p \in Procs, NEW told \in BOOLEAN, CommitHead(p, told),
             m \notin receipts[o]
      PROVE  Stored(o, m.tree)'
  <2>1. o = job[p].owner /\ m = job[p].manifest
    BY <1>2, CommitFacts
  <2>2. m \in Manifests(o)
    BY <2>1, <1>2, CommitFacts
  <2> QED BY <1>2, <2>1, <2>2, CommitStores
<1>3. ASSUME NEW q \in Owners, NEW r \in receipts[q], HandleStored(q, r)
      PROVE  m \in receipts[o]
  BY <1>3 DEF HandleStored, Shapes
<1>4. ASSUME NEW q \in Owners, Lose(q) \/ LoseDevice(q)
      PROVE  m \in receipts[o]
  BY <1>4 DEF Lose, LoseDevice, Shapes
<1> QED BY <1>1, <1>2, <1>3, <1>4, Writers

LEMMA ReportsStep ==
    ASSUME Shapes, Leased, InTime, ReceiptsStored, ReportsStored, [Next]_backupVars, Shapes'
    PROVE  ReportsStored'
<1> SUFFICES ASSUME NEW o \in Owners, NEW n \in Nat, n = synced'[o], n # 0
             PROVE  Stored(o, n)'
    BY DEF ReportsStored, Shapes
<1>1. CASE n = synced[o]
  BY <1>1, StoredStays DEF ReportsStored
<1>2. ASSUME NEW q \in Owners, Offer(q)
      PROVE  n = synced[o]
  BY <1>2 DEF Offer, Shapes
<1>3. ASSUME NEW q \in Owners, NEW m \in receipts[q], HandleStored(q, m), n # synced[o]
      PROVE  Stored(o, n)'
  <2>1. o = q /\ n = m.tree
    BY <1>3 DEF HandleStored, Shapes
  <2>2. Stored(o, n)
    BY <2>1 DEF ReceiptsStored
  <2> QED BY <2>2, StoredStays
<1> QED BY <1>1, <1>2, <1>3, Writers

-----------------------------------------------------------------------------
(* The invariant of all that follows.                                        *)
THEOREM Invariant == Spec => []IInv
<1>1. Init => IInv
  <2> SUFFICES ASSUME Init PROVE IInv
    OBVIOUS
  <2> USE DriveFacts, StartsFacts DEF Init
  <2>1. Shapes
    BY DEF Shapes
  <2>2. Leased
    BY DEF Leased
  <2>3. InTime
    BY DEF InTime, TreeOf
  <2>4. HeadsStored /\ ReceiptsStored /\ ReportsStored
    BY DEF HeadsStored, ReceiptsStored, ReportsStored
  <2> QED BY <2>1, <2>2, <2>3, <2>4 DEF IInv
<1>2. IInv /\ [Next]_backupVars => IInv'
  BY ShapesStep, LeasedStep, InTimeStep, HeadsStep, ReceiptsStep, ReportsStep DEF IInv
<1> QED BY <1>1, <1>2, PTL DEF Spec

(* All blobs that the head's manifest names are on the host's disk, wherever *)
(* transfers are cut off and processes killed.                               *)
THEOREM HeadsAreComplete == Spec => []HeadComplete
<1>1. IInv => HeadComplete
  BY DEF IInv, HeadComplete, HeadsStored, Stored, Missing, Entries
<1> QED BY <1>1, Invariant, PTL

(* What an owner's status reports as backed up is stored.                    *)
THEOREM ReportsAreTrue == Spec => []SyncedIsStored
<1>1. IInv => SyncedIsStored
  <2> SUFFICES ASSUME IInv, NEW o \in Owners, synced[o] # 0
               PROVE  TreeOf(head[o]) >= synced[o] /\ Tree[o][synced[o]] \subseteq blobs[o]
    BY DEF SyncedIsStored
  <2>1. synced[o] \in Nat /\ TreeOf(head[o]) \in Nat
    BY ManifestFacts, DriveFacts DEF IInv, Shapes, TreeOf
  <2> QED BY <2>1 DEF IInv, ReportsStored, Stored
<1> QED BY <1>1, Invariant, PTL

(* Late offers and a second process of the host never put an older snapshot  *)
(* in the place of a newer one.                                              *)
THEOREM HeadsGoForward == Spec => HeadForward
<1>1. IInv /\ [Next]_backupVars => \A o \in Owners : TreeOf(head[o]) <= TreeOf(head'[o])
  BY NothingIsLost DEF IInv
<1>2. IInv /\ [Next]_backupVars =>
        [\A o \in Owners : TreeOf(head[o]) <= TreeOf(head'[o])]_backupVars
  BY <1>1
<1> QED BY <1>2, Invariant, PTL DEF Spec, HeadForward

-----------------------------------------------------------------------------
(* The space: a total of friends' spaces is the number of units in them, so  *)
(* a total of less is no more.                                               *)
(* A non-empty set of numbers has a least element.                           *)
LEMMA Least ==
    ASSUME NEW T \in SUBSET Nat, T # {}
    PROVE  \E x \in T : \A y \in T : x <= y
<1> DEFINE R == OpToRel(<, Nat)
<1>1. IsWellFoundedOn(R, Nat)
  BY NatLessThanWellFounded
<1>2. PICK x \in T : \A y \in T : <<y, x>> \notin R
  <2> HIDE DEF R
  <2> QED BY <1>1, WFMin
<1>3. \A y \in T : ~(y < x)
  BY <1>2 DEF OpToRel
<1> QED BY <1>3

(* The units of space that the owners of a set have.                         *)
Units(f, s) == UNION {{o} \X (1..f[o]) : o \in s}
Pick(s) == CHOOSE x \in s : TRUE

(* it[s] is the total of the owners in s, as the fold adds it up.            *)
Sums(f, it) ==
  it = [s \in SUBSET Owners |->
          IF s = {} THEN 0 ELSE f[Pick(s)] + it[s \ {Pick(s)}]]

LEMMA UnitsFinite ==
  ASSUME NEW f \in [Owners -> Nat], NEW s \in SUBSET Owners
  PROVE  IsFiniteSet(Units(f, s))
<1> DEFINE T == {{o} \X (1..f[o]) : o \in s}
           g == [o \in s |-> {o} \X (1..f[o])]
<1>1. IsFiniteSet(s)
  BY OwnersAssumption, FS_Subset
<1>2. g \in Surjection(s, T)
  BY DEF Surjection
<1>3. IsFiniteSet(T)
  <2> HIDE DEF g, T
  <2> QED BY <1>1, <1>2, FS_Surjection
<1>4. \A t \in T : IsFiniteSet(t)
  <2> SUFFICES ASSUME NEW o \in s PROVE IsFiniteSet({o} \X (1..f[o]))
    OBVIOUS
  <2>1. IsFiniteSet({o}) BY FS_Singleton
  <2>2. IsFiniteSet(1..f[o]) BY FS_Interval
  <2> QED BY <2>1, <2>2, FS_Product
<1> HIDE DEF T
<1>5. IsFiniteSet(UNION T) BY <1>3, <1>4, FS_UNION
<1> QED BY <1>5 DEF Units, T

LEMMA UnitsAdd ==
  ASSUME NEW f \in [Owners -> Nat], NEW s \in SUBSET Owners, NEW x \in s
  PROVE  Cardinality(Units(f, s)) = f[x] + Cardinality(Units(f, s \ {x}))
<1> DEFINE A == {x} \X (1..f[x])
           B == Units(f, s \ {x})
<1>1. Units(f, s) = A \cup B /\ A \cap B = {}
  BY DEF Units
<1>2. IsFiniteSet(A) /\ Cardinality(A) = f[x]
  <2>1. IsFiniteSet({x}) /\ Cardinality({x}) = 1 BY FS_Singleton
  <2>2. IsFiniteSet(1..f[x]) /\ Cardinality(1..f[x]) = f[x] BY FS_Interval
  <2>3. f[x] \in Nat OBVIOUS
  <2>4. IsFiniteSet(A) /\ Cardinality(A) = Cardinality({x}) * Cardinality(1..f[x])
    BY <2>1, <2>2, FS_Product
  <2> QED BY <2>1, <2>2, <2>3, <2>4
<1>3. IsFiniteSet(B)
  BY UnitsFinite
<1> HIDE DEF A, B
<1>4. Cardinality(A \cup B) = Cardinality(A) + Cardinality(B) - Cardinality({})
  BY <1>1, <1>2, <1>3, FS_Union
<1>5. Cardinality({}) = 0 /\ Cardinality(B) \in Nat
  BY <1>3, FS_EmptySet, FS_CardinalityType
<1>6. f[x] \in Nat OBVIOUS
<1> QED BY <1>1, <1>2, <1>4, <1>5, <1>6 DEF B

LEMMA SumExists ==
  ASSUME NEW f \in [Owners -> Nat]
  PROVE  \E it : Sums(f, it)
<1> DEFINE it == [s \in SUBSET Owners |-> Cardinality(Units(f, s))]
<1>1. ASSUME NEW s \in SUBSET Owners
      PROVE  it[s] = IF s = {} THEN 0 ELSE f[Pick(s)] + it[s \ {Pick(s)}]
  <2>1. CASE s = {}
    BY <2>1, FS_EmptySet DEF Units
  <2>2. CASE s # {}
    <3>1. Pick(s) \in s BY <2>2 DEF Pick
    <3> QED BY <2>2, <3>1, UnitsAdd
  <2> QED BY <2>1, <2>2
<1>2. Sums(f, it)
  BY <1>1 DEF Sums
<1> QED BY <1>2

LEMMA SumIs ==
  ASSUME NEW f \in [Owners -> Nat], NEW it, Sums(f, it)
  PROVE  it[Owners] = Cardinality(Units(f, Owners))
<1> DEFINE bad == {s \in SUBSET Owners : it[s] # Cardinality(Units(f, s))}
           sizes == {Cardinality(s) : s \in bad}
<1> SUFFICES ASSUME bad # {} PROVE FALSE
  OBVIOUS
<1>1. sizes \in SUBSET Nat /\ sizes # {}
  BY OwnersAssumption, FS_Subset, FS_CardinalityType
<1>2. PICK n \in sizes : \A k \in sizes : n <= k
  <2> HIDE DEF sizes
  <2> QED BY <1>1, Least
<1>3. PICK s \in bad : n = Cardinality(s)
  OBVIOUS
<1>4. it[s] = IF s = {} THEN 0 ELSE f[Pick(s)] + it[s \ {Pick(s)}]
  BY DEF Sums
<1>5. s # {}
  BY <1>4, FS_EmptySet DEF Units
<1>6. Pick(s) \in s
  BY <1>5 DEF Pick
<1>7. IsFiniteSet(s)
  BY OwnersAssumption, FS_Subset
<1>8. Cardinality(s \ {Pick(s)}) = n - 1 /\ n \in Nat
  BY <1>3, <1>6, <1>7, FS_RemoveElement, FS_CardinalityType
<1>9. s \ {Pick(s)} \notin bad
  BY <1>2, <1>8
<1> QED BY <1>4, <1>5, <1>6, <1>9, UnitsAdd

LEMMA TotalCounts ==
  ASSUME NEW f \in [Owners -> Nat]
  PROVE  Total(f) = Cardinality(Units(f, Owners))
<1> DEFINE it == CHOOSE it : Sums(f, it)
<1>1. Sums(f, it)
  BY SumExists
<1>2. Total(f) = it[Owners]
  BY DEF Total, MapThenSumSet, MapThenFoldSet, Sums, Pick
<1> QED BY <1>1, <1>2, SumIs

LEMMA TotalGrows ==
    ASSUME NEW f \in [Owners -> Nat], NEW g \in [Owners -> Nat], \A o \in Owners : f[o] <= g[o]
    PROVE  Total(f) \in Nat /\ Total(g) \in Nat /\ Total(f) <= Total(g)
<1>1. Units(f, Owners) \subseteq Units(g, Owners)
  <2>1. \A o \in Owners : 1..f[o] \subseteq 1..g[o]
    OBVIOUS
  <2> QED BY <2>1 DEF Units
<1>2. IsFiniteSet(Units(f, Owners)) /\ IsFiniteSet(Units(g, Owners))
  BY UnitsFinite
<1>3. /\ Cardinality(Units(f, Owners)) \in Nat /\ Cardinality(Units(g, Owners)) \in Nat
      /\ Cardinality(Units(f, Owners)) <= Cardinality(Units(g, Owners))
  BY <1>1, <1>2, FS_Subset, FS_CardinalityType
<1> QED BY <1>3, TotalCounts

(* What takes no more space than something covered is covered.               *)
LEMMA LessIsCovered ==
    ASSUME NEW total \in Nat, NEW space \in [Owners -> Nat],
           NEW used \in [Owners -> Nat], NEW less \in [Owners -> Nat],
           \A o \in Owners : less[o] <= used[o],
           Covered(total, space, used)
    PROVE  Covered(total, space, less)
<1>1. Total(less) <= Total(used) /\ Total(less) \in Nat /\ Total(used) \in Nat
  BY TotalGrows
<1>2. \A o \in Owners : less[o] <= space[o]
  BY DEF Covered
<1> QED BY <1>1, <1>2 DEF Covered

(* The part of TypeOK that the space needs.                                  *)
Sizes ==
    /\ capacity \in Nat /\ allowance \in [Owners -> Nat]
    /\ junk \in [Owners -> Nat]
    /\ \A o \in Owners : IsFiniteSet(blobs[o])

(* A transfer never needs more than was reserved for it.                     *)
Reserved == \A p \in Procs : job[p] # None =>
    /\ job[p].required \in Nat
    /\ Required(job[p].owner, job[p].manifest) <= job[p].required

SpaceInv == Sizes /\ Reserved /\ SpaceKept

LEMMA EntriesFinite ==
    ASSUME NEW o \in Owners, NEW m \in Manifests(o)
    PROVE  IsFiniteSet(Entries(o, m))
BY ManifestFacts, TreeAssumption DEF Entries

LEMMA UsageIsSize ==
    ASSUME Sizes, NEW o \in Owners
    PROVE  Cardinality(blobs[o]) \in Nat /\ Used(o) \in Nat /\ Usage[o] = Used(o)
<1>1. Cardinality(blobs[o]) \in Nat /\ junk[o] \in Nat
  BY FS_CardinalityType DEF Sizes
<1> QED BY <1>1 DEF Used, Usage

LEMMA RequiredIsSize ==
    ASSUME Sizes, NEW o \in Owners, NEW m \in Manifests(o)
    PROVE  /\ Cardinality(Missing(o, m)) \in Nat /\ IsFiniteSet(Missing(o, m))
           /\ Required(o, m) \in Nat
<1>1. IsFiniteSet(Missing(o, m))
  BY EntriesFinite, FS_Difference DEF Missing
<1>2. Cardinality(Missing(o, m)) \in Nat
  BY <1>1, FS_CardinalityType
<1> QED BY <1>1, <1>2, UsageIsSize DEF Required

(* Who touches the host's disk, the settings and the transfers.              *)
LEMMA SpaceMovers ==
    ASSUME [Next]_backupVars
    PROVE  \/ UNCHANGED <<settings, job, disk>>
           \/ \E total \in Capacities : SetCapacity(total)
           \/ \E o \in Owners, space \in Allowances \cup {0} : SetAllowance(o, space)
           \/ \E p \in Procs :
                \/ job' = [job EXCEPT ![p] = None] /\ UNCHANGED <<settings, disk>>
                \/ \E o \in Owners : \E m \in offers[o] : HandleOffer(p, o, m)
                \/ PutBlob(p) \/ Kill(p)
                \/ \E told \in BOOLEAN : CommitHead(p, told)
<1>1. CASE UNCHANGED backupVars
  BY <1>1 DEF backupVars
<1>2. ASSUME NEW p \in Procs, ServiceStep(p)
      PROVE  \/ UNCHANGED <<settings, job, disk>>
             \/ job' = [job EXCEPT ![p] = None] /\ UNCHANGED <<settings, disk>>
             \/ \E o \in Owners : \E m \in offers[o] : HandleOffer(p, o, m)
             \/ PutBlob(p) \/ Kill(p)
             \/ \E told \in BOOLEAN : CommitHead(p, told)
  BY <1>2 DEF ServiceStep, StartService, StopService, Abandon
<1>3. ASSUME NEW o \in Owners, OwnerStep(o) PROVE UNCHANGED <<settings, job, disk>>
  BY <1>3 DEF OwnerStep, Edit, Offer, Restart, Lose, LoseDevice, HandleStored, AskHead, Recover
<1> QED BY <1>1, <1>2, <1>3 DEF Next, SettingsStep

(* The space of the next state is that of its settings and its usage.        *)
LEMMA KeptNext == SpaceKept' <=> Covered(capacity', allowance', Usage')
<1>1. Total(allowance)' = Total(allowance') /\ Total(Usage)' = Total(Usage')
  BY DEF Total, MapThenSumSet, MapThenFoldSet
<1> QED BY <1>1 DEF SpaceKept, Covered

(* A write that takes what was reserved and nothing of others' space.        *)
LEMMA WriteKept ==
    ASSUME Sizes, Sizes', NEW j, j.owner \in Owners, j.required \in Nat,
           StillReserved(j), UNCHANGED settings,
           Used(j.owner)' <= j.required,
           \A o \in Owners \ {j.owner} : Used(o)' = Used(o)
    PROVE  SpaceKept'
<1> DEFINE reserved == [Usage EXCEPT ![j.owner] = j.required]
           after == Usage'
<1>1. reserved \in [Owners -> Nat] /\ Usage \in [Owners -> Nat]
  BY UsageIsSize DEF Usage
<1>2. after \in [Owners -> Nat] /\ \A o \in Owners : after[o] = Used(o)'
  <2>1. \A o \in Owners : Used(o)' \in Nat
    <3> TAKE o \in Owners
    <3>1. Cardinality(blobs'[o]) \in Nat /\ junk'[o] \in Nat
      BY FS_CardinalityType DEF Sizes
    <3> QED BY <3>1 DEF Used
  <2> QED BY <2>1 DEF Usage
<1>3. \A o \in Owners : after[o] <= reserved[o]
  BY <1>1, <1>2, UsageIsSize DEF Usage
<1>4. Covered(capacity, allowance, reserved)
  BY DEF StillReserved
<1>5. capacity \in Nat /\ allowance \in [Owners -> Nat]
  BY DEF Sizes
<1> HIDE DEF reserved, after
<1>6. Covered(capacity, allowance, after)
  BY <1>1, <1>2, <1>3, <1>4, <1>5, LessIsCovered
<1> QED BY <1>6, KeptNext DEF after, settings

(* The transfer under way: what it needs is reserved, and no other is.       *)
LEMMA JobFacts ==
    ASSUME Shapes, Leased, SpaceInv, NEW p \in Procs, job[p] # None
    PROVE  /\ \E o \in Owners : \E m \in Manifests(o) :
                /\ job[p].owner = o /\ job[p].manifest = m
                /\ job[p].required \in Nat /\ Required(o, m) <= job[p].required
           /\ \A q \in Procs \ {p} : job[q] = None
BY NoneAssumption DEF Shapes, Leased, SpaceInv, Reserved

(* A blob is counted when it is written and was counted before as missing.   *)
LEMMA BlobStep ==
    ASSUME Shapes, Leased, SpaceInv, NEW p \in Procs, PutBlob(p)
    PROVE  SpaceInv'
<1>1. PICK o \in Owners : \E m \in Manifests(o) :
                /\ job[p].owner = o /\ job[p].manifest = m
                /\ job[p].required \in Nat /\ Required(o, m) <= job[p].required
  BY JobFacts DEF PutBlob, Working
<1>2. PICK m \in Manifests(o) :
                /\ job[p].owner = o /\ job[p].manifest = m
                /\ job[p].required \in Nat /\ Required(o, m) <= job[p].required
  BY <1>1
<1>3. /\ StillReserved(job[p]) /\ UNCHANGED <<settings, lease, job, head, junk>>
      /\ \E b \in Missing(o, m) : blobs' = [blobs EXCEPT ![o] = @ \cup {b}]
  BY <1>2 DEF PutBlob
<1>4. PICK b \in Missing(o, m) : blobs' = [blobs EXCEPT ![o] = @ \cup {b}]
  BY <1>3
<1>5. /\ blobs'[o] = blobs[o] \cup {b} /\ b \notin blobs[o]
      /\ \A x \in Owners \ {o} : blobs'[x] = blobs[x]
  BY <1>4 DEF Missing, Shapes
<1>6. IsFiniteSet(blobs'[o]) /\ Cardinality(blobs'[o]) = Cardinality(blobs[o]) + 1
  <2>1. IsFiniteSet(blobs[o])
    BY DEF SpaceInv, Sizes
  <2>2. /\ IsFiniteSet(blobs[o] \cup {b})
        /\ Cardinality(blobs[o] \cup {b}) = Cardinality(blobs[o]) + 1
    BY <1>5, <2>1, FS_AddElement
  <2> QED BY <1>5, <2>2
<1>7. Sizes'
  BY <1>3, <1>5, <1>6 DEF SpaceInv, Sizes, settings
<1>8. Cardinality(Missing(o, m))' = Cardinality(Missing(o, m)) - 1
  <2>1. Missing(o, m)' = Missing(o, m) \ {b}
    BY <1>5 DEF Missing, Entries
  <2>2. IsFiniteSet(Missing(o, m))
    BY RequiredIsSize DEF SpaceInv
  <2>3. Cardinality(Missing(o, m) \ {b}) = Cardinality(Missing(o, m)) - 1
    BY <2>2, FS_RemoveElement
  <2> QED BY <2>1, <2>3
<1>9. Used(o)' = Used(o) + 1 /\ \A x \in Owners \ {o} : Used(x)' = Used(x)
  <2>1. Cardinality(blobs[o]) \in Nat /\ junk[o] \in Nat
    BY UsageIsSize DEF SpaceInv, Sizes
  <2> QED BY <1>3, <1>5, <1>6, <2>1 DEF Used
<1>10. Used(o) \in Nat /\ Cardinality(Missing(o, m)) \in Nat
  BY UsageIsSize, RequiredIsSize DEF SpaceInv
<1>11. Required(o, m)' = Required(o, m)
  BY <1>3, <1>8, <1>9, <1>10 DEF Required
<1>12. Used(o)' <= job[p].required
  <2>1. Cardinality(Missing(o, m)) > 0
    BY <1>10, RequiredIsSize, FS_EmptySet DEF SpaceInv
  <2> QED BY <1>2, <1>9, <1>10, <2>1 DEF Required
<1>13. SpaceKept'
  BY <1>2, <1>3, <1>7, <1>9, <1>12, WriteKept DEF SpaceInv
<1>14. Reserved'
  <2> SUFFICES ASSUME NEW q \in Procs, job'[q] # None
               PROVE  /\ job'[q].required \in Nat
                      /\ Required(job[q].owner, job[q].manifest)' <= job'[q].required
    BY DEF Reserved
  <2>1. q = p /\ job' = job
    BY <1>3, JobFacts DEF PutBlob, Working
  <2>2. Required(job[q].owner, job[q].manifest)' = Required(o, m)'
    BY <1>2, <2>1 DEF Required, Used, Missing, Entries
  <2> QED BY <1>2, <1>11, <2>1, <2>2
<1> QED BY <1>7, <1>13, <1>14 DEF SpaceInv

(* The manifest was counted as well, unless it is the head already.          *)
LEMMA CommitStep ==
    ASSUME Shapes, Leased, SpaceInv, NEW p \in Procs, NEW told \in BOOLEAN, CommitHead(p, told)
    PROVE  SpaceInv'
<1>1. PICK o \in Owners : \E m \in Manifests(o) :
                /\ job[p].owner = o /\ job[p].manifest = m
                /\ job[p].required \in Nat /\ Required(o, m) <= job[p].required
  BY JobFacts DEF CommitHead, Working
<1>2. PICK m \in Manifests(o) :
                /\ job[p].owner = o /\ job[p].manifest = m
                /\ job[p].required \in Nat /\ Required(o, m) <= job[p].required
  BY <1>1
<1>3. /\ StillReserved(job[p]) /\ UNCHANGED <<settings, blobs, junk>>
      /\ head' = [head EXCEPT ![o] = m] /\ job' = [job EXCEPT ![p] = None]
  BY <1>2 DEF CommitHead
<1>4. Sizes'
  BY <1>3 DEF SpaceInv, Sizes, settings
<1>5. /\ Used(o)' <= Used(o) + (IF head[o] = m THEN 0 ELSE 1)
      /\ \A x \in Owners \ {o} : Used(x)' = Used(x)
  <2>1. Cardinality(blobs[o]) \in Nat /\ junk[o] \in Nat
    BY UsageIsSize DEF SpaceInv, Sizes
  <2>2. head'[o] = m /\ m # None /\ \A x \in Owners \ {o} : head'[x] = head[x]
    BY <1>3, ManifestFacts DEF Shapes
  <2> QED BY <1>3, <2>1, <2>2 DEF Used
<1>6. Used(o) \in Nat /\ Cardinality(Missing(o, m)) \in Nat
  BY UsageIsSize, RequiredIsSize DEF SpaceInv
<1>7. Used(o)' \in Nat
  <2>1. Cardinality(blobs'[o]) \in Nat /\ junk'[o] \in Nat
    BY <1>4, FS_CardinalityType DEF Sizes
  <2> QED BY <2>1 DEF Used
<1>8. Used(o)' <= job[p].required
  BY <1>2, <1>5, <1>6, <1>7 DEF Required
<1>9. SpaceKept'
  BY <1>2, <1>3, <1>4, <1>5, <1>8, WriteKept DEF SpaceInv
<1>10. Reserved'
  <2>1. \A q \in Procs \ {p} : job[q] = None
    BY JobFacts DEF CommitHead, Working
  <2>2. \A q \in Procs : job'[q] = None
    BY <1>3, <2>1 DEF Shapes
  <2> QED BY <2>2 DEF Reserved
<1> QED BY <1>4, <1>9, <1>10 DEF SpaceInv

(* What a killed process leaves is no more than it was about to write.       *)
LEMMA KillStep ==
    ASSUME Shapes, Leased, SpaceInv, NEW p \in Procs, Kill(p)
    PROVE  SpaceInv'
<1>1. PICK o \in Owners : \E m \in Manifests(o) :
                /\ job[p].owner = o /\ job[p].manifest = m
                /\ job[p].required \in Nat /\ Required(o, m) <= job[p].required
  BY JobFacts DEF Kill, Working
<1>2. PICK m \in Manifests(o) :
                /\ job[p].owner = o /\ job[p].manifest = m
                /\ job[p].required \in Nat /\ Required(o, m) <= job[p].required
  BY <1>1
<1>3. /\ StillReserved(job[p]) /\ UNCHANGED <<settings, blobs, head>>
      /\ junk' = [junk EXCEPT ![o] = @ + 1] /\ job' = [job EXCEPT ![p] = None]
      /\ Missing(o, m) # {} \/ head[o] # m
  BY <1>2 DEF Kill, Complete
<1>4. Sizes'
  BY <1>3 DEF SpaceInv, Sizes, settings
<1>5. Used(o)' = Used(o) + 1 /\ \A x \in Owners \ {o} : Used(x)' = Used(x)
  <2>1. Cardinality(blobs[o]) \in Nat /\ junk[o] \in Nat
    BY UsageIsSize DEF SpaceInv, Sizes
  <2>2. junk'[o] = junk[o] + 1 /\ \A x \in Owners \ {o} : junk'[x] = junk[x]
    BY <1>3 DEF SpaceInv, Sizes
  <2> QED BY <1>3, <2>1, <2>2 DEF Used
<1>6. Used(o) \in Nat /\ Cardinality(Missing(o, m)) \in Nat
  BY UsageIsSize, RequiredIsSize DEF SpaceInv
<1>7. Missing(o, m) # {} => Cardinality(Missing(o, m)) > 0
  BY <1>6, RequiredIsSize, FS_EmptySet DEF SpaceInv
<1>8. Used(o)' <= job[p].required
  BY <1>2, <1>3, <1>5, <1>6, <1>7 DEF Required
<1>9. SpaceKept'
  BY <1>2, <1>3, <1>4, <1>5, <1>8, WriteKept DEF SpaceInv
<1>10. Reserved'
  <2>1. \A q \in Procs \ {p} : job[q] = None
    BY JobFacts DEF Kill, Working
  <2>2. \A q \in Procs : job'[q] = None
    BY <1>3, <2>1 DEF Shapes
  <2> QED BY <2>2 DEF Reserved
<1> QED BY <1>4, <1>9, <1>10 DEF SpaceInv

(* While the disk is left alone, its usage and what is missing stay.         *)
LEMMA DiskStays ==
    ASSUME Sizes, UNCHANGED disk
    PROVE  /\ Usage' = Usage
           /\ \A o \in Owners : \A m \in Manifests(o) : Required(o, m)' = Required(o, m)
BY DEF disk, Usage, Used, Required, Missing, Entries

LEMMA SpaceStep ==
    ASSUME Shapes, Leased, SpaceInv, [Next]_backupVars
    PROVE  SpaceInv'
<1>1. ASSUME UNCHANGED disk,
             \A q \in Procs : job'[q] = job[q] \/ job'[q] = None
      PROVE  Reserved'
  BY <1>1, DiskStays DEF Reserved, SpaceInv, Shapes
<1>2. ASSUME UNCHANGED <<settings, disk>>
      PROVE  Sizes' /\ SpaceKept'
  <2>1. Usage' = Usage /\ capacity' = capacity /\ allowance' = allowance
    BY <1>2, DiskStays DEF SpaceInv, settings
  <2>2. Sizes'
    BY <1>2 DEF SpaceInv, Sizes, settings, disk
  <2>3. Covered(capacity', allowance', Usage')
    BY <2>1 DEF SpaceInv, SpaceKept
  <2> QED BY <2>2, <2>3, KeptNext
<1>3. ASSUME NEW total \in Nat, NEW space \in [Owners -> Nat], Change(total, space),
             UNCHANGED <<job, disk>>
      PROVE  SpaceInv'
  <2>1. Usage' = Usage /\ capacity' = total /\ allowance' = space
    BY <1>3, DiskStays DEF SpaceInv, Change
  <2>2. Sizes'
    BY <1>3, <2>1 DEF SpaceInv, Sizes, disk
  <2>3. Covered(capacity', allowance', Usage')
    BY <1>3, <2>1 DEF Change
  <2>4. Reserved'
    BY <1>1, <1>3
  <2> QED BY <2>2, <2>3, <2>4, KeptNext DEF SpaceInv
<1>4. CASE UNCHANGED <<settings, job, disk>>
  BY <1>1, <1>2, <1>4 DEF SpaceInv
<1>5. ASSUME NEW total \in Capacities, SetCapacity(total) PROVE SpaceInv'
  <2>1. total \in Nat /\ allowance \in [Owners -> Nat]
    BY BackupBoundsAssumption DEF SpaceInv, Sizes
  <2> QED BY <1>3, <1>5, <2>1 DEF SetCapacity
<1>6. ASSUME NEW o \in Owners, NEW space \in Allowances \cup {0}, SetAllowance(o, space)
      PROVE  SpaceInv'
  <2>1. capacity \in Nat /\ [allowance EXCEPT ![o] = space] \in [Owners -> Nat]
    BY BackupBoundsAssumption DEF SpaceInv, Sizes
  <2> QED BY <1>3, <1>6, <2>1 DEF SetAllowance
<1>7. ASSUME NEW p \in Procs, job' = [job EXCEPT ![p] = None], UNCHANGED <<settings, disk>>
      PROVE  SpaceInv'
  BY <1>1, <1>2, <1>7 DEF SpaceInv, Shapes
<1>8. ASSUME NEW p \in Procs, NEW o \in Owners, NEW m \in offers[o], HandleOffer(p, o, m)
      PROVE  SpaceInv'
  <2>1. m \in Manifests(o) /\ UNCHANGED <<settings, disk>>
    BY <1>8 DEF HandleOffer, Shapes
  <2>2. CASE job' = job
    BY <1>1, <1>2, <2>1, <2>2 DEF SpaceInv
  <2>3. CASE job' = [job EXCEPT ![p] = [owner |-> o, manifest |-> m, required |-> Required(o, m)]]
    <3>1. Required(o, m) \in Nat
      BY <2>1, RequiredIsSize DEF SpaceInv
    <3>2. job'[p].owner = o /\ job'[p].manifest = m /\ job'[p].required = Required(o, m)
      BY <2>3 DEF Shapes
    <3>3. Required(job[p].owner, job[p].manifest)' = Required(o, m)
      BY <2>1, <3>2 DEF disk, Required, Used, Missing, Entries
    <3>4. ASSUME NEW q \in Procs, q # p, job'[q] # None
          PROVE  /\ job'[q].required \in Nat
                 /\ Required(job[q].owner, job[q].manifest)' <= job'[q].required
      <4>1. job'[q] = job[q]
        BY <2>3, <3>4 DEF Shapes
      <4>2. Required(job[q].owner, job[q].manifest)' = Required(job[q].owner, job[q].manifest)
        BY <2>1, <4>1 DEF disk, Required, Used, Missing, Entries
      <4> QED BY <3>4, <4>1, <4>2 DEF SpaceInv, Reserved
    <3>5. Reserved'
      BY <3>1, <3>2, <3>3, <3>4 DEF Reserved
    <3> QED BY <1>2, <2>1, <3>5 DEF SpaceInv
  <2> QED BY <1>8, <2>2, <2>3 DEF HandleOffer
<1> QED BY <1>4, <1>5, <1>6, <1>7, <1>8, SpaceMovers, BlobStep, CommitStep, KillStep

LEMMA SpaceBegin == Init => SpaceInv
<1> SUFFICES ASSUME Init PROVE SpaceInv
  OBVIOUS
<1> DEFINE none == [o \in Owners |-> 0]
<1>1. Total(none) = 0
  <2>1. Units(none, Owners) = {}
    BY DEF Units
  <2> HIDE DEF none
  <2>2. none \in [Owners -> Nat]
    BY DEF none
  <2> QED BY <2>1, <2>2, TotalCounts, FS_EmptySet
<1>2. Usage = none /\ allowance = none /\ capacity = 0
  BY FS_EmptySet DEF Init, Usage, Used
<1>3. Sizes /\ Reserved
  BY FS_EmptySet DEF Init, Sizes, Reserved
<1>4. Covered(capacity, allowance, Usage)
  BY <1>1, <1>2 DEF Covered
<1> QED BY <1>3, <1>4 DEF SpaceInv, SpaceKept

(* All that the friends have on this disk fits the space they were given,    *)
(* and that the total, whatever the settings become meanwhile and wherever   *)
(* transfers are cut off.                                                    *)
THEOREM SpaceIsKept == Spec => []SpaceKept
<1>1. Init => SpaceInv
  BY SpaceBegin
<1>2. IInv /\ SpaceInv /\ [Next]_backupVars => SpaceInv'
  BY SpaceStep DEF IInv
<1>3. SpaceInv => SpaceKept
  BY DEF SpaceInv
<1> QED BY <1>1, <1>2, <1>3, Invariant, PTL DEF Spec
=============================================================================
