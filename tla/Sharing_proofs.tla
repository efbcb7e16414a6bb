---------------------------- MODULE Sharing_proofs ---------------------------
(***************************************************************************)
(* What a share's members can rely on, for any number of devices, profiles *)
(* and changes: every snapshot that exists is one that an administrator    *)
(* could have made (Good), since the changes preserve that and nothing     *)
(* else makes snapshots; and what is shown where a member is withdrawn     *)
(* stays in the root of the one that withdrew it.                          *)
(***************************************************************************)
EXTENDS SharedFolder, FiniteSetTheorems, TLAPS

(* The keys and the administrator of one snapshot. *)
Good(s) ==
    /\ s \in Snapshot
    /\ Len(s.epochs) > 0
    /\ LastEpoch(s).wraps = ActiveDevices(s)
    /\ s.tombs \subseteq s.devices
    /\ \A i \in DOMAIN s.epochs : s.epochs[i].wraps \subseteq s.devices
    /\ \E d \in Device : CanAdmin(s, d)

(* The inductive invariant. *)
IInv ==
    /\ \A s \in Snapshots : Good(s)
    /\ access \in [Device -> Snapshot \cup {NoShare}]
    /\ \A m \in sent : m.signer \in Device
    /\ \A i \in invites : i.to \in Profile
    /\ changes \in 0..MaxChanges
    /\ forked \in BOOLEAN
    /\ left \subseteq Device

-----------------------------------------------------------------------------
(* A new epoch comes last, leaves the others alone and is wrapped for the  *)
(* devices that are active now (upsert_share_key_epoch).                   *)
LEMMA NextEpochFacts ==
    ASSUME NEW s \in Snapshot, NEW signer \in Device
    PROVE  /\ NextEpoch(s, signer) \in Seq(Epoch)
           /\ Len(NextEpoch(s, signer)) = Len(s.epochs) + 1
           /\ NextEpoch(s, signer)[Len(s.epochs) + 1].wraps = ActiveDevices(s)
           /\ \A i \in DOMAIN s.epochs : NextEpoch(s, signer)[i] = s.epochs[i]
           /\ DOMAIN NextEpoch(s, signer) = DOMAIN s.epochs \cup {Len(s.epochs) + 1}
<1>1. s.epochs \in Seq(Epoch) BY DEF Snapshot
<1>2. ActiveDevices(s) \subseteq Device BY DEF ActiveDevices, Snapshot
<1>3. [signer |-> signer, wraps |-> ActiveDevices(s)] \in Epoch
  BY <1>2 DEF Epoch
<1> QED BY <1>1, <1>3 DEF NextEpoch

(* Rotating the key makes a snapshot good in which somebody administers    *)
(* and no key was ever wrapped for a device that is not listed.            *)
LEMMA Rotated ==
    ASSUME NEW t \in Snapshot, NEW signer \in Device,
           t.tombs \subseteq t.devices,
           \A i \in DOMAIN t.epochs : t.epochs[i].wraps \subseteq t.devices,
           \E d \in Device : CanAdmin(t, d)
    PROVE  /\ Good([t EXCEPT !.epochs = NextEpoch(t, signer)])
           /\ [t EXCEPT !.epochs = NextEpoch(t, signer)].at = t.at
<1> DEFINE u == [t EXCEPT !.epochs = NextEpoch(t, signer)]
<1>1. /\ u \in Snapshot
      /\ u.at = t.at /\ u.grants = t.grants /\ u.devices = t.devices
      /\ u.tombs = t.tombs /\ u.epochs = NextEpoch(t, signer)
  BY NextEpochFacts DEF Snapshot
<1> HIDE DEF u
<1>2. ActiveDevices(u) = ActiveDevices(t) BY <1>1 DEF ActiveDevices
<1>3. ActiveDevices(t) \subseteq t.devices BY DEF ActiveDevices
<1>4. Len(t.epochs) \in Nat /\ t.epochs \in Seq(Epoch) BY DEF Snapshot
<1>5. /\ Len(u.epochs) = Len(t.epochs) + 1
      /\ u.epochs[Len(t.epochs) + 1].wraps = ActiveDevices(t)
      /\ \A i \in DOMAIN t.epochs : u.epochs[i] = t.epochs[i]
      /\ DOMAIN u.epochs = DOMAIN t.epochs \cup {Len(t.epochs) + 1}
  BY <1>1, NextEpochFacts, ZenonT(30)
<1>6. Len(u.epochs) > 0 /\ LastEpoch(u).wraps = ActiveDevices(u)
  BY <1>2, <1>4, <1>5 DEF LastEpoch
<1>7. \A i \in DOMAIN u.epochs : u.epochs[i].wraps \subseteq u.devices
  BY <1>1, <1>3, <1>5
<1>8. \E d \in Device : CanAdmin(u, d)
  BY <1>1, <1>2 DEF CanAdmin
<1>9. Good(u) BY <1>1, <1>6, <1>7, <1>8 DEF Good
<1> QED BY <1>1, <1>9 DEF u

(* create_shared_folder *)
LEMMA NewShareGood == Good(NewShare(Creator, Recipients, 0))
<1> USE ProfileAssumption, ShareMembershipAssumption
<1> DEFINE ds == {Creator} \cup {e \in Device :
                                    /\ ProfileOf[e] # ProfileOf[Creator]
                                    /\ Recipients[ProfileOf[e]] # "none"}
           t == [at |-> 0, grants |-> Recipients, devices |-> ds,
                 tombs |-> {}, epochs |-> <<>>]
<1>1. t \in Snapshot BY DEF Snapshot, Standing
<1>2. CanAdmin(t, Creator) BY DEF CanAdmin, ActiveDevices, Role
<1>3. NewShare(Creator, Recipients, 0) =
        [t EXCEPT !.epochs = NextEpoch(t, Creator)]
  BY DEF NewShare
<1>4. t.tombs \subseteq t.devices /\ DOMAIN t.epochs = {}
  OBVIOUS
<1> HIDE DEF t
<1> QED BY <1>1, <1>2, <1>3, <1>4, Rotated

(* The members' roles only grow when somebody is invited. *)
LEMMA InvitedGood ==
    ASSUME NEW s, Good(s), NEW signer \in Device, NEW e \in Device,
           NEW role \in Role, NEW now \in Nat, MayInvite(s, signer, e)
    PROVE  /\ Good(Invited(s, signer, e, role, now))
           /\ s.at < Invited(s, signer, e, role, now).at
<1> USE ProfileAssumption
<1> DEFINE p == ProfileOf[e]
           g == IF s.grants[p] = "none" THEN role ELSE Strongest(s.grants[p], role)
           t == [s EXCEPT !.at = MaxOf(s.at, now) + 1, !.grants[p] = g,
                          !.devices = @ \cup {e}]
<1>1. s \in Snapshot BY DEF Good
<1>2. s.grants[p] \in Role \cup {"none"}
  BY <1>1 DEF MayInvite, Snapshot, Standing
<1>3. g \in Role BY <1>2 DEF Strongest, Role
<1>4. s.grants[p] = "admin" => g = "admin"
  BY DEF Strongest, Rank, Role
<1>5. MaxOf(s.at, now) + 1 \in Nat /\ s.at < MaxOf(s.at, now) + 1
  BY <1>1 DEF Snapshot, MaxOf
<1> HIDE DEF g
<1>6. /\ t \in Snapshot
      /\ s.at < t.at /\ t.grants = [s.grants EXCEPT ![p] = g]
      /\ t.devices = s.devices \cup {e}
      /\ t.tombs = s.tombs /\ t.epochs = s.epochs
  BY <1>1, <1>3, <1>5 DEF Snapshot, Standing
<1>7. CanAdmin(t, signer)
  BY <1>1, <1>4, <1>6 DEF MayInvite, CanAdmin, ActiveDevices, Role, Snapshot
<1>8. /\ t.tombs \subseteq t.devices
      /\ \A i \in DOMAIN t.epochs : t.epochs[i].wraps \subseteq t.devices
  BY <1>6 DEF Good
<1>9. Invited(s, signer, e, role, now) =
        [t EXCEPT !.epochs = NextEpoch(t, signer)]
  BY DEF Invited, g
<1> HIDE DEF t
<1> QED BY <1>6, <1>7, <1>8, <1>9, Rotated

(* Changing somebody else's role changes neither who is active nor who     *)
(* administers on the signer's side.                                       *)
LEMMA RoleSetGood ==
    ASSUME NEW s, Good(s), NEW signer \in Device, NEW p \in Profile,
           NEW role \in Role, NEW now \in Nat, MayChange(s, signer, p)
    PROVE  /\ Good(RoleSet(s, p, role, now))
           /\ s.at < RoleSet(s, p, role, now).at
<1> USE ProfileAssumption
<1> DEFINE t == RoleSet(s, p, role, now)
<1>1. s \in Snapshot BY DEF Good
<1>2. MaxOf(now, s.at + 1) \in Nat /\ s.at < MaxOf(now, s.at + 1)
  BY <1>1 DEF Snapshot, MaxOf
<1>3. /\ t \in Snapshot
      /\ s.at < t.at /\ t.grants = [s.grants EXCEPT ![p] = role]
      /\ t.devices = s.devices /\ t.tombs = s.tombs /\ t.epochs = s.epochs
  BY <1>1, <1>2 DEF RoleSet, Snapshot, Standing
<1>4. ActiveDevices(t) = ActiveDevices(s)
  BY <1>1, <1>3 DEF ActiveDevices, MayChange, Snapshot
<1>5. CanAdmin(t, signer)
  BY <1>1, <1>3, <1>4 DEF MayChange, CanAdmin, Snapshot
<1> HIDE DEF t
<1>6. Good(t) BY <1>3, <1>4, <1>5 DEF Good, LastEpoch
<1> QED BY <1>3, <1>6 DEF t

(* Revoking somebody else leaves the signer its role. *)
LEMMA RevokedGood ==
    ASSUME NEW s, Good(s), NEW signer \in Device, NEW p \in Profile,
           NEW now \in Nat, MayChange(s, signer, p)
    PROVE  /\ Good(Revoked(s, signer, p, now))
           /\ s.at < Revoked(s, signer, p, now).at
<1> USE ProfileAssumption
<1> DEFINE n == Cardinality(Known(s, p))
           t == [s EXCEPT !.at = MaxOf(now, s.at + 1) + n,
                          !.grants[p] = "revoked",
                          !.tombs = @ \cup Known(s, p)]
<1>1. s \in Snapshot BY DEF Good
<1>2. Known(s, p) \subseteq s.devices \cap Device
  BY <1>1 DEF Known, Good, Snapshot
<1>3. n \in Nat
  BY <1>2, FS_Subset, FS_CardinalityType
<1>4. MaxOf(now, s.at + 1) + n \in Nat /\ s.at < MaxOf(now, s.at + 1) + n
  BY <1>1, <1>3 DEF Snapshot, MaxOf
<1> HIDE DEF n
<1>5. /\ t \in Snapshot
      /\ s.at < t.at /\ t.grants = [s.grants EXCEPT ![p] = "revoked"]
      /\ t.devices = s.devices /\ t.tombs = s.tombs \cup Known(s, p)
      /\ t.epochs = s.epochs
  BY <1>1, <1>2, <1>4 DEF Snapshot, Standing
<1>6. signer \notin Known(s, p) BY DEF Known, MayChange
<1>7. CanAdmin(t, signer)
  BY <1>1, <1>5, <1>6 DEF MayChange, CanAdmin, ActiveDevices, Role, Snapshot
<1>8. /\ t.tombs \subseteq t.devices
      /\ \A i \in DOMAIN t.epochs : t.epochs[i].wraps \subseteq t.devices
  BY <1>2, <1>5 DEF Good
<1>9. Revoked(s, signer, p, now) = [t EXCEPT !.epochs = NextEpoch(t, signer)]
  BY DEF Revoked, n
<1> HIDE DEF t
<1> QED BY <1>5, <1>7, <1>8, <1>9, Rotated

(* No change lets a revoked profile back in. *)
LEMMA RevokedRemains ==
    ASSUME NEW s, Good(s), NEW signer \in Device, NEW p \in Profile,
           s.grants[p] = "revoked"
    PROVE  /\ \A e \in Device, role \in Role, now \in Nat :
                MayInvite(s, signer, e)
                    => Invited(s, signer, e, role, now).grants[p] = "revoked"
           /\ \A q \in Profile, role \in Role, now \in Nat :
                MayChange(s, signer, q)
                    => /\ RoleSet(s, q, role, now).grants[p] = "revoked"
                       /\ Revoked(s, signer, q, now).grants[p] = "revoked"
<1>1. s.grants \in [Profile -> Standing] /\ s \in Snapshot BY DEF Good, Snapshot
<1>2. ASSUME NEW e \in Device, NEW role \in Role, NEW now \in Nat,
             MayInvite(s, signer, e)
      PROVE  Invited(s, signer, e, role, now).grants[p] = "revoked"
  <2>1. p # ProfileOf[e] BY <1>2 DEF MayInvite
  <2>2. ProfileOf[e] \in Profile BY ProfileAssumption
  <2> QED BY <1>1, <2>1, <2>2 DEF Invited, Snapshot
<1>3. ASSUME NEW q \in Profile, NEW role \in Role, NEW now \in Nat,
             MayChange(s, signer, q)
      PROVE  /\ RoleSet(s, q, role, now).grants[p] = "revoked"
             /\ Revoked(s, signer, q, now).grants[p] = "revoked"
  <2>1. p # q BY <1>3 DEF MayChange, Role
  <2> QED BY <1>1, <2>1 DEF RoleSet, Revoked, Snapshot
<1> QED BY <1>2, <1>3

(* A good snapshot has nothing to repair. *)
LEMMA NothingToRepair ==
    ASSUME NEW s, Good(s), NEW now
    PROVE  Repaired(s, now) = s
BY DEF Good, Repaired, MissingWraps

-----------------------------------------------------------------------------
(* A step that makes at most one snapshot, a good one, keeps the rest. *)
LEMMA OneNew ==
    ASSUME IInv, NEW d \in Device, NEW s, Good(s),
           access' = [access EXCEPT ![d] = s],
           sent' \subseteq sent \cup {[signer |-> d, content |-> s]},
           \E p \in Profile : invites' \subseteq invites \cup {[to |-> p, content |-> s]}
    PROVE  /\ \A t \in Snapshots' : Good(t)
           /\ access' \in [Device -> Snapshot \cup {NoShare}]
           /\ \A m \in sent' : m.signer \in Device
           /\ \A i \in invites' : i.to \in Profile
<1>1. s \in Snapshot BY DEF Good
<1>2. access' \in [Device -> Snapshot \cup {NoShare}]
  BY <1>1 DEF IInv
<1>3. \A e \in Device : access'[e] \in {access[e], s} BY DEF IInv
<1>4. ASSUME NEW t \in Snapshots' PROVE t \in Snapshots \/ t = s
  <2>1. CASE \E e \in Device : access'[e] # NoShare /\ t = access'[e]
    BY <1>3, <2>1 DEF Snapshots, Joined
  <2>2. CASE \E m \in sent' : t = m.content
    BY <2>2 DEF Snapshots
  <2>3. CASE \E i \in invites' : t = i.content
    BY <2>3 DEF Snapshots
  <2> QED BY <2>1, <2>2, <2>3, <1>4 DEF Snapshots, Joined
<1>5. \A t \in Snapshots' : Good(t) BY <1>4 DEF IInv
<1> QED BY <1>2, <1>5 DEF IInv

(* The records a device has or may adopt are among the snapshots. *)
LEMMA Sources ==
    /\ \A d \in Device : Joined(d) => access[d] \in Snapshots
    /\ \A m \in sent : m.content \in Snapshots
    /\ \A i \in invites : i.content \in Snapshots
BY DEF Snapshots

LEMMA TimeIsNat == Time \subseteq Nat
BY ShareMembershipAssumption DEF Time

(* A change dates the record later. *)
LEMMA ChangeStep ==
    ASSUME IInv, NEW d \in Device, Joined(d), NEW s, Good(s),
           access[d].at < s.at, Change(d, s),
           sent' \subseteq sent \cup {[signer |-> d, content |-> s]},
           \E p \in Profile : invites' \subseteq invites \cup {[to |-> p, content |-> s]},
           UNCHANGED left
    PROVE  /\ IInv'
           /\ \A e \in Device : Joined(e) /\ access'[e] # NoShare
                                    => access[e].at <= access'[e].at
<1>1. changes' \in 0..MaxChanges /\ forked' \in BOOLEAN
  BY ShareMembershipAssumption DEF Change, IInv
<1>2. access' = [access EXCEPT ![d] = s] BY DEF Change
<1>3. IInv' BY <1>1, <1>2, OneNew DEF IInv
<1>4. \A e \in Device : Joined(e) => access[e] \in Snapshot
  BY Sources DEF IInv, Good
<1>5. \A e \in Device : Joined(e) => access[e].at \in Nat
  BY <1>4 DEF Snapshot
<1>6. s.at \in Nat BY DEF Good, Snapshot
<1>7. \A e \in Device : access'[e] = IF e = d THEN s ELSE access[e]
  BY <1>2 DEF IInv
<1>8. ASSUME NEW e \in Device, Joined(e) PROVE access[e].at <= access'[e].at
  <2>1. CASE e = d BY <2>1, <1>5, <1>6, <1>7, <1>8
  <2>2. CASE e # d BY <2>2, <1>5, <1>7, <1>8
  <2> QED BY <2>1, <2>2
<1> QED BY <1>3, <1>8

(* A step that gives d a record that is there already, no older than its   *)
(* own, or takes its record away.                                          *)
LEMMA ReplaceStep ==
    ASSUME IInv, NEW d \in Device, NEW s,
           s \in Snapshots \/ s = NoShare,
           Joined(d) /\ s # NoShare => access[d].at <= s.at,
           access' = [access EXCEPT ![d] = s],
           sent' \subseteq sent, UNCHANGED invites
    PROVE  /\ \A t \in Snapshots' : Good(t)
           /\ access' \in [Device -> Snapshot \cup {NoShare}]
           /\ \A e \in Device : Joined(e) /\ access'[e] # NoShare
                                    => access[e].at <= access'[e].at
<1>1. \A e \in Device : access'[e] = IF e = d THEN s ELSE access[e] BY DEF IInv
<1>2. Snapshots' \subseteq Snapshots
  BY <1>1 DEF Snapshots, Joined
<1>3. \A t \in Snapshots' : Good(t) BY <1>2 DEF IInv
<1>4. access' \in [Device -> Snapshot \cup {NoShare}] BY DEF IInv, Good
<1>5. \A e \in Device : Joined(e) => access[e].at \in Nat
  BY Sources DEF IInv, Good, Snapshot
<1>6. ASSUME NEW e \in Device, Joined(e), access'[e] # NoShare
      PROVE  access[e].at <= access'[e].at
  <2>1. CASE e = d BY <2>1, <1>1, <1>6
  <2>2. CASE e # d BY <2>2, <1>1, <1>5, <1>6
  <2> QED BY <2>1, <2>2
<1> QED BY <1>3, <1>4, <1>6

(* Nothing is ever dated back, and every snapshot stays good. *)
LEMMA Step ==
    ASSUME IInv, [MNext]_mvars
    PROVE  /\ IInv'
           /\ \A e \in Device : Joined(e) /\ access'[e] # NoShare
                                    => access[e].at <= access'[e].at
<1> DEFINE Later == \A e \in Device : Joined(e) /\ access'[e] # NoShare
                                    => access[e].at <= access'[e].at
<1>0. /\ \A e \in Device : Joined(e) => Good(access[e])
      /\ \A m \in sent : Good(m.content)
      /\ \A i \in invites : Good(i.content)
  BY Sources DEF IInv
<1>00. \A e \in Device : Joined(e) => access[e].at \in Nat
  BY <1>0 DEF Good, Snapshot
<1>u. ASSUME UNCHANGED access, sent' \subseteq sent, UNCHANGED <<invites, changes, forked>>,
             left' \subseteq Device
      PROVE  IInv' /\ Later
  BY <1>u, <1>00 DEF IInv, Snapshots, Joined
<1>1. ASSUME NEW d \in Device, NEW e \in Device, NEW r \in Grantable,
             NEW t \in Time, NEW b \in BOOLEAN, Invite(d, e, r, t, b)
      PROVE  IInv' /\ Later
  <2> DEFINE s == Invited(access[d], d, e, r, t)
  <2>1. r \in Role /\ t \in Nat /\ ProfileOf[e] \in Profile
    BY TimeIsNat, ShareMembershipAssumption, ProfileAssumption
  <2>2. Joined(d) /\ MayInvite(access[d], d, e) BY <1>1 DEF Invite
  <2>3. Good(s) /\ access[d].at < s.at BY <1>0, <2>1, <2>2, InvitedGood
  <2>4. /\ Change(d, s) /\ UNCHANGED left
        /\ sent' \subseteq sent \cup {[signer |-> d, content |-> s]}
        /\ invites' \subseteq invites \cup {[to |-> ProfileOf[e], content |-> s]}
    BY <1>1 DEF Invite
  <2> HIDE DEF s
  <2> QED BY <2>1, <2>2, <2>3, <2>4, ChangeStep
<1>2. ASSUME NEW d \in Device, NEW p \in Profile, NEW r \in Grantable,
             NEW t \in Time, SetRole(d, p, r, t)
      PROVE  IInv' /\ Later
  <2> DEFINE s == RoleSet(access[d], p, r, t)
  <2>1. r \in Role /\ t \in Nat BY TimeIsNat, ShareMembershipAssumption
  <2>2. /\ Joined(d) /\ MayChange(access[d], d, p)
        /\ Change(d, s) /\ UNCHANGED <<sent, invites, left>>
    BY <1>2 DEF SetRole
  <2>3. Good(s) /\ access[d].at < s.at BY <1>0, <2>1, <2>2, RoleSetGood
  <2> HIDE DEF s
  <2> QED BY <2>2, <2>3, ChangeStep
<1>3. ASSUME NEW d \in Device, NEW p \in Profile, NEW t \in Time, Revoke(d, p, t)
      PROVE  IInv' /\ Later
  <2> DEFINE s == Revoked(access[d], d, p, t)
  <2>1. t \in Nat BY TimeIsNat
  <2>2. /\ Joined(d) /\ MayChange(access[d], d, p)
        /\ Change(d, s) /\ UNCHANGED <<sent, invites, left>>
    BY <1>3 DEF Revoke
  <2>3. Good(s) /\ access[d].at < s.at BY <1>0, <2>1, <2>2, RevokedGood
  <2> HIDE DEF s
  <2> QED BY <2>2, <2>3, ChangeStep
<1>4. ASSUME NEW d \in Device, NEW t \in Time, Repair(d, t)
      PROVE  IInv' /\ Later
  <2>1. Repaired(access[d], t) = access[d]
    BY <1>0, <1>4, NothingToRepair DEF Repair
  <2>2. UNCHANGED <<access, sent, invites, changes, forked, left>>
    BY <1>4, <2>1 DEF Repair, IInv
  <2> QED BY <2>2, <1>u DEF IInv
<1>5. ASSUME NEW d \in Device, Publish(d)
      PROVE  IInv' /\ Later
  <2>1. /\ Joined(d) /\ sent' = sent \cup {[signer |-> d, content |-> access[d]]}
        /\ UNCHANGED <<access, invites, changes, forked, left>>
    BY <1>5 DEF Publish
  <2>2. \A t \in Snapshots' : t \in Snapshots
    BY <2>1, Sources DEF Snapshots, Joined
  <2>3. IInv' BY <2>1, <2>2 DEF IInv
  <2>4. Later BY <2>1, <1>00
  <2> QED BY <2>3, <2>4
<1>6. ASSUME NEW d \in Device, Leave(d)
      PROVE  IInv' /\ Later
  <2>1. /\ access' = [access EXCEPT ![d] = NoShare]
        /\ left' = left \cup {d} /\ changes < MaxChanges /\ changes' = changes + 1
        /\ UNCHANGED <<sent, invites, forked>>
    BY <1>6 DEF Leave
  <2>2. changes' \in 0..MaxChanges BY <2>1, ShareMembershipAssumption DEF IInv
  <2>3. /\ \A t \in Snapshots' : Good(t)
        /\ access' \in [Device -> Snapshot \cup {NoShare}]
        /\ Later
    BY <2>1, ReplaceStep
  <2> QED BY <2>1, <2>2, <2>3 DEF IInv
<1>7. ASSUME NEW d \in Device, NEW i \in invites, Accept(d, i)
      PROVE  IInv' /\ Later
  <2> DEFINE s == Accepted(d, i)
  <2>1. /\ access' = [access EXCEPT ![d] = s]
        /\ UNCHANGED <<sent, invites, changes, forked, left>>
    BY <1>7 DEF Accept
  <2>2. i.content \in Snapshots /\ i.content.at \in Nat
    BY <1>0, Sources DEF Good, Snapshot
  <2>3. s \in Snapshots BY <2>2, Sources DEF Accepted
  <2>4. Joined(d) => access[d].at <= s.at
    BY <1>00, <2>2 DEF Accepted
  <2> HIDE DEF s
  <2>5. /\ \A t \in Snapshots' : Good(t)
        /\ access' \in [Device -> Snapshot \cup {NoShare}]
        /\ Later
    BY <2>1, <2>3, <2>4, ReplaceStep
  <2> QED BY <2>1, <2>5 DEF IInv
<1>8. ASSUME NEW d \in Device, NEW m \in sent, Adopt(d, m)
      PROVE  IInv' /\ Later
  <2>1. /\ Joined(d) /\ m.content.at >= access[d].at
        /\ access' = [access EXCEPT ![d] = m.content]
        /\ UNCHANGED <<sent, invites, changes, forked, left>>
    BY <1>8 DEF Adopt, Adoptable
  <2>2. m.content \in Snapshots /\ m.content.at \in Nat
    BY <1>0, Sources DEF Good, Snapshot
  <2>3. access[d].at <= m.content.at BY <1>00, <2>1, <2>2
  <2>4. /\ \A t \in Snapshots' : Good(t)
        /\ access' \in [Device -> Snapshot \cup {NoShare}]
        /\ Later
    BY <2>1, <2>2, <2>3, ReplaceStep
  <2> QED BY <2>1, <2>4 DEF IInv
<1>9. CASE UNCHANGED mvars BY <1>9, <1>u DEF mvars, IInv
<1> QED BY <1>1, <1>2, <1>3, <1>4, <1>5, <1>6, <1>7, <1>8, <1>9 DEF MNext

LEMMA Begin == MInit => IInv
<1> SUFFICES ASSUME MInit PROVE IInv OBVIOUS
<1> DEFINE s == NewShare(Creator, Recipients, 0)
<1>1. Good(s) BY NewShareGood
<1>2. /\ access = [d \in Device |-> IF d \in s.devices THEN s ELSE NoShare]
      /\ sent = {[signer |-> Creator, content |-> s]}
      /\ invites = {} /\ changes = 0 /\ forked = FALSE /\ left = {}
  BY DEF MInit
<1> HIDE DEF s
<1>3. \A t \in Snapshots : t = s BY <1>2 DEF Snapshots, Joined
<1>4. s \in Snapshot BY <1>1 DEF Good
<1>5. access \in [Device -> Snapshot \cup {NoShare}] BY <1>2, <1>4
<1>6. \A m \in sent : m.signer \in Device
  BY <1>2, ShareMembershipAssumption
<1>7. changes \in 0..MaxChanges BY <1>2, ShareMembershipAssumption
<1>8. forked \in BOOLEAN /\ left \subseteq Device BY <1>2
<1>9. \A i \in invites : i.to \in Profile BY <1>2
<1> QED BY <1>1, <1>3, <1>5, <1>6, <1>7, <1>8, <1>9 DEF IInv

LEMMA Invariant == MSpec => []IInv
<1>1. IInv /\ [MNext]_mvars => IInv' BY Step
<1> QED BY Begin, <1>1, PTL DEF MSpec

(* Every snapshot is well-formed, and only listed devices have tombstones  *)
(* or keys.                                                                *)
THEOREM MembershipTypes == MSpec => []MTypeOK
<1>1. IInv => MTypeOK
  <2> SUFFICES ASSUME IInv PROVE MTypeOK OBVIOUS
  <2>1. \A s \in Snapshots : s \in Snapshot BY DEF IInv, Good
  <2>2. \A s \in Snapshots :
           s.tombs \cup UNION {s.epochs[i].wraps : i \in DOMAIN s.epochs} \subseteq s.devices
    BY DEF IInv, Good
  <2>3. /\ \A d \in Device : Joined(d) => access[d] \in Snapshot
        /\ \A m \in sent : m.content \in Snapshot
        /\ \A i \in invites : i.content \in Snapshot
    BY <2>1, Sources
  <2>4. /\ \A m \in sent : m.signer \in Device
        /\ \A i \in invites : i.to \in Profile
        /\ changes \in 0..MaxChanges /\ forked \in BOOLEAN /\ left \subseteq Device
    BY DEF IInv
  <2> HIDE DEF IInv
  <2> QED BY <2>2, <2>3, <2>4 DEF MTypeOK
<1> QED BY Invariant, <1>1, PTL

(* Whoever is active has the last key, and nobody else. *)
THEOREM KeysAreMembers == MSpec => []KeysFollowMembership
<1>1. IInv => KeysFollowMembership BY DEF IInv, Good, KeysFollowMembership
<1> QED BY Invariant, <1>1, PTL

(* No share is left without an administrator. *)
THEOREM NeverOrphaned == MSpec => []SomebodyAdministers
<1>1. IInv => SomebodyAdministers BY DEF IInv, Good, SomebodyAdministers
<1> QED BY Invariant, <1>1, PTL

(* Late invitations and snapshots never date a record back. *)
THEOREM RecordsMoveForward == MSpec => RecordNeverGoesBack
<1> DEFINE Later == \A d \in Device : Joined(d) /\ access'[d] # NoShare
                            => access[d].at <= access'[d].at
<1>1. IInv /\ [MNext]_mvars => [Later]_mvars BY Step
<1> QED BY Invariant, <1>1, PTL DEF MSpec, RecordNeverGoesBack

-----------------------------------------------------------------------------
(* Revocations and the order of snapshots. *)

(* A change on the newest record makes a newer one that revokes no less. *)
LEMMA ChangeKeepsOrder ==
    ASSUME IInv, RevocationSticks, NEW d \in Device, Joined(d),
           NEW s, Good(s), access[d].at < s.at, Change(d, s),
           \A p \in Profile : access[d].grants[p] = "revoked" => s.grants[p] = "revoked",
           Snapshots' \subseteq Snapshots \cup {s}
    PROVE  RevocationSticks'
<1> SUFFICES ASSUME ~forked' PROVE RevocationSticks' BY DEF RevocationSticks
<1> DEFINE o == access[d]
           Covers(t, u) == \A p \in Profile : t.grants[p] = "revoked" => u.grants[p] = "revoked"
<1>1. ~forked /\ ~Behind(d) BY DEF Change
<1>2. o \in Snapshots BY Sources
<1>3. \A t \in Snapshots : t.at \in Nat BY DEF IInv, Good, Snapshot
<1>4. \A t \in Snapshots : t = o \/ t.at < o.at BY <1>1, <1>2, <1>3 DEF Behind
<1>5. s.at \in Nat BY DEF Good, Snapshot
<1>6. \A t \in Snapshots : t.at < s.at
  BY <1>2, <1>3, <1>4, <1>5
<1>7. \A t, u \in Snapshots :
        /\ t.at = u.at => t = u
        /\ t.at < u.at => Covers(t, u)
  BY <1>1 DEF RevocationSticks
<1>8. Covers(o, s) OBVIOUS
<1>9. \A t \in Snapshots : Covers(t, s)
  BY <1>2, <1>4, <1>7, <1>8
<1> HIDE DEF Covers
<1>10. ASSUME NEW t \in Snapshots', NEW u \in Snapshots'
       PROVE  (t.at = u.at => t = u) /\ (t.at < u.at => Covers(t, u))
  <2>1. CASE t \in Snapshots /\ u \in Snapshots BY <2>1, <1>7
  <2>2. CASE t \in Snapshots /\ u = s BY <2>2, <1>3, <1>5, <1>6, <1>9
  <2>3. CASE t = s /\ u \in Snapshots BY <2>3, <1>3, <1>5, <1>6
  <2>4. CASE t = s /\ u = s BY <2>4, <1>5
  <2> QED BY <2>1, <2>2, <2>3, <2>4
<1> QED BY <1>10 DEF RevocationSticks, Covers

(* A step without a change makes no snapshot. *)
LEMMA NoChangeKeepsOrder ==
    ASSUME RevocationSticks, Snapshots' \subseteq Snapshots, forked' = forked
    PROVE  RevocationSticks'
BY DEF RevocationSticks

LEMMA OrderStep ==
    ASSUME IInv, RevocationSticks, [MNext]_mvars
    PROVE  RevocationSticks'
<1>0. /\ \A e \in Device : Joined(e) => Good(access[e])
      /\ \A e \in Device : access[e] \in Snapshot \cup {NoShare}
  BY Sources DEF IInv
<1>a. ASSUME NEW d \in Device, NEW s, access' = [access EXCEPT ![d] = s]
      PROVE  \A e \in Device : access'[e] = IF e = d THEN s ELSE access[e]
  BY <1>a DEF IInv
<1>1. ASSUME NEW d \in Device, NEW e \in Device, NEW r \in Grantable,
             NEW t \in Time, NEW b \in BOOLEAN, Invite(d, e, r, t, b)
      PROVE  RevocationSticks'
  <2> DEFINE s == Invited(access[d], d, e, r, t)
  <2>1. r \in Role /\ t \in Nat
    BY TimeIsNat, ShareMembershipAssumption
  <2>2. Joined(d) /\ MayInvite(access[d], d, e) /\ Change(d, s)
    BY <1>1 DEF Invite
  <2>3. Good(s) /\ access[d].at < s.at BY <1>0, <2>1, <2>2, InvitedGood
  <2>4. \A p \in Profile : access[d].grants[p] = "revoked" => s.grants[p] = "revoked"
    BY <1>0, <2>1, <2>2, RevokedRemains
  <2>5. /\ access' = [access EXCEPT ![d] = s]
        /\ sent' \subseteq sent \cup {[signer |-> d, content |-> s]}
        /\ invites' \subseteq invites \cup {[to |-> ProfileOf[e], content |-> s]}
    BY <1>1 DEF Invite, Change
  <2> HIDE DEF s
  <2>6. Snapshots' \subseteq Snapshots \cup {s}
    BY <1>a, <2>5 DEF Snapshots, Joined
  <2> QED BY <2>2, <2>3, <2>4, <2>6, ChangeKeepsOrder
<1>2. ASSUME NEW d \in Device, NEW p \in Profile, NEW r \in Grantable,
             NEW t \in Time, SetRole(d, p, r, t)
      PROVE  RevocationSticks'
  <2> DEFINE s == RoleSet(access[d], p, r, t)
  <2>1. r \in Role /\ t \in Nat BY TimeIsNat, ShareMembershipAssumption
  <2>2. /\ Joined(d) /\ MayChange(access[d], d, p)
        /\ Change(d, s) /\ UNCHANGED <<sent, invites>>
    BY <1>2 DEF SetRole
  <2>3. Good(s) /\ access[d].at < s.at BY <1>0, <2>1, <2>2, RoleSetGood
  <2>4. \A q \in Profile : access[d].grants[q] = "revoked" => s.grants[q] = "revoked"
    BY <1>0, <2>1, <2>2, RevokedRemains
  <2>5. access' = [access EXCEPT ![d] = s] BY <2>2 DEF Change
  <2> HIDE DEF s
  <2>6. Snapshots' \subseteq Snapshots \cup {s}
    BY <1>a, <2>2, <2>5 DEF Snapshots, Joined
  <2> QED BY <2>2, <2>3, <2>4, <2>6, ChangeKeepsOrder
<1>3. ASSUME NEW d \in Device, NEW p \in Profile, NEW t \in Time, Revoke(d, p, t)
      PROVE  RevocationSticks'
  <2> DEFINE s == Revoked(access[d], d, p, t)
  <2>1. t \in Nat BY TimeIsNat
  <2>2. /\ Joined(d) /\ MayChange(access[d], d, p)
        /\ Change(d, s) /\ UNCHANGED <<sent, invites>>
    BY <1>3 DEF Revoke
  <2>3. Good(s) /\ access[d].at < s.at BY <1>0, <2>1, <2>2, RevokedGood
  <2>4. \A q \in Profile : access[d].grants[q] = "revoked" => s.grants[q] = "revoked"
    BY <1>0, <2>1, <2>2, RevokedRemains DEF Role
  <2>5. access' = [access EXCEPT ![d] = s] BY <2>2 DEF Change
  <2> HIDE DEF s
  <2>6. Snapshots' \subseteq Snapshots \cup {s}
    BY <1>a, <2>2, <2>5 DEF Snapshots, Joined
  <2> QED BY <2>2, <2>3, <2>4, <2>6, ChangeKeepsOrder
<1>4. ASSUME NEW d \in Device, NEW t \in Time, Repair(d, t)
      PROVE  RevocationSticks'
  <2>1. Repaired(access[d], t) = access[d]
    BY <1>0, <1>4, NothingToRepair DEF Repair
  <2>2. UNCHANGED <<access, sent, invites, forked>>
    BY <1>4, <2>1 DEF Repair, IInv
  <2> QED BY <2>2, NoChangeKeepsOrder DEF Snapshots, Joined
<1>5. ASSUME NEW d \in Device, Publish(d)
      PROVE  RevocationSticks'
  <2>1. Snapshots' \subseteq Snapshots /\ forked' = forked
    BY <1>5, Sources DEF Publish, Snapshots, Joined
  <2> QED BY <2>1, NoChangeKeepsOrder
<1>6. ASSUME NEW d \in Device, Leave(d)
      PROVE  RevocationSticks'
  <2>1. /\ access' = [access EXCEPT ![d] = NoShare]
        /\ UNCHANGED <<sent, invites, forked>>
    BY <1>6 DEF Leave
  <2>2. Snapshots' \subseteq Snapshots
    BY <1>a, <2>1 DEF Snapshots, Joined
  <2> QED BY <2>1, <2>2, NoChangeKeepsOrder
<1>7. ASSUME NEW d \in Device, NEW i \in invites, Accept(d, i)
      PROVE  RevocationSticks'
  <2> DEFINE s == Accepted(d, i)
  <2>1. /\ access' = [access EXCEPT ![d] = s]
        /\ UNCHANGED <<sent, invites, forked>>
    BY <1>7 DEF Accept
  <2>2. s \in Snapshots BY Sources DEF Accepted
  <2> HIDE DEF s
  <2>3. Snapshots' \subseteq Snapshots
    BY <1>a, <2>1, <2>2 DEF Snapshots, Joined
  <2> QED BY <2>1, <2>3, NoChangeKeepsOrder
<1>8. ASSUME NEW d \in Device, NEW m \in sent, Adopt(d, m)
      PROVE  RevocationSticks'
  <2>1. /\ access' = [access EXCEPT ![d] = m.content]
        /\ UNCHANGED <<sent, invites, forked>>
    BY <1>8 DEF Adopt
  <2>2. m.content \in Snapshots BY Sources
  <2>3. Snapshots' \subseteq Snapshots
    BY <1>a, <2>1, <2>2 DEF Snapshots, Joined
  <2> QED BY <2>1, <2>3, NoChangeKeepsOrder
<1>9. CASE UNCHANGED mvars
  BY <1>9, NoChangeKeepsOrder DEF mvars, Snapshots, Joined
<1> QED BY <1>1, <1>2, <1>3, <1>4, <1>5, <1>6, <1>7, <1>8, <1>9 DEF MNext

(* As long as nobody changed the members without knowing of another change,*)
(* a revocation is in every later snapshot.                                *)
THEOREM RevocationsStick == MSpec => []RevocationSticks
<1>1. MInit => RevocationSticks
  <2> SUFFICES ASSUME MInit PROVE RevocationSticks OBVIOUS
  <2> DEFINE s == NewShare(Creator, Recipients, 0)
  <2>1. Good(s) BY NewShareGood
  <2>2. \A t \in Snapshots : t = s BY DEF MInit, Snapshots, Joined
  <2>3. s.at \in Nat BY <2>1 DEF Good, Snapshot
  <2> HIDE DEF s
  <2>4. \A t, u \in Snapshots : t = u /\ ~(t.at < u.at) BY <2>2, <2>3
  <2> QED BY <2>4 DEF RevocationSticks
<1>2. IInv /\ RevocationSticks /\ [MNext]_mvars => RevocationSticks' BY OrderStep
<1> QED BY Invariant, <1>1, <1>2, PTL DEF MSpec

-----------------------------------------------------------------------------
(* The folder: every step of it is a step of its membership, or leaves     *)
(* that alone, so all of the above holds of it.                            *)
LEMMA FolderSteps == [Next]_vars => [MNext]_mvars
<1> SUFFICES ASSUME [Next]_vars PROVE [MNext]_mvars
  OBVIOUS
<1>1. CASE Membership
  BY <1>1 DEF Membership, MNext
<1>2. ASSUME NEW d \in Device, NEW p \in Profile, Withdraw(d, p) PROVE MNext
  BY <1>2 DEF Withdraw, MNext
<1>3. ASSUME NEW d \in Device, Detach(d) PROVE MNext
  BY <1>3 DEF Detach, MNext
<1>4. ASSUME NEW d \in Device, Reauthor(d) \/ Write(d) \/ PostRoot(d) PROVE UNCHANGED mvars
  BY <1>4 DEF Reauthor, Write, PostRoot
<1>5. ASSUME NEW d \in Device, NEW w \in Device, LearnRoot(d, w) PROVE UNCHANGED mvars
  BY <1>5 DEF LearnRoot
<1>6. CASE UNCHANGED vars
  BY <1>6 DEF vars
<1> QED BY <1>1, <1>2, <1>3, <1>4, <1>5, <1>6 DEF Next

(* SharedFolder implements ShareMembership.                                *)
THEOREM FolderImplementsMembership == Spec => MSpec
<1>1. Init => MInit
  BY DEF Init
<1> QED BY <1>1, FolderSteps, PTL DEF Spec, MSpec

(* Shapes: the types of the roots. Growing: of a writer that has not left, *)
(* what anybody has and what relays hold is not ahead of what it has, a    *)
(* number names one root, and its root has all it has to keep.             *)
Proper == {r \in Root : r.seq = 0 => r.items = {}}

Shapes ==
    /\ roots \in [Device -> [Device -> Proper]]
    /\ posted \in [Device -> [root : Proper, to : SUBSET Device]]
    /\ kept \in [Device -> SUBSET Item]

Behindhand(r, own) == r.seq < own.seq \/ r = own

Growing ==
    \A w \in Device \ left :
        /\ kept[w] \subseteq roots[w][w].items
        /\ Behindhand(posted[w].root, roots[w][w])
        /\ \A d \in Device : Behindhand(roots[d][w], roots[w][w])

LEMMA NoRootIsBehind ==
    ASSUME NEW own \in Proper
    PROVE  Behindhand(NoRoot, own)
<1>1. CASE own.seq > 0
  BY <1>1 DEF Behindhand, NoRoot
<1>2. CASE own.seq = 0
  BY <1>2 DEF Behindhand, NoRoot, Proper, Root
<1> QED BY <1>1, <1>2 DEF Proper, Root

(* A new root of a device is of the next number and has all of the old.    *)
LEMMA NextRootGrows ==
    ASSUME Shapes, Growing, NEW d \in Device, NEW items \in SUBSET Item,
           roots' = [roots EXCEPT ![d][d] = NextRoot(d, items)],
           d \in left \/ kept'[d] \subseteq items,
           \A w \in Device \ {d} : kept'[w] = kept[w],
           UNCHANGED posted, left \subseteq left'
    PROVE  /\ roots' \in [Device -> [Device -> Proper]]
           /\ Growing'
<1>1. NextRoot(d, items) \in Proper /\ roots[d][d].seq < NextRoot(d, items).seq
      /\ NextRoot(d, items).items = items
  BY DEF NextRoot, Root, Proper, Shapes
<1> DEFINE r == NextRoot(d, items)
<1> HIDE DEF r
<1>2. /\ roots'[d][d] = r
      /\ \A e, w \in Device : w # d \/ e # d => roots'[e][w] = roots[e][w]
  BY DEF Shapes, r
<1>3. roots' \in [Device -> [Device -> Proper]]
  BY <1>1 DEF Shapes, r
<1>4. ASSUME NEW w \in Device \ left'
      PROVE  /\ kept'[w] \subseteq roots'[w][w].items
             /\ Behindhand(posted'[w].root, roots'[w][w])
             /\ \A e \in Device : Behindhand(roots'[e][w], roots'[w][w])
  <2>1. CASE w # d
    BY <1>2, <2>1 DEF Growing
  <2>2. CASE w = d
    <3>1. \A s \in Root : Behindhand(s, roots[d][d]) => Behindhand(s, r)
      BY <1>1 DEF Behindhand, Root, Proper, Shapes, r
    <3>2. posted[d].root \in Root /\ \A e \in Device : roots[e][d] \in Root
      BY DEF Shapes, Proper
    <3>3. d \notin left
      BY <2>2
    <3>4. Behindhand(posted'[d].root, r)
      BY <3>1, <3>2, <3>3 DEF Growing
    <3>5. \A e \in Device : Behindhand(roots'[e][d], r)
      <4> SUFFICES ASSUME NEW e \in Device PROVE Behindhand(roots'[e][d], r)
        OBVIOUS
      <4>1. CASE e = d
        BY <1>2, <4>1 DEF Behindhand
      <4>2. CASE e # d
        BY <1>2, <3>1, <3>2, <3>3, <4>2 DEF Growing
      <4> QED BY <4>1, <4>2
    <3>6. kept'[d] \subseteq r.items
      BY <1>1, <3>3 DEF r
    <3> QED BY <1>2, <2>2, <3>4, <3>5, <3>6
  <2> QED BY <2>1, <2>2
<1> QED BY <1>3, <1>4 DEF Growing

LEMMA VisibleItems ==
    ASSUME Shapes, NEW d \in Device
    PROVE  /\ Visible(d) \subseteq Item
           /\ CanAdmin(access[d], d) => roots[d][d].items \subseteq Visible(d)
BY DEF Visible, Writers, Shapes, Proper, Root, CanAdmin, CanWrite

(* What the steps do to the roots.                                         *)
LEMMA FolderStep ==
    ASSUME Shapes, Growing, [Next]_vars, left' \subseteq Device,
           access \in [Device -> Snapshot \cup {NoShare}]
    PROVE  Shapes' /\ Growing'
<1>0. ASSUME UNCHANGED rvars, left \subseteq left' PROVE Shapes' /\ Growing'
  BY <1>0 DEF rvars, Shapes, Growing
<1>1. CASE Membership /\ UNCHANGED rvars
  <2>1. left' = left
    BY <1>1 DEF Membership, Invite, Repair, Publish, Accept, Adopt
  <2> QED BY <1>0, <1>1, <2>1
<1>2. ASSUME NEW d \in Device, NEW p \in Profile, Withdraw(d, p) PROVE Shapes' /\ Growing'
  <2>1. Checkpoint(d) /\ kept' = [kept EXCEPT ![d] = @ \cup Visible(d)] /\ UNCHANGED posted
    BY <1>2 DEF Withdraw
  <2>2. CanAdmin(access[d], d) /\ left' = left
    BY <1>2 DEF Withdraw, Revoke, SetRole, MayChange
  <2>3. Visible(d) \in SUBSET Item /\ roots[d][d].items \subseteq Visible(d)
    BY <2>2, VisibleItems
  <2>4. kept' \in [Device -> SUBSET Item] /\ \A w \in Device \ {d} : kept'[w] = kept[w]
    BY <2>1, <2>3 DEF Shapes
  <2>5. d \in left \/ kept'[d] \subseteq Visible(d)
    BY <2>1, <2>3 DEF Shapes, Growing
  <2>6. roots' \in [Device -> [Device -> Proper]] /\ Growing'
    BY <2>1, <2>2, <2>3, <2>4, <2>5, NextRootGrows DEF Checkpoint
  <2> QED BY <2>1, <2>4, <2>6 DEF Shapes
<1>3. ASSUME NEW d \in Device, Reauthor(d) PROVE Shapes' /\ Growing'
  <2>1. Checkpoint(d) /\ UNCHANGED <<kept, posted, left>> /\ CanAdmin(access[d], d)
    BY <1>3 DEF Reauthor, mvars
  <2>2. Visible(d) \in SUBSET Item /\ roots[d][d].items \subseteq Visible(d)
    BY <2>1, VisibleItems
  <2>3. d \in left \/ kept'[d] \subseteq Visible(d)
    BY <2>1, <2>2 DEF Growing
  <2>4. roots' \in [Device -> [Device -> Proper]] /\ Growing'
    BY <2>1, <2>2, <2>3, NextRootGrows DEF Checkpoint
  <2> QED BY <2>1, <2>4 DEF Shapes
<1>4. ASSUME NEW d \in Device, Write(d) PROVE Shapes' /\ Growing'
  <2> DEFINE items == roots[d][d].items \cup {d}
  <2>1. roots' = [roots EXCEPT ![d][d] = NextRoot(d, items)] /\ UNCHANGED <<kept, posted, left>>
    BY <1>4 DEF Write, mvars, Shapes
  <2>2. items \in SUBSET Item
    BY DEF Shapes, Proper, Root, Item
  <2>3. d \in left \/ kept'[d] \subseteq items
    BY <2>1 DEF Growing
  <2> HIDE DEF items
  <2>4. roots' \in [Device -> [Device -> Proper]] /\ Growing'
    BY <2>1, <2>2, <2>3, NextRootGrows
  <2> QED BY <2>1, <2>4 DEF Shapes
<1>5. ASSUME NEW d \in Device, Detach(d) PROVE Shapes' /\ Growing'
  <2>1. /\ roots' = [roots EXCEPT ![d] = NoRoots] /\ UNCHANGED <<posted, kept>>
        /\ left' = left \cup {d}
    BY <1>5 DEF Detach, Leave
  <2>2. NoRoots \in [Device -> Proper] /\ \A w \in Device : NoRoots[w] = NoRoot
    BY DEF NoRoots, NoRoot, Root, Proper
  <2>3. roots' \in [Device -> [Device -> Proper]]
    BY <2>1, <2>2 DEF Shapes
  <2>4. \A e, w \in Device : roots'[e][w] = IF e = d THEN NoRoot ELSE roots[e][w]
    BY <2>1, <2>2 DEF Shapes
  <2>5. ASSUME NEW w \in Device \ left'
        PROVE  /\ kept'[w] \subseteq roots'[w][w].items
               /\ Behindhand(posted'[w].root, roots'[w][w])
               /\ \A e \in Device : Behindhand(roots'[e][w], roots'[w][w])
    <3>1. w # d /\ w \notin left /\ roots'[w][w] = roots[w][w]
      BY <2>1, <2>4
    <3>2. roots[w][w] \in Proper
      BY DEF Shapes
    <3>3. Behindhand(NoRoot, roots[w][w])
      BY <3>2, NoRootIsBehind
    <3> QED BY <2>1, <2>4, <3>1, <3>3 DEF Growing
  <2> QED BY <2>1, <2>3, <2>5 DEF Shapes, Growing
<1>6. ASSUME NEW d \in Device, PostRoot(d) PROVE Shapes' /\ Growing'
  <2>1. posted' = [posted EXCEPT ![d] = RootEvent(d)] /\ UNCHANGED <<roots, kept, left>>
    BY <1>6 DEF PostRoot, mvars
  <2>2. ActiveDevices(access[d]) \subseteq Device
    <3>1. access[d] \in Snapshot
      BY <1>6 DEF PostRoot, Joined
    <3> QED BY <3>1 DEF ActiveDevices, Snapshot
  <2>3. RootEvent(d) \in [root : Proper, to : SUBSET Device] /\ RootEvent(d).root = roots[d][d]
    BY <2>2 DEF RootEvent, Shapes
  <2>4. Shapes'
    BY <2>1, <2>3 DEF Shapes
  <2>5. \A w \in Device : posted'[w].root \in {posted[w].root, roots[w][w]}
    BY <2>1, <2>3 DEF Shapes
  <2> QED BY <2>1, <2>4, <2>5 DEF Growing, Behindhand
<1>7. ASSUME NEW d \in Device, NEW w \in Device, LearnRoot(d, w) PROVE Shapes' /\ Growing'
  <2>1. /\ posted[w].root.seq > roots[d][w].seq
        /\ roots' = [roots EXCEPT ![d][w] = posted[w].root]
        /\ UNCHANGED <<posted, kept, left>>
    BY <1>7 DEF LearnRoot, mvars
  <2>2. posted[w].root \in Proper
    BY DEF Shapes
  <2>3. Shapes'
    BY <2>1, <2>2 DEF Shapes
  <2>4. \A e, v \in Device : roots'[e][v] = IF e = d /\ v = w THEN posted[w].root ELSE roots[e][v]
    BY <2>1 DEF Shapes
  <2>5. w \in left \/ d # w
    <3> SUFFICES ASSUME w \notin left, d = w PROVE FALSE
      OBVIOUS
    <3>1. Behindhand(posted[w].root, roots[w][w])
      BY DEF Growing
    <3>2. posted[w].root.seq \in Nat /\ roots[w][w].seq \in Nat
      BY DEF Shapes, Proper, Root
    <3> QED BY <2>1, <3>1, <3>2 DEF Behindhand
  <2>6. \A v \in Device \ left : roots'[v][v] = roots[v][v]
    BY <2>4, <2>5
  <2> QED BY <2>1, <2>3, <2>4, <2>6 DEF Growing
<1>8. CASE UNCHANGED vars
  BY <1>0, <1>8 DEF vars, mvars
<1> QED BY <1>1, <1>2, <1>3, <1>4, <1>5, <1>6, <1>7, <1>8 DEF Next

LEMMA FolderBegin == Init => Shapes /\ Growing
<1> SUFFICES ASSUME Init PROVE Shapes /\ Growing
  OBVIOUS
<1>1. NoRoot \in Proper /\ [seq |-> 1, items |-> {Creator}] \in Proper
  BY ShareMembershipAssumption DEF NoRoot, Proper, Root, Item
<1>2. Shapes
  BY <1>1 DEF Init, Shapes
<1>3. ASSUME NEW w \in Device
      PROVE  /\ kept[w] \subseteq roots[w][w].items
             /\ Behindhand(posted[w].root, roots[w][w])
             /\ \A d \in Device : Behindhand(roots[d][w], roots[w][w])
  <2>1. roots[w][w] \in Proper
    BY <1>2 DEF Shapes
  <2>2. Behindhand(NoRoot, roots[w][w])
    BY <2>1, NoRootIsBehind
  <2>3. posted[w].root = NoRoot /\ kept[w] = {}
    BY DEF Init
  <2>4. \A d \in Device : roots[d][w] = NoRoot \/ d = w
    BY DEF Init
  <2> QED BY <2>2, <2>3, <2>4 DEF Behindhand
<1> QED BY <1>2, <1>3 DEF Growing

LEMMA FolderInvariant == Spec => [](IInv /\ Shapes /\ Growing)
<1>1. Init => IInv /\ Shapes /\ Growing
  BY FolderBegin, Begin DEF Init
<1>2. IInv /\ Shapes /\ Growing /\ [Next]_vars => (IInv /\ Shapes /\ Growing)'
  <2> SUFFICES ASSUME IInv, Shapes, Growing, [Next]_vars PROVE IInv' /\ Shapes' /\ Growing'
    OBVIOUS
  <2>1. IInv'
    BY FolderSteps, Step
  <2>2. left' \subseteq Device
    BY <2>1 DEF IInv
  <2> QED BY <2>1, <2>2, FolderStep DEF IInv
<1> QED BY <1>1, <1>2, PTL DEF Spec

(* What an administrator showed when it withdrew a member is shown by      *)
(* every device that lets it write and has its root.                       *)
THEOREM WithdrawnContentsStay == Spec => []WithdrawnStaysShown
<1>1. Shapes /\ Growing => WithdrawnStaysShown
  BY DEF WithdrawnStaysShown, Growing, Visible
<1> QED BY <1>1, FolderInvariant, PTL

(* Nobody is ahead of a writer that has stayed, and a number names one     *)
(* root of it.                                                             *)
THEOREM NumbersNameRoots == Spec => []OneRootPerSequence
<1>1. Shapes /\ Growing => OneRootPerSequence
  <2> SUFFICES ASSUME Shapes, Growing, NEW d \in Device, NEW w \in Device \ left
               PROVE  /\ roots[d][w].seq <= roots[w][w].seq
                      /\ roots[d][w].seq = roots[w][w].seq => roots[d][w] = roots[w][w]
    BY DEF OneRootPerSequence
  <2>1. Behindhand(roots[d][w], roots[w][w])
    BY DEF Growing
  <2>2. roots[d][w].seq \in Nat /\ roots[w][w].seq \in Nat
    BY DEF Shapes, Proper, Root
  <2> QED BY <2>1, <2>2 DEF Behindhand
<1> QED BY <1>1, FolderInvariant, PTL
=============================================================================
