--------------------------- MODULE ShareMembership ---------------------------
(***************************************************************************)
(* The members of one shared folder, as the devices of several profiles    *)
(* have them on record (core/sharing.rs, share_actions.rs, relay_sync.rs). *)
(*                                                                         *)
(* An administrator changes its own record and publishes it whole, signed. *)
(* A device replaces its record by one that is not older and that an       *)
(* administrator of the record it replaces has signed, and it takes its    *)
(* first record from an invitation.  Published snapshots may arrive late,  *)
(* again, in any order, or never.  Every device has a clock of its own, so *)
(* the time of a change is any time.                                       *)
(***************************************************************************)
EXTENDS ShareSnapshot

CONSTANTS
    Creator,       \* the device that creates the share
    Recipients,    \* the role of every profile the share is created for
    Grantable,     \* the roles administrators hand out
    MaxClock,      \* bound on what a clock shows, in seconds
    MaxChanges,    \* bound on changes of membership and departures
    NoShare        \* the record of a device that has not accepted

ASSUME ShareMembershipAssumption ==
    /\ Creator \in Device
    /\ Recipients \in [Profile -> Role \cup {"none"}]
    /\ Recipients[ProfileOf[Creator]] = "admin"
    /\ Grantable \subseteq Role
    /\ MaxClock \in Nat /\ MaxChanges \in Nat

VARIABLES
    access,     \* access[d]: the access snapshot on d's record
    sent,       \* snapshots ever published, with their signers
    invites,    \* invitations handed out, with the profile they name
    changes,    \* how many changes and departures there were
    forked,     \* history: a change was made without knowing another one
    left        \* history: the devices that have left the share

mvars == <<access, sent, invites, changes, forked, left>>

Joined(d) == access[d] # NoShare

Time == 0..MaxClock

(* The recipients have accepted already when the behaviour starts. *)
MInit ==
    LET s == NewShare(Creator, Recipients, 0)
    IN  /\ access = [d \in Device |-> IF d \in s.devices THEN s ELSE NoShare]
        /\ sent = {[signer |-> Creator, content |-> s]}
        /\ invites = {}
        /\ changes = 0
        /\ forked = FALSE
        /\ left = {}

(* Every snapshot somebody has or may still get. *)
Snapshots ==
    {access[d] : d \in {e \in Device : Joined(e)}}
        \cup {m.content : m \in sent} \cup {i.content : i \in invites}

(* There is a snapshot d does not know of, not older than the one it has. *)
Behind(d) == \E s \in Snapshots : s.at >= access[d].at /\ s # access[d]

(* A change of membership, on d's record. *)
Change(d, s) ==
    /\ changes < MaxChanges
    /\ changes' = changes + 1
    /\ access' = [access EXCEPT ![d] = s]
    /\ forked' = (forked \/ Behind(d))

(* dispatch_share_action_with_content: the snapshot is published before    *)
(* the link is handed out; if that fails the member is on record without   *)
(* an invitation.                                                          *)
Invite(d, e, role, now, published) ==
    /\ Joined(d)
    /\ MayInvite(access[d], d, e)
    /\ LET s == Invited(access[d], d, e, role, now) IN
        /\ Change(d, s)
        /\ IF published
           THEN /\ invites' = invites \cup {[to |-> ProfileOf[e], content |-> s]}
                /\ sent' = sent \cup {[signer |-> d, content |-> s]}
           ELSE UNCHANGED <<sent, invites>>
    /\ UNCHANGED left

SetRole(d, p, role, now) ==
    /\ Joined(d)
    /\ MayChange(access[d], d, p)
    /\ role # access[d].grants[p]
    /\ Change(d, RoleSet(access[d], p, role, now))
    /\ UNCHANGED <<sent, invites, left>>

Revoke(d, p, now) ==
    /\ Joined(d)
    /\ MayChange(access[d], d, p)
    /\ Change(d, Revoked(access[d], d, p, now))
    /\ UNCHANGED <<sent, invites, left>>

Repair(d, now) ==
    /\ Joined(d)
    /\ MayRepair(access[d], d)
    /\ access' = [access EXCEPT ![d] = Repaired(@, now)]
    /\ UNCHANGED <<sent, invites, changes, forked, left>>

(* Mutant: only the owner of the folder publishes. *)
PublishByOwner(d) ==
    /\ d = Creator /\ Joined(d)
    /\ CanAdmin(access[d], d)
    /\ sent' = sent \cup {[signer |-> d, content |-> access[d]]}
    /\ UNCHANGED <<access, invites, changes, forked, left>>

(* append_share_access_snapshot_events, publish_share_access_snapshot *)
Publish(d) ==
    /\ Joined(d)
    /\ CanAdmin(access[d], d)
    /\ sent' = sent \cup {[signer |-> d, content |-> access[d]]}
    /\ UNCHANGED <<access, invites, changes, forked, left>>

-----------------------------------------------------------------------------
(* Mutant: the invitation replaces whatever is on record. *)
AcceptedBlindly(d, i) == i.content

(* accept_share_invite: any invitation that names the profile, however old. *)
Accepted(d, i) ==
    IF Joined(d) /\ access[d].at >= i.content.at THEN access[d] ELSE i.content

Accept(d, i) ==
    /\ i.to = ProfileOf[d]
    /\ access' = [access EXCEPT ![d] = Accepted(d, i)]
    /\ UNCHANGED <<sent, invites, changes, forked, left>>

(* delete_share, detach_share *)
Leave(d) ==
    /\ Joined(d)
    /\ access' = [access EXCEPT ![d] = NoShare]
    /\ left' = left \cup {d}
    /\ changes < MaxChanges
    /\ changes' = changes + 1
    /\ UNCHANGED <<sent, invites, forked>>

(* apply_remote_share_access_snapshot_event *)
Adoptable(d, m) ==
    /\ Joined(d)
    /\ m.content.at >= access[d].at
    /\ m.content # access[d]
    /\ CanAdmin(access[d], m.signer)

Adopt(d, m) ==
    /\ Adoptable(d, m)
    /\ access' = [access EXCEPT ![d] = m.content]
    /\ UNCHANGED <<sent, invites, changes, forked, left>>

-----------------------------------------------------------------------------
MNext ==
    \/ \E d, e \in Device, r \in Grantable, t \in Time, b \in BOOLEAN :
            Invite(d, e, r, t, b)
    \/ \E d \in Device, p \in Profile, r \in Grantable, t \in Time :
            SetRole(d, p, r, t)
    \/ \E d \in Device, p \in Profile, t \in Time : Revoke(d, p, t)
    \/ \E d \in Device, t \in Time : Repair(d, t)
    \/ \E d \in Device : Publish(d) \/ Leave(d)
    \/ \E d \in Device, i \in invites : Accept(d, i)
    \/ \E d \in Device, m \in sent : Adopt(d, m)

(* Relays keep an author's last snapshot and hand it to whoever asks. *)
Kept == {m \in sent : \A n \in sent :
            n.signer = m.signer => n.content.at <= m.content.at}

MSpec == MInit /\ [][MNext]_mvars

(* The daemon publishes and fetches again and again. *)
MFairSpec ==
    /\ MSpec
    /\ \A d \in Device : /\ WF_mvars(Publish(d))
                         /\ WF_mvars(\E m \in Kept : Adopt(d, m))

-----------------------------------------------------------------------------
(* Every field holds what the code's types allow, and only devices that a  *)
(* snapshot lists have tombstones in it or keys.                           *)
MTypeOK ==
    /\ \A s \in Snapshots :
          s.tombs \cup UNION {s.epochs[i].wraps : i \in DOMAIN s.epochs} \subseteq s.devices
    /\ \A d \in Device : Joined(d) => access[d] \in Snapshot
    /\ \A m \in sent : m.signer \in Device /\ m.content \in Snapshot
    /\ \A i \in invites : i.to \in Profile /\ i.content \in Snapshot
    /\ changes \in 0..MaxChanges
    /\ forked \in BOOLEAN
    /\ left \subseteq Device

(* DESIGN.md, "Revoke": the last key of every snapshot that is on record   *)
(* or on its way is wrapped for exactly the devices that are active in it: *)
(* no member waits for a key and nobody withdrawn is given one.            *)
KeysFollowMembership ==
    \A s \in Snapshots : LastEpoch(s).wraps = ActiveDevices(s)

(* No sequence of invitations, changes of role and revocations leaves a    *)
(* share that nobody can administer, since nobody can withdraw itself.     *)
SomebodyAdministers == \A s \in Snapshots : \E d \in Device : CanAdmin(s, d)

(* As long as no two administrators changed the membership without knowing *)
(* of each other, whoever is revoked in a snapshot is revoked in every     *)
(* later one, and of the same time there is only one, whichever devices    *)
(* adopt which of them in which order.                                     *)
RevocationSticks ==
    ~forked => \A s, t \in Snapshots :
        /\ s.at = t.at => s = t
        /\ s.at < t.at => \A p \in Profile :
                            s.grants[p] = "revoked" => t.grants[p] = "revoked"

(* The record of a device that stays in the share never becomes older,     *)
(* whatever invitations and snapshots arrive late.                         *)
RecordNeverGoesBack ==
    [][\A d \in Device : Joined(d) /\ access'[d] # NoShare
                            => access[d].at <= access'[d].at]_mvars

(* Unless two changed it at once, or somebody left, all members end with   *)
(* the same record, though a snapshot counts only for those whose record   *)
(* says that its signer administers.                                       *)
Agreed ==
    \A d, e \in Device : Joined(d) /\ Joined(e) => access[d] = access[e]
MembersAgree == <>[](forked \/ left # {} \/ Agreed)

(* README.md, "the signed append-only share logs remain the source of      *)
(* truth": a revocation on record is never taken back.                     *)
RevocationsAppendOnly ==
    [][\A d \in Device, p \in Profile :
          Joined(d) /\ access'[d] # NoShare /\ access[d].grants[p] = "revoked"
              => access'[d].grants[p] = "revoked"]_mvars
=============================================================================
