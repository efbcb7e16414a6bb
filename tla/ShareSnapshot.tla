---------------------------- MODULE ShareSnapshot ----------------------------
(***************************************************************************)
(* The access snapshot of one shared folder and what an administrator does *)
(* to it (core/sharing.rs).  A snapshot says which profiles are members    *)
(* and in which role, which of their devices take part, which devices are  *)
(* tombstoned, and for which devices the key of each epoch is wrapped.     *)
(*                                                                         *)
(* Labels, hints, reasons and the invitations that wait for evidence say   *)
(* nothing about access and are left out; so are grants to a bare pubkey,  *)
(* which no operation creates, and the keys themselves.                    *)
(***************************************************************************)
EXTENDS Naturals, Sequences, FiniteSets

CONSTANTS
    Device,     \* AppKeys that may take part in the share
    Profile,    \* the identities they belong to
    ProfileOf   \* the profile of every device

ASSUME ProfileAssumption == /\ ProfileOf \in [Device -> Profile]
                            /\ IsFiniteSet(Device)

Role == {"reader", "editor", "admin"}

(* A profile has no grant, a role, or a grant whose status is Revoked; the *)
(* role of a revoked grant is never read again.                            *)
Standing == Role \cup {"none", "revoked"}

Epoch == [signer : Device, wraps : SUBSET Device]

Snapshot == [at : Nat,                      \* updated_at
             grants : [Profile -> Standing],
             devices : SUBSET Device,
             tombs : SUBSET Device,
             epochs : Seq(Epoch)]           \* key_epochs, the newest last

MaxOf(m, n) == IF m >= n THEN m ELSE n

Rank(r) == CASE r = "admin" -> 2 [] r = "editor" -> 1 [] OTHER -> 0

Strongest(r, s) == IF Rank(r) >= Rank(s) THEN r ELSE s

-----------------------------------------------------------------------------
(* What a snapshot says. *)

(* active_facets of the projection: a device that is not tombstoned and    *)
(* whose profile has an active grant.  All roles may receive key wraps.    *)
ActiveDevices(s) ==
    {d \in s.devices \ s.tombs : s.grants[ProfileOf[d]] \in Role}

CanAdmin(s, d) ==
    /\ d \in ActiveDevices(s)
    /\ s.grants[ProfileOf[d]] = "admin"

CanWrite(s, d) ==
    /\ d \in ActiveDevices(s)
    /\ s.grants[ProfileOf[d]] \in {"editor", "admin"}

LastEpoch(s) == s.epochs[Len(s.epochs)]

MissingWraps(s) == ActiveDevices(s) \ LastEpoch(s).wraps

-----------------------------------------------------------------------------
(* What an administrator's device does to it at time now. *)

(* A new epoch, wrapped for the devices that are active in s. *)
NextEpoch(s, signer) ==
    Append(s.epochs, [signer |-> signer, wraps |-> ActiveDevices(s)])

(* create_shared_folder: recipients may be named at once. *)
NewShare(d, roles, now) ==
    LET s == [at |-> now, grants |-> roles,
              devices |-> {d} \cup {e \in Device : /\ ProfileOf[e] # ProfileOf[d]
                                                   /\ roles[ProfileOf[e]] # "none"},
              tombs |-> {}, epochs |-> <<>>]
    IN  [s EXCEPT !.epochs = NextEpoch(s, d)]

MayInvite(s, signer, d) ==
    /\ CanAdmin(s, signer)
    /\ s.grants[ProfileOf[d]] # "revoked"

(* The member's role can only grow here; the key is rotated for everybody. *)
Invited(s, signer, d, role, now) ==
    LET p == ProfileOf[d]
        t == [s EXCEPT !.at = MaxOf(s.at, now) + 1,
                       !.grants[p] = IF @ = "none" THEN role
                                     ELSE Strongest(@, role),
                       !.devices = @ \cup {d}]
    IN  [t EXCEPT !.epochs = NextEpoch(t, signer)]

(* Nobody changes or revokes its own profile. *)
MayChange(s, signer, p) ==
    /\ CanAdmin(s, signer)
    /\ p # ProfileOf[signer]
    /\ s.grants[p] \in Role

(* Mutant: the clock alone dates the change. *)
RoleSetAtClock(s, p, role, now) ==
    [s EXCEPT !.at = MaxOf(now, s.at), !.grants[p] = role]

RoleSet(s, p, role, now) ==
    [s EXCEPT !.at = MaxOf(now, s.at + 1), !.grants[p] = role]

(* The devices of p; the tombstone of each takes a second of its own. *)
Known(s, p) == {d \in s.devices \cup s.tombs : ProfileOf[d] = p}

(* Mutant: the new key is wrapped for those who were active before. *)
RevokedKeepingWraps(s, signer, p, now) ==
    [s EXCEPT !.at = MaxOf(now, s.at + 1) + Cardinality(Known(s, p)),
              !.grants[p] = "revoked",
              !.tombs = @ \cup Known(s, p),
              !.epochs = NextEpoch(s, signer)]

Revoked(s, signer, p, now) ==
    LET t == [s EXCEPT !.at = MaxOf(now, s.at + 1) + Cardinality(Known(s, p)),
                       !.grants[p] = "revoked",
                       !.tombs = @ \cup Known(s, p)]
    IN  [t EXCEPT !.epochs = NextEpoch(t, signer)]

MayRepair(s, signer) ==
    /\ CanAdmin(s, signer)
    /\ LastEpoch(s).signer = signer

Repaired(s, now) ==
    IF MissingWraps(s) = {} THEN s
    ELSE [s EXCEPT !.at = MaxOf(@, now),
                   !.epochs[Len(s.epochs)].wraps = @ \cup ActiveDevices(s)]
=============================================================================
