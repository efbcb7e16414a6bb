---------------------------- MODULE SharedFolder -----------------------------
(***************************************************************************)
(* What the devices of one shared folder show, beside who its members are  *)
(* (ShareMembership).  Writers have roots of their own, which every device *)
(* merges as long as its record lets the writer write; before a member is  *)
(* withdrawn, the administrator takes what it shows into its own root      *)
(* (core/shared_content.rs, share_actions/content.rs, relay_sync.rs).      *)
(*                                                                         *)
(* The contents of a root are the names of those who added something; what *)
(* one path shows when several change it is the business of Merge.         *)
(***************************************************************************)
EXTENDS ShareMembership

CONSTANT MaxRoots   \* bound on the roots a device makes by itself

ASSUME SharedFolderAssumption == MaxRoots \in Nat

VARIABLES
    roots,      \* roots[d][w]: w's root as d has it
    posted,     \* the root event of every writer that relays hold
    kept        \* history: what d showed where it withdrew a member

rvars == <<roots, posted, kept>>
vars == <<mvars, rvars>>

Item == Device
Root == [seq : Nat, items : SUBSET Item]      \* app_key_seq 0: no root
NoRoot == [seq |-> 0, items |-> {}]
NoRoots == [w \in Device |-> NoRoot]

Writers(d) == {w \in Device : CanWrite(access[d], w)}

(* shared_folder_merged_root: the merge of the roots of those who may write. *)
Visible(d) == UNION {roots[d][w].items : w \in Writers(d)}

(* share_root_meta *)
NextRoot(d, items) == [seq |-> roots[d][d].seq + 1, items |-> items]

(* The first root is seeded from the folder. *)
Init ==
    /\ MInit
    /\ roots = [d \in Device |->
                  [w \in Device |-> IF d = Creator /\ w = Creator
                                    THEN [seq |-> 1, items |-> {Creator}]
                                    ELSE NoRoot]]
    /\ posted = [w \in Device |-> [root |-> NoRoot, to |-> {}]]
    /\ kept = [d \in Device |-> {}]

-----------------------------------------------------------------------------
(* Mutant: the merged view is taken once the member is withdrawn. *)
CheckpointAfterwards(d) ==
    roots' = [roots EXCEPT ![d][d] =
        NextRoot(d, UNION {roots[d][w].items :
                              w \in {v \in Device : CanWrite(access'[d], v)}})]

(* Before a member's role changes, d takes everything it shows into its    *)
(* own root, so that later merges need not have the member's.              *)
Checkpoint(d) ==
    roots' = [roots EXCEPT ![d][d] = NextRoot(d, Visible(d))]

(* dispatch_share_action_with_content *)
Withdraw(d, p) ==
    /\ \E t \in Time :
        Revoke(d, p, t) \/ \E r \in Grantable : SetRole(d, p, r, t)
    /\ Checkpoint(d)
    /\ kept' = [kept EXCEPT ![d] = @ \cup Visible(d)]
    /\ UNCHANGED posted

(* The checkpoint is saved first.  Afterwards the process may stop, or the *)
(* change turn out to be none, or to be refused.                           *)
Reauthor(d) ==
    /\ Joined(d)
    /\ CanAdmin(access[d], d)
    /\ roots[d][d].seq < MaxRoots
    /\ UNCHANGED <<mvars, posted, kept>>
    /\ Checkpoint(d)

(* detach_share: the roots go; what was shown becomes an ordinary folder.  *)
Detach(d) ==
    /\ Leave(d)
    /\ roots' = [roots EXCEPT ![d] = NoRoots]
    /\ UNCHANGED <<posted, kept>>

(* write_shared_folder *)
Write(d) ==
    /\ Joined(d)
    /\ CanWrite(access[d], d)
    /\ d \notin roots[d][d].items
    /\ roots[d][d].seq < MaxRoots
    /\ roots' = [roots EXCEPT ![d][d] = NextRoot(d, @.items \cup {d})]
    /\ UNCHANGED <<mvars, posted, kept>>

(* Mutant: a root that was published once is not published again. *)
RootEventOnce(w) ==
    IF posted[w].root = roots[w][w] THEN posted[w]
    ELSE [root |-> roots[w][w], to |-> ActiveDevices(access[w])]

(* share_root_for_publish: published again when the recipients change.     *)
(* Relays keep a writer's last event.                                      *)
RootEvent(w) == [root |-> roots[w][w], to |-> ActiveDevices(access[w])]

PostRoot(w) ==
    /\ Joined(w)
    /\ CanWrite(access[w], w)
    /\ roots[w][w].seq > 0
    /\ posted' = [posted EXCEPT ![w] = RootEvent(w)]
    /\ UNCHANGED <<mvars, roots, kept>>

(* apply_remote_drive_root_event, the part about shares.  A device learns  *)
(* its own root too, when it has none or an older one.                     *)
LearnRoot(d, w) ==
    /\ Joined(d)
    /\ CanWrite(access[d], w)
    /\ d \in posted[w].to
    /\ posted[w].root.seq > roots[d][w].seq
    /\ roots' = [roots EXCEPT ![d][w] = posted[w].root]
    /\ UNCHANGED <<mvars, posted, kept>>

(* What changes the members and no contents. *)
Membership ==
    \/ \E d, e \in Device, r \in Grantable, t \in Time, b \in BOOLEAN :
            Invite(d, e, r, t, b)
    \/ \E d \in Device, t \in Time : Repair(d, t)
    \/ \E d \in Device : Publish(d)
    \/ \E d \in Device, i \in invites : Accept(d, i)
    \/ \E d \in Device, m \in sent : Adopt(d, m)

Next ==
    \/ Membership /\ UNCHANGED rvars
    \/ \E d \in Device, p \in Profile : Withdraw(d, p)
    \/ \E d \in Device : Reauthor(d) \/ Detach(d) \/ Write(d) \/ PostRoot(d)
    \/ \E d, w \in Device : LearnRoot(d, w)

Spec == Init /\ [][Next]_vars

(* The daemon publishes what it has and fetches what there is, again and   *)
(* again.                                                                  *)
FairSpec ==
    /\ Spec
    /\ \A d \in Device : /\ WF_vars(Publish(d) /\ UNCHANGED rvars)
                         /\ WF_vars(\E m \in Kept : Adopt(d, m) /\ UNCHANGED rvars)
                         /\ WF_vars(PostRoot(d))
                         /\ \A w \in Device : WF_vars(LearnRoot(d, w))

-----------------------------------------------------------------------------
(* Every field holds what the code's types allow, and a root that holds    *)
(* something has a sequence number.                                        *)
TypeOK ==
    /\ MTypeOK
    /\ \A d, w \in Device : roots[d][w].seq = 0 => roots[d][w].items = {}
    /\ roots \in [Device -> [Device -> Root]]
    /\ posted \in [Device -> [root : Root, to : SUBSET Device]]
    /\ kept \in [Device -> SUBSET Item]

(* share_actions/content.rs, "Future projection must not depend on a       *)
(* revoked writer root": what an administrator showed when it withdrew a   *)
(* member is shown by every device that lets it write and has its root.    *)
WithdrawnStaysShown ==
    \A d \in Device, a \in Device \ left :
        Joined(d) /\ a \in Writers(d) /\ roots[d][a] = roots[a][a]
            => kept[a] \subseteq Visible(d)

(* What a device has of a writer is never ahead of what the writer has,    *)
(* and the same sequence number always names the same contents, unless     *)
(* the writer has left and come back.                                      *)
OneRootPerSequence ==
    \A d \in Device, w \in Device \ left :
        /\ roots[d][w].seq <= roots[w][w].seq
        /\ roots[d][w].seq = roots[w][w].seq => roots[d][w] = roots[w][w]

(* Unless two administrators changed the members at once, or somebody left,*)
(* all members end up showing the same, although events of roots are       *)
(* refused while the record does not allow them and have to come again.    *)
FolderAgreed ==
    \A d, e \in Device :
        /\ Joined(d) /\ d \in ActiveDevices(access[d])
        /\ Joined(e) /\ e \in ActiveDevices(access[e])
        => Visible(d) = Visible(e)
MembersSeeTheSame == <>[](forked \/ left # {} \/ FolderAgreed)
=============================================================================
