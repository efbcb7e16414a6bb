---------------------------- MODULE DeviceApproval ----------------------------
(* How a new device joins a profile: it asks, an admin adds it to the roster *)
(* and wraps a new content key for it, and hands it a receipt; the receipt   *)
(* is kept by the admin until the device has confirmed it, and the device    *)
(* confirms it when it has the receipt and the key on disk. Receipts, roster *)
(* and confirmations travel over relays, over the mesh, or both; two admins  *)
(* may approve, rotate the key or revoke the device at the same time. Mobile *)
(* devices run the app core (ffi.rs), the others the CLI daemon.             *)
EXTENDS Integers, FiniteSets

CONSTANTS
    Admins,     \* the admin devices of the profile
    Device,     \* the device that joins
    Mobile,     \* those of them that run the app core
    Anybody,    \* stands for the addressee of a request that names no admin
    Asked,      \* whom the device may ask: admins, or Anybody
    Transports, \* which transports there may be: sets of "relay" and "mesh"
    None,       \* no receipt
    MaxEpoch,   \* bound on the key epochs
    MaxSigned,  \* bound on how many epochs are started, by transports
    MaxBreaks   \* bound on restarts, losses and failed publications, likewise

ASSUME DevicesAssumption ==
    /\ Device \notin Admins /\ Mobile \subseteq Admins \cup {Device}
    /\ Asked \subseteq Admins \cup {Anybody} /\ Anybody \notin Admins
    /\ Transports \subseteq SUBSET {"relay", "mesh"}
ASSUME ApprovalBoundsAssumption == 
    /\ MaxEpoch \in Nat \ {0}
    /\ MaxSigned \in [Transports -> Nat] /\ MaxBreaks \in [Transports -> Nat]

VARIABLES
    asked,      \* whom the device asked: an admin, or Anybody who has the link
    inbound,    \* inbound[a]: what admin a knows of the request
    log,        \* log[d]: the roster operations on d's disk
    after,      \* after[op]: the operations its signer had
    receipt,    \* receipt[a]: the receipt that a keeps until it is confirmed
    issued,     \* all receipts that were made (history)
    kept,       \* the receipts on the device's disk
    auth,       \* the device's authorization state, on its disk
    relay,      \* operations, receipts and confirmations the relay holds
    rooted,     \* the admins whose root the relay and the block servers have
    mail,       \* what waits on the mesh, in order per sender and receiver
    current,    \* current[a]: the operations whose roster was acknowledged
    up,         \* the transports there are
    breaks      \* bound: what went wrong so far

persisted == <<inbound, log, after, receipt, issued, kept, auth>>
approvalVars == <<asked, persisted, relay, rooted, mail, current, up, breaks>>

Devices == Admins \cup {Device}

Boot == [kind |-> "boot"]
Adds == [kind : {"add"}, by : Admins]
Tombs == [kind : {"tomb"}, by : Admins]
Epochs == [kind : {"epoch"}, by : Admins, n : 2..MaxEpoch]
Wraps == [kind : {"wrap"}, by : Admins, n : 2..MaxEpoch]
Ops == {Boot} \cup Adds \cup Tombs \cup Epochs \cup Wraps

Receipts == [by : Admins, op : Adds]

-----------------------------------------------------------------------------
(* project_nostr_identity_roster: an operation counts once all its signer    *)
(* had is there; a tombstone is final.                                       *)
Accepted(ops) == {op \in ops : after[op] \subseteq ops}
Tombstoned(ops) == Accepted(ops) \cap Tombs # {}
Member(ops) == Accepted(ops) \cap Adds # {} /\ ~Tombstoned(ops)

EpochNumber(ops) ==
    LET ns == {op.n : op \in Accepted(ops) \cap Epochs}
    IN  IF ns = {} THEN 1 ELSE CHOOSE n \in ns : \A other \in ns : other <= n

(* Of two epochs of one number the same one wins wherever both are known.    *)
Newest(ops) ==
    LET es == {op \in Accepted(ops) \cap Epochs : op.n = EpochNumber(ops)}
    IN  IF es = {} THEN Boot ELSE CHOOSE op \in es : TRUE

(* current_dck: the newest epoch, or a repair of it, has a wrap for the      *)
(* device; a key is wrapped for those who were members for its signer.       *)
HasKey(ops) ==
    LET e == Newest(ops)
    IN  /\ Boot \in ops /\ e # Boot
        /\ \/ Member(after[e])
           \/ [kind |-> "wrap", by |-> e.by, n |-> e.n] \in Accepted(ops)

-----------------------------------------------------------------------------
Init ==
    /\ asked \in Asked
    /\ inbound = [a \in Admins |-> "no"]
    /\ log = [d \in Devices |-> IF d = Device THEN {} ELSE {Boot}]
    /\ after = [op \in Ops |-> {}]
    /\ receipt = [a \in Admins |-> None]
    /\ issued = {} /\ kept = {}
    /\ auth = "awaiting"
    /\ relay = {} /\ rooted = {}
    /\ mail = [receipts |-> {}, rosters |-> [a \in Admins |-> {}],
               acks |-> {}, rosterAcks |-> [a \in Admins |-> {}]]
    /\ current = [a \in Admins |-> {}]
    /\ up \in Transports
    /\ breaks = 0

-----------------------------------------------------------------------------
(* record_inbound_app_key_link_request: the request of a device that awaits  *)
(* approval arrives, unless it was handled already.                          *)
Request(a) ==
    /\ asked = a /\ auth = "awaiting" /\ "mesh" \in up
    /\ inbound[a] = "no" /\ ~Member(log[a]) /\ ~Tombstoned(log[a])
    /\ inbound' = [inbound EXCEPT ![a] = "asked"]
    /\ UNCHANGED <<asked, log, after, receipt, issued, kept, auth, relay, rooted, mail,
                   current, up, breaks>>

Reject(a) ==
    /\ inbound[a] = "asked"
    /\ inbound' = [inbound EXCEPT ![a] = "handled"]
    /\ UNCHANGED <<asked, log, after, receipt, issued, kept, auth, relay, rooted, mail,
                   current, up, breaks>>

(* Operations are signed one after the other, on top of all that a has.      *)
Sign(a, op, epoch) ==
    /\ log' = [log EXCEPT ![a] = @ \cup {op, epoch}]
    /\ after' = [after EXCEPT ![op] = log[a], ![epoch] = log[a] \cup ({op} \ {epoch})]

NextEpoch(a) == [kind |-> "epoch", by |-> a, n |-> EpochNumber(log[a]) + 1]

Signed == UNION {log[a] : a \in Admins}

(* The bounds: a signs no operation twice, and only so many epochs.          *)
Room(a, op) ==
    /\ {op, NextEpoch(a)} \cap Signed = {}
    /\ EpochNumber(log[a]) < MaxEpoch
    /\ Cardinality(Signed \cap Epochs) < MaxSigned[up]

(* approve_device_bootstrap, of a request that came in or of its link        *)
Approve(a) ==
    LET op == [kind |-> "add", by |-> a]
    IN  /\ asked = Anybody \/ inbound[a] = "asked"
        /\ ~Member(log[a]) /\ ~Tombstoned(log[a])
        /\ Room(a, op)
        /\ Sign(a, op, NextEpoch(a))
        /\ receipt' = [receipt EXCEPT ![a] = [by |-> a, op |-> op]]
        /\ issued' = issued \cup {[by |-> a, op |-> op]}
        /\ inbound' = [inbound EXCEPT ![a] = "handled"]
        /\ UNCHANGED <<asked, kept, auth, relay, rooted, mail, current, up, breaks>>

(* rotate_dck, and what else starts an epoch: another device comes or goes.  *)
Rotate(a) ==
    /\ Room(a, NextEpoch(a))
    /\ Sign(a, NextEpoch(a), NextEpoch(a))
    /\ UNCHANGED <<asked, inbound, receipt, issued, kept, auth, relay, rooted, mail, current, up, breaks>>

(* revoke_app_key *)
Revoke(a) ==
    LET op == [kind |-> "tomb", by |-> a]
    IN  /\ Member(log[a])
        /\ Room(a, op)
        /\ Sign(a, op, NextEpoch(a))
        /\ UNCHANGED <<asked, inbound, receipt, issued, kept, auth, relay, rooted, mail, current, up, breaks>>

(* repair_current_secret_epoch_wraps, by the signer of the epoch only        *)
Repair(a) ==
    LET e == Newest(log[a])
    IN  /\ e # Boot /\ e.by = a /\ Member(log[a]) /\ ~HasKey(log[a])
        /\ LET op == [kind |-> "wrap", by |-> a, n |-> e.n] IN Sign(a, op, op)
        /\ UNCHANGED <<asked, inbound, receipt, issued, kept, auth, relay, rooted, mail,
                       current, up, breaks>>

-----------------------------------------------------------------------------
Pending(a) == {receipt[a]} \ {None}

(* Operations are published in the order of the log: a failure leaves those  *)
(* out that come later.                                                      *)
Parts(a) == {ops \in SUBSET log[a] : \A op \in ops : after[op] \subseteq ops}

Fail == breaks < MaxBreaks[up] /\ breaks' = breaks + 1

(* Mutant: the receipt is published before the root. *)
PublishedReceiptFirst(a) ==
    \/ /\ relay' = relay \cup log[a] \cup Pending(a)
       /\ rooted' = IF Pending(a) = {} THEN rooted ELSE rooted \cup {a}
       /\ UNCHANGED breaks
    \/ /\ Fail /\ UNCHANGED rooted
       /\ \/ \E ops \in Parts(a) : relay' = relay \cup ops
          \/ relay' = relay \cup log[a] \cup Pending(a)

(* publish_current_state, publish_native_profile_roster_ops: the blocks are  *)
(* uploaded, then come the roster, the root and the receipt; what fails ends *)
(* it.                                                                       *)
Published(a) ==
    \/ /\ relay' = relay \cup log[a] \cup Pending(a)
       /\ rooted' = IF Pending(a) = {} THEN rooted ELSE rooted \cup {a}
       /\ UNCHANGED breaks
    \/ /\ Fail
       /\ \/ (\E ops \in Parts(a) : relay' = relay \cup ops) /\ UNCHANGED rooted
          \/ Pending(a) # {} /\ relay' = relay \cup log[a] /\ rooted' = rooted \cup {a}

(* On approval and when the daemon starts; a mobile admin with every tick.   *)
Publish(a) ==
    /\ "relay" \in up /\ log[a] # {Boot}
    /\ ~(log[a] \cup Pending(a) \subseteq relay)
    /\ Published(a)
    /\ UNCHANGED <<asked, persisted, mail, current, up>>

(* The daemon's timer does not wait for the root.                            *)
PublishEarly(a) ==
    /\ "relay" \in up /\ a \notin Mobile /\ log[a] # {Boot}
    /\ ~(log[a] \cup Pending(a) \subseteq relay)
    /\ \/ relay' = relay \cup log[a] \cup Pending(a) /\ UNCHANGED breaks
       \/ Fail /\ \E ops \in Parts(a) : relay' = relay \cup ops
    /\ UNCHANGED <<asked, persisted, rooted, mail, current, up>>

(* send_authorized_app_key_link_rosters: over the mesh the receipt goes      *)
(* first, until the device acknowledged this very roster; a mobile admin has *)
(* to publish before.                                                        *)
SendRoster(a) ==
    /\ "mesh" \in up /\ Member(log[a]) /\ current[a] # log[a]
    /\ a \in Mobile => log[a] \cup Pending(a) \subseteq relay
    /\ mail' = [mail EXCEPT !.receipts = @ \cup Pending(a), !.rosters[a] = log[a]]
    /\ UNCHANGED <<asked, persisted, relay, rooted, current, up, breaks>>

(* An admin hears of what another signed, from the relay or over the mesh.   *)
Learn(a, ops) ==
    /\ ~(ops \subseteq log[a])
    /\ log' = [log EXCEPT ![a] = @ \cup ops]
    /\ inbound' = [inbound EXCEPT ![a] = IF Member(log'[a]) THEN "handled" ELSE @]
    /\ UNCHANGED <<asked, after, receipt, issued, kept, auth, relay, rooted, mail, current, up, breaks>>

Hear(a) ==
    \/ "relay" \in up /\ Learn(a, relay \cap Ops)
    \/ "mesh" \in up /\ \E b \in Admins : Learn(a, log[b])

-----------------------------------------------------------------------------
Valid(r) == asked \in {r.by, Anybody}

(* recompute_authorization *)
Authorized(ops, receipts) ==
    IF Tombstoned(ops) THEN "revoked"
    ELSE IF receipts # {} THEN "authorized" ELSE "awaiting"

(* Mutant: a receipt and its operation are enough. *)
ReadyUnread(r, receipts, ops, state) ==
    r \in receipts /\ state = "authorized" /\ r.op \in ops

(* device_approval_applied_ack_is_ready *)
Ready(r, receipts, ops, state) ==
    /\ r \in receipts /\ state = "authorized"
    /\ r.op \in Accepted(ops) /\ Member(ops) /\ HasKey(ops)

Confirmable(receipts, ops, state) == {r \in receipts : Ready(r, receipts, ops, state)}

Confirmations(receipts) == {[ack |-> r] : r \in receipts}

(* What the device stores, before it confirms anything.                      *)
Store(receipts, ops) ==
    /\ kept' = receipts
    /\ log' = [log EXCEPT ![Device] = ops]
    /\ auth' = Authorized(ops, receipts)
    /\ UNCHANGED <<inbound, after, receipt, issued>>

MeshAcks(receipts) == IF "mesh" \in up THEN mail.acks \cup receipts ELSE mail.acks

(* publish_ready_device_approval_acks: to the mesh and the relay; a failure  *)
(* is only reported.                                                         *)
Confirm(receipts) ==
    /\ mail' = [mail EXCEPT !.acks = MeshAcks(receipts)]
    /\ \/ UNCHANGED breaks
          /\ relay' = IF "relay" \in up THEN relay \cup Confirmations(receipts) ELSE relay
       \/ receipts # {} /\ "relay" \in up /\ Fail /\ UNCHANGED relay

(* handle_device_approval_receipt_app_message: stored, then confirmed        *)
GetReceipt(r) ==
    /\ r \in mail.receipts
    /\ IF Valid(r)
       THEN LET receipts == kept \cup {r}
                ops == log[Device] \cup {r.op}
            IN  /\ Store(receipts, ops)
                /\ mail' = [mail EXCEPT
                      !.receipts = @ \ {r},
                      !.acks = @ \cup Confirmable(receipts, ops, auth')]
       ELSE mail' = [mail EXCEPT !.receipts = @ \ {r}] /\ UNCHANGED persisted
    /\ UNCHANGED <<asked, relay, rooted, current, up, breaks>>

(* handle_native_app_key_link_relay_event, and apply_one_event likewise, of a *)
(* receipt, perhaps not for the first time: it is stored; then the roster is *)
(* fetched and stored too, and what is ready confirmed; the fetch may fail,  *)
(* or the process end before.                                                *)
RelayReceipt(r) ==
    /\ r \in relay /\ Valid(r)
    /\ LET receipts == kept \cup {r}
           ops == log[Device] \cup {r.op} \cup (relay \cap Ops)
       IN  \/ /\ Store(receipts, ops)
              /\ Confirm(Confirmable(receipts, ops, auth'))
           \/ /\ Fail /\ Store(receipts, log[Device] \cup {r.op})
              /\ UNCHANGED <<relay, mail>>
    /\ UNCHANGED <<asked, rooted, current, up>>

(* Operations from the relay; while the device awaits approval they are left *)
(* for later.                                                                *)
RelayOps ==
    /\ ~(relay \cap Ops \subseteq log[Device]) /\ auth # "awaiting"
    /\ LET ops == log[Device] \cup (relay \cap Ops)
       IN  /\ Store(kept, ops)
           /\ Confirm(Confirmable(kept, ops, auth'))
    /\ UNCHANGED <<asked, rooted, current, up>>

(* Operations from the direct exchange                                       *)
MeshOps(a) ==
    /\ "mesh" \in up /\ auth = "authorized"
    /\ ~(log[a] \subseteq log[Device])
    /\ Store(kept, log[Device] \cup log[a])
    /\ UNCHANGED <<asked, relay, rooted, mail, current, up, breaks>>

(* apply_app_key_link_roster_frame: the first roster is taken only once a    *)
(* receipt is there, later ones always.                                      *)
TakesRoster == log[Device] # {} \/ kept # {}

(* handle_app_key_link_roster_app_message: a roster is acknowledged only     *)
(* after all receipts are confirmed.                                         *)
GetRoster(a) ==
    /\ mail.rosters[a] # {} /\ \A r \in mail.receipts : r.by # a
    /\ IF ~TakesRoster
       THEN mail' = [mail EXCEPT !.rosters[a] = {}] /\ UNCHANGED persisted
       ELSE LET ops == log[Device] \cup mail.rosters[a]
            IN  /\ Store(kept, ops)
                /\ LET ready == Confirmable(kept, ops, auth')
                   IN  mail' = [mail EXCEPT
                          !.rosters[a] = {}, !.acks = @ \cup ready,
                          !.rosterAcks[a] = IF Member(ops) /\ ready = kept THEN ops ELSE @]
    /\ UNCHANGED <<asked, relay, rooted, current, up, breaks>>

(* sync_once: receipts and roster are fetched together and stored; if none   *)
(* is ready the rest is given up.                                            *)
SyncOnce ==
    /\ "relay" \in up
    /\ LET receipts == kept \cup {r \in relay \cap Receipts : Valid(r)}
           ops == log[Device] \cup {r.op : r \in receipts}
                    \cup (IF receipts = {} THEN {} ELSE relay \cap Ops)
       IN  /\ receipts # {}
           /\ Store(receipts, ops)
           /\ LET ready == Confirmable(receipts, ops, auth')
              IN  /\ ready # {} /\ <<receipts, ops>> # <<kept, log[Device]>>
                  /\ relay' = relay \cup Confirmations(ready)
    /\ UNCHANGED <<asked, rooted, mail, current, up, breaks>>

(* Mutant: over the mesh only. *)
TickMesh ==
    LET ready == Confirmable(kept, log[Device], auth)
    IN  /\ Device \in Mobile /\ "mesh" \in up
        /\ \E r \in ready : receipt[r.by] = r /\ r \notin mail.acks
        /\ mail' = [mail EXCEPT !.acks = @ \cup ready]
        /\ UNCHANGED <<asked, persisted, relay, rooted, current, up, breaks>>

(* A mobile device confirms again with every tick.                           *)
Tick ==
    LET ready == Confirmable(kept, log[Device], auth)
    IN  /\ Device \in Mobile
        /\ \/ "mesh" \in up /\ \E r \in ready : receipt[r.by] = r /\ r \notin mail.acks
           \/ "relay" \in up /\ ~(Confirmations(ready) \subseteq relay)
        /\ Confirm(ready)
        /\ UNCHANGED <<asked, persisted, rooted, current, up>>

-----------------------------------------------------------------------------
(* apply_device_approval_applied_ack_event: only the very receipt that is    *)
(* confirmed is dropped.                                                     *)
Clear(a, r) ==
    receipt' = [receipt EXCEPT ![a] = IF @ = r THEN None ELSE @]

GetAck(r) ==
    /\ r \in mail.acks
    /\ mail' = [mail EXCEPT !.acks = @ \ {r}]
    /\ Clear(r.by, r)
    /\ UNCHANGED <<asked, inbound, log, after, issued, kept, auth, relay, rooted, current, up, breaks>>

(* An event of the subscription, or the replay while receipts are pending    *)
RelayAck(r) ==
    /\ [ack |-> r] \in relay /\ receipt[r.by] # None
    /\ Clear(r.by, r)
    /\ UNCHANGED <<asked, inbound, log, after, issued, kept, auth, relay, rooted, mail, current, up, breaks>>

(* Mutant: it counts for whatever roster there is by now. *)
GetRosterAckUnread(a) ==
    /\ mail.rosterAcks[a] # {} /\ \A r \in mail.acks : r.by # a
    /\ mail' = [mail EXCEPT !.rosterAcks[a] = {}]
    /\ current' = [current EXCEPT ![a] = log[a]]
    /\ UNCHANGED <<asked, persisted, relay, rooted, up, breaks>>

(* handle_app_key_link_roster_ack_app_message: it counts for the roster it   *)
(* names; nothing is sent any more until the roster changes.                 *)
GetRosterAck(a) ==
    /\ mail.rosterAcks[a] # {} /\ \A r \in mail.acks : r.by # a
    /\ mail' = [mail EXCEPT !.rosterAcks[a] = {}]
    /\ current' = [current EXCEPT ![a] = IF mail.rosterAcks[a] = log[a] THEN log[a] ELSE @]
    /\ UNCHANGED <<asked, persisted, relay, rooted, up, breaks>>

-----------------------------------------------------------------------------
NoMail == [receipts |-> {}, rosters |-> [a \in Admins |-> {}],
           acks |-> {}, rosterAcks |-> [a \in Admins |-> {}]]

(* The connections break: all that waits on the mesh is lost.                *)
Lose ==
    /\ mail # NoMail /\ Fail
    /\ mail' = NoMail
    /\ UNCHANGED <<asked, persisted, relay, rooted, current, up>>

(* An admin or the device restarts; its connections break too.               *)
RestartAdmin(a) ==
    /\ Fail
    /\ current' = [current EXCEPT ![a] = {}]
    /\ mail' = [mail EXCEPT !.receipts = {r \in @ : r.by # a}, !.rosters[a] = {},
                            !.acks = {r \in @ : r.by # a}, !.rosterAcks[a] = {}]
    /\ UNCHANGED <<asked, persisted, relay, rooted, up>>

RestartDevice ==
    /\ Fail
    /\ mail' = NoMail
    /\ UNCHANGED <<asked, persisted, relay, rooted, current, up>>

AdminStep(a) ==
    \/ Request(a) \/ Reject(a) \/ Approve(a) \/ Rotate(a) \/ Revoke(a) \/ Repair(a)
    \/ Publish(a) \/ PublishEarly(a) \/ SendRoster(a)
    \/ Hear(a) \/ GetRosterAck(a) \/ RestartAdmin(a)

DeviceStep ==
    \/ RelayOps \/ SyncOnce \/ Tick \/ RestartDevice
    \/ \E r \in Receipts : GetReceipt(r) \/ RelayReceipt(r)
    \/ \E a \in Admins : GetRoster(a) \/ MeshOps(a)

Next ==
    \/ \E a \in Admins : AdminStep(a)
    \/ DeviceStep
    \/ \E r \in Receipts : GetAck(r) \/ RelayAck(r)
    \/ Lose

(* Timers send until acknowledged, and what arrived is handled; users do as  *)
(* they please.                                                              *)
Fairness ==
    /\ \A a \in Admins :
        /\ WF_approvalVars(Publish(a)) /\ WF_approvalVars(PublishEarly(a))
        /\ WF_approvalVars(SendRoster(a)) /\ WF_approvalVars(GetRosterAck(a))
        /\ WF_approvalVars(GetRoster(a))
        /\ WF_approvalVars(Hear(a)) /\ WF_approvalVars(MeshOps(a))
    /\ WF_approvalVars(\E r \in Receipts : GetReceipt(r))
    /\ WF_approvalVars(\E r \in Receipts \ kept : RelayReceipt(r))
    /\ WF_approvalVars(\E r \in Receipts : GetAck(r))
    /\ WF_approvalVars(\E r \in Receipts : RelayAck(r))
    /\ WF_approvalVars(RelayOps)
    /\ WF_approvalVars(Tick)

Spec == Init /\ [][Next]_approvalVars /\ Fairness

-----------------------------------------------------------------------------
TypeOK ==
    /\ asked \in Admins \cup {Anybody}
    /\ inbound \in [Admins -> {"no", "asked", "handled"}]
    /\ log \in [Devices -> SUBSET Ops] /\ after \in [Ops -> SUBSET Ops]
    /\ receipt \in [Admins -> Receipts \cup {None}]
    /\ issued \subseteq Receipts /\ kept \subseteq Receipts
    /\ auth \in {"awaiting", "authorized", "revoked"}
    /\ relay \subseteq Ops \cup Receipts \cup Confirmations(Receipts)
    /\ rooted \subseteq Admins
    /\ mail \in [receipts : SUBSET Receipts, rosters : [Admins -> SUBSET Ops],
                 acks : SUBSET Receipts, rosterAcks : [Admins -> SUBSET Ops]]
    /\ current \in [Admins -> SUBSET Ops]
    /\ up \in Transports /\ breaks \in 0..MaxBreaks[up]

(* An admin gives a receipt up only when the device has it on its disk, with *)
(* the operation that admits it and a key epoch that is wrapped for it:      *)
(* whatever is lost or restarts, nobody has to approve the device again.     *)
SettledIsUsable ==
    \A r \in issued : receipt[r.by] # r =>
        /\ r \in kept /\ r.op \in Accepted(log[Device])
        /\ \E e \in Accepted(log[Device]) \cap (Epochs \cup Wraps) :
             e \in Wraps \/ Member(after[e])

(* A mobile admin's receipt reaches the device only when the root it made    *)
(* for it can be fetched.                                                    *)
RootFirst ==
    \A r \in kept \cup mail.receipts \cup (relay \cap Receipts) :
        r.by \in Mobile => r.by \in rooted

(* Nothing is left to send the device but it still lacks what it was sent: a *)
(* roster counts as acknowledged only when the device's log has all of it.   *)
AcknowledgedIsThere == \A a \in Admins : current[a] \subseteq log[Device]

(* Every receipt is confirmed in the end, if the profile's newest key is     *)
(* wrapped for the device and stays so: over the relay alone, over the mesh  *)
(* alone, unless the admin is mobile, and whatever broke on the way. A CLI   *)
(* device needs the mesh, because it does not repeat a confirmation that the *)
(* relay did not take.                                                       *)
Usable == Member(Signed) /\ HasKey(Signed)

Reaches(a) == "relay" \in up \/ a \notin Mobile
Confirms == Device \in Mobile \/ "mesh" \in up

EventuallySettled ==
    \A a \in Admins :
        (<>[]Usable /\ [](Reaches(a) /\ Confirms)) => (receipt[a] # None ~> receipt[a] = None)
=============================================================================
