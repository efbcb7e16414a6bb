------------------------ MODULE DeviceApproval_proofs ------------------------
(***************************************************************************)
(* What the handoff of an approval guarantees, for any admins, transports, *)
(* key epochs and number of failures.                                      *)
(***************************************************************************)
EXTENDS DeviceApproval, WellFoundedInduction, TLAPS

-----------------------------------------------------------------------------
(* Operations, receipts and confirmations are never taken for each other.  *)
LEMMA Kinds ==
    /\ Ops \cap Receipts = {}
    /\ \A r \in Receipts : [ack |-> r] \notin Ops \cup Receipts
    /\ \A r, s \in Receipts : [ack |-> r] = [ack |-> s] => r = s
    /\ \A x \in Adds \cup Tombs \cup Epochs \cup Wraps : x # Boot
<1>1. \A op \in Ops : "kind" \in DOMAIN op
  BY DEF Ops, Boot, Adds, Tombs, Epochs, Wraps
<1>2. \A r \in Receipts : DOMAIN r = {"by", "op"}
  BY DEF Receipts
<1>3. \A r : DOMAIN [ack |-> r] = {"ack"}
  OBVIOUS
<1>4. \A x \in Adds \cup Tombs \cup Epochs \cup Wraps : "by" \in DOMAIN x
  BY DEF Adds, Tombs, Epochs, Wraps
<1>5. DOMAIN Boot = {"kind"}
  BY DEF Boot
<1>6. Ops \cap Receipts = {}
  BY <1>1, <1>2
<1>7. \A r \in Receipts : [ack |-> r] \notin Ops \cup Receipts
  BY <1>1, <1>2, <1>3
<1>8. ASSUME NEW r \in Receipts, NEW s \in Receipts, [ack |-> r] = [ack |-> s]
      PROVE  r = s
  <2>1. [ack |-> r].ack = r /\ [ack |-> s].ack = s
    OBVIOUS
  <2> QED BY <1>8, <2>1
<1>9. \A x \in Adds \cup Tombs \cup Epochs \cup Wraps : x # Boot
  BY <1>4, <1>5
<1> QED BY <1>6, <1>7, <1>8, <1>9

(* A non-empty set of numbers has a least element.                         *)
LEMMA Least ==
    ASSUME NEW T \in SUBSET Nat, T # {}
    PROVE  \E x \in T : \A y \in T : x <= y
<1> DEFINE R == OpToRel(<, Nat)
<1>1. IsWellFoundedOn(R, Nat)
  BY NatLessThanWellFounded
<1>2. PICK x \in T : \A y \in T : <<y, x>> \notin R
  <2> HIDE DEF R
  <2> QED BY <1>1, WFMin
<1>3. \A y \in T : ~(y < x)
  BY <1>2 DEF OpToRel
<1> QED BY <1>3

(* ... and a greatest one, if it has a bound.                              *)
LEMMA Greatest ==
    ASSUME NEW T \in SUBSET Nat, T # {}, NEW m \in Nat, \A x \in T : x <= m
    PROVE  \E x \in T : \A y \in T : y <= x
<1> DEFINE Bounds == {b \in Nat : \A x \in T : x <= b}
<1>1. PICK b \in Bounds : \A other \in Bounds : b <= other
  BY Least
<1>2. b \in T
  <2> SUFFICES ASSUME b \notin T PROVE FALSE
    OBVIOUS
  <2>1. \A x \in T : x <= b - 1 /\ b - 1 \in Nat
    BY <1>1
  <2>2. b - 1 \in Bounds
    BY <2>1
  <2> QED BY <1>1, <2>2
<1> QED BY <1>1, <1>2

(* The number of the newest epoch is 1 or that of a known epoch.           *)
LEMMA EpochNumbers ==
    ASSUME NEW ops
    PROVE  /\ EpochNumber(ops) \in 1..MaxEpoch
           /\ EpochNumber(ops) # 1 => \E e \in Accepted(ops) \cap Epochs : e.n = EpochNumber(ops)
<1> DEFINE ns == {op.n : op \in Accepted(ops) \cap Epochs}
<1>0. MaxEpoch \in Nat \ {0}
  BY ApprovalBoundsAssumption
<1>1. ns \subseteq 2..MaxEpoch
  BY DEF Epochs
<1>2. CASE ns = {}
  BY <1>0, <1>2 DEF EpochNumber
<1>3. CASE ns # {}
  <2>1. \E n \in ns : \A other \in ns : other <= n
    <3> HIDE DEF ns
    <3>1. ns \subseteq Nat /\ \A x \in ns : x <= MaxEpoch
      BY <1>0, <1>1
    <3> QED BY <1>0, <1>3, <3>1, Greatest
  <2>2. EpochNumber(ops) \in ns
    BY <1>3, <2>1 DEF EpochNumber
  <2> QED BY <1>0, <1>1, <2>2
<1> QED BY <1>2, <1>3

LEMMA NextEpochs ==
    ASSUME NEW a \in Admins, EpochNumber(log[a]) < MaxEpoch
    PROVE  NextEpoch(a) \in Epochs
BY EpochNumbers, ApprovalBoundsAssumption DEF NextEpoch, Epochs

-----------------------------------------------------------------------------
Mail == [receipts : SUBSET Receipts, rosters : [Admins -> SUBSET Ops],
         acks : SUBSET Receipts, rosterAcks : [Admins -> SUBSET Ops]]

(* What two changes of the same four parts come to.                        *)
LEMMA MailParts ==
    ASSUME NEW m \in Mail, NEW R \in SUBSET Receipts, NEW S \in SUBSET Receipts
    PROVE  /\ [m EXCEPT !.receipts = R, !.acks = S] \in Mail
           /\ \A a \in Admins : \A X \in SUBSET Ops : [m EXCEPT !.receipts = R, !.rosters[a] = X] \in Mail
           /\ \A a \in Admins : \A X, Y \in SUBSET Ops :
                /\ [m EXCEPT !.rosters[a] = X, !.acks = S, !.rosterAcks[a] = Y] \in Mail
                /\ [m EXCEPT !.receipts = R, !.rosters[a] = X, !.acks = S, !.rosterAcks[a] = Y] \in Mail
BY DEF Mail

LEMMA TypeInit == Init => TypeOK
<1> SUFFICES ASSUME Init PROVE TypeOK
  OBVIOUS
<1>1. mail \in Mail
  BY DEF Init, Mail
<1>2. breaks \in 0..MaxBreaks[up]
  BY ApprovalBoundsAssumption DEF Init
<1>3. log \in [Devices -> SUBSET Ops]
  BY DEF Init, Ops
<1>4. asked \in Admins \cup {Anybody}
  BY DevicesAssumption DEF Init
<1> QED BY <1>1, <1>2, <1>3, <1>4 DEF Init, TypeOK, Mail

LEMMA FailType ==
    ASSUME TypeOK, Fail
    PROVE  breaks' \in 0..MaxBreaks[up]
BY ApprovalBoundsAssumption DEF TypeOK, Fail

LEMMA SignType ==
    ASSUME TypeOK, NEW a \in Admins, NEW op \in Ops, NEW epoch \in Ops, Sign(a, op, epoch)
    PROVE  log' \in [Devices -> SUBSET Ops] /\ after' \in [Ops -> SUBSET Ops]
BY DEF TypeOK, Sign, Devices

LEMMA StoreType ==
    ASSUME TypeOK, NEW receipts \in SUBSET Receipts, NEW ops \in SUBSET Ops,
           Store(receipts, ops)
    PROVE  /\ log' \in [Devices -> SUBSET Ops] /\ kept' \subseteq Receipts
           /\ auth' \in {"awaiting", "authorized", "revoked"}
           /\ UNCHANGED <<inbound, after, receipt, issued>>
BY DEF TypeOK, Store, Authorized

LEMMA ConfirmableIn ==
    ASSUME NEW receipts, NEW ops, NEW state
    PROVE  Confirmable(receipts, ops, state) \subseteq receipts
BY DEF Confirmable

LEMMA ConfirmType ==
    ASSUME TypeOK, NEW receipts \in SUBSET Receipts, Confirm(receipts)
    PROVE  /\ mail' \in Mail
           /\ relay' \subseteq Ops \cup Receipts \cup Confirmations(Receipts)
           /\ breaks' \in 0..MaxBreaks[up]
<1>0. mail \in Mail
  BY DEF TypeOK, Mail
<1>1. MeshAcks(receipts) \in SUBSET Receipts
  BY DEF MeshAcks, TypeOK
<1>2. mail' \in Mail
  <2>1. \A S \in SUBSET Receipts : [mail EXCEPT !.acks = S] \in Mail
    BY <1>0 DEF Mail
  <2> QED BY <1>1, <2>1 DEF Confirm
<1>3. Confirmations(receipts) \subseteq Confirmations(Receipts)
  BY DEF Confirmations
<1>4. relay' \subseteq Ops \cup Receipts \cup Confirmations(Receipts)
  BY <1>3 DEF Confirm, TypeOK
<1>5. breaks' \in 0..MaxBreaks[up]
  BY FailType DEF Confirm, TypeOK
<1> QED BY <1>2, <1>4, <1>5

(* Every action keeps the types.                                           *)
LEMMA TypeStep == TypeOK /\ [Next]_approvalVars => TypeOK'
<1> SUFFICES ASSUME TypeOK, [Next]_approvalVars PROVE TypeOK'
  OBVIOUS
<1>m. mail \in Mail
  BY DEF TypeOK, Mail
<1>o. Adds \subseteq Ops /\ Tombs \subseteq Ops /\ Epochs \subseteq Ops /\ Wraps \subseteq Ops
  BY DEF Ops
<1>r. \A a \in Admins : log[a] \subseteq Ops /\ Pending(a) \subseteq Receipts
  BY DEF TypeOK, Devices, Pending
<1>d. log[Device] \subseteq Ops /\ relay \cap Ops \subseteq Ops /\ \A r \in Receipts : r.op \in Ops
  BY <1>o DEF TypeOK, Devices, Receipts
<1>1. ASSUME NEW a \in Admins, Request(a) PROVE TypeOK'
  BY <1>1 DEF Request, TypeOK
<1>2. ASSUME NEW a \in Admins, Reject(a) PROVE TypeOK'
  BY <1>2 DEF Reject, TypeOK
<1>3. ASSUME NEW a \in Admins, Approve(a) PROVE TypeOK'
  <2> DEFINE op == [kind |-> "add", by |-> a]
  <2>1. op \in Adds /\ [by |-> a, op |-> op] \in Receipts
    BY DEF Adds, Receipts
  <2>2. NextEpoch(a) \in Ops
    BY <1>3, <1>o, NextEpochs DEF Approve, Room
  <2>3. Sign(a, op, NextEpoch(a))
    BY <1>3 DEF Approve
  <2>4. log' \in [Devices -> SUBSET Ops] /\ after' \in [Ops -> SUBSET Ops]
    BY <1>o, <2>1, <2>2, <2>3, SignType
  <2>5. receipt' \in [Admins -> Receipts \cup {None}] /\ issued' \subseteq Receipts
    BY <1>3, <2>1 DEF Approve, TypeOK
  <2>6. inbound' \in [Admins -> {"no", "asked", "handled"}]
    BY <1>3 DEF Approve, TypeOK
  <2> QED BY <1>3, <2>4, <2>5, <2>6 DEF Approve, TypeOK
<1>4. ASSUME NEW a \in Admins, Rotate(a) PROVE TypeOK'
  <2>1. NextEpoch(a) \in Ops
    BY <1>4, <1>o, NextEpochs DEF Rotate, Room
  <2>2. log' \in [Devices -> SUBSET Ops] /\ after' \in [Ops -> SUBSET Ops]
    BY <1>4, <2>1, SignType DEF Rotate
  <2> QED BY <1>4, <2>2 DEF Rotate, TypeOK
<1>5. ASSUME NEW a \in Admins, Revoke(a) PROVE TypeOK'
  <2> DEFINE op == [kind |-> "tomb", by |-> a]
  <2>1. op \in Ops /\ NextEpoch(a) \in Ops
    BY <1>5, <1>o, NextEpochs DEF Revoke, Room, Tombs
  <2>2. log' \in [Devices -> SUBSET Ops] /\ after' \in [Ops -> SUBSET Ops]
    BY <1>5, <2>1, SignType DEF Revoke
  <2> QED BY <1>5, <2>2 DEF Revoke, TypeOK
<1>6. ASSUME NEW a \in Admins, Repair(a) PROVE TypeOK'
  <2> DEFINE e == Newest(log[a])
             op == [kind |-> "wrap", by |-> a, n |-> e.n]
  <2>1. e \in Epochs
    BY <1>6 DEF Repair, Newest
  <2>2. op \in Ops
    BY <1>o, <2>1 DEF Epochs, Wraps
  <2>3. Sign(a, op, op)
    BY <1>6 DEF Repair
  <2>4. log' \in [Devices -> SUBSET Ops] /\ after' \in [Ops -> SUBSET Ops]
    <3> HIDE DEF op
    <3> QED BY <2>2, <2>3, SignType
  <2> QED BY <1>6, <2>4 DEF Repair, TypeOK
<1>7. ASSUME NEW a \in Admins, Publish(a) PROVE TypeOK'
  <2>1. relay' \subseteq Ops \cup Receipts \cup Confirmations(Receipts) /\ rooted' \subseteq Admins
    BY <1>7, <1>r DEF Publish, Published, Parts, TypeOK
  <2>2. breaks' \in 0..MaxBreaks[up]
    BY <1>7, FailType DEF Publish, Published, TypeOK
  <2> QED BY <1>7, <2>1, <2>2 DEF Publish, persisted, TypeOK
<1>8. ASSUME NEW a \in Admins, PublishEarly(a) PROVE TypeOK'
  <2>1. relay' \subseteq Ops \cup Receipts \cup Confirmations(Receipts)
    BY <1>8, <1>r DEF PublishEarly, Parts, TypeOK
  <2>2. breaks' \in 0..MaxBreaks[up]
    BY <1>8, FailType DEF PublishEarly, TypeOK
  <2> QED BY <1>8, <2>1, <2>2 DEF PublishEarly, persisted, TypeOK
<1>9. ASSUME NEW a \in Admins, SendRoster(a) PROVE TypeOK'
  <2>1. mail.receipts \cup Pending(a) \in SUBSET Receipts /\ log[a] \in SUBSET Ops
    BY <1>r DEF TypeOK
  <2>2. mail' \in Mail
    BY <1>9, <1>m, <2>1, MailParts DEF SendRoster
  <2> QED BY <1>9, <2>2 DEF SendRoster, persisted, TypeOK, Mail
<1>10. ASSUME NEW a \in Admins, Hear(a) PROVE TypeOK'
  <2>1. PICK ops \in SUBSET Ops : Learn(a, ops)
    BY <1>10, <1>r DEF Hear
  <2>2. log' \in [Devices -> SUBSET Ops]
    BY <2>1 DEF Learn, TypeOK, Devices
  <2>3. inbound' \in [Admins -> {"no", "asked", "handled"}]
    BY <2>1 DEF Learn, TypeOK
  <2> QED BY <2>1, <2>2, <2>3 DEF Learn, TypeOK
<1>11. ASSUME NEW a \in Admins, GetRosterAck(a) PROVE TypeOK'
  <2>1. mail' \in Mail
    <3>1. [mail EXCEPT !.rosterAcks[a] = {}] \in Mail
      BY <1>m DEF Mail
    <3> QED BY <1>11, <3>1 DEF GetRosterAck
  <2>2. current' \in [Admins -> SUBSET Ops]
    BY <1>11, <1>r DEF GetRosterAck, TypeOK
  <2> QED BY <1>11, <2>1, <2>2 DEF GetRosterAck, persisted, TypeOK, Mail
<1>12. ASSUME NEW a \in Admins, RestartAdmin(a) PROVE TypeOK'
  <2>1. mail' \in Mail
    <3>1. {r \in mail.receipts : r.by # a} \in SUBSET Receipts /\ {r \in mail.acks : r.by # a} \in SUBSET Receipts
      BY DEF TypeOK
    <3> QED BY <1>12, <1>m, <3>1, MailParts DEF RestartAdmin
  <2>2. current' \in [Admins -> SUBSET Ops]
    BY <1>12 DEF RestartAdmin, TypeOK
  <2>3. breaks' \in 0..MaxBreaks[up]
    BY <1>12, FailType DEF RestartAdmin
  <2> QED BY <1>12, <2>1, <2>2, <2>3 DEF RestartAdmin, persisted, TypeOK, Mail
<1>13. CASE RelayOps
  <2> DEFINE ops == log[Device] \cup (relay \cap Ops)
  <2>1. kept \in SUBSET Receipts /\ ops \in SUBSET Ops
    BY <1>d DEF TypeOK
  <2>2. Store(kept, ops) /\ Confirm(Confirmable(kept, ops, auth'))
    BY <1>13 DEF RelayOps
  <2> HIDE DEF ops
  <2>3. Confirmable(kept, ops, auth') \in SUBSET Receipts
    BY <2>1, ConfirmableIn
  <2> QED BY <1>13, <2>1, <2>2, <2>3, StoreType, ConfirmType DEF RelayOps, TypeOK, Mail
<1>14. CASE SyncOnce
  <2> DEFINE receipts == kept \cup {r \in relay \cap Receipts : Valid(r)}
             ops == log[Device] \cup {r.op : r \in receipts}
                      \cup (IF receipts = {} THEN {} ELSE relay \cap Ops)
             ready == Confirmable(receipts, ops, auth')
  <2>1. receipts \in SUBSET Receipts
    BY DEF TypeOK
  <2>2. ops \in SUBSET Ops
    BY <1>d, <2>1
  <2>3. Store(receipts, ops) /\ relay' = relay \cup Confirmations(ready)
    BY <1>14 DEF SyncOnce
  <2> HIDE DEF receipts, ops
  <2>4. ready \in SUBSET Receipts
    BY <2>1, ConfirmableIn
  <2>5. relay' \subseteq Ops \cup Receipts \cup Confirmations(Receipts)
    <3> HIDE DEF ready
    <3> QED BY <2>3, <2>4 DEF Confirmations, TypeOK
  <2> QED BY <1>14, <2>1, <2>2, <2>3, <2>5, StoreType DEF SyncOnce, TypeOK
<1>15. CASE Tick
  <2>1. Confirmable(kept, log[Device], auth) \in SUBSET Receipts
    BY ConfirmableIn DEF TypeOK
  <2> QED BY <1>15, <2>1, ConfirmType DEF Tick, persisted, TypeOK, Mail
<1>16. ASSUME NoMail = mail', Fail, UNCHANGED <<asked, persisted, relay, rooted, current, up>>
       PROVE TypeOK'
  <2>1. mail' \in Mail
    BY <1>16 DEF NoMail, Mail
  <2> QED BY <1>16, <2>1, FailType DEF persisted, TypeOK, Mail
<1>17. ASSUME NEW r \in Receipts, GetReceipt(r) PROVE TypeOK'
  <2> DEFINE receipts == kept \cup {r}
             ops == log[Device] \cup {r.op}
             ready == Confirmable(receipts, ops, auth')
  <2>0. mail.receipts \ {r} \in SUBSET Receipts /\ UNCHANGED <<asked, relay, rooted, current, up, breaks>>
    BY <1>17 DEF GetReceipt, TypeOK
  <2>1. receipts \in SUBSET Receipts /\ ops \in SUBSET Ops
    BY <1>d DEF TypeOK
  <2>2. CASE Valid(r)
    <3>1. Store(receipts, ops) /\ mail' = [mail EXCEPT !.receipts = @ \ {r}, !.acks = @ \cup ready]
      BY <1>17, <2>2 DEF GetReceipt
    <3> HIDE DEF receipts, ops
    <3>2. mail.acks \cup ready \in SUBSET Receipts
      BY <2>1, ConfirmableIn DEF TypeOK
    <3> HIDE DEF ready
    <3>3. mail' \in Mail
      BY <1>m, <2>0, <3>1, <3>2, MailParts
    <3> QED BY <2>0, <2>1, <3>1, <3>3, StoreType DEF TypeOK, Mail
  <2>3. CASE ~Valid(r)
    <3>1. mail' \in Mail
      <4>1. [mail EXCEPT !.receipts = mail.receipts \ {r}] \in Mail
        BY <1>m, <2>0 DEF Mail
      <4> QED BY <1>17, <2>3, <4>1 DEF GetReceipt
    <3> QED BY <1>17, <2>0, <2>3, <3>1 DEF GetReceipt, persisted, TypeOK, Mail
  <2> QED BY <2>2, <2>3
<1>18. ASSUME NEW r \in Receipts, RelayReceipt(r) PROVE TypeOK'
  <2> DEFINE receipts == kept \cup {r}
             ops == log[Device] \cup {r.op} \cup (relay \cap Ops)
             less == log[Device] \cup {r.op}
  <2>0. UNCHANGED <<asked, rooted, current, up>>
    BY <1>18 DEF RelayReceipt
  <2>1. receipts \in SUBSET Receipts /\ ops \in SUBSET Ops /\ less \in SUBSET Ops
    BY <1>d DEF TypeOK
  <2>2. \/ Store(receipts, ops) /\ Confirm(Confirmable(receipts, ops, auth'))
        \/ Fail /\ Store(receipts, less) /\ UNCHANGED <<relay, mail>>
    BY <1>18 DEF RelayReceipt
  <2> HIDE DEF receipts, ops, less
  <2>3. Confirmable(receipts, ops, auth') \in SUBSET Receipts
    BY <2>1, ConfirmableIn
  <2>4. CASE Store(receipts, ops) /\ Confirm(Confirmable(receipts, ops, auth'))
    BY <2>0, <2>1, <2>3, <2>4, StoreType, ConfirmType DEF TypeOK, Mail
  <2>5. CASE Fail /\ Store(receipts, less) /\ UNCHANGED <<relay, mail>>
    BY <2>0, <2>1, <2>5, StoreType, FailType DEF TypeOK
  <2> QED BY <2>2, <2>4, <2>5
<1>19. ASSUME NEW a \in Admins, GetRoster(a) PROVE TypeOK'
  <2> DEFINE ops == log[Device] \cup mail.rosters[a]
             ready == Confirmable(kept, ops, auth')
  <2>0. UNCHANGED <<asked, relay, rooted, current, up, breaks>>
    BY <1>19 DEF GetRoster
  <2>1. kept \in SUBSET Receipts /\ ops \in SUBSET Ops
    BY <1>d, <1>m DEF TypeOK
  <2>2. CASE TakesRoster
    <3>1. Store(kept, ops)
      BY <1>19, <2>2 DEF GetRoster
    <3>2. mail' = [mail EXCEPT
                     !.rosters[a] = {}, !.acks = @ \cup ready,
                     !.rosterAcks[a] = IF Member(ops) /\ ready = kept THEN ops ELSE @]
      BY <1>19, <2>2 DEF GetRoster
    <3> HIDE DEF ops
    <3>3. mail.acks \cup ready \in SUBSET Receipts
      BY <2>1, ConfirmableIn DEF TypeOK
    <3>4. (IF Member(ops) /\ ready = kept THEN ops ELSE mail.rosterAcks[a]) \in SUBSET Ops
      BY <1>m, <2>1 DEF Mail
    <3> HIDE DEF ready
    <3>5. mail' \in Mail
      BY <1>m, <3>2, <3>3, <3>4, MailParts
    <3> QED BY <2>0, <2>1, <3>1, <3>5, StoreType DEF TypeOK, Mail
  <2>3. CASE ~TakesRoster
    <3>1. mail' \in Mail
      <4>1. [mail EXCEPT !.rosters[a] = {}] \in Mail
        BY <1>m DEF Mail
      <4> QED BY <1>19, <2>3, <4>1 DEF GetRoster
    <3> QED BY <1>19, <2>0, <2>3, <3>1 DEF GetRoster, persisted, TypeOK, Mail
  <2> QED BY <2>2, <2>3
<1>20. ASSUME NEW a \in Admins, MeshOps(a) PROVE TypeOK'
  <2>1. kept \in SUBSET Receipts /\ log[Device] \cup log[a] \in SUBSET Ops
    BY <1>d, <1>r DEF TypeOK
  <2> QED BY <1>20, <2>1, StoreType DEF MeshOps, TypeOK
<1>21. ASSUME NEW r \in Receipts, GetAck(r) PROVE TypeOK'
  <2>1. mail' \in Mail
    <3>1. [mail EXCEPT !.acks = mail.acks \ {r}] \in Mail
      BY <1>m DEF Mail
    <3> QED BY <1>21, <3>1 DEF GetAck
  <2>2. receipt' \in [Admins -> Receipts \cup {None}]
    BY <1>21 DEF GetAck, Clear, TypeOK
  <2> QED BY <1>21, <2>1, <2>2 DEF GetAck, TypeOK, Mail
<1>22. ASSUME NEW r \in Receipts, RelayAck(r) PROVE TypeOK'
  BY <1>22 DEF RelayAck, Clear, TypeOK
<1>23. CASE UNCHANGED approvalVars
  BY <1>23 DEF approvalVars, persisted, TypeOK
<1> QED
  BY <1>1, <1>2, <1>3, <1>4, <1>5, <1>6, <1>7, <1>8, <1>9, <1>10, <1>11, <1>12,
     <1>13, <1>14, <1>15, <1>16, <1>17, <1>18, <1>19, <1>20, <1>21, <1>22, <1>23
  DEF Next, AdminStep, DeviceStep, Lose, RestartDevice

(* The types are kept for any admins, epochs and failures.                 *)
THEOREM TypeCorrect == Spec => []TypeOK
BY TypeInit, TypeStep, PTL DEF Spec

-----------------------------------------------------------------------------
(* What the actions come to.                                               *)
(*                                                                         *)
(* Logs: an operation lies only where all its signer had lies too, but on  *)
(* the device, and its signer has it.                                      *)
Closed(ops) == \A op \in ops : after[op] \subseteq ops

Logs ==
    /\ after[Boot] = {}
    /\ \A a \in Admins : Boot \in log[a] /\ Closed(log[a])
    /\ \A a \in Admins : \A op \in log[a] \ {Boot} : op \in log[op.by]
    /\ Closed(relay \cap Ops)
    /\ log[Device] \cup (relay \cap Ops) \subseteq Signed
    /\ \A a \in Admins : mail.rosters[a] \subseteq Signed

(* Made: receipts on their way were made by the admin they name, which has *)
(* the operation it signed for them.                                       *)
Given == kept \cup mail.receipts \cup (relay \cap Receipts)

Made ==
    /\ Given \subseteq issued
    /\ \A r \in issued : r.op.by = r.by /\ r.op \in log[r.by]
    /\ \A a \in Admins : Pending(a) \subseteq {r \in issued : r.by = a}

(* Settled: a confirmation on its way, or acted on, says what is so.       *)
Good(r) ==
    /\ r \in kept /\ r.op \in Accepted(log[Device])
    /\ \E e \in Accepted(log[Device]) \cap (Epochs \cup Wraps) :
         e \in Wraps \/ Member(after[e])

Stands(r) ==
    r \in mail.acks \/ [ack |-> r] \in relay \/ (r \in issued /\ receipt[r.by] # r)

Settled == \A r \in Receipts : Stands(r) => Good(r)

(* Acked: an acknowledged roster is on the device.                         *)
Acked == \A a \in Admins : current[a] \cup mail.rosterAcks[a] \subseteq log[Device]

(* The inductive invariant.                                                *)
IInv == TypeOK /\ Logs /\ Made /\ RootFirst /\ Settled /\ Acked

(* A step either signs operations that are new, or passes signed ones on.  *)
Signs ==
    \E a \in Admins, op, epoch \in Ops \ {Boot} :
        /\ op.by = a /\ epoch.by = a /\ {op, epoch} \cap Signed = {}
        /\ Sign(a, op, epoch)
        /\ UNCHANGED <<relay, mail>>

Spreads ==
    /\ UNCHANGED after
    /\ \A a \in Admins : \E ops \in SUBSET Signed : Closed(ops) /\ log'[a] = log[a] \cup ops
    /\ log[Device] \subseteq log'[Device] /\ log'[Device] \subseteq Signed
    /\ \E ops \in SUBSET Signed : Closed(ops) /\ relay' \cap Ops = (relay \cap Ops) \cup ops
    /\ \A a \in Admins : mail'.rosters[a] \subseteq Signed

(* Receipts come from where receipts are, or from the admin that made them,*)
(* which publishes its root first if it is mobile.                         *)
Hands ==
    /\ kept \subseteq kept' /\ rooted \subseteq rooted'
    /\ \A r \in Given' :
        \/ r \in Given
        \/ \E a \in Admins : r \in Pending(a) /\ (a \in Mobile => a \in rooted')

Issues ==
    \/ \E a \in Admins : Approve(a)
    \/ UNCHANGED issued /\ \A a \in Admins : receipt'[a] \in {receipt[a], None}

(* Confirmations come from where confirmations are, or are true now.       *)
Vouches == \A r \in Receipts : Stands(r)' => Stands(r) \/ Good(r)'

Acknowledges ==
    \A a \in Admins : current'[a] \cup mail'.rosterAcks[a]
                         \subseteq current[a] \cup mail.rosterAcks[a] \cup log'[Device]

-----------------------------------------------------------------------------
(* What both kinds of step leave as it is: logs grow, and what an operation*)
(* was signed on top of stays.                                             *)
LEMMA Grows ==
    ASSUME TypeOK, Logs, Signs \/ Spreads
    PROVE  /\ \A d \in Devices : log[d] \subseteq log'[d]
           /\ \A op \in Signed : after'[op] = after[op]
           /\ Signed \subseteq Signed'
<1>1. \A d \in Devices : log[d] \subseteq log'[d]
  BY DEF Signs, Spreads, Sign, Devices, TypeOK
<1>2. ASSUME NEW x \in Signed PROVE after'[x] = after[x]
  <2>1. x \in Ops
    BY DEF Signed, TypeOK, Devices
  <2>2. CASE Signs
    <3>1. PICK a \in Admins, op \in Ops, epoch \in Ops :
            {op, epoch} \cap Signed = {} /\ Sign(a, op, epoch)
      BY <2>2 DEF Signs
    <3>2. x # op /\ x # epoch
      BY <3>1
    <3> QED BY <2>1, <3>1, <3>2 DEF Sign, TypeOK
  <2> QED BY <2>2 DEF Spreads
<1>3. Signed \subseteq Signed'
  BY <1>1 DEF Signed, Devices
<1> QED BY <1>1, <1>2, <1>3

LEMMA SignKeepsLogs ==
    ASSUME TypeOK, TypeOK', Logs, Signs
    PROVE  Logs'
<1>1. PICK a \in Admins, op \in Ops \ {Boot}, epoch \in Ops \ {Boot} :
        /\ op.by = a /\ epoch.by = a /\ {op, epoch} \cap Signed = {}
        /\ Sign(a, op, epoch)
        /\ UNCHANGED <<relay, mail>>
  BY DEF Signs
<1>2. /\ \A d \in Devices : log[d] \subseteq log'[d]
      /\ \A x \in Signed : after'[x] = after[x]
      /\ Signed \subseteq Signed'
  BY Grows
<1>3. \A d \in Devices \ {a} : log'[d] = log[d]
  BY <1>1 DEF Sign, TypeOK
<1>4. log'[a] = log[a] \cup {op, epoch}
  BY <1>1 DEF Sign, TypeOK, Devices
<1>5. after'[op] \subseteq log'[a] /\ after'[epoch] \subseteq log'[a]
  BY <1>1, <1>4 DEF Sign, TypeOK
<1>6. after'[Boot] = {}
  BY <1>1 DEF Sign, TypeOK, Logs, Ops
<1>7. \A b \in Admins : Boot \in log'[b]
  BY <1>2 DEF Logs, Devices
<1>8. ASSUME NEW b \in Admins, NEW x \in log'[b] PROVE after'[x] \subseteq log'[b]
  <2>1. CASE x \in log[b]
    <3>1. x \in Signed /\ after[x] \subseteq log[b]
      BY <2>1 DEF Signed, Logs, Closed
    <3> QED BY <1>2, <3>1 DEF Devices
  <2>2. CASE x \notin log[b]
    BY <1>3, <1>4, <1>5, <1>8, <2>2 DEF Devices
  <2> QED BY <2>1, <2>2
<1>9. ASSUME NEW b \in Admins, NEW x \in log'[b] \ {Boot} PROVE x \in log'[x.by]
  <2>1. CASE x \in log[b]
    <3>1. x \in log[x.by]
      BY <1>9, <2>1 DEF Logs
    <3>2. x \in Ops \ {Boot}
      BY <1>9, <2>1 DEF TypeOK, Devices
    <3>3. x.by \in Admins
      BY <3>2 DEF Ops, Adds, Tombs, Epochs, Wraps
    <3> QED BY <1>2, <3>1, <3>3 DEF Devices
  <2>2. CASE x \notin log[b]
    BY <1>1, <1>3, <1>4, <1>9, <2>2 DEF Devices
  <2> QED BY <2>1, <2>2
<1>10. log'[Device] = log[Device] /\ relay' = relay /\ mail' = mail
  BY <1>1, <1>3, DevicesAssumption DEF Devices
<1>11. \A x \in relay \cap Ops : after'[x] \subseteq relay \cap Ops
  BY <1>2 DEF Logs, Closed
<1>12. Closed(relay \cap Ops)'
  BY <1>10, <1>11 DEF Closed
<1>13. log'[Device] \cup (relay' \cap Ops) \subseteq Signed' /\ \A b \in Admins : mail'.rosters[b] \subseteq Signed'
  BY <1>2, <1>10 DEF Logs
<1> QED BY <1>6, <1>7, <1>8, <1>9, <1>12, <1>13 DEF Logs, Closed

LEMMA SpreadKeepsLogs ==
    ASSUME TypeOK, TypeOK', Logs, Spreads
    PROVE  Logs'
<1>1. /\ \A d \in Devices : log[d] \subseteq log'[d]
      /\ \A x \in Signed : after'[x] = after[x]
      /\ Signed \subseteq Signed'
  BY Grows
<1>2. after' = after
  BY DEF Spreads
<1>3. ASSUME NEW b \in Admins
      PROVE  Boot \in log'[b] /\ Closed(log[b])' /\ \A x \in log'[b] \ {Boot} : x \in log'[x.by]
  <2>1. PICK ops \in SUBSET Signed : Closed(ops) /\ log'[b] = log[b] \cup ops
    BY DEF Spreads
  <2>2. \A x \in log'[b] : after[x] \subseteq log'[b]
    BY <2>1 DEF Logs, Closed
  <2>3. ASSUME NEW x \in log'[b] \ {Boot} PROVE x \in log'[x.by]
    <3>1. PICK c \in Admins : x \in log[c]
      BY <2>1, <2>3 DEF Signed
    <3>2. x \in log[x.by] /\ x \in Ops \ {Boot}
      BY <2>3, <3>1 DEF Logs, TypeOK, Devices
    <3>3. x.by \in Admins
      BY <3>2 DEF Ops, Adds, Tombs, Epochs, Wraps
    <3> QED BY <1>1, <3>2, <3>3 DEF Devices
  <2> QED BY <1>2, <2>1, <2>2, <2>3 DEF Logs, Closed
<1>4. Closed(relay \cap Ops)'
  <2>1. PICK ops \in SUBSET Signed : Closed(ops) /\ relay' \cap Ops = (relay \cap Ops) \cup ops
    BY DEF Spreads
  <2>2. \A x \in relay' \cap Ops : after[x] \subseteq relay' \cap Ops
    BY <2>1 DEF Logs, Closed
  <2> QED BY <1>2, <2>2 DEF Closed
<1>5. relay' \cap Ops \subseteq Signed'
  BY <1>1 DEF Spreads, Logs
<1>6. log'[Device] \subseteq Signed' /\ \A b \in Admins : mail'.rosters[b] \subseteq Signed'
  BY <1>1 DEF Spreads
<1>7. after'[Boot] = {}
  BY <1>2 DEF Logs
<1> QED BY <1>3, <1>4, <1>5, <1>6, <1>7 DEF Logs

-----------------------------------------------------------------------------
(* Each action is one of these, and hands on only what it may.             *)
Moves == (Signs \/ Spreads) /\ Hands /\ Issues /\ Vouches /\ Acknowledges

LEMMA SpreadsIf ==
    ASSUME TypeOK, Logs, UNCHANGED after,
           \A a \in Admins : log'[a] = log[a],
           log[Device] \subseteq log'[Device], log'[Device] \subseteq Signed,
           relay' \cap Ops = relay \cap Ops,
           \A a \in Admins : mail'.rosters[a] \subseteq Signed
    PROVE  Spreads
<1>1. {} \in SUBSET Signed /\ Closed({})
  BY DEF Closed
<1>2. \A a \in Admins : log'[a] = log[a] \cup {}
  OBVIOUS
<1>3. relay' \cap Ops = (relay \cap Ops) \cup {}
  OBVIOUS
<1> QED BY <1>1, <1>2, <1>3 DEF Spreads

LEMMA HandsIf ==
    ASSUME kept \subseteq kept', rooted \subseteq rooted',
           kept' \subseteq Given, mail'.receipts \subseteq Given, relay' \cap Receipts \subseteq Given
    PROVE  Hands
BY DEF Hands, Given

LEMMA VouchesIf ==
    ASSUME UNCHANGED <<issued, receipt>>,
           \A r \in mail'.acks : r \in mail.acks \/ Good(r)',
           \A r \in Receipts : [ack |-> r] \in relay' => [ack |-> r] \in relay \/ Good(r)'
    PROVE  Vouches
BY DEF Vouches, Stands

LEMMA IssuesIf ==
    ASSUME UNCHANGED <<issued, receipt>>
    PROVE  Issues
BY DEF Issues

(* What is ready to be confirmed is on the disk by then, with a usable key. *)
LEMMA ReadyIsGood ==
    ASSUME NEW receipts, NEW ops, TypeOK,
           kept' = receipts, log'[Device] = ops, after' = after,
           NEW r \in Confirmable(receipts, ops, auth')
    PROVE  Good(r)'
<1>1. Ready(r, receipts, ops, auth')
  BY DEF Confirmable
<1>2. r \in kept' /\ r.op \in Accepted(ops) /\ HasKey(ops)
  BY <1>1 DEF Ready
<1>3. \E e \in Accepted(ops) \cap (Epochs \cup Wraps) : e \in Wraps \/ Member(after[e])
  <2> DEFINE e == Newest(ops)
             wrap == [kind |-> "wrap", by |-> e.by, n |-> e.n]
  <2>1. e # Boot /\ (Member(after[e]) \/ wrap \in Accepted(ops))
    BY <1>2 DEF HasKey
  <2>2. e \in Accepted(ops) \cap Epochs
    BY <2>1 DEF Newest
  <2>3. wrap \in Wraps
    <3>1. e.by \in Admins /\ e.n \in 2..MaxEpoch
      BY <2>2 DEF Epochs
    <3> QED BY <3>1 DEF Wraps
  <2> QED BY <2>1, <2>2, <2>3
<1>4. Accepted(log[Device])' = Accepted(ops)
  BY DEF Accepted
<1>5. \A e : Member(after[e])' <=> Member(after[e])
  BY DEF Member, Accepted, Tombstoned
<1> QED BY <1>2, <1>3, <1>4, <1>5 DEF Good

(* A device's store of more receipts and operations.                       *)
LEMMA StoreMoves ==
    ASSUME TypeOK, Logs, NEW receipts, NEW ops, Store(receipts, ops),
           receipts \subseteq Given, kept \subseteq receipts,
           log[Device] \subseteq ops, ops \subseteq Signed,
           mail'.receipts \subseteq mail.receipts,
           \A a \in Admins : mail'.rosters[a] \subseteq mail.rosters[a],
           mail'.acks \subseteq mail.acks \cup Confirmable(receipts, ops, auth'),
           \/ UNCHANGED relay
           \/ relay' = relay \cup Confirmations(Confirmable(receipts, ops, auth')),
           receipts \subseteq Receipts,
           UNCHANGED <<current, rooted>>,
           \A a \in Admins : mail'.rosterAcks[a] \subseteq mail.rosterAcks[a] \cup ops
    PROVE  Moves
<1> DEFINE ready == Confirmable(receipts, ops, auth')
<1>1. kept' = receipts /\ log' = [log EXCEPT ![Device] = ops] /\ UNCHANGED <<after, receipt, issued>>
  BY DEF Store
<1>2. log'[Device] = ops /\ \A a \in Admins : log'[a] = log[a]
  BY <1>1, DevicesAssumption DEF TypeOK, Devices
<1>3. ready \subseteq Receipts
  BY ConfirmableIn
<1>4. relay' \cap Ops = relay \cap Ops /\ relay' \cap Receipts = relay \cap Receipts
  <2>1. Confirmations(ready) \cap (Ops \cup Receipts) = {}
    BY <1>3, Kinds DEF Confirmations
  <2> QED BY <2>1
<1>5. \A r \in ready : Good(r)'
  BY <1>1, <1>2, ReadyIsGood
<1>6. \A r \in Receipts : [ack |-> r] \in relay' => [ack |-> r] \in relay \/ Good(r)'
  <2>1. ASSUME NEW r \in Receipts, [ack |-> r] \in Confirmations(ready) PROVE r \in ready
    <3> HIDE DEF ready
    <3>1. PICK s \in ready : [ack |-> r] = [ack |-> s]
      BY <2>1, Zenon DEF Confirmations
    <3> QED BY <1>3, <3>1, Kinds
  <2> QED BY <1>5, <2>1
<1>7. Spreads
  BY <1>1, <1>2, <1>4, SpreadsIf DEF Logs
<1>8. Hands
  BY <1>1, <1>4, HandsIf DEF Given
<1>9. Vouches
  BY <1>1, <1>5, <1>6, VouchesIf
<1>10. Acknowledges
  BY <1>2 DEF Acknowledges
<1> QED BY <1>1, <1>7, <1>8, <1>9, <1>10, IssuesIf DEF Moves

(* A step that changes no log, record or relay.                            *)
LEMMA QuietMoves ==
    ASSUME TypeOK, Logs, UNCHANGED <<log, after, receipt, issued, kept, relay, rooted>>,
           mail'.receipts \subseteq mail.receipts,
           \A a \in Admins : mail'.rosters[a] \subseteq mail.rosters[a],
           mail'.acks \subseteq mail.acks,
           \A a \in Admins : mail'.rosterAcks[a] \subseteq mail.rosterAcks[a],
           \A a \in Admins : current'[a] \subseteq current[a] \cup mail.rosterAcks[a]
    PROVE  Moves
<1>1. Spreads
  BY SpreadsIf DEF Logs
<1>2. Hands
  BY HandsIf DEF Given
<1>3. Vouches
  BY VouchesIf
<1>4. Acknowledges
  BY DEF Acknowledges
<1> QED BY <1>1, <1>2, <1>3, <1>4, IssuesIf DEF Moves

(* An admin publishes some of its log, and its receipt or not.             *)
LEMMA PublishMoves ==
    ASSUME TypeOK, Logs, NEW a \in Admins, NEW ops \in SUBSET log[a], Closed(ops),
           NEW handed \in SUBSET Pending(a), relay' = relay \cup ops \cup handed,
           handed # {} /\ a \in Mobile => a \in rooted', rooted \subseteq rooted',
           UNCHANGED <<log, after, receipt, issued, kept, mail, current>>
    PROVE  Moves
<1>1. ops \subseteq Ops /\ handed \subseteq Receipts /\ ops \subseteq Signed
  BY DEF TypeOK, Devices, Pending, Signed
<1>2. relay' \cap Ops = (relay \cap Ops) \cup ops /\ relay' \cap Receipts = (relay \cap Receipts) \cup handed
  BY <1>1, Kinds
<1>3. \A r \in Receipts : [ack |-> r] \in relay' => [ack |-> r] \in relay
  BY <1>1, Kinds
<1>4. Spreads
  <2>1. \A b \in Admins : log'[b] = log[b] \cup {}
    OBVIOUS
  <2>2. {} \in SUBSET Signed /\ Closed({})
    BY DEF Closed
  <2> QED BY <1>1, <1>2, <2>1, <2>2 DEF Spreads, Logs
<1>5. Hands
  BY <1>2 DEF Hands, Given
<1>6. Vouches
  BY <1>3, VouchesIf
<1> QED BY <1>4, <1>5, <1>6, IssuesIf DEF Moves, Acknowledges

(* An admin signs what it has not signed before.                           *)
LEMMA SignMoves ==
    ASSUME TypeOK, Logs, NEW a \in Admins, NEW op \in Ops \ {Boot}, NEW epoch \in Ops \ {Boot},
           op.by = a, epoch.by = a, {op, epoch} \cap Signed = {}, Sign(a, op, epoch),
           UNCHANGED <<kept, relay, rooted, mail, current>>
    PROVE  Signs /\ Hands /\ Acknowledges
<1>1. Signs
  BY DEF Signs
<1>2. Hands
  BY HandsIf DEF Given
<1> QED BY <1>1, <1>2 DEF Acknowledges

LEMMA MovesStep ==
    ASSUME TypeOK, Logs, Made, Next
    PROVE  Moves
<1>l. \A a \in Admins : log[a] \subseteq Signed /\ log[a] \subseteq Ops /\ Closed(log[a])
  BY DEF Signed, Logs, TypeOK, Devices
<1>o. /\ Adds \cup Tombs \cup Epochs \cup Wraps \subseteq Ops \ {Boot}
      /\ \A r \in Receipts : r.op \in Adds
  BY Kinds DEF Ops, Receipts
<1>g. /\ \A r \in Given : r \in Receipts /\ r.op \in Signed
      /\ kept \subseteq Receipts /\ kept \subseteq Given /\ mail.receipts \subseteq Given
      /\ log[Device] \subseteq Signed /\ relay \cap Ops \subseteq Signed
  <2>1. \A r \in Given : r \in Receipts
    BY DEF Given, TypeOK
  <2>2. \A r \in Given : r.op \in log[r.by] /\ r.by \in Admins
    BY <2>1 DEF Made, Receipts
  <2> QED BY <1>l, <2>1, <2>2 DEF Given, TypeOK, Logs
<1>1. ASSUME NEW a \in Admins, Request(a) \/ Reject(a) PROVE Moves
  BY <1>1, QuietMoves DEF Request, Reject
<1>3. ASSUME NEW a \in Admins, Approve(a) PROVE Moves
  <2> DEFINE op == [kind |-> "add", by |-> a]
             r == [by |-> a, op |-> op]
  <2>1. op \in Adds /\ op.by = a /\ r.by = a
    BY DEF Adds
  <2>2. NextEpoch(a) \in Epochs /\ NextEpoch(a).by = a
    BY <1>3, NextEpochs DEF Approve, Room, NextEpoch
  <2>3. Sign(a, op, NextEpoch(a)) /\ {op, NextEpoch(a)} \cap Signed = {}
    BY <1>3 DEF Approve, Room
  <2>4. /\ receipt' = [receipt EXCEPT ![a] = r] /\ issued' = issued \cup {r}
        /\ UNCHANGED <<kept, relay, rooted, mail, current>>
    BY <1>3 DEF Approve
  <2>5. Signs /\ Hands /\ Acknowledges
    <3> HIDE DEF op, r
    <3> QED BY <1>o, <2>1, <2>2, <2>3, <2>4, SignMoves
  <2>6. \A s \in issued : s.by # a
    <3> SUFFICES ASSUME NEW s \in issued, s.by = a PROVE FALSE
      OBVIOUS
    <3>1. s.op.by = a /\ s.op \in log[a] /\ s.op \in Adds
      BY <1>o DEF Made, TypeOK
    <3>2. s.op = op
      BY <3>1 DEF Adds
    <3> QED BY <1>l, <2>3, <3>1, <3>2
  <2>7. Vouches
    <3> SUFFICES ASSUME NEW s \in Receipts, Stands(s)' PROVE Stands(s)
      BY DEF Vouches
    <3>1. CASE s \in issued
      <4>1. s.by # a /\ s.by \in Admins
        BY <2>6, <3>1 DEF Receipts
      <4>2. receipt'[s.by] = receipt[s.by]
        BY <2>4, <4>1 DEF TypeOK
      <4> QED BY <2>4, <3>1, <4>2 DEF Stands
    <3>2. CASE s \notin issued
      <4>1. s \in issued' => receipt'[s.by] = s
        <5>1. receipt'[a] = r
          BY <2>4 DEF TypeOK
        <5> HIDE DEF r
        <5> QED BY <2>1, <2>4, <3>2, <5>1
      <4> QED BY <2>4, <4>1 DEF Stands
    <3> QED BY <3>1, <3>2
  <2> QED BY <1>3, <2>5, <2>7 DEF Moves, Issues
<1>4. ASSUME NEW a \in Admins, NEW op \in Ops \ {Boot}, NEW epoch \in Ops \ {Boot},
             op.by = a, epoch.by = a, {op, epoch} \cap Signed = {}, Sign(a, op, epoch),
             UNCHANGED <<kept, relay, rooted, mail, current, issued, receipt>>
      PROVE Moves
  <2>1. Signs /\ Hands /\ Acknowledges
    BY <1>4, SignMoves
  <2>2. Vouches
    BY <1>4, VouchesIf
  <2> QED BY <1>4, <2>1, <2>2, IssuesIf DEF Moves
<1>5. ASSUME NEW a \in Admins, Rotate(a) PROVE Moves
  <2>1. NextEpoch(a) \in Epochs /\ NextEpoch(a).by = a
    BY <1>5, NextEpochs DEF Rotate, Room, NextEpoch
  <2>2. Sign(a, NextEpoch(a), NextEpoch(a)) /\ NextEpoch(a) \notin Signed
    BY <1>5 DEF Rotate, Room
  <2> QED BY <1>4, <1>5, <1>o, <2>1, <2>2 DEF Rotate
<1>6. ASSUME NEW a \in Admins, Revoke(a) PROVE Moves
  <2> DEFINE op == [kind |-> "tomb", by |-> a]
  <2>1. NextEpoch(a) \in Epochs /\ NextEpoch(a).by = a /\ op \in Tombs /\ op.by = a
    BY <1>6, NextEpochs DEF Revoke, Room, NextEpoch, Tombs
  <2>2. Sign(a, op, NextEpoch(a)) /\ {op, NextEpoch(a)} \cap Signed = {}
    BY <1>6 DEF Revoke, Room
  <2>3. UNCHANGED <<kept, relay, rooted, mail, current, issued, receipt>>
    BY <1>6 DEF Revoke
  <2> HIDE DEF op
  <2> QED BY <1>4, <1>o, <2>1, <2>2, <2>3
<1>7. ASSUME NEW a \in Admins, Repair(a) PROVE Moves
  <2> DEFINE e == Newest(log[a])
             op == [kind |-> "wrap", by |-> a, n |-> e.n]
  <2>1. e # Boot /\ e.by = a /\ ~HasKey(log[a]) /\ Sign(a, op, op)
    BY <1>7 DEF Repair
  <2>2. e \in Epochs
    BY <2>1 DEF Newest
  <2>3. op \in Wraps /\ op.by = a
    BY <2>2 DEF Epochs, Wraps
  <2>4. op \notin Signed
    <3> SUFFICES ASSUME op \in Signed PROVE FALSE
      OBVIOUS
    <3>1. PICK b \in Admins : op \in log[b]
      BY DEF Signed
    <3>2. op \in log[a]
      <4> HIDE DEF op
      <4> QED BY <1>o, <2>3, <3>1 DEF Logs
    <3>3. op \in Accepted(log[a])
      BY <3>2 DEF Accepted, Logs, Closed
    <3>4. Boot \in log[a]
      BY DEF Logs
    <3> QED BY <2>1, <3>3, <3>4 DEF HasKey
  <2>5. UNCHANGED <<kept, relay, rooted, mail, current, issued, receipt>>
    BY <1>7 DEF Repair
  <2> HIDE DEF op
  <2> QED BY <1>4, <1>o, <2>1, <2>3, <2>4, <2>5
<1>8. ASSUME NEW a \in Admins, Publish(a) PROVE Moves
  <2>0. UNCHANGED <<log, after, receipt, issued, kept, mail, current>>
    BY <1>8 DEF Publish, persisted
  <2>1. Published(a)
    BY <1>8 DEF Publish
  <2>2. \E ops \in SUBSET log[a], handed \in SUBSET Pending(a) :
          /\ Closed(ops) /\ relay' = relay \cup ops \cup handed
          /\ handed # {} => rooted' = rooted \cup {a}
          /\ rooted \subseteq rooted'
    <3>1. CASE /\ relay' = relay \cup log[a] \cup Pending(a)
               /\ rooted' = IF Pending(a) = {} THEN rooted ELSE rooted \cup {a}
      BY <1>l, <3>1
    <3>2. CASE \E ops \in Parts(a) : relay' = relay \cup ops /\ UNCHANGED rooted
      <4>1. PICK ops \in Parts(a) : relay' = relay \cup ops \cup {} /\ UNCHANGED rooted
        BY <3>2
      <4>2. ops \in SUBSET log[a] /\ Closed(ops) /\ {} \in SUBSET Pending(a)
        BY DEF Parts, Closed
      <4> QED BY <4>1, <4>2
    <3>3. CASE relay' = relay \cup log[a] /\ rooted' = rooted \cup {a}
      <4>1. relay' = relay \cup log[a] \cup {} /\ {} \in SUBSET Pending(a)
        BY <3>3
      <4> QED BY <1>l, <3>3, <4>1
    <3> QED BY <2>1, <3>1, <3>2, <3>3 DEF Published
  <2>3. PICK ops \in SUBSET log[a], handed \in SUBSET Pending(a) :
          /\ Closed(ops) /\ relay' = relay \cup ops \cup handed
          /\ handed # {} => rooted' = rooted \cup {a}
          /\ rooted \subseteq rooted'
    BY <2>2
  <2>4. handed # {} /\ a \in Mobile => a \in rooted'
    BY <2>3
  <2> QED BY <2>0, <2>3, <2>4, PublishMoves
<1>9. ASSUME NEW a \in Admins, PublishEarly(a) PROVE Moves
  <2>0. UNCHANGED <<log, after, receipt, issued, kept, mail, current, rooted>> /\ a \notin Mobile
    BY <1>9 DEF PublishEarly, persisted
  <2>1. CASE relay' = relay \cup log[a] \cup Pending(a)
    <3>1. log[a] \in SUBSET log[a] /\ Pending(a) \in SUBSET Pending(a)
      OBVIOUS
    <3> QED BY <1>l, <2>0, <2>1, <3>1, PublishMoves
  <2>2. CASE \E ops \in Parts(a) : relay' = relay \cup ops
    <3>1. PICK ops \in Parts(a) : relay' = relay \cup ops \cup {}
      BY <2>2
    <3>2. ops \in SUBSET log[a] /\ Closed(ops) /\ {} \in SUBSET Pending(a)
      BY DEF Parts, Closed
    <3> QED BY <2>0, <3>1, <3>2, PublishMoves
  <2> QED BY <1>9, <2>1, <2>2 DEF PublishEarly
<1>10. ASSUME NEW a \in Admins, SendRoster(a) PROVE Moves
  <2>0. /\ UNCHANGED <<log, after, receipt, issued, kept, relay, rooted, current>>
        /\ a \in Mobile => Pending(a) \subseteq relay
    BY <1>10 DEF SendRoster, persisted
  <2>1. /\ mail'.receipts = mail.receipts \cup Pending(a) /\ mail'.acks = mail.acks
        /\ \A b \in Admins : mail'.rosters[b] \in {mail.rosters[b], log[b]}
        /\ mail'.rosterAcks = mail.rosterAcks
    BY <1>10 DEF SendRoster, TypeOK
  <2>2. Spreads
    <3>1. \A b \in Admins : mail'.rosters[b] \subseteq Signed
      BY <1>l, <2>1 DEF Logs
    <3> QED BY <1>g, <2>0, <3>1, SpreadsIf
  <2>3. Hands
    <3>1. Pending(a) \subseteq Receipts
      BY DEF Pending, TypeOK
    <3> QED BY <2>0, <2>1, <3>1 DEF Hands, Given
  <2>4. Vouches
    BY <2>0, <2>1, VouchesIf
  <2> QED BY <2>0, <2>1, <2>2, <2>3, <2>4, IssuesIf DEF Moves, Acknowledges
<1>11. ASSUME NEW a \in Admins, Hear(a) PROVE Moves
  <2>1. PICK ops \in SUBSET Signed : Closed(ops) /\ Learn(a, ops)
    BY <1>11, <1>l, <1>g DEF Hear, Logs
  <2>2. UNCHANGED <<after, receipt, issued, kept, relay, rooted, mail, current>>
    BY <2>1 DEF Learn
  <2>3. log'[a] = log[a] \cup ops /\ \A d \in Devices \ {a} : log'[d] = log[d]
    BY <2>1 DEF Learn, TypeOK, Devices
  <2>4. {} \in SUBSET Signed /\ Closed({})
    BY DEF Closed
  <2>5. \A b \in Admins : \E more \in SUBSET Signed : Closed(more) /\ log'[b] = log[b] \cup more
    <3> SUFFICES ASSUME NEW b \in Admins
                 PROVE  \E more \in SUBSET Signed : Closed(more) /\ log'[b] = log[b] \cup more
      OBVIOUS
    <3>1. CASE b = a
      BY <2>1, <2>3, <3>1
    <3>2. CASE b # a
      <4>1. log'[b] = log[b] \cup {}
        BY <2>3, <3>2 DEF Devices
      <4> QED BY <2>4, <4>1
    <3> QED BY <3>1, <3>2
  <2>6. log'[Device] = log[Device] /\ relay' \cap Ops = (relay \cap Ops) \cup {}
    BY <2>2, <2>3, DevicesAssumption DEF Devices
  <2>7. Spreads
    BY <1>g, <2>2, <2>4, <2>5, <2>6 DEF Spreads, Logs
  <2>8. Hands
    BY <2>2, HandsIf DEF Given
  <2>9. Vouches
    BY <2>2, VouchesIf
  <2> QED BY <2>2, <2>7, <2>8, <2>9, IssuesIf DEF Moves, Acknowledges
<1>12. ASSUME NEW a \in Admins, GetRosterAck(a) PROVE Moves
  <2>1. /\ mail'.receipts = mail.receipts /\ mail'.acks = mail.acks
        /\ mail'.rosters = mail.rosters
        /\ \A b \in Admins : mail'.rosterAcks[b] \in {mail.rosterAcks[b], {}}
    BY <1>12 DEF GetRosterAck, TypeOK
  <2>2. \A b \in Admins : current'[b] \in {current[b], mail.rosterAcks[b]}
    BY <1>12 DEF GetRosterAck, TypeOK
  <2> QED BY <1>12, <2>1, <2>2, QuietMoves DEF GetRosterAck, persisted
<1>13. ASSUME NEW a \in Admins, RestartAdmin(a) PROVE Moves
  <2>1. /\ mail'.receipts \subseteq mail.receipts /\ mail'.acks \subseteq mail.acks
        /\ \A b \in Admins : mail'.rosters[b] \in {mail.rosters[b], {}}
        /\ \A b \in Admins : mail'.rosterAcks[b] \in {mail.rosterAcks[b], {}}
    BY <1>13 DEF RestartAdmin, TypeOK
  <2>2. \A b \in Admins : current'[b] \in {current[b], {}}
    BY <1>13 DEF RestartAdmin, TypeOK
  <2> QED BY <1>13, <2>1, <2>2, QuietMoves DEF RestartAdmin, persisted
<1>14. CASE Lose \/ RestartDevice
  <2>1. mail' = NoMail /\ UNCHANGED <<log, after, receipt, issued, kept, relay, rooted, current>>
    BY <1>14 DEF Lose, RestartDevice, persisted
  <2>2. /\ mail'.receipts = {} /\ mail'.acks = {}
        /\ \A b \in Admins : mail'.rosters[b] = {} /\ mail'.rosterAcks[b] = {}
    BY <2>1 DEF NoMail
  <2> QED BY <2>1, <2>2, QuietMoves
<1>15. CASE RelayOps
  <2> DEFINE ops == log[Device] \cup (relay \cap Ops)
             ready == Confirmable(kept, ops, auth')
  <2>1. Store(kept, ops) /\ Confirm(ready) /\ UNCHANGED <<rooted, current>>
    BY <1>15 DEF RelayOps
  <2>2. log[Device] \subseteq ops /\ ops \subseteq Signed
    BY <1>g
  <2> HIDE DEF ops
  <2>3. /\ mail'.receipts = mail.receipts /\ mail'.acks \subseteq mail.acks \cup ready
        /\ mail'.rosters = mail.rosters /\ mail'.rosterAcks = mail.rosterAcks
        /\ UNCHANGED relay \/ relay' = relay \cup Confirmations(ready)
    BY <2>1 DEF Confirm, MeshAcks, TypeOK
  <2> QED BY <1>g, <2>1, <2>2, <2>3, StoreMoves
<1>16. CASE SyncOnce
  <2> DEFINE receipts == kept \cup {r \in relay \cap Receipts : Valid(r)}
             ops == log[Device] \cup {r.op : r \in receipts}
                      \cup (IF receipts = {} THEN {} ELSE relay \cap Ops)
             ready == Confirmable(receipts, ops, auth')
  <2>1. receipts \subseteq Given /\ kept \subseteq receipts /\ receipts \subseteq Receipts
    BY <1>g DEF Given
  <2>2. log[Device] \subseteq ops /\ ops \subseteq Signed
    BY <1>g, <2>1
  <2>3. /\ Store(receipts, ops) /\ relay' = relay \cup Confirmations(ready)
        /\ UNCHANGED <<rooted, mail, current>>
    BY <1>16 DEF SyncOnce
  <2> HIDE DEF receipts, ops
  <2> QED BY <2>1, <2>2, <2>3, StoreMoves
<1>17. CASE Tick
  <2> DEFINE ready == Confirmable(kept, log[Device], auth)
  <2>1. Confirm(ready) /\ UNCHANGED <<log, after, receipt, issued, kept, auth, rooted, current>>
    BY <1>17 DEF Tick, persisted
  <2>2. /\ mail'.receipts = mail.receipts /\ mail'.acks \subseteq mail.acks \cup ready
        /\ mail'.rosters = mail.rosters /\ mail'.rosterAcks = mail.rosterAcks
        /\ UNCHANGED relay \/ relay' = relay \cup Confirmations(ready)
    BY <2>1 DEF Confirm, MeshAcks, TypeOK
  <2>3. ready = Confirmable(kept, log[Device], auth')
    BY <2>1
  <2>4. \A r \in ready : Good(r)'
    BY <2>1, <2>3, ReadyIsGood
  <2>5. ready \subseteq Receipts
    BY <1>g, ConfirmableIn
  <2> HIDE DEF ready
  <2>6. Confirmations(ready) \cap (Ops \cup Receipts) = {}
    BY <2>5, Kinds DEF Confirmations
  <2>7. relay' \cap Ops = relay \cap Ops /\ relay' \cap Receipts = relay \cap Receipts
    BY <2>2, <2>6
  <2>8. \A r \in Receipts : [ack |-> r] \in relay' => [ack |-> r] \in relay \/ Good(r)'
    <3>1. ASSUME NEW r \in Receipts, [ack |-> r] \in Confirmations(ready) PROVE r \in ready
      <4>1. PICK s \in ready : [ack |-> r] = [ack |-> s]
        BY <3>1, Zenon DEF Confirmations
      <4> QED BY <2>5, <4>1, Kinds
    <3> QED BY <2>2, <2>4, <3>1
  <2>9. Spreads
    <3>1. \A b \in Admins : mail'.rosters[b] \subseteq Signed
      BY <2>2 DEF Logs
    <3> QED BY <1>g, <2>1, <2>7, <3>1, SpreadsIf
  <2>10. Hands
    BY <2>1, <2>2, <2>7, HandsIf DEF Given
  <2>11. Vouches
    BY <2>1, <2>2, <2>4, <2>8, VouchesIf
  <2> QED BY <2>1, <2>2, <2>9, <2>10, <2>11, IssuesIf DEF Moves, Acknowledges
<1>18. ASSUME NEW r \in Receipts, GetReceipt(r) PROVE Moves
  <2> DEFINE receipts == kept \cup {r}
             ops == log[Device] \cup {r.op}
             ready == Confirmable(receipts, ops, auth')
  <2>0. r \in mail.receipts /\ UNCHANGED <<relay, rooted, current>>
    BY <1>18 DEF GetReceipt
  <2>1. receipts \subseteq Given /\ kept \subseteq receipts /\ receipts \subseteq Receipts
    BY <1>g, <2>0
  <2>2. log[Device] \subseteq ops /\ ops \subseteq Signed
    BY <1>g, <2>0
  <2>3. CASE Valid(r)
    <3>1. Store(receipts, ops) /\ mail' = [mail EXCEPT !.receipts = @ \ {r}, !.acks = @ \cup ready]
      BY <1>18, <2>3 DEF GetReceipt
    <3> HIDE DEF receipts, ops
    <3>2. /\ mail'.receipts \subseteq mail.receipts /\ mail'.acks = mail.acks \cup ready
          /\ mail'.rosters = mail.rosters /\ mail'.rosterAcks = mail.rosterAcks
      BY <3>1 DEF TypeOK
    <3> QED BY <2>0, <2>1, <2>2, <3>1, <3>2, StoreMoves
  <2>4. CASE ~Valid(r)
    <3>1. mail' = [mail EXCEPT !.receipts = @ \ {r}] /\ UNCHANGED persisted
      BY <1>18, <2>4 DEF GetReceipt
    <3>2. /\ mail'.receipts \subseteq mail.receipts /\ mail'.acks = mail.acks
          /\ mail'.rosters = mail.rosters /\ mail'.rosterAcks = mail.rosterAcks
      BY <3>1 DEF TypeOK
    <3> QED BY <2>0, <3>1, <3>2, QuietMoves DEF persisted
  <2> QED BY <2>3, <2>4
<1>19. ASSUME NEW r \in Receipts, RelayReceipt(r) PROVE Moves
  <2> DEFINE receipts == kept \cup {r}
             ops == log[Device] \cup {r.op} \cup (relay \cap Ops)
             less == log[Device] \cup {r.op}
             ready == Confirmable(receipts, ops, auth')
  <2>0. r \in relay /\ UNCHANGED <<rooted, current>>
    BY <1>19 DEF RelayReceipt
  <2>1. receipts \subseteq Given /\ kept \subseteq receipts /\ receipts \subseteq Receipts
    BY <1>g, <2>0 DEF Given
  <2>2. r.op \in Signed
    BY <1>g, <2>0 DEF Given
  <2>3. /\ log[Device] \subseteq ops /\ ops \subseteq Signed
        /\ log[Device] \subseteq less /\ less \subseteq Signed
    BY <1>g, <2>2
  <2>4. \/ Store(receipts, ops) /\ Confirm(ready)
        \/ Store(receipts, less) /\ UNCHANGED <<relay, mail>>
    BY <1>19 DEF RelayReceipt
  <2> HIDE DEF receipts, ops, less
  <2>5. CASE Store(receipts, ops) /\ Confirm(ready)
    <3>1. /\ mail'.receipts = mail.receipts /\ mail'.acks \subseteq mail.acks \cup ready
          /\ mail'.rosters = mail.rosters /\ mail'.rosterAcks = mail.rosterAcks
          /\ UNCHANGED relay \/ relay' = relay \cup Confirmations(ready)
      BY <2>5 DEF Confirm, MeshAcks, TypeOK
    <3> QED BY <2>0, <2>1, <2>3, <2>5, <3>1, StoreMoves
  <2>6. CASE Store(receipts, less) /\ UNCHANGED <<relay, mail>>
    BY <2>0, <2>1, <2>3, <2>6, StoreMoves
  <2> QED BY <2>4, <2>5, <2>6
<1>20. ASSUME NEW a \in Admins, GetRoster(a) PROVE Moves
  <2> DEFINE ops == log[Device] \cup mail.rosters[a]
             ready == Confirmable(kept, ops, auth')
  <2>0. UNCHANGED <<relay, rooted, current>>
    BY <1>20 DEF GetRoster
  <2>1. log[Device] \subseteq ops /\ ops \subseteq Signed
    BY <1>g DEF Logs
  <2>2. CASE TakesRoster
    <3>1. /\ Store(kept, ops)
          /\ mail' = [mail EXCEPT
                       !.rosters[a] = {}, !.acks = @ \cup ready,
                       !.rosterAcks[a] = IF Member(ops) /\ ready = kept THEN ops ELSE @]
      BY <1>20, <2>2 DEF GetRoster
    <3> HIDE DEF ops
    <3>2. /\ mail'.receipts = mail.receipts /\ mail'.acks = mail.acks \cup ready
          /\ \A b \in Admins : mail'.rosters[b] \in {mail.rosters[b], {}}
          /\ \A b \in Admins : mail'.rosterAcks[b] \in {mail.rosterAcks[b], ops}
      BY <3>1 DEF TypeOK
    <3> HIDE DEF ready
    <3>3. \A b \in Admins : /\ mail'.rosters[b] \subseteq mail.rosters[b]
                             /\ mail'.rosterAcks[b] \subseteq mail.rosterAcks[b] \cup ops
      BY <3>2
    <3> QED BY <1>g, <2>0, <2>1, <3>1, <3>2, <3>3, StoreMoves DEF ready
  <2>3. CASE ~TakesRoster
    <3>1. mail' = [mail EXCEPT !.rosters[a] = {}] /\ UNCHANGED persisted
      BY <1>20, <2>3 DEF GetRoster
    <3>2. /\ mail'.receipts = mail.receipts /\ mail'.acks = mail.acks
          /\ \A b \in Admins : mail'.rosters[b] \in {mail.rosters[b], {}}
          /\ mail'.rosterAcks = mail.rosterAcks
      BY <3>1 DEF TypeOK
    <3> QED BY <2>0, <3>1, <3>2, QuietMoves DEF persisted
  <2> QED BY <2>2, <2>3
<1>21. ASSUME NEW a \in Admins, MeshOps(a) PROVE Moves
  <2> DEFINE ops == log[Device] \cup log[a]
  <2>1. Store(kept, ops) /\ UNCHANGED <<relay, rooted, mail, current>>
    BY <1>21 DEF MeshOps
  <2>2. log[Device] \subseteq ops /\ ops \subseteq Signed
    BY <1>g, <1>l
  <2> HIDE DEF ops
  <2> QED BY <1>g, <2>1, <2>2, StoreMoves
<1>22. ASSUME NEW r \in Receipts, (GetAck(r) \/ RelayAck(r)) PROVE Moves
  <2>1. /\ Stands(r)
        /\ receipt' = [receipt EXCEPT ![r.by] = IF @ = r THEN None ELSE @]
        /\ UNCHANGED <<log, after, issued, kept, relay, rooted, current>>
    BY <1>22 DEF GetAck, RelayAck, Clear, Stands
  <2>2. /\ mail'.receipts = mail.receipts /\ mail'.acks \subseteq mail.acks
        /\ mail'.rosters = mail.rosters /\ mail'.rosterAcks = mail.rosterAcks
    BY <1>22 DEF GetAck, RelayAck, TypeOK
  <2>3. \A b \in Admins : receipt'[b] = receipt[b] \/ (receipt'[b] = None /\ receipt[b] = r)
    BY <2>1 DEF TypeOK
  <2>4. Vouches
    <3> SUFFICES ASSUME NEW s \in Receipts, Stands(s)' PROVE Stands(s)
      BY DEF Vouches
    <3>1. s.by \in Admins
      BY DEF Receipts
    <3> QED BY <2>1, <2>2, <2>3, <3>1 DEF Stands
  <2>5. Spreads
    <3>1. \A b \in Admins : mail'.rosters[b] \subseteq Signed
      BY <2>2 DEF Logs
    <3> QED BY <1>g, <2>1, <3>1, SpreadsIf
  <2>6. Hands
    BY <2>1, <2>2, HandsIf DEF Given
  <2>7. Issues
    BY <2>1, <2>3 DEF Issues
  <2> QED BY <2>1, <2>2, <2>4, <2>5, <2>6, <2>7 DEF Moves, Acknowledges
<1> QED
  BY <1>1, <1>3, <1>5, <1>6, <1>7, <1>8, <1>9, <1>10, <1>11, <1>12, <1>13, <1>14,
     <1>15, <1>16, <1>17, <1>18, <1>19, <1>20, <1>21, <1>22
  DEF Next, AdminStep, DeviceStep

-----------------------------------------------------------------------------
(* What counts for a log counts for a longer one.                          *)
LEMMA AcceptedGrows ==
    ASSUME TypeOK, Logs, Signs \/ Spreads
    PROVE  Accepted(log[Device]) \subseteq Accepted(log[Device])'
<1>1. /\ log[Device] \subseteq log'[Device] /\ log[Device] \subseteq Signed
      /\ \A op \in Signed : after'[op] = after[op]
  BY Grows DEF Devices, Logs
<1> QED BY <1>1 DEF Accepted

(* Who was a member for the signer of an operation remains so.             *)
LEMMA MembershipStays ==
    ASSUME TypeOK, Logs, Signs \/ Spreads, NEW e \in Signed
    PROVE  Member(after[e])' <=> Member(after[e])
<1>1. \A op \in Signed : after'[op] = after[op]
  BY Grows
<1>2. after[e] \subseteq Signed
  BY DEF Logs, Closed, Signed
<1>3. Accepted(after[e])' = Accepted(after[e])
  BY <1>1, <1>2 DEF Accepted
<1> QED BY <1>3 DEF Member, Tombstoned

LEMMA GoodStays ==
    ASSUME TypeOK, Logs, Signs \/ Spreads, kept \subseteq kept', NEW r, Good(r)
    PROVE  Good(r)'
<1>1. Accepted(log[Device]) \subseteq Accepted(log[Device])'
  BY AcceptedGrows
<1>2. PICK e \in Accepted(log[Device]) \cap (Epochs \cup Wraps) : e \in Wraps \/ Member(after[e])
  BY DEF Good
<1>3. e \in Signed
  BY DEF Accepted, Logs
<1>4. e \in Wraps \/ Member(after[e])'
  BY <1>2, <1>3, MembershipStays
<1> QED BY <1>1, <1>2, <1>4 DEF Good

LEMMA MadeStep ==
    ASSUME TypeOK, TypeOK', Logs, Made, Moves
    PROVE  Made'
<1>1. \A d \in Devices : log[d] \subseteq log'[d]
  BY Grows DEF Moves
<1>2. ASSUME NEW r \in issued PROVE r.by \in Admins /\ r.op.by = r.by /\ r.op \in log'[r.by]
  <2>1. r.by \in Admins
    BY DEF TypeOK, Receipts
  <2> QED BY <1>1, <2>1 DEF Made, Devices
<1>3. Given' \subseteq issued
  BY DEF Moves, Hands, Made
<1>4. CASE UNCHANGED issued /\ \A a \in Admins : receipt'[a] \in {receipt[a], None}
  BY <1>2, <1>3, <1>4 DEF Made, Pending
<1>5. ASSUME NEW a \in Admins, Approve(a) PROVE Made'
  <2> DEFINE op == [kind |-> "add", by |-> a]
             r == [by |-> a, op |-> op]
  <2>1. issued' = issued \cup {r} /\ receipt' = [receipt EXCEPT ![a] = r]
    BY <1>5 DEF Approve
  <2>2. r.by = a /\ r.op = op /\ op.by = a
    OBVIOUS
  <2>3. op \in log'[a]
    BY <1>5 DEF Approve, Sign, TypeOK, Devices
  <2> HIDE DEF op, r
  <2>4. \A b \in Admins : Pending(b)' \subseteq {s \in issued' : s.by = b}
    BY <2>1, <2>2 DEF Made, Pending, TypeOK
  <2> QED BY <1>2, <1>3, <2>1, <2>2, <2>3, <2>4 DEF Made
<1> QED BY <1>4, <1>5 DEF Moves, Issues

LEMMA RootFirstStep ==
    ASSUME Made, RootFirst, Moves
    PROVE  RootFirst'
<1>1. \A r \in Given' : r.by \in Mobile => r.by \in rooted'
  <2> SUFFICES ASSUME NEW r \in Given', r.by \in Mobile PROVE r.by \in rooted'
    OBVIOUS
  <2>1. CASE r \in Given
    BY <2>1 DEF RootFirst, Given, Moves, Hands
  <2>2. CASE \E a \in Admins : r \in Pending(a) /\ (a \in Mobile => a \in rooted')
    BY <2>2 DEF Made
  <2> QED BY <2>1, <2>2 DEF Moves, Hands
<1> QED BY <1>1 DEF RootFirst, Given

LEMMA SettledStep ==
    ASSUME TypeOK, Logs, Settled, Moves
    PROVE  Settled'
<1> SUFFICES ASSUME NEW r \in Receipts, Stands(r)' PROVE Good(r)'
  BY DEF Settled
<1>1. CASE Stands(r)
  BY <1>1, GoodStays DEF Settled, Moves, Hands
<1> QED BY <1>1 DEF Moves, Vouches

LEMMA AckedStep ==
    ASSUME TypeOK, Logs, Acked, Moves
    PROVE  Acked'
<1>1. log[Device] \subseteq log'[Device]
  BY Grows DEF Moves, Devices
<1> QED BY <1>1 DEF Acked, Moves, Acknowledges

LEMMA InvariantInit == Init => IInv
<1> SUFFICES ASSUME Init PROVE IInv
  OBVIOUS
<1>1. TypeOK
  BY TypeInit
<1>2. \A a \in Admins : log[a] = {Boot}
  BY DevicesAssumption DEF Init, Devices
<1>3. log[Device] = {} /\ relay = {} /\ kept = {} /\ issued = {}
  BY DEF Init, Devices
<1>4. after[Boot] = {}
  BY DEF Init, Ops
<1>5. Logs
  BY <1>2, <1>3, <1>4 DEF Logs, Closed, Init
<1>6. Made
  BY <1>3 DEF Made, Given, Pending, Init
<1>7. RootFirst
  BY <1>3 DEF RootFirst, Init
<1>8. Settled
  BY <1>3 DEF Settled, Stands, Init
<1>9. Acked
  BY <1>3 DEF Acked, Init
<1> QED BY <1>1, <1>5, <1>6, <1>7, <1>8, <1>9 DEF IInv

LEMMA InvariantStep == IInv /\ [Next]_approvalVars => IInv'
<1> SUFFICES ASSUME IInv, [Next]_approvalVars PROVE IInv'
  OBVIOUS
<1>1. TypeOK'
  BY TypeStep DEF IInv
<1>2. CASE Next
  <2>1. Moves
    BY <1>2, MovesStep DEF IInv
  <2>2. Logs'
    BY <1>1, <2>1, SignKeepsLogs, SpreadKeepsLogs DEF IInv, Moves
  <2> QED BY <1>1, <2>1, <2>2, MadeStep, RootFirstStep, SettledStep, AckedStep DEF IInv
<1>3. CASE UNCHANGED approvalVars
  <2>1. UNCHANGED <<log, after, receipt, issued, kept, relay, rooted, mail, current>>
    BY <1>3 DEF approvalVars, persisted
  <2>2. Logs'
    BY <2>1 DEF IInv, Logs, Closed, Signed
  <2>3. Made' /\ RootFirst'
    BY <2>1 DEF IInv, Made, Given, Pending, RootFirst
  <2>4. Settled' /\ Acked'
    BY <2>1 DEF IInv, Settled, Stands, Good, Accepted, Member, Tombstoned, Acked
  <2> QED BY <1>1, <2>2, <2>3, <2>4 DEF IInv
<1> QED BY <1>2, <1>3

(* An admin gives a receipt up only when the device has it on its disk,    *)
(* with its operation and a wrapped key epoch: whatever is lost, restarts, *)
(* or is approved, rotated and revoked at the same time.                   *)
THEOREM SettledReceiptsAreUsable == Spec => []SettledIsUsable
<1>1. IInv => SettledIsUsable
  <2> SUFFICES ASSUME IInv, NEW r \in issued, receipt[r.by] # r PROVE Good(r)
    BY DEF SettledIsUsable, Good
  <2> QED BY DEF IInv, TypeOK, Settled, Stands
<1> QED BY <1>1, InvariantInit, InvariantStep, PTL DEF Spec

(* A mobile admin's receipt is nowhere before the root made for it.        *)
THEOREM RootsComeFirst == Spec => []RootFirst
<1>1. IInv => RootFirst
  BY DEF IInv
<1> QED BY <1>1, InvariantInit, InvariantStep, PTL DEF Spec

(* A roster that counts as acknowledged is in the device's log.            *)
THEOREM AcknowledgedRostersAreThere == Spec => []AcknowledgedIsThere
<1>1. IInv => AcknowledgedIsThere
  BY DEF IInv, Acked, AcknowledgedIsThere
<1> QED BY <1>1, InvariantInit, InvariantStep, PTL DEF Spec
=============================================================================
