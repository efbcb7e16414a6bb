------------------------- MODULE DriveRoots_proofs --------------------------
(* Proofs about the exchange of drive roots, for any set of devices and any  *)
(* number of roots.                                                          *)
EXTENDS DriveRoots, FiniteSetTheorems, TLAPS

(* What the newest root observes is on record, and only made roots are sent. *)
NewestObservesRecord ==
    \A d, o \in Devices :
        rec[d][d] > 0 => Current(d).observed[o] <= rec[d][o]

SentWereMade ==
    \A o \in Devices, seq \in Nat : <<o, seq>> \in sent => seq \in 1..Len(made[o])

(* A projection's parent is an earlier publishable root, or there is none.   *)
ProjectionParents ==
    \A d \in Devices : \A i \in 1..Len(made[d]) :
        made[d][i].local =>
            \/ made[d][i].parent = 0
            \/ /\ made[d][i].parent \in 1..Len(made[d])
               /\ ~made[d][made[d][i].parent].local

IInv ==
    /\ TypeOK
    /\ NothingFromNowhere
    /\ HistoryAccumulates
    /\ NewestObservesRecord
    /\ SentWereMade
    /\ ProjectionParents

-----------------------------------------------------------------------------
(* What recording a new root of d does, whichever operation it belongs to.   *)
LEMMA RecordFacts ==
    ASSUME IInv, NEW d \in Devices, NEW local \in BOOLEAN, NEW whole \in BOOLEAN,
           NEW parent \in Nat, Record(d, local, whole, parent)
    PROVE  /\ made' \in [Devices -> Seq(Root)]
           /\ rec' \in [Devices -> Frontier]
           /\ blocks' \in [Devices -> SUBSET (Devices \X Nat)]
           /\ \A o \in Devices : Len(made'[o]) <= MaxSeq[o]
           /\ \A o \in Devices \ {d} : made'[o] = made[o] /\ rec'[o] = rec[o]
           /\ Len(made'[d]) = rec[d][d] + 1
           /\ Len(made[d]) = rec[d][d]
           /\ \A i \in 1..rec[d][d] : made'[d][i] = made[d][i]
           /\ made'[d][rec[d][d] + 1] = [local |-> local, whole |-> whole,
                                         parent |-> parent, observed |-> rec[d]]
           /\ rec'[d][d] = rec[d][d] + 1
           /\ \A o \in Devices \ {d} : rec'[d][o] = rec[d][o]
<1> DEFINE new == [local |-> local, whole |-> whole, parent |-> parent,
                   observed |-> rec[d]]
<1>1. /\ made \in [Devices -> Seq(Root)] /\ rec \in [Devices -> Frontier]
      /\ blocks \in [Devices -> SUBSET (Devices \X Nat)]
      /\ \A o \in Devices : Len(made[o]) <= MaxSeq[o]
      /\ rec[d][d] = Len(made[d])
  BY DEF IInv, TypeOK, NothingFromNowhere
<1>2. /\ rec[d][d] + 1 <= MaxSeq[d]
      /\ made' = [made EXCEPT ![d] = Append(made[d], new)]
      /\ rec' = [rec EXCEPT ![d][d] = rec[d][d] + 1]
      /\ blocks' = [blocks EXCEPT ![d] = blocks[d] \cup {<<d, rec[d][d] + 1>>}]
  BY DEF Record
<1>3. rec[d] \in Frontier /\ rec[d][d] \in Nat /\ made[d] \in Seq(Root)
  BY <1>1 DEF Frontier
<1>4. new \in Root
  BY <1>3 DEF Root
<1>5. Append(made[d], new) \in Seq(Root)
  BY <1>3, <1>4
<1>6. /\ Len(Append(made[d], new)) = rec[d][d] + 1
      /\ \A i \in 1..rec[d][d] : Append(made[d], new)[i] = made[d][i]
      /\ Append(made[d], new)[rec[d][d] + 1] = new
  BY <1>1, <1>3, <1>4
<1> HIDE DEF new
<1>7. made' \in [Devices -> Seq(Root)] /\ made'[d] = Append(made[d], new)
      /\ \A o \in Devices \ {d} : made'[o] = made[o]
  BY <1>1, <1>2, <1>5
<1>8. rec' = [rec EXCEPT ![d] = [rec[d] EXCEPT ![d] = rec[d][d] + 1]]
  BY <1>2
<1>9. [rec[d] EXCEPT ![d] = rec[d][d] + 1] \in Frontier
  BY <1>3 DEF Frontier
<1>10. rec' \in [Devices -> Frontier] /\ rec'[d] = [rec[d] EXCEPT ![d] = rec[d][d] + 1]
       /\ \A o \in Devices \ {d} : rec'[o] = rec[o]
  BY <1>1, <1>8, <1>9
<1>11. rec'[d][d] = rec[d][d] + 1 /\ \A o \in Devices \ {d} : rec'[d][o] = rec[d][o]
  BY <1>3, <1>10 DEF Frontier
<1>12. blocks' \in [Devices -> SUBSET (Devices \X Nat)]
  BY <1>1, <1>2, <1>3
<1>13. \A o \in Devices : Len(made'[o]) <= MaxSeq[o]
  BY <1>1, <1>2, <1>6, <1>7
<1> QED BY <1>1, <1>6, <1>7, <1>10, <1>11, <1>12, <1>13 DEF new

(* So a new root keeps the invariant if the view stays within the record and *)
(* a projection is made over a publishable root.                             *)
LEMMA RecordKeepsInvariant ==
    ASSUME IInv, NEW d \in Devices, NEW local \in BOOLEAN, NEW whole \in BOOLEAN,
           NEW parent \in Nat, Record(d, local, whole, parent),
           local => \/ parent = 0
                    \/ parent \in 1..rec[d][d] /\ ~made[d][parent].local,
           sent' = sent,
           view' \in [Devices -> Frontier],
           \A e \in Devices \ {d} : view'[e] = view[e],
           \A o \in Devices : view'[d][o] <= rec'[d][o]
    PROVE  IInv'
<1> DEFINE new == [local |-> local, whole |-> whole, parent |-> parent,
                   observed |-> rec[d]]
           n == rec[d][d]
<1>1. /\ made' \in [Devices -> Seq(Root)] /\ rec' \in [Devices -> Frontier]
      /\ blocks' \in [Devices -> SUBSET (Devices \X Nat)]
      /\ \A o \in Devices : Len(made'[o]) <= MaxSeq[o]
  BY RecordFacts
<1>2. /\ \A o \in Devices \ {d} : made'[o] = made[o] /\ rec'[o] = rec[o]
      /\ Len(made'[d]) = n + 1 /\ Len(made[d]) = n
      /\ \A i \in 1..n : made'[d][i] = made[d][i]
      /\ made'[d][n + 1] = new
      /\ rec'[d][d] = n + 1
      /\ \A o \in Devices \ {d} : rec'[d][o] = rec[d][o]
  BY RecordFacts
<1>3. /\ \A e, o \in Devices : rec[e][o] \in Nat /\ view[e][o] \in Nat
      /\ \A e, o \in Devices : rec'[e][o] \in Nat /\ view'[e][o] \in Nat
      /\ n \in Nat
  BY <1>1 DEF IInv, TypeOK, Frontier
<1> HIDE DEF new, n
<1>4. TypeOK'
  BY <1>1 DEF IInv, TypeOK
<1>5. NothingFromNowhere'
  <2>1. \A e \in Devices : rec'[e][e] = Len(made'[e])
    BY <1>2 DEF IInv, NothingFromNowhere
  <2>2. \A e, o \in Devices : rec'[e][o] <= rec'[o][o]
    <3> TAKE e, o \in Devices
    <3>1. rec[e][o] <= rec[o][o]
      BY DEF IInv, NothingFromNowhere
    <3>2. rec[o][o] <= rec'[o][o]
      <4>1. CASE o = d
        BY <1>2, <1>3, <4>1 DEF n
      <4>2. CASE o # d
        BY <1>2, <1>3, <4>2
      <4> QED BY <4>1, <4>2
    <3>3. CASE e = d /\ o = d
      BY <1>3, <3>3
    <3>4. CASE ~(e = d /\ o = d)
      <4>1. rec'[e][o] = rec[e][o]
        BY <1>2, <3>4
      <4> QED BY <1>3, <3>1, <3>2, <4>1
    <3> QED BY <3>3, <3>4
  <2>3. \A e, o \in Devices : view'[e][o] <= rec'[e][o]
    BY <1>2 DEF IInv, NothingFromNowhere
  <2>4. \A e, o \in Devices : e # o /\ rec'[e][o] > 0 => <<o, rec'[e][o]>> \in sent'
    <3> TAKE e, o \in Devices
    <3>1. e # o => rec'[e][o] = rec[e][o]
      BY <1>2
    <3> QED BY <3>1 DEF IInv, NothingFromNowhere
  <2> QED BY <2>1, <2>2, <2>3, <2>4 DEF NothingFromNowhere
<1>6. \A o \in Devices : rec[d][d] > 0 => made[d][n].observed[o] <= rec[d][o]
  BY DEF IInv, NewestObservesRecord, Current, n
<1>7. HistoryAccumulates'
  <2> SUFFICES ASSUME NEW e \in Devices, NEW i \in 1..Len(made'[e])
               PROVE  /\ made'[e][i].observed[e] = i - 1
                      /\ i > 1 => \A o \in Devices :
                           made'[e][i - 1].observed[o] <= made'[e][i].observed[o]
    BY DEF HistoryAccumulates
  <2>1. \A j \in 1..Len(made[e]) :
           /\ made[e][j].observed[e] = j - 1
           /\ j > 1 => \A o \in Devices :
                        made[e][j - 1].observed[o] <= made[e][j].observed[o]
    BY DEF IInv, HistoryAccumulates
  <2>2. CASE e # d
    BY <1>2, <2>1, <2>2
  <2>3. CASE e = d /\ i <= n
    <3>1. i \in 1..n /\ (i > 1 => i - 1 \in 1..n)
      BY <1>3, <2>3
    <3>2. made'[d][i] = made[d][i] /\ (i > 1 => made'[d][i - 1] = made[d][i - 1])
      BY <1>2, <3>1
    <3> QED BY <1>2, <2>1, <2>3, <3>1, <3>2
  <2>4. CASE e = d /\ i = n + 1
    <3>1. made'[d][i].observed = rec[d]
      BY <1>2, <2>4 DEF new
    <3>2. i > 1 => made'[d][i - 1] = made[d][n] /\ n > 0
      BY <1>2, <1>3, <2>4
    <3>3. rec[d][d] = i - 1
      BY <1>3, <2>4 DEF n
    <3>4. i > 1 => \A o \in Devices : made[d][n].observed[o] <= rec[d][o]
      BY <1>6, <2>4, <3>2 DEF n
    <3> QED BY <2>4, <3>1, <3>2, <3>3, <3>4
  <2> QED BY <1>2, <1>3, <2>2, <2>3, <2>4
<1>8. NewestObservesRecord'
  <2> SUFFICES ASSUME NEW e \in Devices, NEW o \in Devices, rec'[e][e] > 0
               PROVE  made'[e][rec'[e][e]].observed[o] <= rec'[e][o]
    BY DEF NewestObservesRecord, Current
  <2>1. CASE e # d
    BY <1>2, <2>1 DEF IInv, NewestObservesRecord, Current
  <2>2. CASE e = d
    <3>1. made'[e][rec'[e][e]].observed[o] = rec[d][o]
      BY <1>2, <2>2 DEF new
    <3>2. rec[d][o] <= rec'[d][o]
      BY <1>2, <1>3 DEF n
    <3> QED BY <2>2, <3>1, <3>2
  <2> QED BY <2>1, <2>2
<1>9. SentWereMade'
  <2> SUFFICES ASSUME NEW o \in Devices, NEW seq \in Nat, <<o, seq>> \in sent
               PROVE  seq \in 1..Len(made'[o])
    BY DEF SentWereMade
  <2>1. seq \in 1..Len(made[o])
    BY DEF IInv, SentWereMade
  <2> QED BY <1>2, <1>3, <2>1
<1>10. ProjectionParents'
  <2> SUFFICES ASSUME NEW e \in Devices, NEW i \in 1..Len(made'[e]),
                      made'[e][i].local, made'[e][i].parent # 0
               PROVE  /\ made'[e][i].parent \in 1..Len(made'[e])
                      /\ ~made'[e][made'[e][i].parent].local
    BY DEF ProjectionParents
  <2>1. \A j \in 1..Len(made[e]) : made[e][j].local /\ made[e][j].parent # 0 =>
           /\ made[e][j].parent \in 1..Len(made[e])
           /\ ~made[e][made[e][j].parent].local
    BY DEF IInv, ProjectionParents
  <2>2. CASE e # d
    BY <1>2, <2>1, <2>2
  <2>3. CASE e = d /\ i <= n
    <3>1. i \in 1..n /\ made'[d][i] = made[d][i]
      BY <1>2, <1>3, <2>3
    <3>2. made[d][i].parent \in 1..n /\ ~made[d][made[d][i].parent].local
      BY <1>2, <2>1, <2>3, <3>1
    <3>3. made'[d][made[d][i].parent] = made[d][made[d][i].parent]
      BY <1>2, <3>2
    <3> QED BY <1>2, <1>3, <2>3, <3>1, <3>2, <3>3
  <2>4. CASE e = d /\ i = n + 1
    <3>1. made'[d][i].local = local /\ made'[d][i].parent = parent
      BY <1>2, <2>4 DEF new
    <3>2. parent \in 1..n /\ ~made[d][parent].local
      BY <2>4, <3>1 DEF n
    <3>3. made'[d][parent] = made[d][parent]
      BY <1>2, <3>2
    <3> QED BY <1>2, <1>3, <2>4, <3>1, <3>2, <3>3
  <2> QED BY <1>2, <1>3, <2>2, <2>3, <2>4
<1> QED BY <1>4, <1>5, <1>7, <1>8, <1>9, <1>10 DEF IInv

(* What a device publishes is one of its roots, and never a projection.      *)
LEMMA PublishableIsAnEdit ==
    ASSUME IInv, NEW d \in Devices
    PROVE  /\ Publishable(d) \in 0..rec[d][d]
           /\ Publishable(d) > 0 => ~made[d][Publishable(d)].local
<1>1. rec[d][d] \in Nat /\ Len(made[d]) = rec[d][d]
  BY DEF IInv, TypeOK, Frontier, NothingFromNowhere
<1>2. CASE rec[d][d] = 0
  BY <1>1, <1>2 DEF Publishable
<1>3. CASE rec[d][d] > 0 /\ ~Current(d).local
  BY <1>1, <1>3 DEF Publishable, Current
<1>4. CASE rec[d][d] > 0 /\ Current(d).local
  <2>1. rec[d][d] \in 1..Len(made[d])
    BY <1>1, <1>4
  <2>2. \/ Current(d).parent = 0
        \/ /\ Current(d).parent \in 1..Len(made[d])
           /\ ~made[d][Current(d).parent].local
    BY <1>4, <2>1 DEF IInv, ProjectionParents, Current
  <2>3. Publishable(d) = Current(d).parent
    BY <1>1, <1>4 DEF Publishable
  <2> QED BY <1>1, <2>2, <2>3
<1> QED BY <1>1, <1>2, <1>3, <1>4

-----------------------------------------------------------------------------
LEMMA InitEstablishesInvariant == Init => IInv
<1> SUFFICES ASSUME Init PROVE IInv
  OBVIOUS
<1>1. Nothing \in Frontier /\ \A o \in Devices : Nothing[o] = 0
  BY DEF Nothing, Frontier
<1>2. <<>> \in Seq(Root) /\ Len(<<>>) = 0
  OBVIOUS
<1>3. /\ \A d \in Devices : made[d] = <<>> /\ rec[d] = Nothing /\ view[d] = Nothing
      /\ sent = {}
  BY DEF Init
<1>4. \A d \in Devices : MaxSeq[d] \in Nat
  BY MaxSeqAssumption
<1>5. TypeOK
  BY <1>1, <1>2, <1>4 DEF Init, TypeOK
<1>6. NothingFromNowhere
  BY <1>1, <1>2, <1>3 DEF NothingFromNowhere
<1>7. HistoryAccumulates /\ ProjectionParents
  BY <1>2, <1>3 DEF HistoryAccumulates, ProjectionParents
<1>8. NewestObservesRecord /\ SentWereMade
  BY <1>1, <1>3 DEF NewestObservesRecord, SentWereMade
<1> QED BY <1>5, <1>6, <1>7, <1>8 DEF IInv

(* Each operation keeps the invariant.                                       *)
LEMMA EditKeepsInvariant ==
    ASSUME IInv, NEW d \in Devices, Edit(d) PROVE IInv'
<1>1. rec[d][d] \in Nat /\ rec \in [Devices -> Frontier] /\ view \in [Devices -> Frontier]
  BY DEF IInv, TypeOK, Frontier
<1>2. Record(d, FALSE, FALSE, rec[d][d]) /\ sent' = sent
      /\ view' = [view EXCEPT ![d] = [view[d] EXCEPT ![d] = rec[d][d] + 1]]
  BY DEF Edit
<1>3. /\ rec'[d][d] = rec[d][d] + 1
      /\ \A o \in Devices \ {d} : rec'[d][o] = rec[d][o]
  BY <1>1, <1>2, RecordFacts
<1>4. [view[d] EXCEPT ![d] = rec[d][d] + 1] \in Frontier
  BY <1>1 DEF Frontier
<1>5. /\ view' \in [Devices -> Frontier]
      /\ \A e \in Devices \ {d} : view'[e] = view[e]
      /\ view'[d] = [view[d] EXCEPT ![d] = rec[d][d] + 1]
  BY <1>1, <1>2, <1>4
<1>6. view'[d][d] = rec[d][d] + 1 /\ \A o \in Devices \ {d} : view'[d][o] = view[d][o]
  BY <1>1, <1>5 DEF Frontier
<1>7. \A o \in Devices : view'[d][o] <= rec'[d][o]
  BY <1>1, <1>3, <1>6 DEF IInv, NothingFromNowhere
<1> QED BY <1>1, <1>2, <1>5, <1>7, RecordKeepsInvariant

LEMMA MaterializeKeepsInvariant ==
    ASSUME IInv, NEW d \in Devices, Materialize(d) PROVE IInv'
<1>2. rec[d][d] \in Nat /\ \A o \in Devices : rec[d][o] \in Nat
  BY DEF IInv, TypeOK, Frontier
<1>3. PICK parent \in Nat :
        /\ parent = Publishable(d)
        /\ \/ parent = 0
           \/ parent \in 1..rec[d][d] /\ ~made[d][parent].local
  BY <1>2, PublishableIsAnEdit
<1>1. Record(d, TRUE, TRUE, parent) /\ sent' = sent /\ view' = view
  BY <1>3 DEF Materialize
<1>4. /\ rec'[d][d] = rec[d][d] + 1
      /\ \A o \in Devices \ {d} : rec'[d][o] = rec[d][o]
  BY <1>1, <1>3, RecordFacts
<1>5. view' \in [Devices -> Frontier] /\ \A e \in Devices \ {d} : view'[e] = view[e]
  BY <1>1 DEF IInv, TypeOK
<1>6. \A o \in Devices : view'[d][o] <= rec'[d][o]
  <2>1. \A o \in Devices : view[d][o] \in Nat /\ view[d][o] <= rec[d][o]
    BY DEF IInv, TypeOK, Frontier, NothingFromNowhere
  <2> QED BY <1>1, <1>2, <1>4, <2>1
<1> QED BY <1>1, <1>3, <1>5, <1>6, RecordKeepsInvariant

LEMMA HandoffKeepsInvariant ==
    ASSUME IInv, NEW d \in Devices, Handoff(d) PROVE IInv'
<1>1. Record(d, FALSE, TRUE, rec[d][d]) /\ sent' = sent /\ view' = view
  BY DEF Handoff
<1>2. rec[d][d] \in Nat /\ \A o \in Devices : rec[d][o] \in Nat
  BY DEF IInv, TypeOK, Frontier
<1>4. /\ rec'[d][d] = rec[d][d] + 1
      /\ \A o \in Devices \ {d} : rec'[d][o] = rec[d][o]
  BY <1>1, <1>2, RecordFacts
<1>5. view' \in [Devices -> Frontier] /\ \A e \in Devices \ {d} : view'[e] = view[e]
  BY <1>1 DEF IInv, TypeOK
<1>6. \A o \in Devices : view'[d][o] <= rec'[d][o]
  <2>1. \A o \in Devices : view[d][o] \in Nat /\ view[d][o] <= rec[d][o]
    BY DEF IInv, TypeOK, Frontier, NothingFromNowhere
  <2> QED BY <1>1, <1>2, <1>4, <2>1
<1> QED BY <1>1, <1>2, <1>5, <1>6, RecordKeepsInvariant

LEMMA RefreshViewKeepsInvariant ==
    ASSUME IInv, NEW d \in Devices, RefreshView(d) PROVE IInv'
<1> USE DEF IInv
<1>1. view' = [view EXCEPT ![d] = rec[d]] /\ UNCHANGED <<made, rec, blocks, sent>>
  BY DEF RefreshView
<1>2. view' \in [Devices -> Frontier] /\ view'[d] = rec[d]
      /\ \A e \in Devices \ {d} : view'[e] = view[e]
  BY <1>1 DEF TypeOK
<1>3. TypeOK'
  BY <1>1, <1>2 DEF TypeOK
<1>4. \A e, o \in Devices : view'[e][o] <= rec[e][o]
  <2>1. \A o \in Devices : rec[d][o] \in Nat
    BY DEF TypeOK, Frontier
  <2> QED BY <1>2, <2>1 DEF NothingFromNowhere
<1>5. NothingFromNowhere'
  BY <1>1, <1>4 DEF NothingFromNowhere
<1>6. /\ HistoryAccumulates' /\ NewestObservesRecord'
      /\ SentWereMade' /\ ProjectionParents'
  BY <1>1 DEF HistoryAccumulates, NewestObservesRecord, Current, SentWereMade, ProjectionParents
<1> QED BY <1>3, <1>5, <1>6

LEMMA AnnounceKeepsInvariant ==
    ASSUME IInv, NEW d \in Devices, Announce(d) PROVE IInv'
<1> USE DEF IInv
<1>1. /\ sent' = sent \cup {<<d, Announced(d)>>} /\ Announced(d) > 0
      /\ UNCHANGED <<made, rec, blocks, view>>
  BY DEF Announce
<1>2. rec[d][d] \in Nat /\ Len(made[d]) = rec[d][d]
  BY DEF TypeOK, Frontier, NothingFromNowhere
<1>3. Announced(d) \in 1..Len(made[d])
  BY <1>1, <1>2, PublishableIsAnEdit DEF Announced
<1>4. TypeOK'
  BY <1>1, <1>3 DEF TypeOK
<1>5. SentWereMade'
  BY <1>1, <1>3 DEF SentWereMade
<1>6. NothingFromNowhere'
  BY <1>1 DEF NothingFromNowhere
<1>7. HistoryAccumulates' /\ NewestObservesRecord' /\ ProjectionParents'
  BY <1>1 DEF HistoryAccumulates, NewestObservesRecord, Current, ProjectionParents
<1> QED BY <1>4, <1>5, <1>6, <1>7

LEMMA DownloadKeepsInvariant ==
    ASSUME IInv, NEW d \in Devices, NEW o \in Devices, Download(d, o) PROVE IInv'
<1> USE DEF IInv
<1>1. /\ blocks' = [blocks EXCEPT ![d] = @ \cup {<<o, rec[d][o]>>}]
      /\ UNCHANGED <<made, rec, view, sent>>
  BY DEF Download
<1>2. rec[d][o] \in Nat
  BY DEF TypeOK, Frontier
<1>3. TypeOK'
  BY <1>1, <1>2 DEF TypeOK
<1>4. NothingFromNowhere'
  BY <1>1 DEF NothingFromNowhere
<1>5. /\ HistoryAccumulates' /\ NewestObservesRecord'
      /\ SentWereMade' /\ ProjectionParents'
  BY <1>1 DEF HistoryAccumulates, NewestObservesRecord, Current, SentWereMade, ProjectionParents
<1> QED BY <1>3, <1>4, <1>5

(* A device never learns a root of its own: what was sent was made, and what *)
(* was made is on its record.                                                *)
LEMMA LearnKeepsInvariant ==
    ASSUME IInv, NEW d \in Devices, NEW o \in Devices, NEW seq \in Nat, Learn(d, o, seq)
    PROVE  IInv'
<1> USE DEF IInv
<1>1. /\ <<o, seq>> \in sent /\ seq > rec[d][o]
      /\ rec' = [rec EXCEPT ![d] = [rec[d] EXCEPT ![o] = seq]]
      /\ UNCHANGED <<made, blocks, view, sent>>
  BY DEF Learn
<1>2. /\ rec \in [Devices -> Frontier] /\ \A e, p \in Devices : rec[e][p] \in Nat
      /\ \A e, p \in Devices : view[e][p] \in Nat
  BY DEF TypeOK, Frontier
<1>3. seq \in 1..Len(made[o]) /\ rec[o][o] = Len(made[o])
  BY <1>1 DEF SentWereMade, NothingFromNowhere
<1>4. o # d
  BY <1>1, <1>2, <1>3
<1>5. [rec[d] EXCEPT ![o] = seq] \in Frontier
  BY <1>2 DEF Frontier
<1>6. rec' \in [Devices -> Frontier] /\ rec'[d] = [rec[d] EXCEPT ![o] = seq]
      /\ \A e \in Devices \ {d} : rec'[e] = rec[e]
  BY <1>1, <1>2, <1>5
<1>7. rec'[d][o] = seq /\ \A p \in Devices \ {o} : rec'[d][p] = rec[d][p]
  BY <1>2, <1>6 DEF Frontier
<1>8. \A e \in Devices : rec'[e][e] = rec[e][e]
  BY <1>4, <1>6, <1>7
<1>9. \A e, p \in Devices : ~(e = d /\ p = o) => rec'[e][p] = rec[e][p]
  BY <1>6, <1>7
<1>10. \A e, p \in Devices : rec[e][p] <= rec'[e][p]
  BY <1>1, <1>2, <1>7, <1>9
<1>11. TypeOK'
  BY <1>1, <1>6 DEF TypeOK
<1>12. NothingFromNowhere'
  <2>1. \A e \in Devices : rec'[e][e] = Len(made'[e])
    BY <1>1, <1>8 DEF NothingFromNowhere
  <2>2. \A e, p \in Devices : view'[e][p] <= rec'[e][p]
    <3> TAKE e, p \in Devices
    <3>1. view[e][p] <= rec[e][p] /\ rec[e][p] <= rec'[e][p] /\ view'[e][p] = view[e][p]
      BY <1>1, <1>10 DEF NothingFromNowhere
    <3>2. rec'[e][p] \in Nat
      BY <1>6 DEF Frontier
    <3> QED BY <1>2, <3>1, <3>2
  <2>3. \A e, p \in Devices : rec'[e][p] <= rec'[p][p]
    <3> TAKE e, p \in Devices
    <3>1. CASE e = d /\ p = o
      BY <1>3, <1>7, <1>8, <3>1
    <3>2. CASE ~(e = d /\ p = o)
      BY <1>8, <1>9, <3>2 DEF NothingFromNowhere
    <3> QED BY <3>1, <3>2
  <2>4. \A e, p \in Devices : e # p /\ rec'[e][p] > 0 => <<p, rec'[e][p]>> \in sent'
    BY <1>1, <1>7, <1>9 DEF NothingFromNowhere
  <2> QED BY <2>1, <2>2, <2>3, <2>4 DEF NothingFromNowhere
<1>13. NewestObservesRecord'
  <2> SUFFICES ASSUME NEW e \in Devices, NEW p \in Devices, rec'[e][e] > 0
               PROVE  made'[e][rec'[e][e]].observed[p] <= rec'[e][p]
    BY DEF NewestObservesRecord, Current
  <2>1. rec'[e][e] = rec[e][e] /\ made' = made
    BY <1>1, <1>8
  <2>2. made[e][rec[e][e]].observed[p] <= rec[e][p]
    BY <2>1 DEF NewestObservesRecord, Current
  <2>3. made[e][rec[e][e]].observed[p] \in Nat
    <3>1. made[e] \in Seq(Root) /\ rec[e][e] = Len(made[e]) /\ rec[e][e] > 0
      BY <2>1 DEF TypeOK, NothingFromNowhere
    <3>2. made[e][rec[e][e]] \in Root
      BY <1>2, <3>1
    <3> QED BY <3>2 DEF Root, Frontier
  <2>4. rec[e][p] <= rec'[e][p] /\ rec'[e][p] \in Nat
    BY <1>6, <1>10 DEF Frontier
  <2> QED BY <1>2, <2>1, <2>2, <2>3, <2>4
<1>14. HistoryAccumulates' /\ SentWereMade' /\ ProjectionParents'
  BY <1>1 DEF HistoryAccumulates, SentWereMade, ProjectionParents
<1> QED BY <1>11, <1>12, <1>13, <1>14

LEMMA NextKeepsInvariant == IInv /\ [Next]_vars => IInv'
<1> SUFFICES ASSUME IInv, [Next]_vars PROVE IInv'
  OBVIOUS
<1>1. CASE UNCHANGED vars
  BY <1>1 DEF vars, IInv, TypeOK, NothingFromNowhere, HistoryAccumulates,
     NewestObservesRecord, Current, SentWereMade, ProjectionParents
<1>2. CASE Next
  <2> PICK d \in Devices :
        \/ Edit(d) \/ RefreshView(d) \/ Materialize(d) \/ Handoff(d) \/ Announce(d)
        \/ \E o \in Devices : Download(d, o)
        \/ \E root \in sent : Learn(d, root[1], root[2])
    BY <1>2 DEF Next
  <2>1. CASE Edit(d)
    BY <2>1, EditKeepsInvariant
  <2>2. CASE RefreshView(d)
    BY <2>2, RefreshViewKeepsInvariant
  <2>3. CASE Materialize(d)
    BY <2>3, MaterializeKeepsInvariant
  <2>4. CASE Handoff(d)
    BY <2>4, HandoffKeepsInvariant
  <2>5. CASE Announce(d)
    BY <2>5, AnnounceKeepsInvariant
  <2>6. CASE \E o \in Devices : Download(d, o)
    BY <2>6, DownloadKeepsInvariant
  <2>7. CASE \E root \in sent : Learn(d, root[1], root[2])
    <3> PICK root \in sent : Learn(d, root[1], root[2])
      BY <2>7
    <3>1. root[1] \in Devices /\ root[2] \in Nat
      BY DEF IInv, TypeOK
    <3> QED BY <3>1, LearnKeepsInvariant
  <2> QED BY <2>1, <2>2, <2>3, <2>4, <2>5, <2>6, <2>7
<1> QED BY <1>1, <1>2

LEMMA InvariantHolds == Spec => []IInv
<1>1. Init => IInv
  BY InitEstablishesInvariant
<1>2. IInv /\ [Next]_vars => IInv'
  BY NextKeepsInvariant
<1> QED BY <1>1, <1>2, PTL DEF Spec

-----------------------------------------------------------------------------
(* Records, blocks, views and announcements keep their types.                *)
THEOREM TypeCorrect == Spec => []TypeOK
<1>1. IInv => TypeOK
  BY DEF IInv
<1> QED BY <1>1, InvariantHolds, PTL

(* No device records, shows or observes a root its owner has not made and    *)
(* announced, however announcements are delayed, repeated or lost.           *)
THEOREM RecordsAreGenuine == Spec => []NothingFromNowhere
<1>1. IInv => NothingFromNowhere
  BY DEF IInv
<1> QED BY <1>1, InvariantHolds, PTL

(* Along one device's roots the observed frontier only grows.                *)
THEOREM CausalityAccumulates == Spec => []HistoryAccumulates
<1>1. IInv => HistoryAccumulates
  BY DEF IInv
<1> QED BY <1>1, InvariantHolds, PTL

-----------------------------------------------------------------------------
(* A device without a native shell announces what is publishable only, and   *)
(* a made root keeps its kind.                                               *)
LEMMA ProjectionsStayLocalStep ==
    ASSUME Native = {}, IInv, ProjectionsStayLocal, [Next]_vars
    PROVE  ProjectionsStayLocal'
<1> DEFINE SameRoots == \A o \in Devices, i \in Nat :
             i \in 1..Len(made[o]) => made'[o][i] = made[o][i]
<1>1. \A d \in Devices, local \in BOOLEAN, whole \in BOOLEAN, parent \in Nat :
        Record(d, local, whole, parent) => SameRoots
  <2> TAKE d \in Devices, local \in BOOLEAN, whole \in BOOLEAN, parent \in Nat
  <2> HAVE Record(d, local, whole, parent)
  <2>1. /\ \A o \in Devices \ {d} : made'[o] = made[o]
        /\ Len(made[d]) = rec[d][d]
        /\ \A i \in 1..rec[d][d] : made'[d][i] = made[d][i]
    BY RecordFacts, ZenonT(30)
  <2> QED BY <2>1
<1>2. SameRoots /\ sent' = sent => ProjectionsStayLocal'
  BY DEF ProjectionsStayLocal, IInv, SentWereMade
<1>3. CASE UNCHANGED vars
  BY <1>3 DEF vars, ProjectionsStayLocal
<1>4. CASE Next
  <2> PICK d \in Devices :
        \/ Edit(d) \/ RefreshView(d) \/ Materialize(d) \/ Handoff(d) \/ Announce(d)
        \/ \E o \in Devices : Download(d, o)
        \/ \E root \in sent : Learn(d, root[1], root[2])
    BY <1>4 DEF Next
  <2>1. rec[d][d] \in Nat /\ Publishable(d) \in 0..rec[d][d]
        /\ (Publishable(d) > 0 => ~made[d][Publishable(d)].local)
    BY PublishableIsAnEdit DEF IInv, TypeOK, Frontier
  <2>2. CASE Edit(d)
    BY <1>1, <1>2, <2>1, <2>2 DEF Edit
  <2>3. CASE Materialize(d)
    <3> PICK parent \in Nat : parent = Publishable(d)
      BY <2>1
    <3>1. Record(d, TRUE, TRUE, parent) /\ sent' = sent
      BY <2>3 DEF Materialize
    <3> QED BY <1>1, <1>2, <3>1
  <2>4. CASE Handoff(d)
    BY <1>1, <1>2, <2>1, <2>4 DEF Handoff
  <2>5. CASE Announce(d)
    <3>1. sent' = sent \cup {<<d, Publishable(d)>>} /\ Publishable(d) > 0 /\ made' = made
      BY <2>5 DEF Announce, Announced
    <3> QED BY <2>1, <3>1 DEF ProjectionsStayLocal
  <2>6. CASE RefreshView(d) \/ (\E o \in Devices : Download(d, o))
               \/ (\E root \in sent : Learn(d, root[1], root[2]))
    <3>1. made' = made /\ sent' = sent
      BY <2>6 DEF RefreshView, Download, Learn
    <3> QED BY <3>1 DEF ProjectionsStayLocal
  <2> QED BY <2>2, <2>3, <2>4, <2>5, <2>6
<1> QED BY <1>3, <1>4

(* With CLI devices only, a local-only projection is never announced.        *)
THEOREM ProjectionsAreNeverAnnounced ==
    Native = {} => (Spec => []ProjectionsStayLocal)
<1> SUFFICES ASSUME Native = {} PROVE Spec => []ProjectionsStayLocal
  OBVIOUS
<1>1. Init => ProjectionsStayLocal
  BY DEF Init, ProjectionsStayLocal
<1>2. IInv /\ ProjectionsStayLocal /\ [Next]_vars => ProjectionsStayLocal'
  BY ProjectionsStayLocalStep
<1> QED BY <1>1, <1>2, InvariantHolds, PTL DEF Spec

-----------------------------------------------------------------------------
(* What a projection is made for: its predecessor, which was an edit, or a   *)
(* publishable root of somebody else that the predecessor did not observe.   *)
OwnNews(d, i) == i > 1 /\ i - 1 \in Edits(d)

NewsFrom(o, d, i) ==
    /\ o # d /\ made[d][i].observed[o] \in Edits(o)
    /\ i > 1 => made[d][i - 1].observed[o] < made[d][i].observed[o]

ProjectionsHaveNews ==
    \A d \in Devices : \A i \in Projections(d) :
        made[d][i].whole /\ (OwnNews(d, i) \/ \E o \in Devices : NewsFrom(o, d, i))

FrontiersGrow ==
    \A d, o \in Devices : \A i, j \in 1..Len(made[d]) :
        i <= j => made[d][i].observed[o] <= made[d][j].observed[o]

NewsInv == ProjectionsHaveNews /\ FrontiersGrow

LEMMA RootTypes ==
    ASSUME IInv, NEW d \in Devices
    PROVE  /\ DOMAIN made[d] = 1..Len(made[d]) /\ Len(made[d]) \in Nat
           /\ rec[d][d] = Len(made[d])
           /\ \A i \in 1..Len(made[d]) : /\ made[d][i].local \in BOOLEAN
                                         /\ \A o \in Devices : made[d][i].observed[o] \in Nat
           /\ \A o \in Devices : rec[d][o] \in Nat
<1>1. made[d] \in Seq(Root) /\ rec[d] \in Frontier /\ rec[d][d] = Len(made[d])
  BY DEF IInv, TypeOK, NothingFromNowhere
<1>2. \A i \in 1..Len(made[d]) : made[d][i] \in Root
  BY <1>1
<1> QED BY <1>1, <1>2 DEF Root, Frontier

(* Roots are only added; one that is a projection has its news.              *)
LEMMA ProjectionReasons ==
    ASSUME IInv, NewsInv, ProjectionsStayLocal, NEW d \in Devices, Materialize(d)
    PROVE  \/ rec[d][d] > 0 /\ ~Current(d).local
           \/ \E o \in Devices \ {d} :
                /\ rec[d][o] \in Edits(o)
                /\ rec[d][d] > 0 => Current(d).observed[o] < rec[d][o]
<1>1. \A o \in Devices \ {d} : rec[d][o] > 0 => rec[d][o] \in Edits(o)
  <2> SUFFICES ASSUME NEW o \in Devices \ {d}, rec[d][o] > 0 PROVE rec[d][o] \in Edits(o)
    OBVIOUS
  <2>1. <<o, rec[d][o]>> \in sent
    BY DEF IInv, NothingFromNowhere
  <2>2. rec[d][o] \in 1..Len(made[o])
    BY <2>1, RootTypes DEF IInv, SentWereMade
  <2> QED BY <2>1, <2>2, RootTypes DEF ProjectionsStayLocal, Edits, Projections
<1>2. CASE rec[d][d] = 0
  <2>1. PICK o \in Devices : rec[d][o] # 0
    BY DEF Materialize, IInv, TypeOK, Frontier, Nothing
  <2> QED BY <1>1, <1>2, <2>1, RootTypes
<1>3. CASE rec[d][d] > 0
  <2>1. rec[d][d] \in 1..Len(made[d])
    BY <1>3, RootTypes
  <2>2. CASE ~Current(d).whole
    BY <1>3, <2>1, <2>2, RootTypes DEF Current, NewsInv, ProjectionsHaveNews, Projections
  <2>3. CASE ~ObservesRecord(d)
    <3>1. PICK o \in Devices \ {d} : ~(rec[d][o] <= Current(d).observed[o])
      BY <1>3, <2>3 DEF ObservesRecord
    <3>2. Current(d).observed[o] \in Nat /\ rec[d][o] \in Nat
      BY <2>1, RootTypes DEF Current
    <3>3. Current(d).observed[o] < rec[d][o] /\ rec[d][o] > 0
      BY <3>1, <3>2
    <3> QED BY <1>1, <3>3
  <2> QED BY <2>2, <2>3 DEF Materialize
<1> QED BY <1>2, <1>3, RootTypes

(* A new root keeps all this, if it has news where it is a projection.       *)
LEMMA RecordKeepsNews ==
    ASSUME IInv, IInv', NewsInv, NEW d \in Devices, NEW local \in BOOLEAN, NEW whole \in BOOLEAN,
           NEW parent \in Nat, Record(d, local, whole, parent),
           local => /\ whole
                    /\ \/ rec[d][d] > 0 /\ ~Current(d).local
                       \/ \E o \in Devices \ {d} :
                            /\ rec[d][o] \in Edits(o)
                            /\ rec[d][d] > 0 => Current(d).observed[o] < rec[d][o]
    PROVE  NewsInv'
<1>1. PICK n \in Nat : n = rec[d][d] + 1 /\ rec[d][d] \in Nat
  <2>1. rec[d][d] \in Nat
    BY RootTypes
  <2> QED BY <2>1
<1>2. rec[d][d] \in Nat /\ n = rec[d][d] + 1 /\ n - 1 = rec[d][d]
  BY <1>1
<1>3. /\ \A o \in Devices \ {d} : made'[o] = made[o]
      /\ Len(made'[d]) = n /\ Len(made[d]) = n - 1
      /\ \A i \in 1..(n - 1) : made'[d][i] = made[d][i]
      /\ made'[d][n].local = local /\ made'[d][n].whole = whole
      /\ made'[d][n].observed = rec[d]
  <2> DEFINE new == [local |-> local, whole |-> whole, parent |-> parent, observed |-> rec[d]]
  <2>1. made \in [Devices -> Seq(Root)] /\ Len(made[d]) = rec[d][d] /\ new \in Root
    BY DEF IInv, TypeOK, NothingFromNowhere, Root
  <2>2. made' = [made EXCEPT ![d] = Append(made[d], new)]
    BY DEF Record
  <2>3. new.local = local /\ new.whole = whole /\ new.observed = rec[d]
    OBVIOUS
  <2> HIDE DEF new
  <2>4. made'[d] = Append(made[d], new) /\ \A o \in Devices \ {d} : made'[o] = made[o]
    BY <2>1, <2>2
  <2>5. made[d] \in Seq(Root)
    BY <2>1
  <2>6. /\ Len(Append(made[d], new)) = n /\ Append(made[d], new)[n] = new
        /\ \A i \in 1..(n - 1) : Append(made[d], new)[i] = made[d][i]
    BY <1>2, <2>1, <2>5
  <2> QED BY <1>2, <2>1, <2>3, <2>4, <2>6
<1>4. /\ \A o \in Devices : DOMAIN made[o] = 1..Len(made[o]) /\ Len(made[o]) \in Nat
      /\ \A o \in Devices : DOMAIN made'[o] = 1..Len(made'[o])
  <2>1. made' \in [Devices -> Seq(Root)]
    BY DEF IInv, TypeOK
  <2> QED BY <2>1, RootTypes
<1>5. ASSUME NEW i \in 1..Len(made[d])
      PROVE  i \in 1..Len(made'[d]) /\ i # n /\ made'[d][i] = made[d][i]
  <2>1. i \in 1..(n - 1)
    BY <1>3
  <2>2. i \in 1..n /\ i # n
    BY <1>2, <2>1
  <2> QED BY <1>3, <2>1, <2>2
<1>6. n > 1 => /\ rec[d][d] > 0 /\ n - 1 \in 1..Len(made[d])
                /\ made'[d][n - 1] = Current(d)
  <2> SUFFICES ASSUME n > 1 PROVE rec[d][d] > 0 /\ n - 1 \in 1..Len(made[d])
                                    /\ made'[d][n - 1] = Current(d)
    OBVIOUS
  <2>1. n - 1 \in 1..(n - 1) /\ rec[d][d] > 0
    BY <1>2
  <2> QED BY <1>3, <1>2, <2>1 DEF Current
<1>7. \A o \in Devices : Edits(o) \subseteq Edits(o)'
  <2> SUFFICES ASSUME NEW o \in Devices, NEW i \in Edits(o) PROVE i \in Edits(o)'
    OBVIOUS
  <2>1. i \in 1..Len(made[o]) /\ ~made[o][i].local
    BY <1>4 DEF Edits, Projections
  <2>2. i \in 1..Len(made'[o]) /\ made'[o][i] = made[o][i]
    BY <1>3, <1>5, <2>1
  <2> QED BY <1>4, <2>1, <2>2 DEF Edits, Projections
<1>8. ASSUME NEW e \in Devices, NEW i \in 1..Len(made'[e])
      PROVE  \/ e = d /\ i = n
             \/ i \in 1..Len(made[e]) /\ made'[e][i] = made[e][i]
                  /\ (i > 1 => made'[e][i - 1] = made[e][i - 1])
  <2>1. CASE e # d
    BY <1>3, <1>8, <2>1
  <2>2. CASE e = d /\ i # n
    <3>1. i \in 1..n /\ i # n
      BY <1>3, <2>2
    <3>2. i \in 1..(n - 1) /\ (i > 1 => i - 1 \in 1..(n - 1))
      BY <1>2, <3>1
    <3> QED BY <1>3, <2>2, <3>2
  <2> QED BY <2>1, <2>2
<1>9. ASSUME NEW e \in Devices, NEW i \in Projections(e)'
      PROVE  made'[e][i].whole /\ (OwnNews(e, i)' \/ \E o \in Devices : NewsFrom(o, e, i)')
  <2>0. i \in 1..Len(made'[e]) /\ made'[e][i].local
    BY <1>4 DEF Projections
  <2>1. CASE i \in 1..Len(made[e]) /\ made'[e][i] = made[e][i]
                  /\ (i > 1 => made'[e][i - 1] = made[e][i - 1])
    <3>1. i \in Projections(e)
      BY <1>4, <2>0, <2>1 DEF Projections
    <3>2. made[e][i].whole /\ (OwnNews(e, i) \/ \E o \in Devices : NewsFrom(o, e, i))
      BY <3>1 DEF NewsInv, ProjectionsHaveNews
    <3> QED BY <1>7, <2>1, <3>2 DEF OwnNews, NewsFrom
  <2>2. CASE e = d /\ i = n
    <3>1. local /\ whole
      BY <1>3, <2>0, <2>2
    <3>2. CASE rec[d][d] > 0 /\ ~Current(d).local
      <4>1. i > 1 /\ i - 1 = rec[d][d] /\ rec[d][d] \in Edits(d)
        <5>1. i > 1 /\ i - 1 = rec[d][d]
          BY <1>2, <2>2, <3>2
        <5>2. rec[d][d] \in 1..Len(made[d]) /\ ~made[d][rec[d][d]].local
          BY <1>2, <1>6, <2>2, <3>2, <5>1 DEF Current
        <5> QED BY <1>4, <5>1, <5>2 DEF Edits, Projections
      <4> QED BY <1>3, <1>7, <2>2, <3>1, <4>1 DEF OwnNews
    <3>3. ASSUME NEW o \in Devices \ {d}, rec[d][o] \in Edits(o),
                 rec[d][d] > 0 => Current(d).observed[o] < rec[d][o]
          PROVE  NewsFrom(o, d, n)'
      <4>1. made'[d][n].observed[o] = rec[d][o]
        BY <1>3
      <4>2. n > 1 => made'[d][n - 1] = Current(d) /\ rec[d][d] > 0
        BY <1>6
      <4>3. made'[d][n].observed[o] \in Edits(o)'
        BY <1>7, <3>3, <4>1
      <4>4. n > 1 => made'[d][n - 1].observed[o] < made'[d][n].observed[o]
        BY <3>3, <4>1, <4>2
      <4> QED BY <3>3, <4>3, <4>4 DEF NewsFrom
    <3> QED BY <1>3, <2>2, <3>1, <3>2, <3>3
  <2> QED BY <1>8, <2>0, <2>1, <2>2
<1>10. ASSUME NEW e \in Devices, NEW o \in Devices, NEW i \in 1..Len(made'[e]),
             NEW j \in 1..Len(made'[e]), i <= j
      PROVE  made'[e][i].observed[o] <= made'[e][j].observed[o]
  <2>1. CASE e # d \/ j # n
    <3>1. /\ i \in 1..Len(made[e]) /\ made'[e][i] = made[e][i]
          /\ j \in 1..Len(made[e]) /\ made'[e][j] = made[e][j]
      <4>1. e = d => i # n /\ j # n
        BY <1>3, <1>2, <1>10, <2>1
      <4> QED BY <1>8, <4>1
    <3> QED BY <1>10, <3>1 DEF NewsInv, FrontiersGrow
  <2>2. CASE e = d /\ j = n /\ i = n
    BY <1>3, <2>2, RootTypes
  <2>3. CASE e = d /\ j = n /\ i # n
    <3>1. i \in 1..Len(made[d]) /\ rec[d][d] \in 1..Len(made[d]) /\ i <= rec[d][d]
      <4>1. i \in 1..n /\ i # n
        BY <1>3, <2>3
      <4>2. i \in 1..(n - 1) /\ n - 1 \in 1..(n - 1) /\ i <= n - 1
        BY <1>2, <4>1
      <4> QED BY <1>3, <1>2, <4>2
    <3>2. made[d][i].observed[o] <= made[d][rec[d][d]].observed[o]
      BY <1>3, <3>1 DEF NewsInv, FrontiersGrow
    <3>3. made[d][rec[d][d]].observed[o] <= rec[d][o]
      BY <1>2, <3>1 DEF IInv, NewestObservesRecord, Current
    <3>4. made[d][i].observed[o] \in Nat /\ made[d][rec[d][d]].observed[o] \in Nat
          /\ rec[d][o] \in Nat
      BY <3>1, RootTypes
    <3>5. made'[d][i] = made[d][i] /\ made'[d][n].observed[o] = rec[d][o]
      BY <1>3, <3>1
    <3> QED BY <2>3, <3>2, <3>3, <3>4, <3>5
  <2> QED BY <2>1, <2>2, <2>3
<1> QED BY <1>9, <1>10 DEF NewsInv, ProjectionsHaveNews, FrontiersGrow

LEMMA NewsStep ==
    ASSUME IInv, IInv', NewsInv, ProjectionsStayLocal, [Next]_vars
    PROVE  NewsInv'
<1>1. CASE made' = made
  BY <1>1 DEF NewsInv, ProjectionsHaveNews, FrontiersGrow, OwnNews, NewsFrom, Edits, Projections
<1>2. ASSUME NEW d \in Devices, Edit(d) \/ Handoff(d) PROVE NewsInv'
  <2>1. rec[d][d] \in Nat
    BY RootTypes
  <2>2. \E whole \in BOOLEAN : Record(d, FALSE, whole, rec[d][d])
    BY <1>2 DEF Edit, Handoff
  <2> QED BY <2>1, <2>2, RecordKeepsNews
<1>3. ASSUME NEW d \in Devices, Materialize(d) PROVE NewsInv'
  <2>1. PICK parent \in Nat : parent = Publishable(d)
    BY PublishableIsAnEdit, RootTypes
  <2>2. Record(d, TRUE, TRUE, parent)
    BY <1>3, <2>1 DEF Materialize
  <2> QED BY <1>3, <2>2, ProjectionReasons, RecordKeepsNews
<1>4. CASE UNCHANGED vars
  BY <1>1, <1>4 DEF vars
<1>5. ASSUME NEW d \in Devices,
             \/ RefreshView(d) \/ Announce(d) \/ \E o \in Devices : Download(d, o)
             \/ \E root \in sent : Learn(d, root[1], root[2])
      PROVE  NewsInv'
  BY <1>1, <1>5 DEF RefreshView, Announce, Download, Learn
<1> QED BY <1>2, <1>3, <1>4, <1>5 DEF Next

(* No two projections of a device have the same news.                        *)
LEMMA NewsIsCounted ==
    ASSUME IInv, NewsInv, NEW d \in Devices
    PROVE  Cardinality(Projections(d))
               <= Cardinality(UNION {{o} \X Edits(o) : o \in Devices})
<1> DEFINE all == UNION {{o} \X Edits(o) : o \in Devices}
           source(i) == IF OwnNews(d, i) THEN d
                        ELSE CHOOSE o \in Devices : NewsFrom(o, d, i)
           news(i) == IF OwnNews(d, i) THEN <<d, i - 1>>
                      ELSE <<source(i), made[d][i].observed[source(i)]>>
           f == [i \in Projections(d) |-> news(i)]
<1>1. ASSUME NEW i \in Projections(d), ~OwnNews(d, i)
      PROVE  source(i) \in Devices /\ NewsFrom(source(i), d, i)
  <2>1. \E o \in Devices : NewsFrom(o, d, i)
    BY <1>1 DEF NewsInv, ProjectionsHaveNews
  <2> QED BY <1>1, <2>1
<1>2. ASSUME NEW i \in Projections(d) PROVE news(i) \in all
  <2>1. CASE OwnNews(d, i)
    BY <2>1 DEF OwnNews
  <2>2. CASE ~OwnNews(d, i)
    <3>1. source(i) \in Devices /\ made[d][i].observed[source(i)] \in Edits(source(i))
      BY <1>1, <2>2 DEF NewsFrom
    <3> HIDE DEF source
    <3> QED BY <2>2, <3>1
  <2> QED BY <2>1, <2>2
<1>3. ASSUME NEW i \in Projections(d), NEW j \in Projections(d), i < j
      PROVE  news(i) # news(j)
  <2>0. i \in 1..Len(made[d]) /\ j \in 1..Len(made[d]) /\ Len(made[d]) \in Nat
    BY RootTypes DEF Projections
  <2>1. CASE OwnNews(d, i) /\ OwnNews(d, j)
    BY <1>3, <2>0, <2>1
  <2>2. CASE OwnNews(d, i) /\ ~OwnNews(d, j)
    <3>1. source(j) # d
      BY <1>1, <2>2 DEF NewsFrom
    <3> HIDE DEF source
    <3> QED BY <2>2, <3>1
  <2>3. CASE ~OwnNews(d, i) /\ OwnNews(d, j)
    <3>1. source(i) # d
      BY <1>1, <2>3 DEF NewsFrom
    <3> HIDE DEF source
    <3> QED BY <2>3, <3>1
  <2>4. CASE ~OwnNews(d, i) /\ ~OwnNews(d, j)
    <3>1. /\ NewsFrom(source(j), d, j) /\ source(j) \in Devices
      BY <1>1, <2>4
    <3> HIDE DEF source
    <3> SUFFICES ASSUME source(i) = source(j),
                        made[d][i].observed[source(j)] = made[d][j].observed[source(j)]
                 PROVE  FALSE
      BY <2>4
    <3>2. j > 1 /\ made[d][j - 1].observed[source(j)] < made[d][j].observed[source(j)]
      BY <1>3, <2>0, <3>1 DEF NewsFrom
    <3>3. made[d][i].observed[source(j)] <= made[d][j - 1].observed[source(j)]
      <4>1. i <= j - 1 /\ j - 1 \in 1..Len(made[d])
        BY <1>3, <2>0
      <4> QED BY <2>0, <3>1, <4>1 DEF NewsInv, FrontiersGrow
    <3>4. /\ made[d][i].observed[source(j)] \in Nat /\ made[d][j].observed[source(j)] \in Nat
          /\ made[d][j - 1].observed[source(j)] \in Nat
      <4>1. j - 1 \in 1..Len(made[d])
        BY <1>3, <2>0
      <4> QED BY <2>0, <3>1, <4>1, RootTypes
    <3> QED BY <3>2, <3>3, <3>4
  <2> QED BY <2>1, <2>2, <2>3, <2>4
<1>4. f \in Injection(Projections(d), all)
  <2>1. \A i \in Projections(d) : i \in Nat
    BY RootTypes DEF Projections
  <2>2. ASSUME NEW i \in Projections(d), NEW j \in Projections(d), news(i) = news(j)
        PROVE  i = j
    <3> HIDE DEF news
    <3> QED BY <1>3, <2>1, <2>2
  <2> HIDE DEF news, all
  <2> QED BY <1>2, <2>2 DEF Injection, IsInjective
<1>5. IsFiniteSet(all)
  <2> DEFINE parts == {{o} \X Edits(o) : o \in Devices}
             g == [o \in Devices |-> {o} \X Edits(o)]
  <2>1. g \in Surjection(Devices, parts)
    BY DEF Surjection
  <2>2. IsFiniteSet(parts)
    <3> HIDE DEF g, parts
    <3> QED BY <2>1, DevicesAssumption, FS_Surjection
  <2>3. ASSUME NEW o \in Devices PROVE IsFiniteSet({o} \X Edits(o))
    <3>1. IsFiniteSet(1..Len(made[o])) /\ Edits(o) \subseteq 1..Len(made[o])
      <4>1. Len(made[o]) \in Int /\ Edits(o) \subseteq 1..Len(made[o])
        BY RootTypes DEF Edits
      <4> QED BY <4>1, FS_Interval
    <3>2. IsFiniteSet(Edits(o)) /\ IsFiniteSet({o})
      BY <3>1, FS_Subset, FS_Singleton
    <3> QED BY <3>2, FS_Product
  <2>4. \A t \in parts : IsFiniteSet(t)
    BY <2>3
  <2> HIDE DEF parts
  <2>5. IsFiniteSet(UNION parts)
    BY <2>2, <2>4, FS_UNION
  <2> QED BY <2>5 DEF parts
<1> HIDE DEF f, all
<1>6. Cardinality(Projections(d)) <= Cardinality(all)
  BY <1>4, <1>5, FS_Injection
<1> QED BY <1>6 DEF all

(* With CLI devices only, background convergence comes to rest: a device     *)
(* makes no more projections than there are publishable roots, however many  *)
(* devices there are and in whatever order roots are learned and fetched.    *)
THEOREM ProjectionsComeToRest ==
    Native = {} => (Spec => []ProjectionsAreForNews)
<1> SUFFICES ASSUME Native = {} PROVE Spec => []ProjectionsAreForNews
  OBVIOUS
<1>1. Init => NewsInv
  <2> SUFFICES ASSUME Init PROVE NewsInv
    OBVIOUS
  <2>1. \A d \in Devices : made[d] = <<>>
    BY DEF Init
  <2> QED BY <2>1 DEF NewsInv, ProjectionsHaveNews, FrontiersGrow, Projections
<1>2. IInv /\ IInv' /\ NewsInv /\ ProjectionsStayLocal /\ [Next]_vars => NewsInv'
  BY NewsStep
<1>3. IInv /\ NewsInv => ProjectionsAreForNews
  BY NewsIsCounted DEF ProjectionsAreForNews
<1>4. Spec => []ProjectionsStayLocal
  BY ProjectionsAreNeverAnnounced
<1> QED BY <1>1, <1>2, <1>3, <1>4, InvariantHolds, PTL DEF Spec
=============================================================================
