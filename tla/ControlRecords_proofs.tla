------------------------ MODULE ControlRecords_proofs ------------------------
EXTENDS ControlRecords, WellFoundedInduction, SequenceTheorems, TLAPS

-----------------------------------------------------------------------------
(* Whole records *)

LEMMA Parity ==
    /\ \A i \in Nat : i % 2 \in {0, 1} /\ i \div 2 \in Nat /\ i = 2 * (i \div 2) + (i % 2)
    /\ \A k, i \in Nat : (2 * k + i) % 2 = i % 2
<1>1. ASSUME NEW k \in Nat, NEW i \in Nat PROVE (2 * k + i) % 2 = i % 2
  OBVIOUS
<1> QED BY <1>1

(* The pieces of a whole record follow one another: those at odd places are  *)
(* first pieces, those at even places second pieces of the same record.      *)
Paired(c) ==
    \A i \in 1..Len(c) :
        /\ i % 2 = 1 => c[i][2] = 1
        /\ i % 2 = 0 => c[i][2] = 2 /\ c[i][1] = c[i - 1][1]

LEMMA WholeIsPaired ==
    ASSUME NEW c \in Seq(Piece)
    PROVE  Whole(c) <=> Paired(c)
<1>1. ASSUME NEW i \in 1..Len(c)
      PROVE  ((i - 1) % Pieces) + 1 = IF i % 2 = 1 THEN 1 ELSE 2
  BY DEF Pieces
<1>2. ASSUME NEW i \in 1..Len(c) PROVE i % 2 \in {0, 1}
  OBVIOUS
<1>3. DOMAIN c = 1..Len(c)
  OBVIOUS
<1>4. ASSUME Whole(c) PROVE Paired(c)
  <2> SUFFICES ASSUME NEW i \in 1..Len(c)
               PROVE  /\ i % 2 = 1 => c[i][2] = 1
                      /\ i % 2 = 0 => c[i][2] = 2 /\ c[i][1] = c[i - 1][1]
    BY DEF Paired
  <2>1. c[i][2] = ((i - 1) % Pieces) + 1 /\ (c[i][2] > 1 => c[i][1] = c[i - 1][1])
    BY <1>3, <1>4 DEF Whole
  <2> QED BY <1>1, <2>1
<1>5. ASSUME Paired(c) PROVE Whole(c)
  <2> SUFFICES ASSUME NEW i \in 1..Len(c)
               PROVE  c[i][2] = ((i - 1) % Pieces) + 1 /\ (c[i][2] > 1 => c[i][1] = c[i - 1][1])
    BY <1>3 DEF Whole
  <2>1. /\ i % 2 = 1 => c[i][2] = 1
        /\ i % 2 = 0 => c[i][2] = 2 /\ c[i][1] = c[i - 1][1]
    BY <1>5 DEF Paired
  <2> QED BY <1>1, <1>2, <2>1
<1> QED BY <1>4, <1>5

(* What is left of whole records when some of them are taken from the front. *)
LEMMA RestIsPaired ==
    ASSUME NEW c \in Seq(Piece), NEW d \in Seq(Piece), NEW k \in Nat, Paired(c),
           Len(d) = Len(c) - 2 * k,
           \A i \in 1..Len(d) : d[i] = c[2 * k + i]
    PROVE  Paired(d) /\ Len(d) % 2 = Len(c) % 2
<1>1. ASSUME NEW i \in 1..Len(d)
      PROVE  /\ i % 2 = 1 => d[i][2] = 1
             /\ i % 2 = 0 => d[i][2] = 2 /\ d[i][1] = d[i - 1][1]
  <2>1. 2 * k + i \in 1..Len(c) /\ (2 * k + i) % 2 = i % 2
    <3>1. i \in Nat /\ i >= 1 /\ i <= Len(c) - 2 * k /\ Len(c) \in Nat
      OBVIOUS
    <3>2. 2 * k + i \in Nat
      BY <3>1
    <3> QED BY <3>1, <3>2, Parity
  <2>2. /\ i % 2 = 1 => c[2 * k + i][2] = 1
        /\ i % 2 = 0 => c[2 * k + i][2] = 2 /\ c[2 * k + i][1] = c[2 * k + i - 1][1]
    BY <2>1 DEF Paired
  <2>3. i % 2 = 0 => i - 1 \in 1..Len(d) /\ 2 * k + (i - 1) = 2 * k + i - 1
    <3>1. i \in Nat /\ i >= 1 /\ i <= Len(d) /\ Len(d) \in Nat
      OBVIOUS
    <3>2. i % 2 = 0 => i # 1
      OBVIOUS
    <3> QED BY <3>1, <3>2
  <2>4. i % 2 = 0 => d[i - 1] = c[2 * k + i - 1]
    BY <2>3
  <2> QED BY <2>2, <2>4
<1>2. Len(d) % 2 = Len(c) % 2
  <2>1. Len(c) = 2 * k + Len(d) /\ Len(d) \in Nat
    OBVIOUS
  <2> QED BY <2>1, Parity
<1> QED BY <1>1, <1>2 DEF Paired

(* The beginning of whole records is whole, but for the last one. *)
LEMMA BeginIsPaired ==
    ASSUME NEW c \in Seq(Piece), NEW d \in Seq(Piece), Paired(c), Len(d) <= Len(c),
           \A i \in 1..Len(d) : d[i] = c[i]
    PROVE  Paired(d)
<1>1. ASSUME NEW i \in 1..Len(d)
      PROVE  /\ i % 2 = 1 => d[i][2] = 1
             /\ i % 2 = 0 => d[i][2] = 2 /\ d[i][1] = d[i - 1][1]
  <2>1. i \in 1..Len(c) /\ d[i] = c[i]
    OBVIOUS
  <2>2. i % 2 = 0 => i - 1 \in 1..Len(d)
    OBVIOUS
  <2>3. i % 2 = 0 => d[i - 1] = c[i - 1]
    BY <2>2
  <2> QED BY <2>1, <2>3 DEF Paired
<1> QED BY <1>1 DEF Paired

(* One more piece, the n-th one of x. *)
Follows(c, d, x, n) ==
    /\ Len(d) = Len(c) + 1 /\ \A i \in 1..Len(c) : d[i] = c[i]
    /\ d[Len(d)] = <<x, n>> /\ Len(c) % 2 = n - 1
    /\ n = 2 => c[Len(c)][1] = x

LEMMA NextIsPaired ==
    ASSUME NEW c \in Seq(Piece), NEW d \in Seq(Piece), NEW x, NEW n \in 1..2, Paired(c),
           Follows(c, d, x, n)
    PROVE  Paired(d) /\ Len(d) % 2 = 2 - n
<1> USE DEF Follows
<1>1. ASSUME NEW i \in 1..Len(d)
      PROVE  /\ i % 2 = 1 => d[i][2] = 1
             /\ i % 2 = 0 => d[i][2] = 2 /\ d[i][1] = d[i - 1][1]
  <2>1. CASE i \in 1..Len(c)
    <3>1. i % 2 = 0 => i - 1 \in 1..Len(c)
      OBVIOUS
    <3> QED BY <2>1, <3>1 DEF Paired
  <2>2. CASE i = Len(d)
    <3>1. d[i][1] = x /\ d[i][2] = n
      BY <2>2
    <3>2. n = 2 => i - 1 \in 1..Len(c) /\ i - 1 = Len(c)
      BY <2>2
    <3>3. n = 2 => d[i - 1][1] = x
      BY <3>2
    <3>4. i % 2 = IF n = 1 THEN 1 ELSE 0
      BY <2>2
    <3> QED BY <3>1, <3>3, <3>4
  <2> QED BY <2>1, <2>2
<1> QED BY <1>1 DEF Paired

-----------------------------------------------------------------------------
(* The streams an end keeps *)

(* A non-empty set of numbers has a least element.                           *)
LEMMA Least ==
    ASSUME NEW T \in SUBSET Nat, T # {}
    PROVE  \E n \in T : \A m \in T : n <= m
<1> DEFINE R == OpToRel(<, Nat)
<1>1. IsWellFoundedOn(R, Nat)
  BY NatLessThanWellFounded
<1>2. PICK n \in T : \A m \in T : <<m, n>> \notin R
  <2> HIDE DEF R
  <2> QED BY <1>1, WFMin
<1>3. \A m \in T : ~(m < n)
  BY <1>2 DEF OpToRel
<1> QED BY <1>3

(* What fails for some number fails first for one that is 0 or follows on    *)
(* one for which it holds.                                                   *)
LEMMA FirstFailure ==
    ASSUME NEW bad \in SUBSET Nat, bad # {}
    PROVE  \E n \in bad : n = 0 \/ (n - 1 \in Nat /\ n - 1 \notin bad)
<1>1. PICK n \in bad : \A m \in bad : n <= m
  BY Least
<1>2. n # 0 => n - 1 \in Nat /\ n - 1 \notin bad
  BY <1>1
<1> QED BY <1>2

OnlySteps(streams, ss, n, f) ==
    f = [i \in 0..n |-> IF i = 0 THEN <<>>
                        ELSE IF streams[i] \in ss THEN Append(f[i - 1], streams[i])
                                                  ELSE f[i - 1]]

LEMMA OnlyExists ==
    ASSUME NEW streams, NEW ss, NEW n \in Nat
    PROVE  \E f : OnlySteps(streams, ss, n, f)
<1> DEFINE bad == {m \in Nat : ~\E f : OnlySteps(streams, ss, m, f)}
<1> SUFFICES ASSUME bad # {} PROVE FALSE
  OBVIOUS
<1>1. PICK m \in bad : m = 0 \/ (m - 1 \in Nat /\ m - 1 \notin bad)
  <2> HIDE DEF bad
  <2>1. bad \in SUBSET Nat
    BY DEF bad
  <2> QED BY <2>1, FirstFailure
<1>2. m \in Nat /\ ~\E f : OnlySteps(streams, ss, m, f)
  OBVIOUS
<1>3. CASE m = 0
  <2> DEFINE f == [i \in 0..0 |-> <<>>]
  <2>1. OnlySteps(streams, ss, 0, f)
    BY DEF OnlySteps
  <2> QED BY <1>2, <1>3, <2>1
<1>4. CASE m # 0
  <2>1. PICK g : OnlySteps(streams, ss, m - 1, g)
    BY <1>1, <1>4
  <2> DEFINE f == [i \in 0..m |-> IF i # m THEN g[i]
                                  ELSE IF streams[i] \in ss THEN Append(g[i - 1], streams[i])
                                                            ELSE g[i - 1]]
  <2>2. \A i \in 0..(m - 1) : f[i] = g[i]
    BY <1>2
  <2>3. ASSUME NEW i \in 0..m
        PROVE  f[i] = IF i = 0 THEN <<>>
                      ELSE IF streams[i] \in ss THEN Append(f[i - 1], streams[i])
                                                ELSE f[i - 1]
    <3>1. CASE i # m
      <4>1. i \in 0..(m - 1) /\ (i # 0 => i - 1 \in 0..(m - 1))
        BY <1>2, <3>1
      <4>2. g[i] = IF i = 0 THEN <<>>
                   ELSE IF streams[i] \in ss THEN Append(g[i - 1], streams[i]) ELSE g[i - 1]
        BY <2>1, <4>1 DEF OnlySteps
      <4> QED BY <2>2, <4>1, <4>2
    <3>2. CASE i = m
      <4>1. i # 0 /\ i - 1 \in 0..(m - 1)
        BY <1>2, <1>4, <3>2
      <4>2. f[i - 1] = g[i - 1]
        BY <2>2, <4>1
      <4> QED BY <3>2, <4>1, <4>2
    <3> QED BY <3>1, <3>2
  <2>4. OnlySteps(streams, ss, m, f)
    <3>1. f = [i \in 0..m |-> f[i]]
      OBVIOUS
    <3> HIDE DEF f
    <3> QED BY <2>3, <3>1 DEF OnlySteps
  <2> QED BY <1>2, <2>4
<1> QED BY <1>3, <1>4

LEMMA OnlyKeeps ==
    ASSUME NEW streams \in Seq(Stream), NEW ss
    PROVE  /\ Only(streams, ss) \in Seq(Stream)
           /\ ToSet(Only(streams, ss)) = ToSet(streams) \cap ss
<1> DEFINE n == Len(streams)
           f == CHOOSE f : OnlySteps(streams, ss, n, f)
<1>1. n \in Nat /\ \A i \in 1..n : streams[i] \in Stream
  OBVIOUS
<1>2. OnlySteps(streams, ss, n, f)
  BY <1>1, OnlyExists
<1>3. Only(streams, ss) = f[n]
  BY DEF Only, OnlySteps
<1> HIDE DEF f
<1>4. ASSUME NEW i \in 0..n
      PROVE  f[i] = IF i = 0 THEN <<>>
                    ELSE IF streams[i] \in ss THEN Append(f[i - 1], streams[i]) ELSE f[i - 1]
  BY <1>2 DEF OnlySteps
<1> DEFINE Upto(i) == {streams[j] : j \in 1..i}
           Fine(i) == f[i] \in Seq(Stream) /\ ToSet(f[i]) = Upto(i) \cap ss
           bad == {i \in 0..n : ~Fine(i)}
<1>5. bad = {}
  <2> SUFFICES ASSUME bad # {} PROVE FALSE
    OBVIOUS
  <2>1. PICK i \in bad : i = 0 \/ (i - 1 \in Nat /\ i - 1 \notin bad)
    <3>1. bad \in SUBSET Nat
      BY <1>1
    <3> HIDE DEF bad
    <3> QED BY <3>1, FirstFailure
  <2>2. i \in 0..n /\ ~Fine(i)
    BY <2>1
  <2> HIDE DEF n
  <2>3. CASE i = 0
    <3>1. f[i] = <<>> /\ Upto(i) = {}
      BY <1>4, <2>2, <2>3
    <3>2. ToSet(f[i]) = {} /\ f[i] \in Seq(Stream)
      BY <3>1 DEF ToSet
    <3>3. Fine(i)
      BY <3>1, <3>2
    <3> QED BY <2>2, <3>3
  <2>4. CASE i # 0
    <3>0. i \in 1..n /\ i - 1 \in 0..n
      BY <1>1, <2>2, <2>4
    <3>1. Fine(i - 1)
      BY <2>1, <2>4, <3>0
    <3>2. Upto(i) = Upto(i - 1) \cup {streams[i]}
      <4>1. 1..i = (1..(i - 1)) \cup {i}
        BY <3>0, <1>1
      <4> QED BY <4>1
    <3>3. streams[i] \in Stream
      BY <1>1, <3>0
    <3>4. CASE streams[i] \in ss
      <4>1. f[i] = Append(f[i - 1], streams[i])
        BY <1>4, <2>2, <2>4, <3>4
      <4>2. f[i] \in Seq(Stream)
        BY <3>1, <3>3, <4>1
      <4>3. ToSet(f[i]) = ToSet(f[i - 1]) \cup {streams[i]}
        <5> DEFINE q == f[i - 1]
        <5> HIDE DEF q
        <5>1. q \in Seq(Stream) /\ f[i] = Append(q, streams[i])
          BY <3>1, <4>1 DEF q
        <5>2. DOMAIN f[i] = DOMAIN q \cup {Len(q) + 1} /\ f[i][Len(q) + 1] = streams[i]
              /\ \A j \in DOMAIN q : f[i][j] = q[j]
          BY <3>3, <5>1
        <5>3. ToSet(f[i]) = ToSet(q) \cup {streams[i]}
          BY <5>2 DEF ToSet
        <5> QED BY <5>3 DEF q
      <4> QED BY <2>2, <3>1, <3>2, <3>4, <4>2, <4>3
    <3>5. CASE streams[i] \notin ss
      <4>1. f[i] = f[i - 1]
        BY <1>4, <2>2, <2>4, <3>5
      <4> QED BY <2>2, <3>1, <3>2, <3>5, <4>1
    <3> QED BY <3>4, <3>5
  <2> QED BY <2>3, <2>4
<1>6. Fine(n)
  <2>1. n \in 0..n
    BY <1>1
  <2> HIDE DEF Fine, n
  <2> QED BY <1>5, <2>1
<1>7. Upto(n) = ToSet(streams)
  BY <1>1 DEF ToSet
<1> QED BY <1>3, <1>6, <1>7

LEMMA OnlyFirst ==
    ASSUME NEW streams \in Seq(Stream), NEW ss, ToSet(streams) \cap ss # {}
    PROVE  Head(Only(streams, ss)) \in ToSet(streams) \cap ss
<1> DEFINE q == Only(streams, ss)
<1>1. q \in Seq(Stream) /\ ToSet(q) = ToSet(streams) \cap ss
  BY OnlyKeeps
<1> HIDE DEF q
<1>2. q # <<>>
  BY <1>1 DEF ToSet
<1>3. 1 \in DOMAIN q /\ Head(q) = q[1]
  BY <1>1, <1>2
<1>4. Head(q) \in ToSet(q)
  BY <1>3 DEF ToSet
<1> QED BY <1>1, <1>4 DEF q

-----------------------------------------------------------------------------
(* What is under way to an end: c is what is on each stream, ra how the       *)
(* receiver and sb how the sender stand to it, him the actor of the sender,   *)
(* g what the receiver has delivered, n the number of records queued so far.  *)

Status == {"free", "syn", "est", "gone"}
Open == {"free", "est"}            \* what comes may still be delivered
Down == {"free", "syn"}            \* nothing was written yet
Item == [rec : Record, off : 0..Pieces, mark : Stream \cup {None}]
Actor == [auth : BOOLEAN, heard : BOOLEAN, conns : Seq(Stream), active : Stream \cup {None},
          input : Seq(Piece), queue : Seq(Item), restart : BOOLEAN, seen : SUBSET Record]

Before(r, x) == r.boot = x.boot => r.id <= x.id
InTurn(r, x) == r.boot = x.boot => r.id < x.id
Fresh(g, x) == \/ \E k \in 1..Len(g) : g[k] = x
               \/ \A k \in 1..Len(g) : InTurn(g[k], x)
Mid(q) == q # <<>> /\ q[1].off = 1
AtFront(d, q) == /\ Len(d) % 2 = 1 <=> Mid(q)
                 /\ Mid(q) => d[Len(d)][1] = q[1].rec

Quiet(c, sb) == \A s \in Stream : sb[s] \in Down => c[s] = <<>>
Fronts(c, ra, sb, him) ==
    \A s \in Stream : sb[s] = "est" /\ ra[s] \in Open =>
        IF s # him.active THEN c[s] = <<>> ELSE ~him.restart => AtFront(c[s], him.queue)
Torn(c, ra) == \E s \in Stream : ra[s] \in Open /\ ~Paired(c[s])
Sorted(c, ra) ==
    \A s \in Stream : ra[s] \in Open =>
        \A i, j \in 1..Len(c[s]) : i < j => Before(c[s][i][1], c[s][j][1])
Across(c, ra, sb) ==
    \A s, t \in Stream : ra[s] \in Open /\ ra[t] \in Open /\ sb[t] = "est" /\ s # t =>
        \A i \in 1..Len(c[s]), j \in 1..Len(c[t]) : Before(c[s][i][1], c[t][j][1])
Ahead(c, ra, q) ==
    \A s \in Stream : ra[s] \in Open =>
        \A i \in 1..Len(c[s]), j \in 1..Len(q) : Before(c[s][i][1], q[j].rec)
Known(c, ra, g, n) ==
    \A s \in Stream : ra[s] \in Open =>
        \A i \in 1..Len(c[s]) : Fresh(g, c[s][i][1]) /\ c[s][i][1].id <= n
Waiting(q, g, n) == \A j \in 1..Len(q) : Fresh(g, q[j].rec) /\ q[j].rec.id <= n
Ordered(g, n) ==
    /\ \A i, j \in 1..Len(g) : i < j => InTurn(g[i], g[j])
    /\ \A i \in 1..Len(g) : g[i].id <= n

Flow(c, ra, sb, him, g, n) ==
    /\ Quiet(c, sb) /\ Fronts(c, ra, sb, him)
    /\ ~Torn(c, ra) /\ Sorted(c, ra) /\ Across(c, ra, sb) /\ Ahead(c, ra, him.queue)
    /\ Known(c, ra, g, n) /\ Waiting(him.queue, g, n) /\ Ordered(g, n)

(* Streams are opened and dropped.                                            *)
Shrinks(c, d, ra, rb, sa, sb, him) ==
    \A s \in Stream :
       \/ d[s] = c[s] /\ (rb[s] \in Open => ra[s] \in Open)
          /\ (sb[s] = "est" => sa[s] = "est") /\ (sb[s] \in Down => sa[s] \in Down)
       \/ d[s] = <<>> /\ (sb[s] = "est" => s # him.active)
       \/ rb[s] \notin Open /\ sb[s] \notin Down

LEMMA FlowShrinks ==
    ASSUME NEW c \in [Stream -> Seq(Piece)], NEW d \in [Stream -> Seq(Piece)],
           NEW ra \in [Stream -> Status], NEW rb \in [Stream -> Status],
           NEW sa \in [Stream -> Status], NEW sb \in [Stream -> Status],
           NEW him \in Actor, NEW g \in Seq(Record), NEW n \in Nat,
           Flow(c, ra, sa, him, g, n),
           Shrinks(c, d, ra, rb, sa, sb, him)
    PROVE  Flow(d, rb, sb, him, g, n)
<1>1. \A s \in Stream : rb[s] \in Open => d[s] = <<>> \/ (d[s] = c[s] /\ ra[s] \in Open)
  BY DEF Shrinks
<1>2. \A s \in Stream : rb[s] \in Open /\ sb[s] = "est" =>
         \/ d[s] = <<>> /\ s # him.active
         \/ d[s] = c[s] /\ ra[s] \in Open /\ sa[s] = "est"
  BY DEF Shrinks
<1>3. Paired(<<>>) /\ Len(<<>>) = 0
  BY DEF Paired
<1>4. Quiet(d, sb)
  <2> SUFFICES ASSUME NEW s \in Stream, sb[s] \in Down PROVE d[s] = <<>>
    BY DEF Quiet
  <2> QED BY DEF Flow, Quiet, Shrinks
<1>5. Fronts(d, rb, sb, him)
  <2> SUFFICES ASSUME NEW s \in Stream, sb[s] = "est", rb[s] \in Open
               PROVE  IF s # him.active THEN d[s] = <<>>
                      ELSE ~him.restart => AtFront(d[s], him.queue)
    BY DEF Fronts
  <2>1. CASE d[s] = <<>> /\ s # him.active
    BY <2>1
  <2>2. CASE d[s] = c[s] /\ ra[s] \in Open /\ sa[s] = "est"
    BY <2>2 DEF Flow, Fronts
  <2> QED BY <1>2, <2>1, <2>2
<1>6. ~Torn(d, rb)
  BY <1>1, <1>3 DEF Flow, Torn
<1>7. Sorted(d, rb)
  <2> SUFFICES ASSUME NEW s \in Stream, rb[s] \in Open,
                      NEW i \in 1..Len(d[s]), NEW j \in 1..Len(d[s]), i < j
               PROVE  Before(d[s][i][1], d[s][j][1])
    BY DEF Sorted
  <2>1. d[s] = c[s] /\ ra[s] \in Open
    BY <1>1, <1>3
  <2> QED BY <2>1 DEF Flow, Sorted
<1>8. Across(d, rb, sb)
  <2> SUFFICES ASSUME NEW s \in Stream, NEW t \in Stream, rb[s] \in Open, rb[t] \in Open,
                      sb[t] = "est", s # t, NEW i \in 1..Len(d[s]), NEW j \in 1..Len(d[t])
               PROVE  Before(d[s][i][1], d[t][j][1])
    BY DEF Across
  <2>1. d[s] = c[s] /\ ra[s] \in Open
    BY <1>1, <1>3
  <2>2. d[t] = c[t] /\ ra[t] \in Open /\ sa[t] = "est"
    BY <1>2, <1>3
  <2> QED BY <2>1, <2>2 DEF Flow, Across
<1>9. Ahead(d, rb, him.queue)
  <2> SUFFICES ASSUME NEW s \in Stream, rb[s] \in Open,
                      NEW i \in 1..Len(d[s]), NEW j \in 1..Len(him.queue)
               PROVE  Before(d[s][i][1], him.queue[j].rec)
    BY DEF Ahead
  <2>1. d[s] = c[s] /\ ra[s] \in Open
    BY <1>1, <1>3
  <2> QED BY <2>1 DEF Flow, Ahead
<1>10. Known(d, rb, g, n)
  <2> SUFFICES ASSUME NEW s \in Stream, rb[s] \in Open, NEW i \in 1..Len(d[s])
               PROVE  Fresh(g, d[s][i][1]) /\ d[s][i][1].id <= n
    BY DEF Known
  <2>1. d[s] = c[s] /\ ra[s] \in Open
    BY <1>1, <1>3
  <2> QED BY <2>1 DEF Flow, Known
<1> QED BY <1>4, <1>5, <1>6, <1>7, <1>8, <1>9, <1>10 DEF Flow

(* Another queue, of records that were in the one before.                     *)
LEMMA FlowQueue ==
    ASSUME NEW c \in [Stream -> Seq(Piece)],
           NEW ra \in [Stream -> Status], NEW sb \in [Stream -> Status],
           NEW him \in Actor, NEW her \in Actor, NEW g \in Seq(Record), NEW n \in Nat,
           Flow(c, ra, sb, him, g, n), Fronts(c, ra, sb, her),
           \A j \in 1..Len(her.queue) :
              \E i \in 1..Len(him.queue) : her.queue[j].rec = him.queue[i].rec
    PROVE  Flow(c, ra, sb, her, g, n)
<1>1. Ahead(c, ra, her.queue)
  <2> SUFFICES ASSUME NEW s \in Stream, ra[s] \in Open,
                      NEW i \in 1..Len(c[s]), NEW j \in 1..Len(her.queue)
               PROVE  Before(c[s][i][1], her.queue[j].rec)
    BY DEF Ahead
  <2>1. PICK k \in 1..Len(him.queue) : her.queue[j].rec = him.queue[k].rec
    OBVIOUS
  <2>2. Before(c[s][i][1], him.queue[k].rec)
    BY DEF Flow, Ahead
  <2> QED BY <2>1, <2>2
<1>2. Waiting(her.queue, g, n)
  <2> SUFFICES ASSUME NEW j \in 1..Len(her.queue)
               PROVE  Fresh(g, her.queue[j].rec) /\ her.queue[j].rec.id <= n
    BY DEF Waiting
  <2>1. PICK k \in 1..Len(him.queue) : her.queue[j].rec = him.queue[k].rec
    OBVIOUS
  <2> QED BY <2>1 DEF Flow, Waiting
<1> QED BY <1>1, <1>2 DEF Flow

QueueOrder(q) ==
    \A i, j \in 1..Len(q) : i < j =>
        /\ q[j].rec.boot => q[i].rec.boot
        /\ InTurn(q[i].rec, q[j].rec)

(* The next piece of the front record is written to the only stream in use.   *)
SameLine(him, her) ==
    /\ Len(her.queue) = Len(him.queue)
    /\ \A i \in 1..Len(him.queue) : her.queue[i].rec = him.queue[i].rec
WritesOne(c, d, sb, him, her, s, k) ==
    /\ him.active = s /\ sb[s] = "est" /\ \A t \in Stream : sb[t] = "est" => t = s
    /\ him.queue # <<>> /\ him.queue[1].off # Pieces /\ k = him.queue[1].off + 1
    /\ d[s] = Append(c[s], <<him.queue[1].rec, k>>)
    /\ \A t \in Stream : t # s => d[t] = c[t]
    /\ her.active = s /\ her.queue # <<>> /\ her.queue[1].off = k
    /\ SameLine(him, her)

LEMMA FlowWrites ==
    ASSUME NEW c \in [Stream -> Seq(Piece)], NEW d \in [Stream -> Seq(Piece)],
           NEW ra \in [Stream -> Status], NEW sb \in [Stream -> Status],
           NEW him \in Actor, NEW her \in Actor, NEW g \in Seq(Record), NEW n \in Nat,
           Flow(c, ra, sb, him, g, n), QueueOrder(him.queue), ~him.restart,
           NEW s \in Stream, NEW k \in 1..Pieces, WritesOne(c, d, sb, him, her, s, k)
    PROVE  Flow(d, ra, sb, her, g, n)
<1> him.active = s /\ sb[s] = "est"
  BY DEF WritesOne
<1> \A t \in Stream : sb[t] = "est" => t = s
  BY DEF WritesOne
<1> him.queue # <<>> /\ him.queue[1].off # Pieces /\ k = him.queue[1].off + 1
  BY DEF WritesOne
<1> d[s] = Append(c[s], <<him.queue[1].rec, k>>)
  BY DEF WritesOne
<1> \A t \in Stream : t # s => d[t] = c[t]
  BY DEF WritesOne
<1> her.active = s /\ her.queue # <<>> /\ her.queue[1].off = k
  BY DEF WritesOne
<1> Len(her.queue) = Len(him.queue)
  BY DEF WritesOne, SameLine
<1> \A i \in 1..Len(him.queue) : her.queue[i].rec = him.queue[i].rec
  BY DEF WritesOne, SameLine
<1> DEFINE x == him.queue[1].rec
           m == Len(c[s])
<1>1. him.queue \in Seq(Item) /\ Len(him.queue) \in Nat /\ 1 \in 1..Len(him.queue)
  BY DEF Actor
<1>2. x \in Record /\ him.queue[1].off \in 0..1
  <2> DEFINE z == him.queue[1]
  <2>1. z \in Item
    BY <1>1
  <2> HIDE DEF z
  <2>2. z.rec \in Record /\ z.off \in 0..2
    BY <2>1 DEF Item, Pieces
  <2>3. z.off # 2
    BY DEF z, Pieces
  <2>4. z.off \in 0..1
    BY <2>2, <2>3
  <2> QED BY <2>2, <2>4 DEF z
<1>3. c[s] \in Seq(Piece) /\ d[s] \in Seq(Piece) /\ m \in Nat
  <2>1. c[s] \in Seq(Piece) /\ d[s] \in Seq(Piece)
    OBVIOUS
  <2> QED BY <2>1
<1>4. Len(d[s]) = m + 1 /\ d[s][m + 1] = <<x, k>> /\ \A i \in 1..m : d[s][i] = c[s][i]
  <2>1. <<x, k>> \in Piece
    BY <1>2 DEF Piece
  <2> QED BY <1>3, <2>1
<1> HIDE DEF m
<1>5. \A i \in 1..(m + 1) : i \in 1..m \/ i = m + 1
  BY <1>3
<1>6. ra[s] \in Open => AtFront(c[s], him.queue)
  BY DEF Flow, Fronts
<1> DEFINE cs == c[s]
           ds == d[s]
<1>20. cs \in Seq(Piece) /\ ds \in Seq(Piece) /\ Len(cs) = m
  BY <1>3 DEF m
<1>21. Len(ds) = m + 1 /\ ds[m + 1] = <<x, k>> /\ \A i \in 1..m : ds[i] = cs[i]
  BY <1>4
<1>7. ra[s] \in Open => Paired(d[s]) /\ AtFront(d[s], her.queue)
  <2> SUFFICES ASSUME ra[s] \in Open PROVE Paired(d[s]) /\ AtFront(d[s], her.queue)
    OBVIOUS
  <2>1. k \in 1..2 /\ (k = 2 <=> Mid(him.queue)) /\ (k = 1 <=> Mid(her.queue))
    <3> DEFINE o == him.queue[1].off
               p == her.queue[1].off
    <3>1. o \in 0..1 /\ k = o + 1 /\ p = k
      BY <1>2
    <3> HIDE DEF o, p
    <3>2. (Mid(him.queue) <=> o = 1) /\ (Mid(her.queue) <=> p = 1)
      BY DEF Mid, o, p
    <3> QED BY <3>1, <3>2
  <2>2. m % 2 = k - 1
    <3>1. m % 2 = 1 <=> k = 2
      BY <1>6, <2>1 DEF AtFront, m
    <3>2. m % 2 \in {0, 1}
      BY <1>3
    <3> QED BY <2>1, <3>1, <3>2
  <2>3. k = 2 => c[s][m][1] = x
    BY <1>6, <2>1 DEF AtFront, m
  <2>4. Paired(c[s])
    BY DEF Flow, Torn
  <2>5. Paired(d[s]) /\ Len(d[s]) % 2 = 2 - k
    <3>1. k = 2 => cs[Len(cs)][1] = x
      BY <1>20, <2>3
    <3>2. Paired(cs)
      BY <2>4
    <3> HIDE DEF cs, ds, x
    <3>4. /\ Len(ds) = Len(cs) + 1 /\ \A i \in 1..Len(cs) : ds[i] = cs[i]
          /\ ds[Len(ds)] = <<x, k>> /\ Len(cs) % 2 = k - 1
      BY <1>20, <1>21, <2>2
    <3>5. Follows(cs, ds, x, k)
      BY <3>1, <3>4 DEF Follows
    <3>3. Paired(ds) /\ Len(ds) % 2 = 2 - k
      BY <1>20, <2>1, <3>2, <3>5, NextIsPaired
    <3> QED BY <3>3 DEF ds
  <2>6. Len(d[s]) % 2 = 1 <=> k = 1
    BY <2>1, <2>5
  <2>7. d[s][Len(d[s])][1] = her.queue[1].rec
    BY <1>1, <1>4
  <2> QED BY <2>1, <2>5, <2>6, <2>7 DEF AtFront
<1>8. \A j \in 1..Len(him.queue) : Before(x, him.queue[j].rec)
  <2> SUFFICES ASSUME NEW j \in 1..Len(him.queue) PROVE Before(x, him.queue[j].rec)
    OBVIOUS
  <2>1. him.queue[j] \in Item
    BY <1>1
  <2>2. x.id \in Nat /\ him.queue[j].rec.id \in Nat
    <3> DEFINE y == him.queue[j].rec
    <3>1. x \in Record /\ y \in Record
      BY <1>2, <2>1 DEF Item
    <3> HIDE DEF x, y
    <3>2. x.id \in Nat /\ y.id \in Nat
      BY <3>1, ControlAssumption DEF Record
    <3> QED BY <3>2 DEF y
  <2>3. j # 1 => 1 < j
    BY <1>1
  <2>4. j # 1 /\ x.boot = him.queue[j].rec.boot => x.id < him.queue[j].rec.id
    BY <1>1, <2>3 DEF QueueOrder, InTurn
  <2> QED BY <2>2, <2>4 DEF Before
<1>9. Fresh(g, x) /\ x.id <= n
  BY <1>1 DEF Flow, Waiting
<1>10. Quiet(d, sb)
  <2> SUFFICES ASSUME NEW t \in Stream, sb[t] \in Down PROVE d[t] = <<>>
    BY DEF Quiet
  <2>1. t # s
    BY DEF Down
  <2> QED BY <2>1 DEF Flow, Quiet
<1>11. Fronts(d, ra, sb, her)
  <2> SUFFICES ASSUME NEW t \in Stream, sb[t] = "est", ra[t] \in Open
               PROVE  IF t # her.active THEN d[t] = <<>>
                      ELSE ~her.restart => AtFront(d[t], her.queue)
    BY DEF Fronts
  <2> QED BY <1>7
<1>12. ~Torn(d, ra)
  <2> SUFFICES ASSUME NEW t \in Stream, ra[t] \in Open PROVE Paired(d[t])
    BY DEF Torn
  <2>1. t # s => Paired(c[t])
    BY DEF Flow, Torn
  <2> QED BY <1>7, <2>1
<1>13. Sorted(d, ra)
  <2> SUFFICES ASSUME NEW t \in Stream, ra[t] \in Open,
                      NEW i \in 1..Len(d[t]), NEW j \in 1..Len(d[t]), i < j
               PROVE  Before(d[t][i][1], d[t][j][1])
    BY DEF Sorted
  <2>1. CASE t # s
    BY <2>1 DEF Flow, Sorted
  <2>2. CASE t = s
    <3>1. i \in 1..m
      BY <1>3, <1>4, <2>2
    <3>2. CASE j \in 1..m
      BY <1>4, <2>2, <3>1, <3>2 DEF Flow, Sorted, m
    <3>3. CASE j = m + 1
      <4>1. Before(c[s][i][1], x)
        BY <1>1, <2>2, <3>1 DEF Flow, Ahead, m
      <4>2. d[t][i] = c[s][i] /\ d[t][j] = <<x, k>>
        BY <1>4, <2>2, <3>1, <3>3
      <4> QED BY <4>1, <4>2
    <3> QED BY <1>4, <1>5, <2>2, <3>2, <3>3
  <2> QED BY <2>1, <2>2
<1>14. Across(d, ra, sb)
  <2> SUFFICES ASSUME NEW u \in Stream, ra[u] \in Open, ra[s] \in Open, u # s,
                      NEW i \in 1..Len(d[u]), NEW j \in 1..Len(d[s])
               PROVE  Before(d[u][i][1], d[s][j][1])
    BY DEF Across
  <2>1. d[u] = c[u]
    OBVIOUS
  <2>2. CASE j \in 1..m
    BY <1>4, <2>1, <2>2 DEF Flow, Across, m
  <2>3. CASE j = m + 1
    <3>1. Before(c[u][i][1], x)
      BY <1>1, <2>1 DEF Flow, Ahead
    <3> QED BY <1>4, <2>1, <2>3, <3>1
  <2> QED BY <1>4, <1>5, <2>2, <2>3
<1>15. Ahead(d, ra, her.queue)
  <2> SUFFICES ASSUME NEW t \in Stream, ra[t] \in Open,
                      NEW i \in 1..Len(d[t]), NEW j \in 1..Len(him.queue)
               PROVE  Before(d[t][i][1], him.queue[j].rec)
    BY DEF Ahead
  <2>1. CASE t # s
    BY <2>1 DEF Flow, Ahead
  <2>2. CASE t = s /\ i \in 1..m
    BY <1>4, <2>2 DEF Flow, Ahead, m
  <2>3. CASE t = s /\ i = m + 1
    BY <1>4, <1>8, <2>3
  <2> QED BY <1>4, <1>5, <2>1, <2>2, <2>3
<1>16. Known(d, ra, g, n)
  <2> SUFFICES ASSUME NEW t \in Stream, ra[t] \in Open, NEW i \in 1..Len(d[t])
               PROVE  Fresh(g, d[t][i][1]) /\ d[t][i][1].id <= n
    BY DEF Known
  <2>1. CASE t # s
    BY <2>1 DEF Flow, Known
  <2>2. CASE t = s /\ i \in 1..m
    BY <1>4, <2>2 DEF Flow, Known, m
  <2>3. CASE t = s /\ i = m + 1
    BY <1>4, <1>9, <2>3
  <2> QED BY <1>4, <1>5, <2>1, <2>2, <2>3
<1>17. Waiting(her.queue, g, n)
  BY DEF Flow, Waiting
<1> QED BY <1>10, <1>11, <1>12, <1>13, <1>14, <1>15, <1>16, <1>17 DEF Flow

(* A new record is queued somewhere: its number is larger than all others.    *)
LEMMA FlowSends ==
    ASSUME NEW c \in [Stream -> Seq(Piece)],
           NEW ra \in [Stream -> Status], NEW sb \in [Stream -> Status],
           NEW him \in Actor, NEW her \in Actor, NEW g \in Seq(Record), NEW n \in Nat,
           Flow(c, ra, sb, him, g, n), Fronts(c, ra, sb, her),
           NEW r \in Record, r.id = n + 1,
           \A j \in 1..Len(her.queue) :
              \/ her.queue[j].rec = r
              \/ \E i \in 1..Len(him.queue) : her.queue[j].rec = him.queue[i].rec
    PROVE  Flow(c, ra, sb, her, g, n + 1)
<1>1. ASSUME NEW x \in Record, x.id <= n PROVE Before(x, r) /\ x.id <= n + 1
  <2>1. x.id \in Nat
    BY ControlAssumption DEF Record
  <2> QED BY <1>1, <2>1 DEF Before
<1>2. Fresh(g, r)
  <2> SUFFICES ASSUME NEW k \in 1..Len(g) PROVE g[k].id < r.id
    BY DEF Fresh, InTurn
  <2>1. g[k].id <= n
    BY DEF Flow, Ordered
  <2>2. g[k] \in Record
    OBVIOUS
  <2>3. g[k].id \in Nat
    BY <2>2, ControlAssumption DEF Record
  <2> QED BY <2>1, <2>3
<1>3. ASSUME NEW s \in Stream, NEW i \in 1..Len(c[s])
      PROVE  c[s][i][1] \in Record
  BY DEF Piece
<1>4. Ahead(c, ra, her.queue)
  <2> SUFFICES ASSUME NEW s \in Stream, ra[s] \in Open,
                      NEW i \in 1..Len(c[s]), NEW j \in 1..Len(her.queue)
               PROVE  Before(c[s][i][1], her.queue[j].rec)
    BY DEF Ahead
  <2>1. CASE her.queue[j].rec = r
    <3>1. c[s][i][1].id <= n /\ c[s][i][1] \in Record
      BY <1>3 DEF Flow, Known
    <3> QED BY <1>1, <2>1, <3>1
  <2>2. CASE \E k \in 1..Len(him.queue) : her.queue[j].rec = him.queue[k].rec
    <3>1. PICK k \in 1..Len(him.queue) : her.queue[j].rec = him.queue[k].rec
      BY <2>2
    <3>2. Before(c[s][i][1], him.queue[k].rec)
      BY DEF Flow, Ahead
    <3> QED BY <3>1, <3>2
  <2> QED BY <2>1, <2>2
<1>5. Waiting(her.queue, g, n + 1)
  <2> SUFFICES ASSUME NEW j \in 1..Len(her.queue)
               PROVE  Fresh(g, her.queue[j].rec) /\ her.queue[j].rec.id <= n + 1
    BY DEF Waiting
  <2>1. CASE her.queue[j].rec = r
    BY <1>2, <2>1
  <2>2. CASE \E k \in 1..Len(him.queue) : her.queue[j].rec = him.queue[k].rec
    <3>1. PICK k \in 1..Len(him.queue) : her.queue[j].rec = him.queue[k].rec
      BY <2>2
    <3> DEFINE x == him.queue[k].rec
    <3>2. Fresh(g, x) /\ x.id <= n
      BY DEF Flow, Waiting
    <3>3. x \in Record
      <4>1. him.queue \in Seq(Item)
        BY DEF Actor
      <4>2. him.queue[k] \in Item
        BY <4>1
      <4> QED BY <4>2 DEF Item
    <3> HIDE DEF x
    <3>4. x.id <= n + 1
      BY <1>1, <3>2, <3>3
    <3> QED BY <3>1, <3>2, <3>4 DEF x
  <2> QED BY <2>1, <2>2
<1>6. Known(c, ra, g, n + 1)
  <2> SUFFICES ASSUME NEW s \in Stream, ra[s] \in Open, NEW i \in 1..Len(c[s])
               PROVE  Fresh(g, c[s][i][1]) /\ c[s][i][1].id <= n + 1
    BY DEF Known
  <2>1. Fresh(g, c[s][i][1]) /\ c[s][i][1].id <= n
    BY DEF Flow, Known
  <2> QED BY <1>1, <1>3, <2>1
<1>7. Ordered(g, n + 1)
  <2>1. ASSUME NEW i \in 1..Len(g) PROVE g[i].id <= n + 1
    <3>1. g[i] \in Record
      OBVIOUS
    <3>2. g[i].id <= n
      BY DEF Flow, Ordered
    <3> QED BY <1>1, <3>1, <3>2
  <2> QED BY <2>1 DEF Flow, Ordered
<1> QED BY <1>4, <1>5, <1>6, <1>7 DEF Flow

(* The first record on a stream, both its pieces, is taken off and, unless it *)
(* was before, delivered.  No other stream is in use at the receiver.         *)
Takes(c, d, ra, sb, s, r) ==
    /\ ra[s] = "est" /\ \A t \in Stream : ra[t] = "est" => t = s
    /\ \A t \in Stream : sb[t] = "gone" => ra[t] = "est"
    /\ Len(c[s]) >= 2 /\ Len(d[s]) = Len(c[s]) - 2 /\ r = c[s][2][1]
    /\ \A i \in 1..Len(d[s]) : d[s][i] = c[s][2 + i]
    /\ \A t \in Stream : t # s => d[t] = c[t]

LEMMA FlowDelivers ==
    ASSUME NEW c \in [Stream -> Seq(Piece)], NEW d \in [Stream -> Seq(Piece)],
           NEW ra \in [Stream -> Status], NEW sb \in [Stream -> Status],
           NEW him \in Actor, NEW g \in Seq(Record), NEW h \in Seq(Record), NEW n \in Nat,
           Flow(c, ra, sb, him, g, n),
           NEW s \in Stream, NEW r \in Record, Takes(c, d, ra, sb, s, r),
           h = IF r \in ToSet(g) THEN g ELSE Append(g, r)
    PROVE  Flow(d, ra, sb, him, h, n)
<1> ra[s] = "est" /\ \A t \in Stream : ra[t] = "est" => t = s
  BY DEF Takes
<1> \A t \in Stream : sb[t] = "gone" => ra[t] = "est"
  BY DEF Takes
<1> Len(c[s]) >= 2 /\ Len(d[s]) = Len(c[s]) - 2 /\ r = c[s][2][1]
  BY DEF Takes
<1> \A i \in 1..Len(d[s]) : d[s][i] = c[s][2 + i]
  BY DEF Takes
<1> \A t \in Stream : t # s => d[t] = c[t]
  BY DEF Takes
<1> DEFINE m == Len(d[s])
<1>1. /\ c[s] \in Seq(Piece) /\ d[s] \in Seq(Piece) /\ m \in Nat
      /\ Len(c[s]) = m + 2 /\ 2 \in 1..Len(c[s])
  <2>1. c[s] \in Seq(Piece) /\ d[s] \in Seq(Piece)
    OBVIOUS
  <2>2. Len(c[s]) \in Nat /\ m \in Nat
    BY <2>1
  <2> QED BY <2>1, <2>2
<1> HIDE DEF m
<1>2. \A i \in 1..m : i + 2 \in 1..Len(c[s]) /\ d[s][i] = c[s][i + 2] /\ 2 < i + 2
  <2>1. \A i \in 1..m : d[s][i] = c[s][2 + i]
    BY DEF m
  <2>2. \A i \in 1..m : 2 + i = i + 2
    BY <1>1
  <2> QED BY <1>1, <2>1, <2>2
<1>3. ra[s] \in Open
  BY DEF Open
<1>4. ASSUME NEW x \in Record, Before(r, x), Fresh(g, x) PROVE Fresh(h, x)
  <2>1. CASE h = g
    BY <1>4, <2>1
  <2>2. CASE h # g
    <3>1. h = Append(g, r)
      BY <2>2
    <3>2. Len(h) = Len(g) + 1 /\ h[Len(g) + 1] = r /\ \A k \in 1..Len(g) : h[k] = g[k]
      BY <3>1
    <3>3. Len(g) \in Nat /\ \A k \in 1..Len(h) : k \in 1..Len(g) \/ k = Len(g) + 1
      BY <3>2
    <3>4. CASE \E k \in 1..Len(g) : g[k] = x
      <4>1. PICK k \in 1..Len(g) : g[k] = x
        BY <3>4
      <4>2. k \in 1..Len(h) /\ h[k] = x
        BY <3>2, <3>3, <4>1
      <4> QED BY <4>2 DEF Fresh
    <3>5. CASE x = r
      <4>1. Len(g) + 1 \in 1..Len(h) /\ h[Len(g) + 1] = x
        BY <3>2, <3>3, <3>5
      <4> QED BY <4>1 DEF Fresh
    <3>6. CASE x # r /\ \A k \in 1..Len(g) : InTurn(g[k], x)
      <4>1. InTurn(r, x)
        <5>1. r = [id |-> r.id, boot |-> r.boot] /\ x = [id |-> x.id, boot |-> x.boot]
              /\ r.id \in Nat /\ x.id \in Nat
          BY ControlAssumption DEF Record
        <5>2. r.boot = x.boot => r.id <= x.id /\ r.id # x.id
          BY <1>4, <3>6, <5>1 DEF Before
        <5> QED BY <5>1, <5>2 DEF InTurn
      <4>2. \A k \in 1..Len(h) : InTurn(h[k], x)
        BY <3>2, <3>3, <3>6, <4>1
      <4> QED BY <4>2 DEF Fresh
    <3> QED BY <1>4, <3>4, <3>5, <3>6 DEF Fresh
  <2> QED BY <2>1, <2>2
<1>5. ASSUME NEW t \in Stream, NEW i \in 1..Len(d[t])
      PROVE  d[t][i][1] \in Record
  <2>1. d[t][i] \in Piece
    OBVIOUS
  <2> QED BY <2>1 DEF Piece
<1>6. Quiet(d, sb)
  <2> SUFFICES ASSUME NEW t \in Stream, sb[t] \in Down PROVE d[t] = <<>>
    BY DEF Quiet
  <2>1. c[t] = <<>>
    BY DEF Flow, Quiet
  <2>2. t # s
    BY <2>1
  <2> QED BY <2>1, <2>2
<1>7. Fronts(d, ra, sb, him)
  <2> SUFFICES ASSUME NEW t \in Stream, sb[t] = "est", ra[t] \in Open
               PROVE  IF t # him.active THEN d[t] = <<>>
                      ELSE ~him.restart => AtFront(d[t], him.queue)
    BY DEF Fronts
  <2>1. IF t # him.active THEN c[t] = <<>> ELSE ~him.restart => AtFront(c[t], him.queue)
    BY DEF Flow, Fronts
  <2>2. CASE t # s
    BY <2>1, <2>2
  <2>3. CASE t = s
    <3>1. t = him.active
      BY <2>1, <2>3
    <3> SUFFICES ASSUME ~him.restart PROVE AtFront(d[s], him.queue)
      BY <2>3, <3>1
    <3>2. AtFront(c[s], him.queue)
      BY <2>1, <2>3, <3>1
    <3>3. Len(c[s]) % 2 = m % 2
      BY <1>1
    <3>4. m % 2 = 1 => d[s][m] = c[s][m + 2]
      <4>1. m \in Nat
        BY <1>1
      <4>2. m % 2 = 1 => m # 0
        OBVIOUS
      <4>3. m # 0 => m \in 1..m
        BY <4>1
      <4> QED BY <1>2, <4>2, <4>3
    <3>5. Mid(him.queue) <=> m % 2 = 1
      BY <3>2, <3>3 DEF AtFront
    <3>6. Mid(him.queue) => c[s][m + 2][1] = him.queue[1].rec
      BY <1>1, <3>2 DEF AtFront
    <3> QED BY <3>4, <3>5, <3>6 DEF AtFront, m
  <2> QED BY <2>2, <2>3
<1>8. ~Torn(d, ra)
  <2> SUFFICES ASSUME NEW t \in Stream, ra[t] \in Open PROVE Paired(d[t])
    BY DEF Torn
  <2>1. Paired(c[t])
    BY DEF Flow, Torn
  <2>2. CASE t # s
    BY <2>1, <2>2
  <2>3. CASE t = s
    <3> DEFINE cs == c[s]
               ds == d[s]
    <3>1. cs \in Seq(Piece) /\ ds \in Seq(Piece) /\ Paired(cs) /\ Len(ds) = Len(cs) - 2 * 1
          /\ \A i \in 1..Len(ds) : ds[i] = cs[2 * 1 + i]
      BY <1>1, <2>1, <2>3 DEF m
    <3> HIDE DEF cs, ds
    <3>2. Paired(ds)
      BY <3>1, RestIsPaired
    <3> QED BY <2>3, <3>2 DEF ds
  <2> QED BY <2>2, <2>3
<1>9. Sorted(d, ra)
  <2> SUFFICES ASSUME NEW t \in Stream, ra[t] \in Open,
                      NEW i \in 1..Len(d[t]), NEW j \in 1..Len(d[t]), i < j
               PROVE  Before(d[t][i][1], d[t][j][1])
    BY DEF Sorted
  <2>1. CASE t # s
    BY <2>1 DEF Flow, Sorted
  <2>2. CASE t = s
    <3>1. i \in 1..m /\ j \in 1..m /\ i + 2 < j + 2
      BY <1>1, <2>2 DEF m
    <3>2. Before(c[s][i + 2][1], c[s][j + 2][1])
      BY <1>2, <1>3, <3>1 DEF Flow, Sorted
    <3> QED BY <1>2, <2>2, <3>1, <3>2
  <2> QED BY <2>1, <2>2
<1>10. Across(d, ra, sb)
  <2> SUFFICES ASSUME NEW t \in Stream, NEW u \in Stream, ra[t] \in Open, ra[u] \in Open,
                      sb[u] = "est", t # u, NEW i \in 1..Len(d[t]), NEW j \in 1..Len(d[u])
               PROVE  Before(d[t][i][1], d[u][j][1])
    BY DEF Across
  <2>1. CASE t = s
    <3>1. i \in 1..m /\ d[u] = c[u]
      BY <2>1 DEF m
    <3>2. Before(c[s][i + 2][1], c[u][j][1])
      BY <1>2, <2>1, <3>1 DEF Flow, Across
    <3> QED BY <1>2, <2>1, <3>1, <3>2
  <2>2. CASE u = s
    <3>1. j \in 1..m /\ d[t] = c[t]
      BY <2>2 DEF m
    <3>2. Before(c[t][i][1], c[s][j + 2][1])
      BY <1>2, <2>2, <3>1 DEF Flow, Across
    <3> QED BY <1>2, <2>2, <3>1, <3>2
  <2>3. CASE t # s /\ u # s
    BY <2>3 DEF Flow, Across
  <2> QED BY <2>1, <2>2, <2>3
<1>11. Ahead(d, ra, him.queue)
  <2> SUFFICES ASSUME NEW t \in Stream, ra[t] \in Open,
                      NEW i \in 1..Len(d[t]), NEW j \in 1..Len(him.queue)
               PROVE  Before(d[t][i][1], him.queue[j].rec)
    BY DEF Ahead
  <2>1. CASE t # s
    BY <2>1 DEF Flow, Ahead
  <2>2. CASE t = s
    <3>1. i \in 1..m
      BY <2>2 DEF m
    <3>2. Before(c[s][i + 2][1], him.queue[j].rec)
      BY <1>2, <1>3, <3>1 DEF Flow, Ahead
    <3> QED BY <1>2, <2>2, <3>1, <3>2
  <2> QED BY <2>1, <2>2
<1>12. Known(d, ra, h, n)
  <2> SUFFICES ASSUME NEW t \in Stream, ra[t] \in Open, NEW i \in 1..Len(d[t])
               PROVE  Fresh(h, d[t][i][1]) /\ d[t][i][1].id <= n
    BY DEF Known
  <2>1. CASE t = s
    <3>1. i \in 1..m
      BY <2>1 DEF m
    <3>2. Before(r, c[s][i + 2][1])
      BY <1>1, <1>2, <1>3, <3>1 DEF Flow, Sorted
    <3>3. Fresh(g, c[s][i + 2][1]) /\ c[s][i + 2][1].id <= n
      BY <1>2, <1>3, <3>1 DEF Flow, Known
    <3> QED BY <1>2, <1>4, <1>5, <2>1, <3>1, <3>2, <3>3
  <2>2. CASE t # s
    <3>1. d[t] = c[t]
      BY <2>2
    <3>2. Fresh(g, c[t][i][1]) /\ c[t][i][1].id <= n
      BY <3>1 DEF Flow, Known
    <3>3. c[t] # <<>>
      BY <3>1
    <3>4. sb[t] = "est"
      <4>1. sb[t] \notin Down
        BY <3>3 DEF Flow, Quiet
      <4>2. sb[t] \in Status /\ sb[t] # "gone"
        BY <2>2
      <4> QED BY <4>1, <4>2 DEF Status, Down
    <3>5. Before(r, c[t][i][1])
      BY <1>1, <1>3, <2>2, <3>1, <3>4 DEF Flow, Across
    <3> QED BY <1>4, <1>5, <3>1, <3>2, <3>5
  <2> QED BY <2>1, <2>2
<1>13. Waiting(him.queue, h, n)
  <2> SUFFICES ASSUME NEW j \in 1..Len(him.queue)
               PROVE  Fresh(h, him.queue[j].rec) /\ him.queue[j].rec.id <= n
    BY DEF Waiting
  <2> DEFINE x == him.queue[j].rec
  <2>1. x \in Record
    <3>1. him.queue \in Seq(Item)
      BY DEF Actor
    <3>2. him.queue[j] \in Item
      BY <3>1
    <3> QED BY <3>2 DEF Item
  <2>2. Fresh(g, x) /\ x.id <= n
    BY DEF Flow, Waiting
  <2>3. Before(r, x)
    BY <1>1, <1>3 DEF Flow, Ahead
  <2> HIDE DEF x
  <2>4. Fresh(h, x) /\ x.id <= n
    BY <1>4, <2>1, <2>2, <2>3
  <2> QED BY <2>4 DEF x
<1>14. Ordered(h, n)
  <2>1. CASE h = g
    BY <2>1 DEF Flow, Ordered
  <2>2. CASE h # g
    <3>1. h = Append(g, r) /\ r \notin ToSet(g)
      BY <2>2
    <3>2. Len(h) = Len(g) + 1 /\ h[Len(g) + 1] = r /\ \A k \in 1..Len(g) : h[k] = g[k]
      BY <3>1
    <3>3. Len(g) \in Nat /\ \A k \in 1..Len(h) : k \in 1..Len(g) \/ k = Len(g) + 1
      BY <3>2
    <3>4. Fresh(g, r) /\ r.id <= n
      BY <1>1, <1>3 DEF Flow, Known
    <3>5. \A k \in 1..Len(g) : g[k] # r
      <4>1. DOMAIN g = 1..Len(g)
        OBVIOUS
      <4> QED BY <3>1, <4>1 DEF ToSet
    <3>6. \A k \in 1..Len(g) : InTurn(g[k], r)
      BY <3>4, <3>5 DEF Fresh
    <3>7. \A i, j \in 1..Len(h) : i < j => InTurn(h[i], h[j])
      <4> SUFFICES ASSUME NEW i \in 1..Len(h), NEW j \in 1..Len(h), i < j
                   PROVE  InTurn(h[i], h[j])
        OBVIOUS
      <4>1. i \in 1..Len(g)
        BY <3>2, <3>3
      <4>2. CASE j \in 1..Len(g)
        BY <3>2, <4>1, <4>2 DEF Flow, Ordered
      <4>3. CASE j = Len(g) + 1
        BY <3>2, <3>6, <4>1, <4>3
      <4> QED BY <3>3, <4>2, <4>3
    <3>8. \A k \in 1..Len(h) : h[k].id <= n
      BY <3>2, <3>3, <3>4 DEF Flow, Ordered
    <3> QED BY <3>7, <3>8 DEF Ordered
  <2> QED BY <2>1, <2>2
<1> QED BY <1>6, <1>7, <1>8, <1>9, <1>10, <1>11, <1>12, <1>13, <1>14 DEF Flow
-----------------------------------------------------------------------------
(* The invariant of a turn                                                    *)

Conn == [by : End \cup {None}, st : [End -> Status],
         buf : [End -> Seq(Piece)], wire : [End -> Seq(Piece)], acked : [End -> BOOLEAN]]

Matching(x, y) == (x = "syn" => y = "free") /\ (x = "gone" => y = "est")
Pairs(T) ==
    \A s \in Stream, e \in End : /\ Matching(T[s].st[e], T[s].st[Peer(e)])
                                 /\ T[s].st[e] # "est" => T[s].buf[e] = <<>>
Side(T, e) == [s \in Stream |-> T[s].st[e]]
Input(me, s) == IF s = me.active THEN me.input ELSE <<>>
Coming(T, e, me) ==
    [s \in Stream |-> (IF T[s].st[e] = "est" THEN Input(me, s) ELSE <<>>)
                        \o T[s].buf[e] \o T[s].wire[e]]
Listed(me, T, e) ==
    \A s \in Stream : T[s].st[e] \in {"syn", "est"} => s \in ToSet(me.conns)
Calm(me, T, e) ==
    /\ me.active # None => T[me.active].st[e] = "est"
    /\ \A s \in Stream : T[s].st[e] = "est" => s = me.active
Queued(me) ==
    /\ QueueOrder(me.queue)
    /\ ~me.restart => \A i \in 1..Len(me.queue) : i > 1 => me.queue[i].off = 0
    /\ \A i \in 1..Len(me.queue) :
          me.queue[i].mark # None => me.queue[i].mark = me.active /\ me.queue[i].off = Pieces
    /\ me.active = None => ~me.restart /\ \A i \in 1..Len(me.queue) : me.queue[i].off = 0

Good(e, f, me, you, T, G, n) ==
    /\ Pairs(T)
    /\ Listed(me, T, e) /\ Queued(me) /\ me.seen = ToSet(G[e])
    /\ Listed(you, T, f) /\ Queued(you) /\ you.seen = ToSet(G[f])
    /\ Calm(you, T, f) /\ ~you.restart
    /\ Flow(Coming(T, e, me), Side(T, e), Side(T, f), you, G[e], n)
    /\ Flow(Coming(T, f, you), Side(T, f), Side(T, e), me, G[f], n)

LEMMA PeerIsOther ==
    ASSUME NEW e \in End
    PROVE  /\ Peer(e) \in End /\ Peer(e) # e /\ Peer(Peer(e)) = e
           /\ End = {e, Peer(e)}
<1>1. PICK g \in End : End = {First, g} /\ g # First
  BY ControlAssumption
<1>2. First \in End
  BY ControlAssumption
<1>3. \A x \in End : Peer(x) \in End /\ Peer(x) # x
  BY <1>1, <1>2 DEF Peer
<1> QED BY <1>1, <1>2, <1>3

LEMMA ComingAt ==
    ASSUME NEW T, NEW e, NEW me, NEW t \in Stream
    PROVE  Coming(T, e, me)[t] = (IF T[t].st[e] = "est" THEN Input(me, t) ELSE <<>>)
                                   \o T[t].buf[e] \o T[t].wire[e]
BY DEF Coming

LEMMA ComingSame ==
    ASSUME NEW T, NEW e, NEW me, NEW U, NEW her,
           \A t \in Stream : Coming(U, e, her)[t] = Coming(T, e, me)[t]
    PROVE  Coming(U, e, her) = Coming(T, e, me)
BY Zenon DEF Coming

LEMMA ConnHas ==
    ASSUME NEW c \in Conn, NEW e \in End
    PROVE  /\ c.by \in End \cup {None} /\ c.st[e] \in Status /\ c.acked[e] \in BOOLEAN
           /\ c.buf[e] \in Seq(Piece) /\ c.wire[e] \in Seq(Piece)
BY DEF Conn

LEMMA NothingComes ==
    <<>> \o <<>> \o <<>> = <<>>
OBVIOUS

LEMMA FreeIs ==
    /\ Free \in Conn
    /\ \A e \in End : Free.st[e] = "free" /\ Free.buf[e] = <<>> /\ Free.wire[e] = <<>>
<1>1. <<>> \in Seq(Piece)
  OBVIOUS
<1> QED BY <1>1 DEF Free, Conn, Status

(* What is left of a stream that end e drops.                                 *)
Halved(c, d, e, f) ==
    /\ c.st[f] = "est" /\ d.st[f] = "est" /\ d.st[e] = "gone" /\ d.buf[e] = <<>>
    /\ d.buf[f] = c.buf[f] /\ d.wire[f] = c.wire[f]

LEMMA DroppedIs ==
    ASSUME NEW c \in Conn, NEW e \in End, NEW f \in End, f = Peer(e),
           c.st[e] \in {"syn", "est"}, Matching(c.st[f], c.st[e])
    PROVE  /\ Dropped(c, e) \in Conn
           /\ \/ c.st[f] # "est" /\ Dropped(c, e) = Free
              \/ Halved(c, Dropped(c, e), e, f)
<1>1. c.st \in [End -> Status] /\ c.buf \in [End -> Seq(Piece)] /\ c.wire \in [End -> Seq(Piece)]
  BY DEF Conn
<1>2. c.st[f] \in {"free", "est", "gone"}
  <2>1. c.st[f] \in Status
    BY <1>1
  <2> QED BY <2>1 DEF Status, Matching
<1>3. CASE c.st[f] # "est"
  <2>1. Dropped(c, e) = Free
    BY <1>2, <1>3 DEF Dropped
  <2> QED BY <1>3, <2>1, FreeIs
<1>4. CASE c.st[f] = "est"
  <2>1. Dropped(c, e) = [c EXCEPT !.st[e] = "gone", !.buf[e] = <<>>]
    BY <1>4 DEF Dropped
  <2> DEFINE d == Dropped(c, e)
  <2>2. /\ d.st = [c.st EXCEPT ![e] = "gone"] /\ d.buf = [c.buf EXCEPT ![e] = <<>>]
        /\ d.wire = c.wire /\ d.by = c.by /\ d.acked = c.acked
        /\ d = [by |-> d.by, st |-> d.st, buf |-> d.buf, wire |-> d.wire, acked |-> d.acked]
    BY <2>1 DEF Conn
  <2> HIDE DEF d
  <2>3. d.st \in [End -> Status] /\ d.buf \in [End -> Seq(Piece)]
    <3>1. "gone" \in Status /\ <<>> \in Seq(Piece)
      BY DEF Status
    <3> QED BY <1>1, <2>2, <3>1
  <2>4. c.by \in End \cup {None} /\ c.acked \in [End -> BOOLEAN]
    BY DEF Conn
  <2>5. d \in Conn
    BY <1>1, <2>2, <2>3, <2>4 DEF Conn
  <2>6. Halved(c, d, e, f)
    <3>1. f # e
      BY PeerIsOther
    <3> QED BY <1>1, <1>4, <2>2, <3>1 DEF Halved
  <2> QED BY <2>5, <2>6 DEF d
<1> QED BY <1>3, <1>4

LEMMA ComingIs ==
    ASSUME NEW T \in [Stream -> Conn], NEW e \in End, NEW me \in Actor
    PROVE  Coming(T, e, me) \in [Stream -> Seq(Piece)] /\ Side(T, e) \in [Stream -> Status]
<1>1. ASSUME NEW s \in Stream
      PROVE  /\ T[s].st[e] \in Status
             /\ (IF T[s].st[e] = "est" THEN Input(me, s) ELSE <<>>)
                  \o T[s].buf[e] \o T[s].wire[e] \in Seq(Piece)
  <2>1. T[s] \in Conn
    OBVIOUS
  <2>2. T[s].st[e] \in Status /\ T[s].buf[e] \in Seq(Piece) /\ T[s].wire[e] \in Seq(Piece)
    BY <2>1 DEF Conn
  <2>3. me.input \in Seq(Piece) /\ <<>> \in Seq(Piece)
    BY DEF Actor
  <2>4. (IF T[s].st[e] = "est" THEN Input(me, s) ELSE <<>>) \in Seq(Piece)
    BY <2>3 DEF Input
  <2> QED BY <2>2, <2>4
<1> QED BY <1>1 DEF Coming, Side

(* End e drops the streams in ss, uses another stream or none, and rewinds    *)
(* its queue when it does, or parts with records of it: me becomes her.       *)
Leaves(me, her, T, e, ss) ==
    /\ \A s \in ss : T[s].st[e] \in {"syn", "est"}
    /\ Queued(her) /\ her.seen = me.seen
    /\ \A j \in 1..Len(her.queue) :
          \E i \in 1..Len(me.queue) : her.queue[j].rec = me.queue[i].rec
    /\ \A s \in Stream : s \notin ss /\ T[s].st[e] \in {"syn", "est"} => s \in ToSet(her.conns)
    /\ \A s \in Stream : s \notin ss /\ T[s].st[e] = "est" =>
          /\ Input(her, s) = Input(me, s)
          /\ s = me.active => s = her.active
          /\ s = me.active /\ ~her.restart =>
               ~me.restart /\ (her.queue = me.queue \/ (~Mid(her.queue) /\ ~Mid(me.queue)))
          /\ s = her.active /\ s # me.active => ~Mid(her.queue)

Without(T, e, ss) == [s \in Stream |-> IF s \in ss THEN Dropped(T[s], e) ELSE T[s]]
Stays(T, U, e, ss) ==
    \A s \in Stream : U[s].st[e] \in {"syn", "est"} => s \notin ss /\ U[s] = T[s]

LEMMA Drops ==
    ASSUME NEW e \in End, NEW f \in End, f = Peer(e),
           NEW me \in Actor, NEW her \in Actor, NEW you \in Actor,
           NEW T \in [Stream -> Conn], NEW G \in [End -> Seq(Record)], NEW n \in Nat,
           Good(e, f, me, you, T, G, n),
           NEW ss \in SUBSET Stream, Leaves(me, her, T, e, ss),
           NEW U, U = Without(T, e, ss)
    PROVE  U \in [Stream -> Conn] /\ Good(e, f, her, you, U, G, n) /\ Stays(T, U, e, ss)
<1> USE DEF Without
<1> DEFINE c == Coming(T, e, me)   ra == Side(T, e)
           d == Coming(U, e, her)  rb == Side(U, e)
           x == Coming(T, f, you)  sa == Side(T, f)
           y == Coming(U, f, you)  sb == Side(U, f)
<1>1. e # f /\ Peer(f) = e /\ End = {e, f}
  BY PeerIsOther
<1>2. Pairs(T)
  BY DEF Good
<1>3. ASSUME NEW s \in ss
      PROVE  /\ U[s] \in Conn
             /\ \/ T[s].st[f] # "est" /\ U[s] = Free
                \/ Halved(T[s], U[s], e, f)
  <2>1. T[s] \in Conn /\ Matching(T[s].st[f], T[s].st[e]) /\ U[s] = Dropped(T[s], e)
    BY <1>1, <1>2 DEF Pairs
  <2>2. T[s].st[e] \in {"syn", "est"}
    BY DEF Leaves
  <2> QED BY <2>1, <2>2, DroppedIs
<1>4. ASSUME NEW s \in Stream, s \notin ss PROVE U[s] = T[s]
  BY <1>4
<1>5. U \in [Stream -> Conn]
  <2>1. \A s \in Stream : U[s] \in Conn
    BY <1>3, <1>4
  <2>2. U = [s \in Stream |-> U[s]]
    OBVIOUS
  <2> QED BY <2>1, <2>2
<1>6. /\ c \in [Stream -> Seq(Piece)] /\ d \in [Stream -> Seq(Piece)]
      /\ x \in [Stream -> Seq(Piece)] /\ y \in [Stream -> Seq(Piece)]
      /\ ra \in [Stream -> Status] /\ rb \in [Stream -> Status]
      /\ sa \in [Stream -> Status] /\ sb \in [Stream -> Status]
  BY <1>5, ComingIs
<1>7. G[e] \in Seq(Record) /\ G[f] \in Seq(Record)
  OBVIOUS
<1>8. \A s \in Stream : /\ ra[s] = T[s].st[e] /\ sa[s] = T[s].st[f]
                        /\ rb[s] = U[s].st[e] /\ sb[s] = U[s].st[f]
  BY DEF Side
<1>9. ASSUME NEW s \in Stream, s \notin ss PROVE d[s] = c[s] /\ y[s] = x[s]
  <2>1. U[s] = T[s] /\ (T[s].st[e] = "est" => Input(her, s) = Input(me, s))
    BY <1>4, <1>9 DEF Leaves
  <2> QED BY <2>1, Zenon DEF Coming
<1>10. ASSUME NEW s \in ss, U[s] = Free
       PROVE  d[s] = <<>> /\ y[s] = <<>> /\ rb[s] = "free" /\ sb[s] = "free"
  <2>1. \A z \in End : U[s].st[z] = "free" /\ U[s].buf[z] = <<>> /\ U[s].wire[z] = <<>>
    BY <1>10, FreeIs
  <2>2. d[s] = <<>> \o <<>> \o <<>> /\ y[s] = <<>> \o <<>> \o <<>>
    BY <2>1 DEF Coming
  <2> QED BY <1>8, <2>1, <2>2, NothingComes
<1>11. ASSUME NEW s \in ss, Halved(T[s], U[s], e, f)
       PROVE  rb[s] = "gone" /\ sb[s] = "est" /\ sa[s] = "est" /\ y[s] = x[s]
  <2>1. y[s] = x[s]
    BY <1>11 DEF Coming, Halved
  <2> QED BY <1>8, <1>11, <2>1 DEF Halved
<1>12. Flow(d, rb, sb, you, G[e], n)
  <2>1. Flow(c, ra, sa, you, G[e], n)
    BY DEF Good
  <2>2. ASSUME NEW s \in Stream
        PROVE  \/ d[s] = c[s] /\ (rb[s] \in Open => ra[s] \in Open)
                  /\ (sb[s] = "est" => sa[s] = "est") /\ (sb[s] \in Down => sa[s] \in Down)
               \/ d[s] = <<>> /\ (sb[s] = "est" => s # you.active)
               \/ rb[s] \notin Open /\ sb[s] \notin Down
    <3>1. CASE s \notin ss
      <4>1. ra[s] = rb[s] /\ sa[s] = sb[s]
        BY <1>4, <1>8, <3>1
      <4> QED BY <1>9, <3>1, <4>1
    <3>2. CASE s \in ss /\ U[s] = Free
      BY <1>10, <3>2
    <3>3. CASE s \in ss /\ Halved(T[s], U[s], e, f)
      BY <1>11, <3>3 DEF Open, Down
    <3> QED BY <1>3, <3>1, <3>2, <3>3
  <2> HIDE DEF c, d, ra, rb, sa, sb
  <2>3. Shrinks(c, d, ra, rb, sa, sb, you)
    BY <2>2 DEF Shrinks
  <2> QED BY <1>6, <1>7, <2>1, <2>3, FlowShrinks
<1>13. Flow(y, sb, rb, me, G[f], n)
  <2>1. Flow(x, sa, ra, me, G[f], n)
    BY DEF Good
  <2>2. ASSUME NEW s \in Stream
        PROVE  \/ y[s] = x[s] /\ (sb[s] \in Open => sa[s] \in Open)
                  /\ (rb[s] = "est" => ra[s] = "est") /\ (rb[s] \in Down => ra[s] \in Down)
               \/ y[s] = <<>> /\ (rb[s] = "est" => s # me.active)
               \/ sb[s] \notin Open /\ rb[s] \notin Down
    <3>1. CASE s \notin ss
      <4>1. ra[s] = rb[s] /\ sa[s] = sb[s]
        BY <1>4, <1>8, <3>1
      <4> QED BY <1>9, <3>1, <4>1
    <3>2. CASE s \in ss /\ U[s] = Free
      BY <1>10, <3>2
    <3>3. CASE s \in ss /\ Halved(T[s], U[s], e, f)
      BY <1>11, <3>3 DEF Open, Down
    <3> QED BY <1>3, <3>1, <3>2, <3>3
  <2> HIDE DEF x, y, ra, rb, sa, sb
  <2>3. Shrinks(x, y, sa, sb, ra, rb, me)
    BY <2>2 DEF Shrinks
  <2> QED BY <1>6, <1>7, <2>1, <2>3, FlowShrinks
<1>14. Fronts(y, sb, rb, her)
  <2> SUFFICES ASSUME NEW s \in Stream, rb[s] = "est", sb[s] \in Open
               PROVE  IF s # her.active THEN y[s] = <<>>
                      ELSE ~her.restart => AtFront(y[s], her.queue)
    BY DEF Fronts
  <2>1. s \notin ss
    BY <1>3, <1>10, <1>11
  <2>2. IF s # me.active THEN y[s] = <<>> ELSE ~me.restart => AtFront(y[s], me.queue)
    BY <1>13 DEF Flow, Fronts
  <2>3. T[s].st[e] = "est"
    BY <1>4, <1>8, <2>1
  <2>4. s = me.active => s = her.active
    BY <2>1, <2>3 DEF Leaves
  <2>5. /\ s = me.active /\ ~her.restart =>
              ~me.restart /\ (her.queue = me.queue \/ (~Mid(her.queue) /\ ~Mid(me.queue)))
        /\ s = her.active /\ s # me.active => ~Mid(her.queue)
    BY <2>1, <2>3 DEF Leaves
  <2>6. ~Mid(her.queue) => AtFront(<<>>, her.queue)
    BY DEF AtFront
  <2>7. ~Mid(her.queue) /\ ~Mid(me.queue) /\ AtFront(y[s], me.queue) => AtFront(y[s], her.queue)
    BY DEF AtFront
  <2> HIDE DEF y, sb, rb
  <2>8. CASE s = me.active
    BY <2>2, <2>4, <2>5, <2>7, <2>8
  <2>9. CASE s # me.active
    <3>1. y[s] = <<>>
      BY <2>2, <2>9
    <3> QED BY <2>5, <2>6, <2>9, <3>1
  <2> QED BY <2>8, <2>9
<1>15. Flow(y, sb, rb, her, G[f], n)
  <2>1. \A j \in 1..Len(her.queue) :
           \E i \in 1..Len(me.queue) : her.queue[j].rec = me.queue[i].rec
    BY DEF Leaves
  <2> HIDE DEF y, rb, sb
  <2> QED BY <1>6, <1>7, <1>13, <1>14, <2>1, FlowQueue
<1>16. ASSUME NEW s \in Stream
       PROVE  /\ Matching(U[s].st[e], U[s].st[f]) /\ Matching(U[s].st[f], U[s].st[e])
              /\ U[s].st[e] # "est" => U[s].buf[e] = <<>>
              /\ U[s].st[f] # "est" => U[s].buf[f] = <<>>
              /\ U[s].st[f] = "est" <=> T[s].st[f] = "est"
              /\ U[s].st[f] \in {"syn", "est"} => T[s].st[f] \in {"syn", "est"}
  <2>1. CASE s \notin ss
    <3>1. U[s] = T[s]
      BY <1>4, <2>1
    <3>2. /\ Matching(T[s].st[e], T[s].st[f]) /\ Matching(T[s].st[f], T[s].st[e])
          /\ T[s].st[e] # "est" => T[s].buf[e] = <<>>
          /\ T[s].st[f] # "est" => T[s].buf[f] = <<>>
      BY <1>1, <1>2 DEF Pairs
    <3> QED BY <3>1, <3>2
  <2>2. CASE s \in ss /\ T[s].st[f] # "est" /\ U[s] = Free
    <3>1. \A z \in End : U[s].st[z] = "free" /\ U[s].buf[z] = <<>>
      BY <2>2, FreeIs
    <3> QED BY <2>2, <3>1 DEF Matching
  <2>3. CASE s \in ss /\ Halved(T[s], U[s], e, f)
    BY <2>3 DEF Halved, Matching
  <2> QED BY <1>3, <2>1, <2>2, <2>3
<1>20. ASSUME NEW s \in Stream, U[s].st[e] \in {"syn", "est"}
       PROVE  s \notin ss /\ U[s] = T[s]
  <2>1. rb[s] \in {"syn", "est"}
    BY <1>8, <1>20
  <2>2. s \notin ss
    BY <1>3, <1>10, <1>11, <2>1
  <2> QED BY <1>4, <2>2
<1>21. Listed(her, U, e)
  <2> SUFFICES ASSUME NEW s \in Stream, U[s].st[e] \in {"syn", "est"} PROVE s \in ToSet(her.conns)
    BY DEF Listed
  <2>1. s \notin ss /\ U[s] = T[s]
    BY <1>20
  <2> QED BY <2>1 DEF Leaves
<1>17. Pairs(U)
  BY <1>1, <1>16 DEF Pairs
<1>18. Listed(you, U, f) /\ Calm(you, U, f)
  <2>1. Listed(you, T, f) /\ Calm(you, T, f)
    BY DEF Good
  <2>2. Listed(you, U, f)
    BY <1>16, <2>1 DEF Listed
  <2>3. you.active # None => you.active \in Stream
    BY DEF Actor
  <2>4. Calm(you, U, f)
    BY <1>16, <2>1, <2>3 DEF Calm
  <2> QED BY <2>2, <2>4
<1> HIDE DEF c, ra, d, rb, x, sa, y, sb
<1>22. Queued(her) /\ her.seen = me.seen
  BY DEF Leaves
<1>19. Good(e, f, her, you, U, G, n)
  BY <1>12, <1>15, <1>17, <1>18, <1>21, <1>22 DEF Good, d, rb, y, sb
<1> QED BY <1>5, <1>19, <1>20 DEF Stays
-----------------------------------------------------------------------------
(* Streams are dropped                                                        *)

(* The state of a turn: its end works on its own actor, you is the other's.   *)
Shaped(S) == S = [e |-> S.e, me |-> S.me, tcp |-> S.tcp, got |-> S.got, settled |-> S.settled]
Turning(S, you, n) ==
    /\ Shaped(S) /\ S.e \in End /\ S.me \in Actor /\ you \in Actor
    /\ S.tcp \in [Stream -> Conn] /\ S.got \in [End -> Seq(Record)] /\ n \in Nat
    /\ Good(S.e, Peer(S.e), S.me, you, S.tcp, S.got, n)

(* her is me with its queue rewound.                                          *)
Rewinds(me, her) ==
    /\ ~her.restart /\ Len(her.queue) = Len(me.queue)
    /\ \A i \in 1..Len(me.queue) : /\ her.queue[i].rec = me.queue[i].rec
                                   /\ her.queue[i].off = 0 /\ her.queue[i].mark = None

LEMMA RewoundIs ==
    ASSUME NEW me \in Actor
    PROVE  LET her == Rewound(me)
           IN /\ her \in Actor /\ Rewinds(me, her)
              /\ her.auth = me.auth /\ her.heard = me.heard /\ her.conns = me.conns
              /\ her.active = me.active /\ her.input = me.input /\ her.seen = me.seen
<1> DEFINE her == Rewound(me)
           q == me.queue
           p == [i \in DOMAIN q |-> [q[i] EXCEPT !.off = 0, !.mark = None]]
<1>1. her = [me EXCEPT !.restart = FALSE, !.queue = p]
  BY DEF Rewound
<1>2. q \in Seq(Item)
  BY DEF Actor
<1>3. Len(q) \in Nat /\ DOMAIN q = 1..Len(q) /\ \A i \in 1..Len(q) : q[i] \in Item
  <2> HIDE DEF q
  <2> QED BY <1>2
<1>4. ASSUME NEW z \in Item
      PROVE  LET x == [z EXCEPT !.off = 0, !.mark = None]
             IN x \in Item /\ x.rec = z.rec /\ x.off = 0 /\ x.mark = None
  <2> DEFINE y == [z EXCEPT !.off = 0]
             x == [y EXCEPT !.mark = None]
  <2>1. [z EXCEPT !.off = 0, !.mark = None] = x
    BY DEF Item
  <2>2. y \in Item /\ y.rec = z.rec /\ y.off = 0
    BY DEF Item, Pieces
  <2> HIDE DEF y
  <2>3. x \in Item /\ x.rec = y.rec /\ x.off = y.off /\ x.mark = None
    BY <2>2 DEF Item
  <2> QED BY <2>1, <2>2, <2>3
<1>5. p \in Seq(Item) /\ Len(p) = Len(q) /\ \A i \in 1..Len(q) :
           p[i].rec = q[i].rec /\ p[i].off = 0 /\ p[i].mark = None
  <2>1. \A i \in 1..Len(q) : p[i] \in Item /\ p[i].rec = q[i].rec
                             /\ p[i].off = 0 /\ p[i].mark = None
    <3> SUFFICES ASSUME NEW i \in 1..Len(q)
                 PROVE  p[i] \in Item /\ p[i].rec = q[i].rec
                        /\ p[i].off = 0 /\ p[i].mark = None
      OBVIOUS
    <3>1. p[i] = [q[i] EXCEPT !.off = 0, !.mark = None]
      BY <1>3
    <3> DEFINE w == q[i]
               v == p[i]
    <3>2. w \in Item /\ v = [w EXCEPT !.off = 0, !.mark = None]
      BY <1>3, <3>1
    <3> HIDE DEF w, v
    <3>3. v \in Item /\ v.rec = w.rec /\ v.off = 0 /\ v.mark = None
      BY <1>4, <3>2
    <3> QED BY <3>3 DEF w, v
  <2>2. p = [i \in 1..Len(q) |-> p[i]]
    BY <1>3
  <2> HIDE DEF p
  <2>3. p \in Seq(Item) /\ Len(p) = Len(q)
    BY <1>3, <2>1, <2>2
  <2> QED BY <2>1, <2>3
<1> HIDE DEF p
<1>6. /\ her.queue = p /\ her.restart = FALSE
      /\ her.auth = me.auth /\ her.heard = me.heard /\ her.conns = me.conns
      /\ her.active = me.active /\ her.input = me.input /\ her.seen = me.seen
  BY <1>1 DEF Actor
<1>7. her \in Actor
  BY <1>1, <1>5 DEF Actor
<1> HIDE DEF her
<1>8. Rewinds(me, her)
  BY <1>5, <1>6 DEF Rewinds, q
<1> QED BY <1>6, <1>7, <1>8 DEF her

LEMMA RewindsQueue ==
    ASSUME NEW me \in Actor, NEW her \in Actor, Rewinds(me, her), QueueOrder(me.queue)
    PROVE  /\ Queued(her) /\ ~Mid(her.queue)
           /\ \A j \in 1..Len(her.queue) :
                 \E i \in 1..Len(me.queue) : her.queue[j].rec = me.queue[i].rec
<1>1. me.queue \in Seq(Item) /\ her.queue \in Seq(Item)
  BY DEF Actor
<1>2. \A i \in 1..Len(her.queue) : /\ her.queue[i].rec = me.queue[i].rec
                                   /\ her.queue[i].off = 0 /\ her.queue[i].mark = None
  BY DEF Rewinds
<1>3. QueueOrder(her.queue)
  BY <1>2 DEF Rewinds, QueueOrder
<1>4. ~Mid(her.queue)
  <2>1. her.queue # <<>> => 1 \in 1..Len(her.queue)
    BY <1>1
  <2> QED BY <1>2, <2>1 DEF Mid
<1>5. Queued(her)
  BY <1>2, <1>3 DEF Queued, Rewinds
<1> QED BY <1>2, <1>4, <1>5 DEF Rewinds

LEMMA AbortIs ==
    ASSUME NEW S, Shaped(S), NEW ss
    PROVE  LET T == Abort(S, ss)
           IN /\ Shaped(T) /\ T.e = S.e /\ T.me = S.me /\ T.got = S.got
              /\ T.tcp = Without(S.tcp, S.e, ss)
<1> DEFINE tt == [s \in Stream |-> IF s \in ss THEN Dropped(S.tcp[s], S.e) ELSE S.tcp[s]]
           unread(c) == {p[1] : p \in {q \in ToSet(c.buf[S.e]) : q[2] = Pieces}}
           more == S.settled \cup UNION {unread(S.tcp[s]) \ S.me.seen : s \in ss}
<1>1. Abort(S, ss) = [S EXCEPT !.tcp = tt, !.settled = more]
  BY DEF Abort
<1> HIDE DEF tt, more
<1> DEFINE R == [S EXCEPT !.tcp = tt]
           T == [R EXCEPT !.settled = more]
<1>2. [S EXCEPT !.tcp = tt, !.settled = more] = T
  BY DEF Shaped
<1>3. /\ R = [e |-> R.e, me |-> R.me, tcp |-> R.tcp, got |-> R.got, settled |-> R.settled]
      /\ R.e = S.e /\ R.me = S.me /\ R.got = S.got /\ R.tcp = tt
  BY DEF Shaped
<1> HIDE DEF R
<1>4. /\ T = [e |-> T.e, me |-> T.me, tcp |-> T.tcp, got |-> T.got, settled |-> T.settled]
      /\ T.e = R.e /\ T.me = R.me /\ T.got = R.got /\ T.tcp = R.tcp
  BY <1>3
<1> QED BY <1>1, <1>2, <1>3, <1>4 DEF Shaped, tt, Without

(* What closing streams does to the actor.                                    *)
ClosedMe(me, her, ss) ==
    /\ her \in Actor
    /\ her.auth = me.auth /\ her.heard = me.heard /\ her.seen = me.seen
    /\ ToSet(her.conns) = ToSet(me.conns) \cap (Stream \ ss)
    /\ me.active \in ss => her.active = None /\ her.input = <<>> /\ Rewinds(me, her)
    /\ me.active \notin ss => /\ her.active = me.active /\ her.input = me.input
                              /\ her.queue = me.queue /\ her.restart = me.restart

LEMMA ClosedIs ==
    ASSUME NEW S, Shaped(S), S.me \in Actor, NEW ss
    PROVE  LET T == Closed(S, ss)
           IN /\ Shaped(T) /\ T.e = S.e /\ T.got = S.got
              /\ T.tcp = Without(S.tcp, S.e, {s \in ss : Alive(S, s)})
              /\ ClosedMe(S.me, T.me, ss)
<1> DEFINE R == Abort(S, {s \in ss : Alive(S, s)})
           me == S.me
           cs == Only(me.conns, Stream \ ss)
           me1 == [me EXCEPT !.conns = cs]
           me2 == [me1 EXCEPT !.active = None]
           me3 == [me2 EXCEPT !.input = <<>>]
           her == IF me.active \in ss THEN Rewound(me3) ELSE me1
           T == [R EXCEPT !.me = her]
<1>1. cs \in Seq(Stream) /\ ToSet(cs) = ToSet(me.conns) \cap (Stream \ ss)
  <2>1. me.conns \in Seq(Stream)
    BY DEF Actor
  <2> QED BY <2>1, OnlyKeeps
<1>2. /\ Shaped(R) /\ R.e = S.e /\ R.got = S.got
      /\ R.tcp = Without(S.tcp, S.e, {s \in ss : Alive(S, s)})
  BY AbortIs
<1> HIDE DEF cs, R
<1>3. /\ me1 \in Actor /\ me1.conns = cs
      /\ me1.auth = me.auth /\ me1.heard = me.heard /\ me1.seen = me.seen
      /\ me1.active = me.active /\ me1.input = me.input
      /\ me1.queue = me.queue /\ me1.restart = me.restart
  <2> HIDE DEF me
  <2>1. me \in Actor
    BY DEF me
  <2> QED BY <1>1, <2>1 DEF Actor
<1>4. Closed(S, ss) = T
  <2>1. [me1 EXCEPT !.active = None, !.input = <<>>] = me3
    <3> HIDE DEF me1
    <3> QED BY <1>3 DEF Actor
  <2>2. Closed(S, ss) = [R EXCEPT !.me = IF me1.active \in ss
                          THEN Rewound([me1 EXCEPT !.active = None, !.input = <<>>]) ELSE me1]
    BY DEF Closed, R, cs
  <2> HIDE DEF me1, me3
  <2> QED BY <1>3, <2>1, <2>2
<1> HIDE DEF me1
<1>5. /\ me2 \in Actor /\ me2.conns = cs /\ me2.active = None
      /\ me2.auth = me1.auth /\ me2.heard = me1.heard /\ me2.seen = me1.seen
      /\ me2.queue = me1.queue
  BY <1>3 DEF Actor
<1> HIDE DEF me2
<1>6. /\ me3 \in Actor /\ me3.conns = cs /\ me3.active = None /\ me3.input = <<>>
      /\ me3.auth = me1.auth /\ me3.heard = me1.heard /\ me3.seen = me1.seen
      /\ me3.queue = me1.queue
  <2>1. <<>> \in Seq(Piece)
    OBVIOUS
  <2> QED BY <1>5, <2>1 DEF Actor
<1> HIDE DEF me3
<1>7. ClosedMe(me, her, ss)
  <2>1. CASE me.active \in ss
    <3>1. her = Rewound(me3)
      BY <2>1
    <3>2. /\ her \in Actor /\ Rewinds(me3, her)
          /\ her.auth = me3.auth /\ her.heard = me3.heard /\ her.conns = me3.conns
          /\ her.active = me3.active /\ her.input = me3.input /\ her.seen = me3.seen
      BY <1>6, <3>1, RewoundIs
    <3> HIDE DEF her
    <3>3. Rewinds(me, her)
      BY <1>3, <1>6, <3>2 DEF Rewinds
    <3> QED BY <1>1, <1>3, <1>6, <2>1, <3>2, <3>3 DEF ClosedMe
  <2>2. CASE me.active \notin ss
    <3>1. her = me1
      BY <2>2
    <3> QED BY <1>1, <1>3, <2>2, <3>1 DEF ClosedMe
  <2> QED BY <2>1, <2>2
<1> HIDE DEF her
<1>8. Shaped(T) /\ T.e = R.e /\ T.got = R.got /\ T.tcp = R.tcp /\ T.me = her
  BY <1>2 DEF Shaped
<1> HIDE DEF T
<1> QED BY <1>2, <1>4, <1>7, <1>8

LEMMA ClosesTurn ==
    ASSUME NEW S, NEW you, NEW n, Turning(S, you, n), NEW ss \in SUBSET Stream,
           NEW T, Shaped(T), T.e = S.e, T.got = S.got, ClosedMe(S.me, T.me, ss),
           T.tcp = Without(S.tcp, S.e, {s \in ss : Alive(S, s)})
    PROVE  /\ Turning(T, you, n)
           /\ Stays(S.tcp, T.tcp, S.e, ss)
           /\ Calm(S.me, S.tcp, S.e) => Calm(T.me, T.tcp, S.e)
<1> DEFINE gone == {s \in ss : Alive(S, s)}
           e == S.e
           f == Peer(e)
           me == S.me
           her == T.me
           U == T.tcp
           V == S.tcp
           G == S.got
<1>1. /\ Shaped(T) /\ T.e = S.e /\ T.got = S.got
      /\ U = Without(V, e, gone)
      /\ ClosedMe(me, her, ss)
  OBVIOUS
<1>2. /\ e \in End /\ f \in End /\ me \in Actor /\ you \in Actor /\ her \in Actor
      /\ V \in [Stream -> Conn] /\ G \in [End -> Seq(Record)] /\ n \in Nat
      /\ Good(e, f, me, you, V, G, n)
  BY <1>1, PeerIsOther DEF Turning, ClosedMe
<1>3. gone \in SUBSET Stream /\ \A s \in gone : V[s].st[e] \in {"syn", "est"}
  BY DEF Alive, St
<1>4. \A s \in Stream : s \notin gone /\ V[s].st[e] \in {"syn", "est"} => s \notin ss
  BY DEF Alive, St
<1> HIDE DEF gone, e, f, me, her, U, V, G
<1>5. Queued(me) /\ Listed(me, V, e)
  BY <1>2 DEF Good
<1>6. \A s \in Stream : s \notin gone /\ V[s].st[e] \in {"syn", "est"} => s \in ToSet(her.conns)
  BY <1>1, <1>4, <1>5 DEF Listed, ClosedMe
<1>7. /\ Queued(her) /\ her.seen = me.seen
      /\ \A j \in 1..Len(her.queue) :
              \E i \in 1..Len(me.queue) : her.queue[j].rec = me.queue[i].rec
      /\ me.active \in ss => ~Mid(her.queue)
  <2>1. CASE me.active \in ss
    <3>1. Rewinds(me, her) /\ her.seen = me.seen
      BY <1>1, <2>1 DEF ClosedMe
    <3>2. QueueOrder(me.queue)
      BY <1>5 DEF Queued
    <3> QED BY <1>2, <3>1, <3>2, RewindsQueue
  <2>2. CASE me.active \notin ss
    <3>1. /\ her.active = me.active /\ her.queue = me.queue /\ her.restart = me.restart
          /\ her.seen = me.seen
      BY <1>1, <2>2 DEF ClosedMe
    <3>2. Queued(her)
      BY <1>5, <3>1 DEF Queued
    <3> QED BY <2>2, <3>1, <3>2
  <2> QED BY <2>1, <2>2
<1>8. None \notin Stream
  BY ControlAssumption
<1>9. ASSUME NEW s \in Stream, s \notin gone, V[s].st[e] = "est"
      PROVE  /\ Input(her, s) = Input(me, s)
             /\ s = me.active => s = her.active
             /\ s = me.active /\ ~her.restart =>
                  ~me.restart /\ (her.queue = me.queue \/ (~Mid(her.queue) /\ ~Mid(me.queue)))
             /\ s = her.active /\ s # me.active => ~Mid(her.queue)
  <2>1. s \notin ss
    BY <1>4, <1>9
  <2>2. CASE me.active \in ss
    <3>1. her.active = None
      BY <1>1, <2>2 DEF ClosedMe
    <3> QED BY <1>8, <2>1, <2>2, <3>1 DEF Input
  <2>3. CASE me.active \notin ss
    <3>1. /\ her.active = me.active /\ her.input = me.input
          /\ her.queue = me.queue /\ her.restart = me.restart
      BY <1>1, <2>3 DEF ClosedMe
    <3>2. Input(her, s) = Input(me, s)
      BY <3>1 DEF Input
    <3> QED BY <3>1, <3>2
  <2> QED BY <2>2, <2>3
<1>10. /\ U \in [Stream -> Conn] /\ Good(e, f, her, you, U, G, n)
       /\ Stays(V, U, e, gone)
  <2>1. Leaves(me, her, V, e, gone)
    BY <1>3, <1>6, <1>7, <1>9 DEF Leaves
  <2>2. f = Peer(e)
    BY DEF f
  <2> QED BY <1>1, <1>2, <1>3, <2>1, <2>2, Drops
<1>11. Turning(T, you, n)
  BY <1>1, <1>2, <1>10 DEF Turning, e, f, her, U, G
<1>12. Stays(V, U, e, ss)
  BY <1>4, <1>10 DEF Stays
<1>13. ASSUME Calm(me, V, e) PROVE Calm(her, U, e)
  <2>1. ASSUME NEW s \in Stream, U[s].st[e] = "est" PROVE s = her.active
    <3>1. s \notin ss /\ s = me.active
      BY <1>12, <1>13, <2>1 DEF Calm, Stays
    <3> QED BY <1>1, <3>1 DEF ClosedMe
  <2>2. ASSUME her.active # None PROVE U[her.active].st[e] = "est"
    <3>1. me.active \notin ss /\ her.active = me.active
      BY <1>1, <2>2 DEF ClosedMe
    <3>2. me.active \in Stream
      BY <1>2, <2>2, <3>1 DEF Actor
    <3>3. me.active \notin gone
      BY <3>1 DEF gone
    <3>4. U[me.active] = V[me.active]
      BY <1>1, <3>2, <3>3 DEF Without
    <3> QED BY <1>13, <2>2, <3>1, <3>4 DEF Calm
  <2> QED BY <2>1, <2>2 DEF Calm
<1> QED BY <1>1, <1>11, <1>12, <1>13 DEF e, me, her, U, V

LEMMA ClosedKeeps ==
    ASSUME NEW S, NEW you, NEW n, Turning(S, you, n), NEW ss \in SUBSET Stream
    PROVE  LET T == Closed(S, ss)
           IN /\ Turning(T, you, n) /\ T.e = S.e /\ ClosedMe(S.me, T.me, ss)
              /\ Stays(S.tcp, T.tcp, S.e, ss)
              /\ Calm(S.me, S.tcp, S.e) => Calm(T.me, T.tcp, S.e)
<1> DEFINE T == Closed(S, ss)
<1>1. /\ Shaped(T) /\ T.e = S.e /\ T.got = S.got
      /\ T.tcp = Without(S.tcp, S.e, {s \in ss : Alive(S, s)})
      /\ ClosedMe(S.me, T.me, ss)
  BY ClosedIs DEF Turning
<1> HIDE DEF T
<1>2. /\ Turning(T, you, n)
      /\ Stays(S.tcp, T.tcp, S.e, ss)
      /\ Calm(S.me, S.tcp, S.e) => Calm(T.me, T.tcp, S.e)
  BY <1>1, ClosesTurn
<1> QED BY <1>1, <1>2 DEF T

LEMMA SameLeaves ==
    ASSUME NEW e \in End, NEW f, NEW me \in Actor, NEW you, NEW T, NEW G, NEW n,
           Good(e, f, me, you, T, G, n), NEW ss,
           \A s \in ss : T[s].st[e] \in {"syn", "est"}
    PROVE  Leaves(me, me, T, e, ss)
<1>1. Queued(me) /\ Listed(me, T, e)
  BY DEF Good
<1>2. \A s \in Stream : T[s].st[e] \in {"syn", "est"} => s \in ToSet(me.conns)
  BY <1>1 DEF Listed
<1> QED BY <1>1, <1>2 DEF Leaves

LEMMA AbortKeeps ==
    ASSUME NEW S, NEW you, NEW n, Turning(S, you, n), NEW ss \in SUBSET Stream,
           \A s \in ss : Alive(S, s)
    PROVE  LET T == Abort(S, ss)
           IN Turning(T, you, n) /\ T.e = S.e /\ T.me = S.me /\ Stays(S.tcp, T.tcp, S.e, ss)
<1> DEFINE T == Abort(S, ss)
           e == S.e
           f == Peer(e)
           me == S.me
           U == T.tcp
           V == S.tcp
           G == S.got
<1>1. /\ Shaped(T) /\ T.e = S.e /\ T.got = S.got /\ T.me = S.me /\ U = Without(V, e, ss)
  BY AbortIs DEF Turning
<1>2. /\ e \in End /\ f \in End /\ me \in Actor /\ you \in Actor /\ f = Peer(e)
      /\ V \in [Stream -> Conn] /\ G \in [End -> Seq(Record)] /\ n \in Nat
      /\ Good(e, f, me, you, V, G, n)
  BY <1>1, PeerIsOther DEF Turning
<1>3. \A s \in ss : V[s].st[e] \in {"syn", "est"}
  BY DEF Alive, St
<1> HIDE DEF T, e, f, me, U, V, G
<1>4. Leaves(me, me, V, e, ss)
  BY <1>2, <1>3, SameLeaves
<1>5. U \in [Stream -> Conn] /\ Good(e, f, me, you, U, G, n) /\ Stays(V, U, e, ss)
  BY <1>1, <1>2, <1>4, Drops
<1> QED BY <1>1, <1>2, <1>5 DEF Turning, T, e, f, me, U, V, G

(* The stream to use is one that is up, if there is one.                      *)
LEMMA SelectedIsUp ==
    ASSUME NEW S, NEW you, NEW n, Turning(S, you, n)
    PROVE  \/ Selected(S) = None /\ \A s \in Stream : S.tcp[s].st[S.e] # "est"
           \/ Selected(S) \in Stream /\ S.tcp[Selected(S)].st[S.e] = "est"
<1> DEFINE up == {s \in ToSet(S.me.conns) : St(S, s) = "est"}
           best == {s \in up : Preferred(S, s)}
           from == IF best = {} THEN up ELSE best
<1>1. S.me.conns \in Seq(Stream) /\ ToSet(S.me.conns) \subseteq Stream
  <2>1. S.me.conns \in Seq(Stream)
    BY DEF Turning, Actor
  <2> QED BY <2>1 DEF ToSet
<1>2. CASE up = {}
  <2>1. Selected(S) = None
    BY <1>2 DEF Selected
  <2>2. Listed(S.me, S.tcp, S.e)
    BY DEF Turning, Good
  <2>3. \A s \in Stream : S.tcp[s].st[S.e] # "est"
    BY <1>2, <2>2 DEF Listed, St
  <2> QED BY <2>1, <2>3
<1>3. CASE up # {}
  <2>1. Selected(S) = Head(Only(S.me.conns, from))
    BY <1>3 DEF Selected
  <2>2. from \subseteq up /\ ToSet(S.me.conns) \cap from # {}
    BY <1>3
  <2> HIDE DEF from
  <2>3. Selected(S) \in from
    BY <1>1, <2>1, <2>2, OnlyFirst
  <2> QED BY <1>1, <2>2, <2>3 DEF St
<1> QED BY <1>2, <1>3

LEMMA SelectKeeps ==
    ASSUME NEW S, NEW you, NEW n, Turning(S, you, n), NEW next, next = Selected(S)
    PROVE  LET T == SelectStreams(S, next)
           IN Turning(T, you, n) /\ T.e = S.e /\ Calm(T.me, T.tcp, S.e)
<1> DEFINE gone == {s \in ToSet(S.me.conns) : St(S, s) = "est" /\ s # next}
           R == Abort(S, gone)
           e == S.e
           f == Peer(e)
           V == S.tcp
           U == R.tcp
           G == S.got
           me == S.me
           kept == {s \in Stream : St(S, s) = "syn" \/ s = next}
           cs == Only(me.conns, kept)
           me0 == [me EXCEPT !.conns = cs]
           me1 == [me0 EXCEPT !.active = next]
           me2 == [me1 EXCEPT !.input = <<>>]
           her == IF next = me.active THEN me1 ELSE Rewound(me2)
           T == [R EXCEPT !.me = her]
<1>1. /\ e \in End /\ f \in End /\ me \in Actor /\ you \in Actor /\ f = Peer(e)
      /\ V \in [Stream -> Conn] /\ G \in [End -> Seq(Record)] /\ n \in Nat
      /\ Good(e, f, me, you, V, G, n)
  BY PeerIsOther DEF Turning
<1>2. me.conns \in Seq(Stream) /\ ToSet(me.conns) \subseteq Stream
  <2>1. me.conns \in Seq(Stream)
    BY <1>1 DEF Actor
  <2> QED BY <2>1 DEF ToSet
<1>3. \/ next = None /\ \A s \in Stream : V[s].st[e] # "est"
      \/ next \in Stream /\ V[next].st[e] = "est"
  BY SelectedIsUp
<1>4. /\ Shaped(R) /\ R.e = e /\ R.got = G /\ R.me = me /\ U = Without(V, e, gone)
  BY AbortIs DEF Turning
<1>5. cs \in Seq(Stream) /\ ToSet(cs) = ToSet(me.conns) \cap kept
  BY <1>2, OnlyKeeps
<1>6. \A s \in gone : V[s].st[e] \in {"syn", "est"}
  BY DEF St
<1>7. Queued(me) /\ Listed(me, V, e)
  BY <1>1 DEF Good
<1>8. \A s \in Stream : s \notin gone /\ V[s].st[e] \in {"syn", "est"} =>
         s \in ToSet(cs) /\ (V[s].st[e] = "est" => s = next)
  BY <1>5, <1>7 DEF Listed, St
<1> HIDE DEF cs, R
<1>9. SelectStreams(S, next) = T
  <2>1. [me EXCEPT !.conns = cs, !.active = next] = me1
    BY <1>1 DEF Actor
  <2>2. [me1 EXCEPT !.input = <<>>] = me2
    OBVIOUS
  <2>3. SelectStreams(S, next) =
           [R EXCEPT !.me = LET m == [me EXCEPT !.conns = cs, !.active = next]
                            IN IF next = me.active THEN m ELSE Rewound([m EXCEPT !.input = <<>>])]
    BY DEF SelectStreams, R, cs
  <2> HIDE DEF me, me1, me2
  <2> QED BY <2>1, <2>2, <2>3
<1> HIDE DEF e, f, V, U, G, me, gone
<1>10. /\ me0 \in Actor /\ me0.conns = cs /\ me0.active = me.active /\ me0.input = me.input
       /\ me0.queue = me.queue /\ me0.restart = me.restart /\ me0.seen = me.seen
  BY <1>1, <1>5 DEF Actor
<1> HIDE DEF me0
<1>11. /\ me1 \in Actor /\ me1.conns = cs /\ me1.active = next /\ me1.input = me.input
       /\ me1.queue = me.queue /\ me1.restart = me.restart /\ me1.seen = me.seen
  <2>1. next \in Stream \cup {None}
    BY <1>3
  <2> QED BY <1>10, <2>1 DEF Actor
<1> HIDE DEF me1
<1>12. /\ me2 \in Actor /\ me2.conns = cs /\ me2.active = next /\ me2.input = <<>>
       /\ me2.queue = me.queue /\ me2.seen = me.seen
  <2>1. <<>> \in Seq(Piece)
    OBVIOUS
  <2> QED BY <1>11, <2>1 DEF Actor
<1> HIDE DEF me2
<1>13. None \notin Stream
  BY ControlAssumption
<1>14. her \in Actor /\ her.active = next /\ Leaves(me, her, V, e, gone)
  <2>1. CASE next = me.active
    <3>1. her = me1
      BY <2>1
    <3>2. Queued(me1)
      BY <1>7, <1>11, <2>1 DEF Queued
    <3>3. \A s : Input(me1, s) = Input(me, s)
      BY <1>11, <2>1 DEF Input
    <3>4. \A j \in 1..Len(me1.queue) : \E i \in 1..Len(me.queue) : me1.queue[j].rec = me.queue[i].rec
      BY <1>11
    <3>5. /\ \A s \in Stream : s \notin gone /\ V[s].st[e] \in {"syn", "est"} => s \in ToSet(me1.conns)
          /\ me1.active = me.active /\ me1.queue = me.queue
          /\ ~me1.restart => ~me.restart
      BY <1>8, <1>11, <2>1
    <3>6. Leaves(me, me1, V, e, gone)
      BY <1>6, <1>11, <3>2, <3>3, <3>4, <3>5 DEF Leaves
    <3> QED BY <1>11, <3>1, <3>6
  <2>2. CASE next # me.active
    <3>1. her = Rewound(me2)
      BY <2>2
    <3> HIDE DEF her
    <3>2. /\ her \in Actor /\ Rewinds(me2, her) /\ her.conns = cs
          /\ her.active = next /\ her.input = <<>> /\ her.seen = me.seen
      BY <1>12, <3>1, RewoundIs
    <3>3. Rewinds(me, her) /\ QueueOrder(me.queue)
      BY <1>7, <1>12, <3>2 DEF Rewinds, Queued
    <3>4. /\ Queued(her) /\ ~Mid(her.queue)
          /\ \A j \in 1..Len(her.queue) :
                 \E i \in 1..Len(me.queue) : her.queue[j].rec = me.queue[i].rec
      BY <1>1, <3>2, <3>3, RewindsQueue
    <3>5. ASSUME NEW s \in Stream, s \notin gone, V[s].st[e] = "est"
          PROVE  s = her.active /\ s # me.active /\ Input(her, s) = Input(me, s)
      <4>1. s = next
        BY <1>8, <3>5
      <4> QED BY <2>2, <3>2, <4>1 DEF Input
    <3>6. \A s \in Stream : s \notin gone /\ V[s].st[e] \in {"syn", "est"} => s \in ToSet(her.conns)
      BY <1>8, <3>2
    <3>7. Leaves(me, her, V, e, gone)
      BY <1>6, <3>2, <3>4, <3>5, <3>6 DEF Leaves
    <3> QED BY <3>2, <3>7
  <2> QED BY <2>1, <2>2
<1> HIDE DEF her
<1>15. gone \in SUBSET Stream
  BY <1>2 DEF gone, me
<1>16. U \in [Stream -> Conn] /\ Good(e, f, her, you, U, G, n) /\ Stays(V, U, e, gone)
  BY <1>1, <1>4, <1>14, <1>15, Drops
<1>17. Shaped(T) /\ T.e = e /\ T.got = G /\ T.tcp = U /\ T.me = her
  BY <1>4 DEF Shaped, U
<1> HIDE DEF T
<1>18. Turning(T, you, n)
  BY <1>1, <1>14, <1>16, <1>17 DEF Turning
<1>19. Calm(her, U, e)
  <2>1. ASSUME NEW s \in Stream, U[s].st[e] = "est" PROVE s = next
    <3>1. s \notin gone /\ V[s].st[e] = "est"
      BY <1>16, <2>1 DEF Stays
    <3> QED BY <1>8, <3>1
  <2>2. ASSUME next # None PROVE U[next].st[e] = "est"
    <3>1. next \in Stream /\ V[next].st[e] = "est"
      BY <1>3, <2>2
    <3>2. next \notin gone
      BY DEF gone
    <3>3. U[next] = V[next]
      BY <1>4, <3>1, <3>2 DEF Without
    <3> QED BY <3>1, <3>3
  <2> QED BY <1>14, <2>1, <2>2 DEF Calm
<1> QED BY <1>9, <1>17, <1>18, <1>19 DEF e

LEMMA ExpireStreamsKeeps ==
    ASSUME NEW S, NEW you, NEW n, Turning(S, you, n), Calm(S.me, S.tcp, S.e), NEW old
    PROVE  LET T == ExpireStreams(S, old)
           IN Turning(T, you, n) /\ T.e = S.e /\ Calm(T.me, T.tcp, S.e)
<1>1. old \cap ToSet(S.me.conns) \in SUBSET Stream
  <2>1. S.me.conns \in Seq(Stream)
    BY DEF Turning, Actor
  <2> QED BY <2>1 DEF ToSet
<1>2. CASE S.me.auth
  BY <1>2 DEF ExpireStreams
<1>3. CASE ~S.me.auth
  <2> DEFINE T == Closed(S, old \cap ToSet(S.me.conns))
  <2>1. Turning(T, you, n) /\ T.e = S.e /\ (Calm(S.me, S.tcp, S.e) => Calm(T.me, T.tcp, S.e))
    BY <1>1, ClosedKeeps
  <2>2. ExpireStreams(S, old) = T
    BY <1>3 DEF ExpireStreams
  <2> HIDE DEF T
  <2> QED BY <2>1, <2>2
<1> QED BY <1>2, <1>3

(* Records leave the queue from its front, when none of them is half sent.    *)
LEMMA QueueShortens ==
    ASSUME NEW me \in Actor, Queued(me), NEW k \in Nat \ {0},
           NEW her \in Actor, her.queue = SubSeq(me.queue, k + 1, Len(me.queue)),
           her.active = me.active, her.restart = me.restart
    PROVE  /\ Queued(her) /\ (~her.restart => ~Mid(her.queue))
           /\ \A j \in 1..Len(her.queue) :
                 \E i \in 1..Len(me.queue) : her.queue[j].rec = me.queue[i].rec
<1> DEFINE q == me.queue
           p == her.queue
<1>1. q \in Seq(Item)
  BY DEF Actor
<1> HIDE DEF q
<1>2. Len(q) \in Nat /\ \A i \in 1..Len(q) : q[i] \in Item
  BY <1>1
<1>3. /\ Len(p) \in Nat /\ Len(p) = IF k + 1 <= Len(q) THEN Len(q) - k ELSE 0
      /\ \A i \in 1..Len(p) : p[i] = q[i + k]
  <2>1. k + 1 \in Int /\ Len(q) \in Int /\ \A i \in (k + 1)..Len(q) : q[i] \in Item
    BY <1>2
  <2>2. /\ Len(p) = IF k + 1 <= Len(q) THEN Len(q) - (k + 1) + 1 ELSE 0
        /\ \A i \in 1..(Len(q) - (k + 1) + 1) : p[i] = q[(k + 1) + i - 1]
    BY <2>1, SubSeqProperties DEF q
  <2> HIDE DEF p
  <2>3. Len(p) \in Nat /\ Len(p) = IF k + 1 <= Len(q) THEN Len(q) - k ELSE 0
    BY <1>2, <2>2
  <2>4. \A i \in 1..Len(p) : i \in 1..(Len(q) - (k + 1) + 1) /\ (k + 1) + i - 1 = i + k
    BY <1>2, <2>3
  <2> QED BY <2>2, <2>3, <2>4
<1>4. \A i \in 1..Len(p) : i + k \in 1..Len(q) /\ i + k > 1
  BY <1>2, <1>3
<1> HIDE DEF p
<1>5. QueueOrder(q)
  BY DEF Queued, q
<1>6. QueueOrder(p)
  <2> SUFFICES ASSUME NEW i \in 1..Len(p), NEW j \in 1..Len(p), i < j
               PROVE  (p[j].rec.boot => p[i].rec.boot) /\ InTurn(p[i].rec, p[j].rec)
    BY DEF QueueOrder
  <2>1. i + k \in 1..Len(q) /\ j + k \in 1..Len(q) /\ i + k < j + k
    BY <1>3, <1>4
  <2> QED BY <1>3, <1>5, <2>1 DEF QueueOrder
<1>7. /\ ~her.restart => \A i \in 1..Len(p) : p[i].off = 0
      /\ \A i \in 1..Len(p) : p[i].mark # None => p[i].mark = her.active /\ p[i].off = Pieces
      /\ her.active = None => ~her.restart /\ \A i \in 1..Len(p) : p[i].off = 0
  BY <1>3, <1>4 DEF Queued, q
<1>8. ~her.restart => ~Mid(p)
  <2>1. p # <<>> => 1 \in 1..Len(p)
    <3>1. p \in Seq(Item)
      BY DEF p, Actor
    <3> QED BY <3>1
  <2> QED BY <1>7, <2>1 DEF Mid
<1>9. \A j \in 1..Len(p) : \E i \in 1..Len(q) : p[j].rec = q[i].rec
  BY <1>3, <1>4
<1> QED BY <1>6, <1>7, <1>8, <1>9 DEF p, q, Queued

LEMMA WithoutNone ==
    ASSUME NEW T \in [Stream -> Conn], NEW e
    PROVE  Without(T, e, {}) = T
BY DEF Without

(* The same, as a step of an end on the state of its turn.                    *)
LEMMA ShorterKeeps ==
    ASSUME NEW S, NEW you, NEW n, Turning(S, you, n),
           NEW k \in Nat \ {0}, S.me.queue # <<>>, S.me.queue[1].off # 1,
           NEW R, Shaped(R), R.e = S.e, R.tcp = S.tcp, R.got = S.got,
           R.me = [S.me EXCEPT !.queue = SubSeq(@, k + 1, Len(@))]
    PROVE  Turning(R, you, n)
<1> DEFINE e == S.e
           f == Peer(e)
           V == S.tcp
           G == S.got
           me == S.me
           her == R.me
           q == SubSeq(me.queue, k + 1, Len(me.queue))
<1>1. /\ e \in End /\ f \in End /\ me \in Actor /\ you \in Actor /\ f = Peer(e)
      /\ V \in [Stream -> Conn] /\ G \in [End -> Seq(Record)] /\ n \in Nat
      /\ Good(e, f, me, you, V, G, n)
  BY PeerIsOther DEF Turning
<1>2. q \in Seq(Item)
  <2>1. me.queue \in Seq(Item)
    BY <1>1 DEF Actor
  <2>2. Len(me.queue) \in Nat /\ \A i \in (k + 1)..Len(me.queue) : me.queue[i] \in Item
    BY <2>1
  <2> QED BY <2>2, SubSeqProperties
<1>3. me.queue # <<>> /\ me.queue[1].off # 1
  OBVIOUS
<1> HIDE DEF e, f, V, G, me, q
<1>4. /\ her \in Actor /\ her.queue = q /\ her.active = me.active /\ her.input = me.input
      /\ her.restart = me.restart /\ her.seen = me.seen /\ her.conns = me.conns
  <2>1. her = [me EXCEPT !.queue = q]
    BY DEF me, q
  <2> QED BY <1>1, <1>2, <2>1 DEF Actor
<1> HIDE DEF her
<1>5. Queued(me) /\ Listed(me, V, e)
  BY <1>1 DEF Good
<1>6. /\ Queued(her) /\ (~her.restart => ~Mid(her.queue))
      /\ \A j \in 1..Len(her.queue) :
            \E i \in 1..Len(me.queue) : her.queue[j].rec = me.queue[i].rec
  <2>1. her.queue = SubSeq(me.queue, k + 1, Len(me.queue))
    BY <1>4 DEF q
  <2>2. me \in Actor /\ Queued(me) /\ her \in Actor
    BY <1>1, <1>4, <1>5
  <2>3. her.active = me.active /\ her.restart = me.restart
    BY <1>4
  <2> QED BY <2>1, <2>2, <2>3, QueueShortens
<1>7. ~Mid(me.queue)
  BY <1>3 DEF Mid
<1>8. \A s : Input(her, s) = Input(me, s)
  BY <1>4 DEF Input
<1>9. /\ \A s \in Stream : V[s].st[e] \in {"syn", "est"} => s \in ToSet(her.conns)
      /\ her.active = me.active /\ (~her.restart => ~me.restart)
  BY <1>4, <1>5 DEF Listed
<1>10. Leaves(me, her, V, e, {})
  BY <1>4, <1>6, <1>7, <1>8, <1>9 DEF Leaves
<1>11. Good(e, f, her, you, V, G, n)
  <2> DEFINE none == {}
  <2>1. V = Without(V, e, none)
    BY <1>1, WithoutNone
  <2>2. none \in SUBSET Stream /\ Leaves(me, her, V, e, none)
    BY <1>10
  <2> DEFINE U == V
  <2>3. her \in Actor /\ U = Without(V, e, none)
    BY <1>4, <2>1
  <2> HIDE DEF none, U
  <2>4. Good(e, f, her, you, U, G, n)
    BY <1>1, <2>2, <2>3, Drops
  <2> QED BY <2>4 DEF U
<1> QED BY <1>1, <1>4, <1>11 DEF Turning, e, f, V, G, her

LEMMA ExpireQueueKeeps ==
    ASSUME NEW S, NEW you, NEW n, Turning(S, you, n), Calm(S.me, S.tcp, S.e), NEW k \in Nat
    PROVE  LET T == ExpireQueue(S, k)
           IN Turning(T, you, n) /\ T.e = S.e /\ Calm(T.me, T.tcp, S.e)
<1>1. CASE k = 0 \/ S.me.queue = <<>> \/ S.me.queue[1].off > 0
  BY <1>1 DEF ExpireQueue
<1>2. CASE ~(k = 0 \/ S.me.queue = <<>> \/ S.me.queue[1].off > 0)
  <2> DEFINE R == [S EXCEPT !.me.queue = SubSeq(@, k + 1, Len(@))]
             more == S.settled \cup {x.rec : x \in ToSet(SubSeq(S.me.queue, 1, k))}
             T == [R EXCEPT !.settled = more]
             her == [S.me EXCEPT !.queue = SubSeq(@, k + 1, Len(@))]
  <2>1. ExpireQueue(S, k) = [S EXCEPT !.me.queue = SubSeq(@, k + 1, Len(@)), !.settled = more]
    BY <1>2 DEF ExpireQueue
  <2> HIDE DEF more
  <2>2. R = [S EXCEPT !.me = her]
    BY DEF Turning, Shaped
  <2> HIDE DEF her
  <2>3. Shaped(R) /\ R.e = S.e /\ R.tcp = S.tcp /\ R.got = S.got /\ R.me = her
    <3>1. S = [e |-> S.e, me |-> S.me, tcp |-> S.tcp, got |-> S.got, settled |-> S.settled]
      BY DEF Turning, Shaped
    <3> HIDE DEF R
    <3>2. R = [e |-> S.e, me |-> her, tcp |-> S.tcp, got |-> S.got, settled |-> S.settled]
      BY <2>2, <3>1
    <3> QED BY <3>2 DEF Shaped
  <2>4. ExpireQueue(S, k) = T
    BY <2>1 DEF Turning, Shaped
  <2> HIDE DEF R
  <2>5. Shaped(T) /\ T.e = R.e /\ T.tcp = R.tcp /\ T.got = R.got /\ T.me = R.me
    BY <2>3 DEF Shaped
  <2> HIDE DEF T
  <2>6. S.me.queue # <<>> /\ S.me.queue[1].off # 1 /\ k \in Nat \ {0}
    BY <1>2
  <2>7. T.me = [S.me EXCEPT !.queue = SubSeq(@, k + 1, Len(@))]
    BY <2>3, <2>5 DEF her
  <2>8. Turning(T, you, n)
    <3>1. Shaped(T) /\ T.e = S.e /\ T.tcp = S.tcp /\ T.got = S.got
      BY <2>3, <2>5
    <3> QED BY <2>6, <2>7, <3>1, ShorterKeeps
  <2>9. T.me.active = S.me.active
    BY <2>7 DEF Turning, Actor
  <2> QED BY <2>3, <2>4, <2>5, <2>8, <2>9 DEF Calm
<1> QED BY <1>1, <1>2
-----------------------------------------------------------------------------
(* Streams are opened, and bytes arrive                                       *)

LEMMA JoinsInAnyOrder ==
    ASSUME NEW a \in Seq(Piece), NEW b \in Seq(Piece), NEW d \in Seq(Piece)
    PROVE  (a \o b) \o d = a \o (b \o d)
OBVIOUS

(* What a stream c may become, d, while end e does not drop it.               *)
Changes(c, d, e, f) ==
    /\ d.st[f] = c.st[f] /\ d.buf[f] = c.buf[f] /\ d.wire[f] = c.wire[f]
    /\ d.st[e] # "est" => d.buf[e] = <<>>
    /\ \/ d.st[e] = c.st[e]
       \/ c.st[e] = "free" /\ d.st[e] = "syn" /\ c.st[f] = "free"
       \/ c.st[e] = "syn" /\ d.st[e] = "est"
       \/ c.st[e] = "free" /\ d.st[e] = "est" /\ c.st[f] = "est"
Moved(T, U, e, f) == \A s \in Stream : Changes(T[s], U[s], e, f)
Unused(me, T, U, e) ==
    \A s \in Stream : U[s].st[e] = "est" /\ T[s].st[e] # "est" => s # me.active
SameQueue(me, her) ==
    /\ her.active = me.active /\ her.queue = me.queue
    /\ her.restart = me.restart /\ her.seen = me.seen

LEMMA Moves ==
    ASSUME NEW e \in End, NEW f \in End, f = Peer(e),
           NEW me \in Actor, NEW her \in Actor, NEW you \in Actor,
           NEW T \in [Stream -> Conn], NEW U \in [Stream -> Conn],
           NEW G \in [End -> Seq(Record)], NEW n \in Nat,
           Good(e, f, me, you, T, G, n), Moved(T, U, e, f), SameQueue(me, her), Listed(her, U, e),
           Unused(me, T, U, e), Coming(U, e, her) = Coming(T, e, me)
    PROVE  Good(e, f, her, you, U, G, n)
<1> DEFINE c == Coming(T, e, me)   ra == Side(T, e)
           d == Coming(U, e, her)  rb == Side(U, e)
           x == Coming(T, f, you)  sa == Side(T, f)
           y == Coming(U, f, you)  sb == Side(U, f)
<1>1. e # f /\ Peer(f) = e /\ End = {e, f}
  BY PeerIsOther
<1>2. Pairs(T)
  BY DEF Good
<1>3. \A s \in Stream : /\ ra[s] = T[s].st[e] /\ sa[s] = T[s].st[f]
                        /\ rb[s] = U[s].st[e] /\ sb[s] = U[s].st[f]
  BY DEF Side
<1>4. /\ c \in [Stream -> Seq(Piece)] /\ d \in [Stream -> Seq(Piece)]
      /\ x \in [Stream -> Seq(Piece)] /\ y \in [Stream -> Seq(Piece)]
      /\ ra \in [Stream -> Status] /\ rb \in [Stream -> Status]
      /\ sa \in [Stream -> Status] /\ sb \in [Stream -> Status]
  BY ComingIs
<1>5. G[e] \in Seq(Record) /\ G[f] \in Seq(Record)
  OBVIOUS
<1>6. ASSUME NEW s \in Stream
      PROVE  /\ Matching(T[s].st[e], T[s].st[f]) /\ Matching(T[s].st[f], T[s].st[e])
             /\ T[s].st[f] # "est" => T[s].buf[f] = <<>>
  BY <1>1, <1>2 DEF Pairs
<1>20. ASSUME NEW s \in Stream
       PROVE  /\ U[s].st[f] = T[s].st[f] /\ sb[s] = sa[s]
              /\ U[s].buf[f] = T[s].buf[f]
              /\ U[s].st[e] # "est" => U[s].buf[e] = <<>>
  BY <1>3 DEF Moved, Changes
<1>21. ASSUME NEW s \in Stream
       PROVE  \/ U[s].st[e] = T[s].st[e]
              \/ T[s].st[e] = "free" /\ U[s].st[e] = "syn" /\ T[s].st[f] = "free"
              \/ T[s].st[e] = "syn" /\ U[s].st[e] = "est"
              \/ T[s].st[e] = "free" /\ U[s].st[e] = "est" /\ T[s].st[f] = "est"
  BY DEF Moved, Changes
<1>7. ASSUME NEW s \in Stream PROVE y[s] = x[s]
  BY DEF Coming, Moved, Changes
<1>8. ASSUME NEW s \in Stream PROVE d[s] = c[s]
  OBVIOUS
<1>9. Flow(d, rb, sb, you, G[e], n)
  <2>1. Flow(c, ra, sa, you, G[e], n)
    BY DEF Good
  <2>2. Shrinks(c, d, ra, rb, sa, sb, you)
    <3> SUFFICES ASSUME NEW s \in Stream
                 PROVE  \/ d[s] = c[s] /\ (rb[s] \in Open => ra[s] \in Open)
                           /\ (sb[s] = "est" => sa[s] = "est") /\ (sb[s] \in Down => sa[s] \in Down)
                        \/ d[s] = <<>> /\ (sb[s] = "est" => s # you.active)
                        \/ rb[s] \notin Open /\ sb[s] \notin Down
      BY DEF Shrinks
    <3>1. sb[s] = sa[s]
      BY <1>20
    <3>2. CASE T[s].st[e] = "syn" /\ U[s].st[e] = "est"
      <4>1. sa[s] = "free"
        BY <1>3, <1>6, <3>2 DEF Matching
      <4>2. c[s] = <<>>
        BY <2>1, <4>1 DEF Flow, Quiet, Down
      <4> QED BY <1>8, <3>1, <4>1, <4>2
    <3>3. CASE ~(T[s].st[e] = "syn" /\ U[s].st[e] = "est")
      <4>1. rb[s] \in Open => ra[s] \in Open
        BY <1>3, <1>21, <3>3 DEF Open
      <4> QED BY <1>8, <3>1, <4>1
    <3> QED BY <3>2, <3>3
  <2> HIDE DEF c, d, ra, rb, sa, sb
  <2> QED BY <1>4, <1>5, <2>1, <2>2, FlowShrinks
<1>10. Flow(y, sb, rb, me, G[f], n)
  <2>1. Flow(x, sa, ra, me, G[f], n)
    BY DEF Good
  <2>2. Shrinks(x, y, sa, sb, ra, rb, me)
    <3> SUFFICES ASSUME NEW s \in Stream
                 PROVE  \/ y[s] = x[s] /\ (sb[s] \in Open => sa[s] \in Open)
                           /\ (rb[s] = "est" => ra[s] = "est") /\ (rb[s] \in Down => ra[s] \in Down)
                        \/ y[s] = <<>> /\ (rb[s] = "est" => s # me.active)
                        \/ sb[s] \notin Open /\ rb[s] \notin Down
      BY DEF Shrinks
    <3>1. sb[s] = sa[s]
      BY <1>20
    <3>2. CASE T[s].st[e] # "est" /\ U[s].st[e] = "est"
      <4>1. ra[s] \in Down
        BY <1>3, <1>21, <3>2 DEF Down
      <4>2. x[s] = <<>>
        BY <2>1, <4>1 DEF Flow, Quiet
      <4>3. s # me.active
        BY <3>2 DEF Unused
      <4> QED BY <1>7, <4>2, <4>3
    <3>3. CASE ~(T[s].st[e] # "est" /\ U[s].st[e] = "est")
      <4>1. (rb[s] = "est" => ra[s] = "est") /\ (rb[s] \in Down => ra[s] \in Down)
        BY <1>3, <1>21, <3>3 DEF Down
      <4> QED BY <1>7, <3>1, <4>1
    <3> QED BY <3>2, <3>3
  <2> HIDE DEF x, y, ra, rb, sa, sb
  <2> QED BY <1>4, <1>5, <2>1, <2>2, FlowShrinks
<1>11. Flow(y, sb, rb, her, G[f], n)
  <2>1. Fronts(y, sb, rb, her)
    BY <1>10 DEF Flow, Fronts, SameQueue
  <2>2. \A j \in 1..Len(her.queue) :
           \E i \in 1..Len(me.queue) : her.queue[j].rec = me.queue[i].rec
    BY DEF SameQueue
  <2> HIDE DEF y, sb, rb
  <2> QED BY <1>4, <1>5, <1>10, <2>1, <2>2, FlowQueue
<1>12. ASSUME NEW s \in Stream
       PROVE  /\ Matching(U[s].st[e], U[s].st[f]) /\ Matching(U[s].st[f], U[s].st[e])
              /\ U[s].st[e] # "est" => U[s].buf[e] = <<>>
              /\ U[s].st[f] # "est" => U[s].buf[f] = <<>>
  BY <1>6, <1>20, <1>21 DEF Matching
<1>13. Pairs(U)
  BY <1>1, <1>12 DEF Pairs
<1>14. Listed(you, U, f) /\ Calm(you, U, f)
  <2>1. Listed(you, T, f) /\ Calm(you, T, f)
    BY DEF Good
  <2>2. \A s \in Stream : U[s].st[f] = T[s].st[f]
    BY DEF Moved, Changes
  <2>3. you.active # None => you.active \in Stream
    BY DEF Actor
  <2> QED BY <2>1, <2>2, <2>3 DEF Listed, Calm
<1>15. Queued(her) /\ her.seen = me.seen
  <2>1. Queued(me)
    BY DEF Good
  <2> QED BY <2>1 DEF Queued, SameQueue
<1> HIDE DEF c, ra, d, rb, x, sa, y, sb
<1> QED BY <1>9, <1>11, <1>13, <1>14, <1>15 DEF Good, d, rb, y, sb

(* What comes in does not change, when bytes arrive or a handshake is done.   *)
Becomes(c, d, e, f) == Changes(c, d, e, f) /\ d.buf[e] \o d.wire[e] = c.buf[e] \o c.wire[e]
Alike(T, U, e, f) == \A s \in Stream : Becomes(T[s], U[s], e, f)
SameUse(me, her) == SameQueue(me, her) /\ her.input = me.input

LEMMA SameComes ==
    ASSUME NEW e \in End, NEW f, NEW me \in Actor, NEW her \in Actor,
           NEW T \in [Stream -> Conn], NEW U \in [Stream -> Conn],
           Unused(me, T, U, e), her.active = me.active, her.input = me.input,
           Alike(T, U, e, f)
    PROVE  Coming(U, e, her) = Coming(T, e, me)
<1> DEFINE c == Coming(T, e, me)
           d == Coming(U, e, her)
<1>1. ASSUME NEW s \in Stream PROVE d[s] = c[s]
  <2> DEFINE b1 == T[s].buf[e]
             w1 == T[s].wire[e]
             b2 == U[s].buf[e]
             w2 == U[s].wire[e]
             i1 == IF T[s].st[e] = "est" THEN Input(me, s) ELSE <<>>
             i2 == IF U[s].st[e] = "est" THEN Input(her, s) ELSE <<>>
  <2>1. T[s] \in Conn /\ U[s] \in Conn
    OBVIOUS
  <2>2. b1 \in Seq(Piece) /\ w1 \in Seq(Piece) /\ b2 \in Seq(Piece) /\ w2 \in Seq(Piece)
    BY <2>1 DEF Conn
  <2>3. me.input \in Seq(Piece) /\ <<>> \in Seq(Piece)
    BY DEF Actor
  <2>4. Input(her, s) = Input(me, s)
    BY DEF Input
  <2>5. i2 = i1
    <3>1. U[s].st[e] = "est" /\ T[s].st[e] # "est" => Input(me, s) = <<>>
      BY DEF Input, Unused
    <3>2. T[s].st[e] = "est" => U[s].st[e] = "est"
      BY DEF Alike, Becomes, Changes
    <3> QED BY <2>4, <3>1, <3>2
  <2>6. i1 \in Seq(Piece)
    BY <2>3 DEF Input
  <2>7. b2 \o w2 = b1 \o w1
    BY DEF Alike, Becomes
  <2>8. c[s] = i1 \o b1 \o w1 /\ d[s] = i2 \o b2 \o w2
    BY DEF Coming
  <2> HIDE DEF c, d, i1, i2, b1, b2, w1, w2
  <2>9. (i1 \o b1) \o w1 = i1 \o (b1 \o w1)
    BY <2>2, <2>6, JoinsInAnyOrder
  <2>10. (i1 \o b2) \o w2 = i1 \o (b2 \o w2)
    BY <2>2, <2>6, JoinsInAnyOrder
  <2> QED BY <2>5, <2>7, <2>8, <2>9, <2>10
<1> QED BY <1>1 DEF Coming

LEMMA MovesTurn ==
    ASSUME NEW S, NEW you, NEW n, Turning(S, you, n),
           NEW R, Shaped(R), R.e = S.e, R.got = S.got, R.me \in Actor, SameUse(S.me, R.me),
           ToSet(S.me.conns) \subseteq ToSet(R.me.conns),
           NEW s \in Stream, NEW d \in Conn, R.tcp = [S.tcp EXCEPT ![s] = d],
           Becomes(S.tcp[s], d, S.e, Peer(S.e)),
           d.st[S.e] \in {"syn", "est"} => s \in ToSet(R.me.conns),
           d.st[S.e] = "est" /\ S.tcp[s].st[S.e] # "est" => s # S.me.active
    PROVE  /\ Turning(R, you, n)
           /\ (d.st[S.e] = "est" <=> S.tcp[s].st[S.e] = "est") /\ Calm(S.me, S.tcp, S.e)
                => Calm(R.me, R.tcp, R.e)
<1> DEFINE e == S.e
           f == Peer(e)
           T == S.tcp
           U == R.tcp
           G == S.got
           me == S.me
           her == R.me
<1>1. /\ e \in End /\ f \in End /\ me \in Actor /\ you \in Actor /\ f = Peer(e)
      /\ T \in [Stream -> Conn] /\ G \in [End -> Seq(Record)] /\ n \in Nat
      /\ Good(e, f, me, you, T, G, n)
  BY PeerIsOther DEF Turning
<1>2. /\ her \in Actor /\ SameUse(me, her) /\ U = [T EXCEPT ![s] = d]
      /\ ToSet(me.conns) \subseteq ToSet(her.conns)
      /\ Becomes(T[s], d, e, f)
      /\ d.st[e] \in {"syn", "est"} => s \in ToSet(her.conns)
      /\ d.st[e] = "est" /\ T[s].st[e] # "est" => s # me.active
  OBVIOUS
<1>3. R.e = e /\ R.got = G /\ Shaped(R)
  OBVIOUS
<1> HIDE DEF e, f, T, U, G, me, her
<1>4. U \in [Stream -> Conn] /\ U[s] = d /\ \A t \in Stream : t # s => U[t] = T[t]
  BY <1>1, <1>2
<1>5. Pairs(T) /\ Listed(me, T, e)
  BY <1>1 DEF Good
<1>6. Alike(T, U, e, f)
  <2> SUFFICES ASSUME NEW t \in Stream PROVE Becomes(T[t], U[t], e, f)
    BY DEF Alike
  <2>1. CASE t = s
    BY <1>2, <1>4, <2>1, Zenon
  <2>2. CASE t # s
    <3>1. T[t].st[e] # "est" => T[t].buf[e] = <<>>
      BY <1>1, <1>5 DEF Pairs
    <3>2. U[t] = T[t]
      BY <1>4, <2>2
    <3> QED BY <3>1, <3>2, Zenon DEF Becomes, Changes
  <2> QED BY <2>1, <2>2
<1>7. Listed(her, U, e)
  <2> SUFFICES ASSUME NEW t \in Stream, U[t].st[e] \in {"syn", "est"} PROVE t \in ToSet(her.conns)
    BY DEF Listed
  <2>1. CASE t = s
    BY <1>2, <1>4, <2>1
  <2>2. CASE t # s
    BY <1>2, <1>4, <1>5, <2>2 DEF Listed
  <2> QED BY <2>1, <2>2
<1>8. Unused(me, T, U, e)
  BY <1>2, <1>4 DEF Unused
<1>9. Good(e, f, her, you, U, G, n)
  <2>1. Moved(T, U, e, f) /\ SameQueue(me, her)
    BY <1>2, <1>6, Zenon DEF Moved, Alike, Becomes, SameUse
  <2>2. Coming(U, e, her) = Coming(T, e, me)
    <3>1. her.active = me.active /\ her.input = me.input
      BY <1>2 DEF SameUse, SameQueue
    <3>2. e \in End /\ me \in Actor /\ her \in Actor
      BY <1>1, <1>2
    <3>3. T \in [Stream -> Conn] /\ U \in [Stream -> Conn]
      BY <1>1, <1>4
    <3> QED BY <1>6, <1>8, <3>1, <3>2, <3>3, SameComes
  <2> QED BY <1>1, <1>2, <1>4, <1>7, <1>8, <2>1, <2>2, Moves, Zenon
<1>10. Turning(R, you, n)
  BY <1>1, <1>2, <1>3, <1>4, <1>9 DEF Turning, f, U, her
<1>11. ASSUME d.st[e] = "est" <=> T[s].st[e] = "est", Calm(me, T, e)
       PROVE  Calm(her, U, e)
  <2>1. \A t \in Stream : U[t].st[e] = "est" <=> T[t].st[e] = "est"
    BY <1>4, <1>11
  <2>2. me.active # None => me.active \in Stream
    BY <1>1 DEF Actor
  <2> QED BY <1>2, <1>11, <2>1, <2>2 DEF Calm, SameUse, SameQueue
<1> QED BY <1>3, <1>10, <1>11 DEF e, T, U, me, her

LEMMA FreeBecomes ==
    ASSUME NEW e \in End, NEW d, d = [Free EXCEPT !.by = e, !.st[e] = "syn"]
    PROVE  d \in Conn /\ d.st[e] = "syn" /\ Becomes(Free, d, e, Peer(e))
<1> DEFINE f == Peer(e)
           st == [Free.st EXCEPT ![e] = "syn"]
           d1 == [Free EXCEPT !.by = e]
           d2 == [d1 EXCEPT !.st = st]
<1>1. f \in End /\ f # e
  BY PeerIsOther
<1>2. Free \in Conn /\ \A x \in End : Free.st[x] = "free" /\ Free.buf[x] = <<>> /\ Free.wire[x] = <<>>
  BY FreeIs
<1>3. Free.st \in [End -> Status]
  BY <1>2 DEF Conn
<1>4. st \in [End -> Status] /\ st[e] = "syn" /\ st[f] = "free"
  <2>1. "syn" \in Status
    BY DEF Status
  <2> QED BY <1>1, <1>2, <1>3, <2>1
<1> HIDE DEF st
<1>5. d1 \in Conn /\ d1.st = Free.st /\ d1.buf = Free.buf /\ d1.wire = Free.wire
  <2> DEFINE z == Free
  <2>1. z \in Conn
    BY <1>2
  <2> HIDE DEF z
  <2>2. [z EXCEPT !.by = e] \in Conn
    BY <2>1 DEF Conn
  <2>3. /\ [z EXCEPT !.by = e].st = z.st /\ [z EXCEPT !.by = e].buf = z.buf
        /\ [z EXCEPT !.by = e].wire = z.wire
    BY <2>1 DEF Conn
  <2> QED BY <2>2, <2>3 DEF z
<1>6. d = d2
  <2> DEFINE z == Free
  <2>1. d = [z EXCEPT !.by = e, !.st[e] = "syn"] /\ z \in Conn
    BY <1>2
  <2>2. d2 = [[z EXCEPT !.by = e] EXCEPT !.st = [z.st EXCEPT ![e] = "syn"]]
    BY DEF st
  <2> HIDE DEF z, d2
  <2> QED BY <2>1, <2>2 DEF Conn
<1> HIDE DEF d1
<1>7. d2 \in Conn /\ d2.st = st /\ d2.buf = d1.buf /\ d2.wire = d1.wire
  BY <1>4, <1>5 DEF Conn
<1> HIDE DEF d2
<1>8. Becomes(Free, d, e, f)
  BY <1>1, <1>2, <1>4, <1>5, <1>6, <1>7 DEF Becomes, Changes
<1> QED BY <1>4, <1>6, <1>7, <1>8

LEMMA MoreConns ==
    ASSUME NEW me \in Actor, NEW s \in Stream
    PROVE  LET her == [me EXCEPT !.conns = Append(@, s)]
           IN /\ her \in Actor /\ SameUse(me, her)
              /\ ToSet(me.conns) \subseteq ToSet(her.conns) /\ s \in ToSet(her.conns)
              /\ her.auth = me.auth /\ her.heard = me.heard
<1> DEFINE cs == Append(me.conns, s)
           her == [me EXCEPT !.conns = cs]
<1>1. me.conns \in Seq(Stream)
  BY DEF Actor
<1>2. cs \in Seq(Stream) /\ ToSet(me.conns) \subseteq ToSet(cs) /\ s \in ToSet(cs)
  <2> DEFINE q == me.conns
  <2>1. q \in Seq(Stream)
    BY <1>1
  <2> HIDE DEF q
  <2>2. Append(q, s) \in Seq(Stream)
    BY <2>1
  <2>3. \A i \in DOMAIN q : i \in DOMAIN Append(q, s) /\ Append(q, s)[i] = q[i]
    BY <2>1
  <2>4. Len(q) + 1 \in DOMAIN Append(q, s) /\ Append(q, s)[Len(q) + 1] = s
    BY <2>1
  <2>5. ToSet(q) \subseteq ToSet(Append(q, s)) /\ s \in ToSet(Append(q, s))
    BY <2>3, <2>4 DEF ToSet
  <2> QED BY <2>2, <2>5 DEF q
<1> HIDE DEF cs
<1>3. /\ her \in Actor /\ her.conns = cs /\ her.auth = me.auth /\ her.heard = me.heard
      /\ her.active = me.active /\ her.input = me.input /\ her.queue = me.queue
      /\ her.restart = me.restart /\ her.seen = me.seen
  BY <1>2 DEF Actor
<1> HIDE DEF her
<1>4. SameUse(me, her)
  BY <1>3 DEF SameUse, SameQueue
<1> QED BY <1>2, <1>3, <1>4 DEF her, cs

LEMMA ConnectKeeps ==
    ASSUME NEW S, NEW you, NEW n, Turning(S, you, n), Calm(S.me, S.tcp, S.e)
    PROVE  LET T == Connect(S)
           IN Turning(T, you, n) /\ T.e = S.e /\ Calm(T.me, T.tcp, S.e)
<1> DEFINE free == {s \in Stream : S.tcp[s] = Free}
           s == CHOOSE s \in free : TRUE
           may == /\ S.me.auth \/ S.me.queue # <<>>
                  /\ \A c \in ToSet(S.me.conns) : ~Alive(S, c)
                  /\ free # {}
           R == [S EXCEPT !.tcp[s].by = S.e, !.tcp[s].st[S.e] = "syn",
                          !.me.conns = Append(@, s)]
<1>1. Connect(S) = IF may THEN R ELSE S
  BY DEF Connect
<1>2. CASE ~may
  <2> HIDE DEF may
  <2> QED BY <1>1, <1>2
<1>3. CASE may
  <2> DEFINE d == [Free EXCEPT !.by = S.e, !.st[S.e] = "syn"]
             her == [S.me EXCEPT !.conns = Append(@, s)]
             U == [S.tcp EXCEPT ![s] = d]
  <2>1. s \in Stream /\ S.tcp[s] = Free
    BY <1>3
  <2> HIDE DEF s, may
  <2>2. S.e \in End /\ S.me \in Actor /\ S.tcp \in [Stream -> Conn] /\ Shaped(S)
    BY DEF Turning
  <2>3. /\ Shaped(R) /\ R.e = S.e /\ R.got = S.got /\ R.me = her
        /\ R.tcp = [S.tcp EXCEPT ![s].by = S.e, ![s].st[S.e] = "syn"]
    <3> DEFINE r == R
    <3>1. r = [S EXCEPT !.tcp[s].by = S.e, !.tcp[s].st[S.e] = "syn", !.me.conns = Append(@, s)]
      OBVIOUS
    <3> HIDE DEF r
    <3>2. Shaped(S)
      BY <2>2
    <3>3. r.e = S.e /\ r.got = S.got
      BY <3>1, <3>2 DEF Shaped
    <3>4. r.me = [S.me EXCEPT !.conns = Append(@, s)]
      BY <3>1, <3>2 DEF Shaped
    <3>5. r.tcp = [S.tcp EXCEPT ![s].by = S.e, ![s].st[S.e] = "syn"]
      BY <3>1, <3>2 DEF Shaped
    <3>6. Shaped(r)
      BY <3>1, <3>2 DEF Shaped
    <3> QED BY <3>3, <3>4, <3>5, <3>6 DEF r
  <2>4. d \in Conn /\ d.st[S.e] = "syn" /\ Becomes(Free, d, S.e, Peer(S.e))
    BY <2>2, FreeBecomes
  <2>5. /\ her \in Actor /\ SameUse(S.me, her)
        /\ ToSet(S.me.conns) \subseteq ToSet(her.conns) /\ s \in ToSet(her.conns)
    BY <2>1, <2>2, MoreConns
  <2> HIDE DEF R, d, her
  <2>6. R.tcp = U
    <3> DEFINE V == S.tcp
               e == S.e
    <3>1. V \in [Stream -> Conn] /\ V[s] = Free
      BY <2>1, <2>2
    <3> HIDE DEF V, e
    <3>2. [V EXCEPT ![s].by = e, ![s].st[e] = "syn"]
            = [V EXCEPT ![s] = [V[s] EXCEPT !.by = e, !.st[e] = "syn"]]
      BY <2>1, <3>1
    <3> QED BY <2>3, <3>1, <3>2 DEF V, e, d
  <2>7. S.tcp[s].st[S.e] # "est"
    BY <2>1, <2>2, FreeIs
  <2>8. Turning(R, you, n) /\ Calm(R.me, R.tcp, R.e)
    BY <2>1, <2>3, <2>4, <2>5, <2>6, <2>7, MovesTurn
  <2> QED BY <1>1, <1>3, <2>3, <2>8
<1> QED BY <1>2, <1>3
-----------------------------------------------------------------------------
(* What has been received is read                                             *)

(* The fold of read over the first k records.                                 *)
Largest(t) == CHOOSE i \in t : \A j \in t : i >= j
Delivers(S, rs, k, it) ==
    it = [t \in SUBSET (1..k) |->
            IF t = {} THEN S ELSE Deliver(it[t \ {Largest(t)}], rs[Largest(t)])]

LEMMA LargestIs ==
    ASSUME NEW k \in Nat, NEW t \in SUBSET (1..k), t # {}
    PROVE  Largest(t) \in t /\ \A j \in t : Largest(t) >= j
<1> DEFINE less == {k - i : i \in t}
<1>1. \A i \in t : i \in Nat /\ i <= k
  OBVIOUS
<1>2. less \in SUBSET Nat /\ less # {}
  <2>1. \A i \in t : k - i \in Nat
    BY <1>1
  <2> QED BY <2>1
<1>3. PICK m \in less : \A x \in less : m <= x
  <2> HIDE DEF less
  <2> QED BY <1>2, Least
<1>4. PICK i \in t : m = k - i
  OBVIOUS
<1>5. \A j \in t : k - i <= k - j
  BY <1>3, <1>4
<1>6. \A j \in t : i >= j
  BY <1>1, <1>5
<1> QED BY <1>6 DEF Largest

LEMMA FoldExists ==
    ASSUME NEW S, NEW rs, NEW k \in Nat
    PROVE  \E it : Delivers(S, rs, k, it)
<1> DEFINE bad == {m \in Nat : ~\E it : Delivers(S, rs, m, it)}
<1> SUFFICES ASSUME bad # {} PROVE FALSE
  OBVIOUS
<1>1. PICK m \in bad : m = 0 \/ (m - 1 \in Nat /\ m - 1 \notin bad)
  <2> HIDE DEF bad
  <2>1. bad \in SUBSET Nat
    BY DEF bad
  <2> QED BY <2>1, FirstFailure
<1>2. m \in Nat /\ ~\E it : Delivers(S, rs, m, it)
  OBVIOUS
<1>3. CASE m = 0
  <2> DEFINE it == [t \in {{}} |-> S]
  <2>1. SUBSET (1..m) = {{}}
    BY <1>3
  <2>2. Delivers(S, rs, m, it)
    BY <2>1 DEF Delivers
  <2> QED BY <1>2, <2>2
<1>4. CASE m # 0
  <2>1. PICK part : Delivers(S, rs, m - 1, part)
    BY <1>1, <1>4
  <2> DEFINE it == [t \in SUBSET (1..m) |-> IF m \in t THEN Deliver(part[t \ {m}], rs[m])
                                            ELSE part[t]]
  <2>2. ASSUME NEW t \in SUBSET (1..m), m \notin t PROVE t \in SUBSET (1..(m - 1))
    BY <1>2, <2>2
  <2>3. ASSUME NEW t \in SUBSET (1..m)
        PROVE  it[t] = IF t = {} THEN S
                       ELSE Deliver(it[t \ {Largest(t)}], rs[Largest(t)])
    <3>1. CASE m \notin t
      <4>1. t \in SUBSET (1..(m - 1)) /\ t \ {Largest(t)} \in SUBSET (1..(m - 1))
        BY <2>2, <3>1
      <4>2. part[t] = IF t = {} THEN S ELSE Deliver(part[t \ {Largest(t)}], rs[Largest(t)])
        BY <2>1, <4>1 DEF Delivers
      <4>3. it[t \ {Largest(t)}] = part[t \ {Largest(t)}] /\ it[t] = part[t]
        BY <3>1
      <4> QED BY <4>2, <4>3
    <3>2. CASE m \in t
      <4>1. Largest(t) \in t /\ \A j \in t : Largest(t) >= j
        BY <1>2, <3>2, LargestIs
      <4>2. Largest(t) \in 1..m /\ Largest(t) >= m
        BY <3>2, <4>1
      <4>3. Largest(t) = m
        BY <1>2, <4>2
      <4>4. t \ {m} \in SUBSET (1..m) /\ m \notin t \ {m}
        OBVIOUS
      <4>5. it[t \ {m}] = part[t \ {m}]
        BY <4>4
      <4> QED BY <3>2, <4>3, <4>5
    <3> QED BY <3>1, <3>2
  <2>4. Delivers(S, rs, m, it)
    <3>1. it = [t \in SUBSET (1..m) |-> it[t]]
      OBVIOUS
    <3> HIDE DEF it
    <3> QED BY <2>3, <3>1 DEF Delivers
  <2> QED BY <1>2, <2>4
<1> QED BY <1>3, <1>4

(* The states in between, when records are delivered one after another.       *)
DeliveredSteps(S, rs, k, F) ==
    F[0] = S /\ \A i \in 1..k : F[i] = Deliver(F[i - 1], rs[i])

LEMMA DeliveredIs ==
    ASSUME NEW S, NEW rs, NEW k \in Nat, DOMAIN rs = 1..k
    PROVE  \E F : DeliveredSteps(S, rs, k, F) /\ FoldLeft(Deliver, S, rs) = F[k]
<1> DEFINE it == CHOOSE it : Delivers(S, rs, k, it)
           F == [i \in 0..k |-> it[1..i]]
<1>1. Delivers(S, rs, k, it)
  BY FoldExists
<1>2. FoldLeft(Deliver, S, rs) = it[1..k]
  BY DEF FoldLeft, MapThenFoldSet, Delivers, Largest, Max
<1> HIDE DEF it
<1>3. ASSUME NEW i \in 1..k PROVE it[1..i] = Deliver(it[1..(i - 1)], rs[i])
  <2>1. 1..i \in SUBSET (1..k) /\ 1..i # {} /\ i \in 1..i /\ i \in Nat
    OBVIOUS
  <2>2. Largest(1..i) \in 1..i /\ Largest(1..i) >= i
    BY <2>1, LargestIs
  <2>3. Largest(1..i) = i
    BY <2>2
  <2>4. (1..i) \ {i} = 1..(i - 1)
    BY <2>1
  <2> QED BY <1>1, <2>1, <2>3, <2>4 DEF Delivers
<1>4. it[1..0] = S
  <2>1. 1..0 = {} /\ {} \in SUBSET (1..k)
    OBVIOUS
  <2> QED BY <1>1, <2>1 DEF Delivers
<1>5. F[0] = S
  BY <1>4
<1>6. \A i \in 1..k : F[i] = it[1..i] /\ F[i - 1] = it[1..(i - 1)]
  OBVIOUS
<1>7. DeliveredSteps(S, rs, k, F)
  BY <1>3, <1>5, <1>6 DEF DeliveredSteps
<1> QED BY <1>2, <1>7

(* All that was received is taken from TCP's buffer.                          *)
Emptied(c, d, e) == d = [c EXCEPT !.buf[e] = <<>>]

LEMMA EmptyBuffer ==
    ASSUME NEW c \in Conn, NEW e \in End, NEW d, Emptied(c, d, e)
    PROVE  /\ d \in Conn /\ d.st = c.st /\ d.wire = c.wire /\ d.buf[e] = <<>>
           /\ d.buf[Peer(e)] = c.buf[Peer(e)]
<1> DEFINE buf == [c.buf EXCEPT ![e] = <<>>]
<1>1. c.buf \in [End -> Seq(Piece)] /\ <<>> \in Seq(Piece)
  BY DEF Conn
<1>2. buf \in [End -> Seq(Piece)] /\ buf[e] = <<>> /\ buf[Peer(e)] = c.buf[Peer(e)]
  BY <1>1, PeerIsOther
<1>3. d = [c EXCEPT !.buf = buf]
  BY DEF Emptied
<1> HIDE DEF buf
<1>4. d \in Conn /\ d.st = c.st /\ d.wire = c.wire /\ d.buf = buf
  BY <1>2, <1>3 DEF Conn
<1> QED BY <1>2, <1>4

Taken(S, R, s) ==
    /\ R.me = [S.me EXCEPT !.input = S.me.input \o S.tcp[s].buf[S.e]]
    /\ \E d : Emptied(S.tcp[s], d, S.e) /\ R.tcp = [S.tcp EXCEPT ![s] = d]

LEMMA ReadsAll ==
    ASSUME NEW S, NEW you, NEW n, Turning(S, you, n), Calm(S.me, S.tcp, S.e),
           NEW s \in Stream, s = S.me.active,
           NEW R, Shaped(R), R.e = S.e, R.got = S.got, Taken(S, R, s)
    PROVE  Turning(R, you, n) /\ Calm(R.me, R.tcp, R.e)
<1>0. PICK d : Emptied(S.tcp[s], d, S.e) /\ R.tcp = [S.tcp EXCEPT ![s] = d]
  BY DEF Taken
<1> DEFINE e == S.e
           f == Peer(e)
           T == S.tcp
           U == R.tcp
           G == S.got
           me == S.me
           her == R.me
           got1 == T[s].buf[e]
<1>1. /\ e \in End /\ f \in End /\ me \in Actor /\ you \in Actor /\ f = Peer(e)
      /\ T \in [Stream -> Conn] /\ G \in [End -> Seq(Record)] /\ n \in Nat
      /\ Good(e, f, me, you, T, G, n) /\ Calm(me, T, e) /\ s = me.active
  BY PeerIsOther DEF Turning
<1>2. T[s] \in Conn /\ Emptied(T[s], d, e)
  BY <1>0, <1>1
<1>3. her = [me EXCEPT !.input = me.input \o got1] /\ U = [T EXCEPT ![s] = d]
  BY <1>0 DEF Taken
<1>4. R.e = e /\ R.got = G /\ Shaped(R)
  OBVIOUS
<1> HIDE DEF e, f, T, U, G, me, her
<1>5. /\ d \in Conn /\ d.st = T[s].st /\ d.wire = T[s].wire /\ d.buf[e] = <<>>
      /\ d.buf[f] = T[s].buf[f]
  BY <1>1, <1>2, EmptyBuffer
<1>6. got1 \in Seq(Piece) /\ me.input \in Seq(Piece) /\ T[s].wire[e] \in Seq(Piece)
  BY <1>1, <1>2 DEF Conn, Actor
<1> HIDE DEF got1
<1>7. /\ her \in Actor /\ her.input = me.input \o got1 /\ her.conns = me.conns
      /\ SameQueue(me, her)
  <2> DEFINE z == me.input \o got1
  <2>1. z \in Seq(Piece)
    <3> DEFINE in == me.input
    <3> HIDE DEF in
    <3>1. in \in Seq(Piece) /\ got1 \in Seq(Piece)
      BY <1>6 DEF in
    <3>2. in \o got1 \in Seq(Piece)
      BY <3>1
    <3> QED BY <3>2 DEF in
  <2>2. her = [me EXCEPT !.input = z]
    BY <1>3
  <2> HIDE DEF z
  <2>3. /\ her \in Actor /\ her.input = z /\ her.conns = me.conns
        /\ her.active = me.active /\ her.queue = me.queue
        /\ her.restart = me.restart /\ her.seen = me.seen
    BY <1>1, <2>1, <2>2 DEF Actor
  <2> QED BY <2>3 DEF SameQueue, z
<1>8. U \in [Stream -> Conn] /\ U[s] = d /\ \A t \in Stream : t # s => U[t] = T[t]
  BY <1>1, <1>3, <1>5
<1>9. \A t \in Stream : U[t].st = T[t].st /\ U[t].wire = T[t].wire
  BY <1>5, <1>8
<1>10. Pairs(T) /\ Listed(me, T, e)
  BY <1>1 DEF Good
<1>11. Moved(T, U, e, f)
  <2> SUFFICES ASSUME NEW t \in Stream PROVE Changes(T[t], U[t], e, f)
    BY DEF Moved
  <2>1. CASE t = s
    BY <1>5, <1>8, <2>1 DEF Changes
  <2>2. CASE t # s
    <3>1. T[t].st[e] # "est" => T[t].buf[e] = <<>>
      BY <1>1, <1>10 DEF Pairs
    <3>2. U[t] = T[t]
      BY <1>8, <2>2
    <3> QED BY <3>1, <3>2 DEF Changes
  <2> QED BY <2>1, <2>2
<1>12. Listed(her, U, e) /\ Unused(me, T, U, e) /\ Calm(her, U, e)
  <2>1. Listed(her, U, e)
    BY <1>7, <1>9, <1>10 DEF Listed
  <2>2. Unused(me, T, U, e)
    BY <1>9 DEF Unused
  <2>3. Calm(her, U, e)
    BY <1>1, <1>7, <1>9 DEF Calm, SameQueue
  <2> QED BY <2>1, <2>2, <2>3
<1>13. Coming(U, e, her) = Coming(T, e, me)
  <2> DEFINE x == Coming(T, e, me)
             y == Coming(U, e, her)
  <2>1. ASSUME NEW t \in Stream, t # s PROVE y[t] = x[t]
    <3>1. Input(me, t) = <<>> /\ Input(her, t) = <<>>
      BY <1>1, <1>7, <2>1 DEF Input, SameQueue
    <3>2. y[t] = (IF U[t].st[e] = "est" THEN Input(her, t) ELSE <<>>)
                   \o U[t].buf[e] \o U[t].wire[e]
      BY ONLY ComingAt
    <3>3. x[t] = (IF T[t].st[e] = "est" THEN Input(me, t) ELSE <<>>)
                   \o T[t].buf[e] \o T[t].wire[e]
      BY ONLY ComingAt
    <3> QED BY <1>8, <2>1, <3>1, <3>2, <3>3
  <2>2. y[s] = x[s]
    <3>1. T[s].st[e] = "est"
      BY <1>1, ControlAssumption DEF Calm
    <3>2. Input(me, s) = me.input /\ Input(her, s) = me.input \o got1
      BY <1>1, <1>7, Zenon DEF Input, SameQueue
    <3>3. x[s] = me.input \o got1 \o T[s].wire[e]
      <4>1. x[s] = (IF T[s].st[e] = "est" THEN Input(me, s) ELSE <<>>)
                     \o T[s].buf[e] \o T[s].wire[e]
        BY ONLY ComingAt
      <4> QED BY <3>1, <3>2, <4>1, Zenon DEF got1
    <3>4. y[s] = (me.input \o got1) \o <<>> \o T[s].wire[e]
      <4>1. y[s] = (IF U[s].st[e] = "est" THEN Input(her, s) ELSE <<>>)
                      \o U[s].buf[e] \o U[s].wire[e]
        BY ONLY ComingAt
      <4>2. U[s].st[e] = "est" /\ U[s].buf[e] = <<>> /\ U[s].wire[e] = T[s].wire[e]
        BY <1>5, <1>8, <3>1
      <4> QED BY <3>2, <4>1, <4>2
    <3>5. (me.input \o got1) \o <<>> = me.input \o got1
      <4> DEFINE z == me.input \o got1
      <4>1. z \in Seq(Piece)
        BY <1>7 DEF Actor
      <4> HIDE DEF z
      <4>2. z \o <<>> = z
        BY <4>1
      <4> QED BY <4>2 DEF z
    <3> QED BY <3>3, <3>4, <3>5
  <2>3. \A t \in Stream : y[t] = x[t]
    BY <2>1, <2>2
  <2> QED BY <2>3, ComingSame
<1>14. Good(e, f, her, you, U, G, n)
  BY <1>1, <1>7, <1>8, <1>11, <1>12, <1>13, Moves
<1> QED BY <1>1, <1>4, <1>7, <1>8, <1>12, <1>14 DEF Turning, f, U, her

(* The first record of what was taken is delivered, unless it was before.     *)
Absorbs(me, her, r) ==
    /\ her.active = me.active /\ her.queue = me.queue /\ her.restart = me.restart
    /\ her.conns = me.conns /\ her.seen = me.seen \cup {r}
    /\ her.input = SubSeq(me.input, 3, Len(me.input))
Delivered(G, H, e, me, r) == H = IF r \in me.seen THEN G ELSE [G EXCEPT ![e] = Append(@, r)]

LEMMA ConcatIs ==
    ASSUME NEW a \in Seq(Piece), NEW b \in Seq(Piece)
    PROVE  /\ Len(a \o b) = Len(a) + Len(b)
           /\ \A i \in 1..Len(a \o b) : (a \o b)[i] = IF i <= Len(a) THEN a[i] ELSE b[i - Len(a)]
OBVIOUS

LEMMA AbsorbsOne ==
    ASSUME NEW S, NEW you, NEW n, Turning(S, you, n), Calm(S.me, S.tcp, S.e),
           NEW s \in Stream, s = S.me.active, S.tcp[s].buf[S.e] = <<>>,
           Len(S.me.input) >= 2, NEW r, r = S.me.input[2][1],
           NEW R, Shaped(R), R.e = S.e, R.tcp = S.tcp, R.me \in Actor,
           Absorbs(S.me, R.me, r), Delivered(S.got, R.got, S.e, S.me, r)
    PROVE  Turning(R, you, n) /\ Calm(R.me, R.tcp, R.e)
<1> DEFINE e == S.e
           f == Peer(e)
           T == S.tcp
           G == S.got
           H == R.got
           me == S.me
           her == R.me
           c == Coming(T, e, me)   ra == Side(T, e)
           d == Coming(T, e, her)  sa == Side(T, f)
           x == Coming(T, f, you)
<1>1. /\ e \in End /\ f \in End /\ me \in Actor /\ you \in Actor /\ f = Peer(e) /\ f # e
      /\ T \in [Stream -> Conn] /\ G \in [End -> Seq(Record)] /\ n \in Nat
      /\ Good(e, f, me, you, T, G, n) /\ Calm(me, T, e) /\ s = me.active
  BY PeerIsOther DEF Turning
<1>2. /\ her \in Actor /\ Absorbs(me, her, r) /\ Delivered(G, H, e, me, r)
      /\ T[s].buf[e] = <<>> /\ Len(me.input) >= 2 /\ r = me.input[2][1]
  OBVIOUS
<1>3. R.e = e /\ R.tcp = T /\ Shaped(R)
  OBVIOUS
<1> HIDE DEF e, f, T, G, H, me, her
<1>4. me.input \in Seq(Piece) /\ r \in Record
  <2>1. me.input \in Seq(Piece)
    BY <1>1 DEF Actor
  <2>2. me.input[2] \in Piece
    BY <1>2, <2>1
  <2> QED BY <1>2, <2>1, <2>2 DEF Piece
<1>5. H \in [End -> Seq(Record)] /\ H[f] = G[f]
      /\ H[e] = IF r \in me.seen THEN G[e] ELSE Append(G[e], r)
  <2>1. G[e] \in Seq(Record)
    BY <1>1
  <2>2. Append(G[e], r) \in Seq(Record)
    BY <1>4, <2>1
  <2> QED BY <1>1, <1>2, <2>2 DEF Delivered
<1>6. /\ c \in [Stream -> Seq(Piece)] /\ d \in [Stream -> Seq(Piece)]
      /\ x \in [Stream -> Seq(Piece)]
      /\ ra \in [Stream -> Status] /\ sa \in [Stream -> Status]
  BY <1>1, <1>2, ComingIs
<1>7. /\ Pairs(T) /\ Listed(me, T, e) /\ Queued(me) /\ me.seen = ToSet(G[e])
      /\ Listed(you, T, f) /\ Queued(you) /\ you.seen = ToSet(G[f])
      /\ Calm(you, T, f) /\ ~you.restart
      /\ Flow(c, ra, sa, you, G[e], n) /\ Flow(x, sa, ra, me, G[f], n)
  BY <1>1 DEF Good
<1>8. H[e] = IF r \in ToSet(G[e]) THEN G[e] ELSE Append(G[e], r)
  BY <1>5, <1>7
<1>9. \A t \in Stream : ra[t] = T[t].st[e] /\ sa[t] = T[t].st[f]
  BY DEF Side
<1>10. ra[s] = "est" /\ \A t \in Stream : ra[t] = "est" => t = s
  BY <1>1, <1>9, ControlAssumption DEF Calm
<1>11. \A t \in Stream : sa[t] = "gone" => ra[t] = "est"
  <2> SUFFICES ASSUME NEW t \in Stream, sa[t] = "gone" PROVE ra[t] = "est"
    OBVIOUS
  <2>1. Matching(T[t].st[f], T[t].st[Peer(f)]) /\ Peer(f) = e
    BY <1>1, <1>7, PeerIsOther DEF Pairs
  <2> QED BY <1>9, <2>1 DEF Matching
<1>12. ASSUME NEW t \in Stream, t # s PROVE d[t] = c[t]
  <2>1. Input(me, t) = <<>> /\ Input(her, t) = <<>>
    BY <1>1, <1>2, <1>12 DEF Input, Absorbs
  <2>2. d[t] = (IF T[t].st[e] = "est" THEN Input(her, t) ELSE <<>>)
                 \o T[t].buf[e] \o T[t].wire[e]
    BY ONLY ComingAt
  <2>3. c[t] = (IF T[t].st[e] = "est" THEN Input(me, t) ELSE <<>>)
                 \o T[t].buf[e] \o T[t].wire[e]
    BY ONLY ComingAt
  <2> QED BY <2>1, <2>2, <2>3
<1>13. /\ Len(c[s]) >= 2 /\ Len(d[s]) = Len(c[s]) - 2 /\ r = c[s][2][1]
       /\ \A i \in 1..Len(d[s]) : d[s][i] = c[s][2 + i]
  <2> DEFINE w == T[s].wire[e]
             a == me.input
             b == her.input
  <2>1. w \in Seq(Piece) /\ a \in Seq(Piece) /\ b \in Seq(Piece)
    <3>1. T[s] \in Conn
      BY <1>1
    <3>2. w \in Seq(Piece)
      BY <1>1, <3>1 DEF Conn
    <3>3. b \in Seq(Piece)
      BY <1>2 DEF Actor
    <3> QED BY <1>4, <3>2, <3>3
  <2>2. b = SubSeq(a, 3, Len(a)) /\ Len(a) >= 2 /\ r = a[2][1]
    BY <1>2 DEF Absorbs
  <2>3. c[s] = a \o <<>> \o w
    <3>1. c[s] = (IF T[s].st[e] = "est" THEN Input(me, s) ELSE <<>>)
                    \o T[s].buf[e] \o T[s].wire[e]
      BY ONLY ComingAt
    <3>2. T[s].st[e] = "est" /\ T[s].buf[e] = <<>>
      BY <1>1, <1>2, <1>9, <1>10
    <3>3. Input(me, s) = me.input
      BY <1>1, <1>2 DEF Input
    <3> QED BY <3>1, <3>2, <3>3
  <2>4. d[s] = b \o <<>> \o w
    <3>1. d[s] = (IF T[s].st[e] = "est" THEN Input(her, s) ELSE <<>>)
                    \o T[s].buf[e] \o T[s].wire[e]
      BY ONLY ComingAt
    <3>2. T[s].st[e] = "est" /\ T[s].buf[e] = <<>>
      BY <1>1, <1>2, <1>9, <1>10
    <3>3. Input(her, s) = her.input
      BY <1>1, <1>2 DEF Input, Absorbs
    <3> QED BY <3>1, <3>2, <3>3
  <2> HIDE DEF a, b, w, c, d
  <2>5. c[s] = a \o w /\ d[s] = b \o w
    BY <2>1, <2>3, <2>4
  <2>6. Len(a) \in Nat /\ Len(w) \in Nat /\ Len(b) = Len(a) - 2
        /\ \A i \in 1..Len(b) : b[i] = a[i + 2]
    <3>1. Len(a) \in Nat /\ \A i \in 3..Len(a) : a[i] \in Piece
      BY <2>1
    <3>2. /\ Len(b) = IF 3 <= Len(a) THEN Len(a) - 3 + 1 ELSE 0
          /\ \A i \in 1..(Len(a) - 3 + 1) : b[i] = a[3 + i - 1]
      BY <2>2, <3>1, SubSeqProperties
    <3>6. Len(b) = IF 3 <= Len(a) THEN Len(a) - 3 + 1 ELSE 0
      BY <3>2
    <3> DEFINE la == Len(a)
               lb == Len(b)
    <3>7. la \in Nat /\ la >= 2 /\ lb = IF 3 <= la THEN la - 3 + 1 ELSE 0
      BY <2>2, <3>1, <3>6
    <3> HIDE DEF la, lb
    <3>8. lb = la - 2
      BY <3>7
    <3>3. Len(b) = Len(a) - 2
      BY <3>8 DEF la, lb
    <3>4. \A i \in 1..Len(b) : i \in 1..(Len(a) - 3 + 1) /\ 3 + i - 1 = i + 2
      BY <3>1, <3>3
    <3>5. Len(w) \in Nat
      BY <2>1
    <3> QED BY <3>1, <3>2, <3>3, <3>4, <3>5
  <2>7. /\ Len(c[s]) = Len(a) + Len(w) /\ Len(d[s]) = Len(b) + Len(w)
        /\ \A i \in 1..Len(c[s]) : c[s][i] = IF i <= Len(a) THEN a[i] ELSE w[i - Len(a)]
        /\ \A i \in 1..Len(d[s]) : d[s][i] = IF i <= Len(b) THEN b[i] ELSE w[i - Len(b)]
    BY <2>1, <2>5, ConcatIs
  <2>8. Len(c[s]) >= 2 /\ Len(d[s]) = Len(c[s]) - 2 /\ 2 \in 1..Len(c[s]) /\ 2 <= Len(a)
    BY <2>2, <2>6, <2>7
  <2>9. r = c[s][2][1]
    BY <2>2, <2>7, <2>8
  <2>10. ASSUME NEW i \in 1..Len(d[s]) PROVE d[s][i] = c[s][2 + i]
    <3>1. 2 + i \in 1..Len(c[s]) /\ (2 + i) - Len(a) = i - Len(b)
      BY <2>6, <2>7, <2>8
    <3>2. i <= Len(b) <=> 2 + i <= Len(a)
      BY <2>6
    <3>3. i <= Len(b) => b[i] = a[2 + i]
      BY <2>6
    <3> QED BY <2>7, <3>1, <3>2, <3>3
  <2> QED BY <2>8, <2>9, <2>10
<1> HIDE DEF c, d, x, ra, sa
<1>14. Flow(d, ra, sa, you, H[e], n)
  <2>1. G[e] \in Seq(Record) /\ H[e] \in Seq(Record)
    BY <1>1, <1>5
  <2>2. Takes(c, d, ra, sa, s, r)
    BY <1>10, <1>11, <1>12, <1>13 DEF Takes
  <2> QED BY <1>1, <1>4, <1>6, <1>7, <1>8, <2>1, <2>2, FlowDelivers
<1>15. Flow(x, sa, ra, her, H[f], n)
  <2>1. her.active = me.active /\ her.queue = me.queue /\ her.restart = me.restart
    BY <1>2 DEF Absorbs
  <2>2. Fronts(x, sa, ra, her)
    BY <1>7, <2>1 DEF Flow, Fronts
  <2>3. \A j \in 1..Len(her.queue) :
           \E i \in 1..Len(me.queue) : her.queue[j].rec = me.queue[i].rec
    BY <2>1
  <2>4. G[f] \in Seq(Record)
    BY <1>1
  <2>5. Flow(x, sa, ra, her, G[f], n)
    BY <1>1, <1>2, <1>6, <1>7, <2>2, <2>3, <2>4, FlowQueue
  <2> QED BY <1>5, <2>5
<1>16. her.seen = ToSet(H[e]) /\ you.seen = ToSet(H[f])
  <2>1. her.seen = me.seen \cup {r}
    BY <1>2 DEF Absorbs
  <2>2. ToSet(Append(G[e], r)) = ToSet(G[e]) \cup {r}
    <3> DEFINE g == G[e]
    <3>1. g \in Seq(Record)
      BY <1>1
    <3> HIDE DEF g
    <3>2. /\ DOMAIN Append(g, r) = 1..(Len(g) + 1) /\ DOMAIN g = 1..Len(g) /\ Len(g) \in Nat
          /\ \A i \in 1..Len(g) : Append(g, r)[i] = g[i]
          /\ Append(g, r)[Len(g) + 1] = r
      BY <3>1
    <3>3. \A y : y \in ToSet(Append(g, r)) <=> y \in ToSet(g) \cup {r}
      BY <3>2 DEF ToSet
    <3> QED BY <3>3 DEF g
  <2>3. r \in me.seen => me.seen \cup {r} = me.seen
    OBVIOUS
  <2> QED BY <1>5, <1>7, <2>1, <2>2, <2>3
<1>17. Listed(her, T, e) /\ Queued(her) /\ Calm(her, T, e)
  <2>1. Listed(her, T, e) /\ Calm(her, T, e)
    BY <1>1, <1>2, <1>7 DEF Listed, Calm, Absorbs
  <2>2. Queued(her)
    BY <1>2, <1>7 DEF Queued, Absorbs
  <2> QED BY <2>1, <2>2
<1>18. Good(e, f, her, you, T, H, n)
  BY <1>7, <1>14, <1>15, <1>16, <1>17 DEF Good, d, x, ra, sa
<1> QED BY <1>1, <1>2, <1>3, <1>5, <1>17, <1>18 DEF Turning, f, T, H, her

LEMMA DeliverIs ==
    ASSUME NEW X, Shaped(X), X.e \in End, X.me \in Actor, X.got \in [End -> Seq(Record)],
           NEW r \in Record
    PROVE  LET Y == Deliver(X, r)
           IN /\ Shaped(Y) /\ Y.e = X.e /\ Y.tcp = X.tcp /\ Y.me \in Actor
              /\ Y.me = [X.me EXCEPT !.seen = @ \cup {r}]
              /\ Delivered(X.got, Y.got, X.e, X.me, r) /\ Y.got \in [End -> Seq(Record)]
<1> DEFINE e == X.e
           me == X.me
           G == X.got
           her == [me EXCEPT !.seen = @ \cup {r}]
           H == [G EXCEPT ![e] = Append(@, r)]
           Y == Deliver(X, r)
<1>1. X = [e |-> e, me |-> me, tcp |-> X.tcp, got |-> G, settled |-> X.settled]
  BY DEF Shaped
<1>2. CASE r \in me.seen
  <2>1. Y = X
    BY <1>2 DEF Deliver
  <2>2. her = me
    <3> HIDE DEF me
    <3>1. me \in Actor /\ me.seen \cup {r} = me.seen
      BY <1>2 DEF me
    <3> QED BY <3>1 DEF Actor
  <2>3. Delivered(G, Y.got, e, me, r)
    BY <1>2, <2>1 DEF Delivered
  <2> QED BY <2>1, <2>2, <2>3
<1>3. CASE r \notin me.seen
  <2>1. her \in Actor
    <3> HIDE DEF me
    <3>1. me \in Actor
      BY DEF me
    <3> QED BY <3>1 DEF Actor
  <2>2. H \in [End -> Seq(Record)]
    <3>1. G[e] \in Seq(Record)
      OBVIOUS
    <3>2. Append(G[e], r) \in Seq(Record)
      BY <3>1
    <3> QED BY <3>2
  <2>3. Y = [X EXCEPT !.me.seen = @ \cup {r}, !.got[e] = Append(@, r), !.settled = @ \cup {r}]
    BY <1>3 DEF Deliver
  <2> DEFINE more == X.settled \cup {r}
             X1 == [X EXCEPT !.me.seen = @ \cup {r}]
             X2 == [X1 EXCEPT !.got[e] = Append(@, r)]
  <2>4. Y = [e |-> e, me |-> her, tcp |-> X.tcp, got |-> H, settled |-> more]
    <3>1. Y = [[e |-> e, me |-> me, tcp |-> X.tcp, got |-> G, settled |-> X.settled]
                 EXCEPT !.me.seen = @ \cup {r}, !.got[e] = Append(@, r), !.settled = @ \cup {r}]
      BY <1>1, <2>3
    <3> HIDE DEF Y, e, me, G, her, H
    <3> QED BY <3>1 DEF her, H
  <2> HIDE DEF Y, her, H
  <2>5. Shaped(Y) /\ Y.e = e /\ Y.tcp = X.tcp /\ Y.me = her /\ Y.got = H
    BY <2>4 DEF Shaped
  <2>6. Delivered(G, Y.got, e, me, r)
    BY <1>3, <2>5 DEF Delivered, H
  <2> QED BY <2>1, <2>2, <2>5, <2>6 DEF Y, her
<1> QED BY <1>2, <1>3

(* The state of the turn when i records of data have been delivered: X is what *)
(* the fold has, which keeps the bytes until it is done.                       *)
ReadSofar(S, X, data, i) ==
    [e |-> S.e, me |-> [X.me EXCEPT !.input = SubSeq(data, Pieces * i + 1, Len(data))],
     tcp |-> [S.tcp EXCEPT ![S.me.active].buf[S.e] = <<>>],
     got |-> X.got, settled |-> X.settled]

Kept(S, X) ==
    /\ Shaped(X) /\ X.e = S.e /\ X.tcp = S.tcp /\ X.me \in Actor
    /\ X.got \in [End -> Seq(Record)]
    /\ X.me.auth = S.me.auth /\ X.me.heard = S.me.heard /\ X.me.conns = S.me.conns
    /\ X.me.active = S.me.active /\ X.me.input = S.me.input /\ X.me.queue = S.me.queue
    /\ X.me.restart = S.me.restart
    /\ S.me.seen \subseteq X.me.seen

Sofar(S, X, data, i, V) ==
    /\ Shaped(V) /\ V.e = S.e /\ V.me \in Actor /\ V.got = X.got
    /\ V.tcp = [S.tcp EXCEPT ![S.me.active].buf[S.e] = <<>>]
    /\ V.me = [X.me EXCEPT !.input = SubSeq(data, Pieces * i + 1, Len(data))]
    /\ V.me.input = SubSeq(data, Pieces * i + 1, Len(data))
    /\ V.me.conns = X.me.conns /\ V.me.active = X.me.active
    /\ V.me.queue = X.me.queue /\ V.me.restart = X.me.restart /\ V.me.seen = X.me.seen

LEMMA SofarIs ==
    ASSUME NEW S, NEW X, Kept(S, X), NEW data \in Seq(Piece), NEW i \in Nat
    PROVE  Sofar(S, X, data, i, ReadSofar(S, X, data, i))
<1> DEFINE V == ReadSofar(S, X, data, i)
           rest == SubSeq(data, Pieces * i + 1, Len(data))
           her == [X.me EXCEPT !.input = rest]
           U == [S.tcp EXCEPT ![S.me.active].buf[S.e] = <<>>]
<1>1. rest \in Seq(Piece)
  <2>1. Pieces * i + 1 \in Int /\ Len(data) \in Int
        /\ \A j \in (Pieces * i + 1)..Len(data) : data[j] \in Piece
    BY DEF Pieces
  <2> QED BY <2>1, SubSeqProperties
<1> HIDE DEF rest
<1>2. X.me \in Actor
  BY DEF Kept
<1>3. /\ her \in Actor /\ her.input = rest
      /\ her.conns = X.me.conns /\ her.active = X.me.active /\ her.queue = X.me.queue
      /\ her.restart = X.me.restart /\ her.seen = X.me.seen
  BY <1>1, <1>2 DEF Actor
<1> HIDE DEF U
<1>4. V = [e |-> S.e, me |-> her, tcp |-> U, got |-> X.got, settled |-> X.settled]
  BY DEF ReadSofar, U, rest
<1> HIDE DEF her, V
<1>5. Shaped(V) /\ V.e = S.e /\ V.me = her /\ V.tcp = U /\ V.got = X.got
  BY <1>4 DEF Shaped
<1>6. Sofar(S, X, data, i, V)
  BY <1>3, <1>5 DEF Sofar, U, her, rest
<1> QED BY <1>6 DEF V

LEMMA RestIs ==
    ASSUME NEW q \in Seq(Piece), NEW m \in Nat, m >= 1, m <= Len(q) + 1,
           NEW b, b = SubSeq(q, m, Len(q))
    PROVE  /\ b \in Seq(Piece) /\ Len(b) = Len(q) - m + 1
           /\ \A j \in 1..Len(b) : b[j] = q[m + j - 1]
<1>1. m \in Int /\ Len(q) \in Nat /\ \A j \in m..Len(q) : q[j] \in Piece
  OBVIOUS
<1>2. /\ b \in Seq(Piece) /\ Len(b) = IF m <= Len(q) THEN Len(q) - m + 1 ELSE 0
      /\ \A j \in 1..(Len(q) - m + 1) : b[j] = q[m + j - 1]
  BY <1>1, SubSeqProperties
<1> DEFINE k == Len(q)
           l == Len(b)
<1>3. k \in Nat /\ m <= k + 1 /\ l = IF m <= k THEN k - m + 1 ELSE 0
  BY <1>1, <1>2
<1> HIDE DEF k, l
<1>4. l = k - m + 1
  BY <1>3
<1> QED BY <1>2, <1>4 DEF k, l

LEMMA RestOfRest ==
    ASSUME NEW data \in Seq(Piece), NEW i \in Nat \ {0}, 2 * i <= Len(data),
           NEW a, a = SubSeq(data, Pieces * (i - 1) + 1, Len(data))
    PROVE  /\ a \in Seq(Piece) /\ Len(a) >= 2 /\ a[2] = data[2 * i]
           /\ SubSeq(data, Pieces * i + 1, Len(data)) = SubSeq(a, 3, Len(a))
<1> DEFINE n == Len(data)
           b == SubSeq(data, Pieces * i + 1, n)
           d == SubSeq(a, 3, Len(a))
           m == 2 * (i - 1) + 1
<1>1. n \in Nat /\ m \in Nat /\ m >= 1 /\ 2 * i <= n /\ Pieces * (i - 1) + 1 = m /\ Pieces * i + 1 = m + 2
      /\ 2 * i = m + 1
  BY DEF Pieces
<1> HIDE DEF m
<1>2. \A j \in 1..n : data[j] \in Piece
  OBVIOUS
<1>3. a = SubSeq(data, m, n) /\ b = SubSeq(data, m + 2, n) /\ m \in Int /\ m + 2 \in Int /\ n \in Int
  BY <1>1
<1> HIDE DEF n, b
<1>4. /\ a \in Seq(Piece) /\ Len(a) = n - m + 1
      /\ \A j \in 1..Len(a) : a[j] = data[m + j - 1]
  <2>1. m <= Len(data) + 1 /\ a = SubSeq(data, m, Len(data))
    BY <1>1, <1>3 DEF n
  <2> QED BY <1>1, <2>1, RestIs DEF n
<1>5. Len(a) = n - m + 1 /\ Len(a) >= 2 /\ 2 \in 1..Len(a)
  <2>1. Len(a) = n - m + 1
    BY <1>4
  <2> QED BY <1>1, <2>1
<1>6. a[2] = data[2 * i]
  <2>1. a[2] = data[m + 2 - 1] /\ m + 2 - 1 = m + 1
    BY <1>1, <1>4, <1>5
  <2> QED BY <1>1, <2>1
<1>7. /\ b \in Seq(Piece) /\ Len(b) = n - m - 1
      /\ \A j \in 1..Len(b) : b[j] = data[(m + 2) + j - 1]
  <2>1. m + 2 <= Len(data) + 1 /\ m + 2 >= 1 /\ m + 2 \in Nat /\ b = SubSeq(data, m + 2, Len(data))
    BY <1>1, <1>3 DEF n
  <2>2. /\ b \in Seq(Piece) /\ Len(b) = Len(data) - (m + 2) + 1
        /\ \A j \in 1..Len(b) : b[j] = data[(m + 2) + j - 1]
    BY <2>1, RestIs
  <2>3. Len(data) - (m + 2) + 1 = n - m - 1
    BY <1>1 DEF n
  <2> QED BY <2>2, <2>3
<1>12. d = SubSeq(a, 3, Len(a))
  OBVIOUS
<1> HIDE DEF d
<1>8. /\ d \in Seq(Piece) /\ Len(d) = n - m - 1
      /\ \A j \in 1..Len(d) : d[j] = a[3 + j - 1]
  <2>1. 3 <= Len(a) + 1 /\ 3 \in Nat /\ 3 >= 1
    BY <1>1, <1>5
  <2>2. /\ d \in Seq(Piece) /\ Len(d) = Len(a) - 3 + 1
        /\ \A j \in 1..Len(d) : d[j] = a[3 + j - 1]
    <3> DEFINE k == 3
               c == a
    <3>1. k \in Nat /\ k >= 1 /\ k <= Len(c) + 1 /\ d = SubSeq(c, k, Len(c))
      BY <1>12, <2>1
    <3>2. c \in Seq(Piece)
      BY <1>4
    <3> HIDE DEF k, c
    <3>3. /\ d \in Seq(Piece) /\ Len(d) = Len(c) - k + 1
          /\ \A j \in 1..Len(d) : d[j] = c[k + j - 1]
      BY <3>1, <3>2, RestIs
    <3> QED BY <3>3 DEF k, c
  <2>3. Len(a) - 3 + 1 = n - m - 1
    BY <1>1, <1>5
  <2> QED BY <2>2, <2>3
<1>10. ASSUME NEW j \in 1..Len(b) PROVE b[j] = d[j]
  <2>0. j \in Nat /\ j >= 1 /\ j <= n - m - 1
    <3>1. Len(b) = n - m - 1 /\ n \in Nat /\ m \in Nat
      BY <1>1, <1>7
    <3> QED BY <3>1
  <2>1. j \in 1..Len(b)
    OBVIOUS
  <2>2. j \in 1..Len(d)
    <3>1. Len(b) = Len(d)
      BY <1>7, <1>8
    <3> QED BY <2>1, <3>1
  <2>3. 3 + j - 1 \in 1..Len(a)
    <3>1. m \in Nat /\ n \in Nat /\ Len(a) = n - m + 1
      BY <1>1, <1>5
    <3>2. 3 + j - 1 \in 1..(n - m + 1)
      BY <2>0, <3>1
    <3> QED BY <3>1, <3>2
  <2>4. m + (3 + j - 1) - 1 = (m + 2) + j - 1
    BY <1>1, <2>0
  <2>5. b[j] = data[(m + 2) + j - 1]
    BY <1>7, <2>1
  <2>6. d[j] = a[3 + j - 1]
    BY <1>8, <2>2
  <2>7. a[3 + j - 1] = data[m + (3 + j - 1) - 1]
    BY <1>4, <2>3
  <2> QED BY <2>4, <2>5, <2>6, <2>7
<1>11. b = d
  <2>1. b \in Seq(Piece) /\ d \in Seq(Piece) /\ Len(b) = Len(d)
    BY <1>7, <1>8
  <2> QED BY <1>10, <2>1
<1> QED BY <1>4, <1>5, <1>6, <1>11 DEF b, d, n

Reads(S, data, rs, k) ==
    /\ data = S.me.input \o S.tcp[S.me.active].buf[S.e]
    /\ Pieces * k <= Len(data)
    /\ \A i \in 1..k : rs[i] = data[Pieces * i][1]

SofarFine(S, you, n, X, data, i) ==
    /\ Kept(S, X)
    /\ Turning(ReadSofar(S, X, data, i), you, n)
    /\ Calm(ReadSofar(S, X, data, i).me, ReadSofar(S, X, data, i).tcp, S.e)

LEMMA SofarBegins ==
    ASSUME NEW S, NEW you, NEW n, Turning(S, you, n), Calm(S.me, S.tcp, S.e), S.me.active # None,
           NEW data, NEW rs, NEW k \in Nat, Reads(S, data, rs, k)
    PROVE  data \in Seq(Piece) /\ SofarFine(S, you, n, S, data, 0)
<1> DEFINE s == S.me.active
           e == S.e
           V == ReadSofar(S, S, data, 0)
           d == [S.tcp[s] EXCEPT !.buf[e] = <<>>]
<1>1. /\ Shaped(S) /\ e \in End /\ S.me \in Actor /\ S.tcp \in [Stream -> Conn]
      /\ S.got \in [End -> Seq(Record)]
  BY DEF Turning
<1>2. s \in Stream
  BY <1>1 DEF Actor
<1>3. S.me.input \in Seq(Piece) /\ S.tcp[s].buf[e] \in Seq(Piece)
  <2>1. S.tcp[s] \in Conn
    BY <1>1, <1>2
  <2>2. S.tcp[s].buf[e] \in Seq(Piece)
    BY <1>1, <2>1, ConnHas
  <2>3. S.me.input \in Seq(Piece)
    BY <1>1, Zenon DEF Actor
  <2> QED BY <2>2, <2>3
<1>4. data = S.me.input \o S.tcp[s].buf[e]
  BY Zenon DEF Reads
<1>5. data \in Seq(Piece)
  <2> DEFINE a == S.me.input
             b == S.tcp[s].buf[e]
  <2>1. a \in Seq(Piece) /\ b \in Seq(Piece)
    BY <1>3
  <2> HIDE DEF a, b
  <2>2. a \o b \in Seq(Piece)
    BY <2>1
  <2> QED BY <1>4, <2>2, Zenon DEF a, b
<1>6. SubSeq(data, Pieces * 0 + 1, Len(data)) = data
  <2>1. Pieces * 0 + 1 = 1
    BY DEF Pieces
  <2>2. SubSeq(data, 1, Len(data)) = data
    BY <1>5
  <2> QED BY <2>1, <2>2
<1>7. Kept(S, S)
  BY <1>1 DEF Kept
<1> HIDE DEF V
<1>8. /\ Shaped(V) /\ V.e = S.e /\ V.got = S.got
      /\ V.tcp = [S.tcp EXCEPT ![s].buf[e] = <<>>]
      /\ V.me = [S.me EXCEPT !.input = SubSeq(data, Pieces * 0 + 1, Len(data))]
  <2>1. Sofar(S, S, data, 0, V)
    BY <1>5, <1>7, SofarIs, Zenon DEF V
  <2> QED BY <2>1 DEF Sofar
<1>9. V.me = [S.me EXCEPT !.input = S.me.input \o S.tcp[s].buf[e]]
  BY <1>4, <1>6, <1>8, Zenon
<1>10. V.tcp = [S.tcp EXCEPT ![s] = d]
  BY <1>1, <1>2, <1>8
<1>11. Emptied(S.tcp[s], d, e)
  BY Zenon DEF Emptied
<1>12. Taken(S, V, s)
  BY <1>9, <1>10, <1>11, Zenon DEF Taken
<1>13. Turning(V, you, n) /\ Calm(V.me, V.tcp, V.e)
  BY <1>2, <1>8, <1>12, ReadsAll
<1> QED BY <1>5, <1>7, <1>8, <1>13 DEF SofarFine, V

LEMMA SofarGoesOn ==
    ASSUME NEW S, NEW you, NEW n, Turning(S, you, n), S.me.active # None,
           NEW data \in Seq(Piece), NEW rs, NEW k \in Nat, Reads(S, data, rs, k),
           NEW i \in 1..k, NEW X, SofarFine(S, you, n, X, data, i - 1)
    PROVE  SofarFine(S, you, n, Deliver(X, rs[i]), data, i)
<1> DEFINE s == S.me.active
           r == rs[i]
           Y == Deliver(X, r)
           V == ReadSofar(S, X, data, i - 1)
           W == ReadSofar(S, Y, data, i)
<1>1. S.e \in End /\ s \in Stream /\ S.tcp \in [Stream -> Conn]
  BY DEF Turning, Actor
<1>2. Kept(S, X) /\ Turning(V, you, n) /\ Calm(V.me, V.tcp, S.e)
  BY DEF SofarFine
<1>3. 2 * i <= Len(data) /\ i \in Nat \ {0} /\ i - 1 \in Nat /\ r = data[2 * i][1] /\ Len(data) \in Nat
      /\ 2 * i \in 1..Len(data)
  <2>2. Len(data) \in Nat
    OBVIOUS
  <2>3. Pieces * k <= Len(data) /\ rs[i] = data[Pieces * i][1]
    BY Zenon DEF Reads
  <2>1. /\ 2 * k <= Len(data) /\ r = data[2 * i][1] /\ Len(data) \in Nat
    BY <2>2, <2>3 DEF Pieces
  <2> QED BY <2>1
<1>4. r \in Record
  <2>1. data[2 * i] \in Piece
    BY <1>3
  <2> QED BY <1>3, <2>1 DEF Piece
<1>5. /\ Shaped(X) /\ X.e = S.e /\ X.tcp = S.tcp /\ X.me \in Actor
      /\ X.got \in [End -> Seq(Record)]
  BY <1>2 DEF Kept
<1>6. /\ Shaped(Y) /\ Y.e = X.e /\ Y.tcp = X.tcp /\ Y.me \in Actor
      /\ Y.me = [X.me EXCEPT !.seen = @ \cup {r}]
      /\ Delivered(X.got, Y.got, X.e, X.me, r) /\ Y.got \in [End -> Seq(Record)]
  BY <1>1, <1>4, <1>5, DeliverIs
<1> HIDE DEF r, Y, V, W
<1>7. /\ Y.me.auth = X.me.auth /\ Y.me.heard = X.me.heard /\ Y.me.conns = X.me.conns
      /\ Y.me.active = X.me.active /\ Y.me.input = X.me.input /\ Y.me.queue = X.me.queue
      /\ Y.me.restart = X.me.restart /\ Y.me.seen = X.me.seen \cup {r}
  BY <1>5, <1>6 DEF Actor
<1>8. Kept(S, Y)
  BY <1>2, <1>5, <1>6, <1>7 DEF Kept
<1>9. /\ Shaped(V) /\ V.e = S.e /\ V.got = X.got
      /\ V.tcp = [S.tcp EXCEPT ![s].buf[S.e] = <<>>]
      /\ V.me.input = SubSeq(data, Pieces * (i - 1) + 1, Len(data))
      /\ V.me.conns = X.me.conns /\ V.me.active = X.me.active
      /\ V.me.queue = X.me.queue /\ V.me.restart = X.me.restart /\ V.me.seen = X.me.seen
  <2>1. Sofar(S, X, data, i - 1, V)
    BY <1>2, <1>3, SofarIs DEF V
  <2> QED BY <2>1 DEF Sofar
<1>10. /\ Shaped(W) /\ W.e = S.e /\ W.me \in Actor /\ W.got = Y.got
       /\ W.tcp = [S.tcp EXCEPT ![s].buf[S.e] = <<>>]
       /\ W.me.input = SubSeq(data, Pieces * i + 1, Len(data))
       /\ W.me.conns = Y.me.conns /\ W.me.active = Y.me.active
       /\ W.me.queue = Y.me.queue /\ W.me.restart = Y.me.restart /\ W.me.seen = Y.me.seen
  <2>1. Sofar(S, Y, data, i, W)
    BY <1>3, <1>8, SofarIs DEF W
  <2> QED BY <2>1 DEF Sofar
<1>11. /\ Len(V.me.input) >= 2 /\ V.me.input[2] = data[2 * i]
       /\ W.me.input = SubSeq(V.me.input, 3, Len(V.me.input))
  <2> DEFINE a == V.me.input
  <2>1. a = SubSeq(data, Pieces * (i - 1) + 1, Len(data))
    BY <1>9
  <2> HIDE DEF a
  <2>2. /\ Len(a) >= 2 /\ a[2] = data[2 * i]
        /\ SubSeq(data, Pieces * i + 1, Len(data)) = SubSeq(a, 3, Len(a))
    BY <1>3, <2>1, RestOfRest
  <2>3. W.me.input = SubSeq(a, 3, Len(a))
    BY <1>10, <2>2
  <2> QED BY <2>2, <2>3 DEF a
<1>12. Absorbs(V.me, W.me, r)
  BY <1>7, <1>9, <1>10, <1>11 DEF Absorbs
<1>13. Delivered(V.got, W.got, V.e, V.me, r)
  BY <1>5, <1>6, <1>9, <1>10 DEF Delivered
<1>14. V.tcp[s].buf[S.e] = <<>> /\ W.tcp = V.tcp
  <2>1. S.tcp[s] \in Conn
    BY <1>1
  <2>2. S.tcp[s].buf \in [End -> Seq(Piece)]
    BY <2>1 DEF Conn
  <2>3. [S.tcp[s] EXCEPT !.buf[S.e] = <<>>].buf[S.e] = <<>>
    <3> DEFINE c == S.tcp[s]
    <3>1. c \in Conn /\ c.buf \in [End -> Seq(Piece)] /\ S.e \in End
      BY <1>1, <2>1, <2>2
    <3> HIDE DEF c
    <3>2. [c EXCEPT !.buf[S.e] = <<>>].buf[S.e] = <<>>
      BY <3>1 DEF Conn
    <3> QED BY <3>2 DEF c
  <2>4. V.tcp[s] = [S.tcp[s] EXCEPT !.buf[S.e] = <<>>]
    BY <1>1, <1>9
  <2> QED BY <1>9, <1>10, <2>3, <2>4
<1>15. s = V.me.active /\ r = V.me.input[2][1]
  BY <1>2, <1>3, <1>9, <1>11 DEF Kept
<1>16. Turning(W, you, n) /\ Calm(W.me, W.tcp, W.e)
  <2>1. V.tcp[s].buf[V.e] = <<>> /\ Calm(V.me, V.tcp, V.e) /\ W.e = V.e
    BY <1>2, <1>9, <1>10, <1>14
  <2> QED BY <1>1, <1>2, <1>10, <1>11, <1>12, <1>13, <1>14, <1>15, <2>1, AbsorbsOne
<1> QED BY <1>8, <1>10, <1>16 DEF SofarFine, W, Y, r

LEMMA SofarHolds ==
    ASSUME NEW S, NEW you, NEW n, Turning(S, you, n), Calm(S.me, S.tcp, S.e), S.me.active # None,
           NEW data, NEW rs, NEW k \in Nat, Reads(S, data, rs, k), DOMAIN rs = 1..k
    PROVE  data \in Seq(Piece) /\ SofarFine(S, you, n, FoldLeft(Deliver, S, rs), data, k)
<1>1. data \in Seq(Piece) /\ SofarFine(S, you, n, S, data, 0)
  BY SofarBegins
<1>2. PICK F : DeliveredSteps(S, rs, k, F) /\ FoldLeft(Deliver, S, rs) = F[k]
  BY DeliveredIs
<1> DEFINE Fine(i) == SofarFine(S, you, n, F[i], data, i)
           bad == {i \in 0..k : ~Fine(i)}
<1>3. bad = {}
  <2> SUFFICES ASSUME bad # {} PROVE FALSE
    OBVIOUS
  <2>1. PICK i \in bad : i = 0 \/ (i - 1 \in Nat /\ i - 1 \notin bad)
    <3> HIDE DEF Fine
    <3>1. bad \in SUBSET Nat
      OBVIOUS
    <3> HIDE DEF bad
    <3> QED BY <3>1, FirstFailure
  <2>2. i \in 0..k /\ ~Fine(i)
    OBVIOUS
  <2>3. CASE i = 0
    BY <1>1, <1>2, <2>2, <2>3 DEF DeliveredSteps
  <2>4. CASE i # 0
    <3>1. i \in 1..k /\ i - 1 \in 0..k
      BY <2>2, <2>4
    <3>2. Fine(i - 1)
      BY <2>1, <2>4, <3>1
    <3>3. F[i] = Deliver(F[i - 1], rs[i])
      BY <1>2, <3>1 DEF DeliveredSteps
    <3> DEFINE X == F[i - 1]
    <3>4. SofarFine(S, you, n, X, data, i - 1)
      BY <3>2
    <3> HIDE DEF X
    <3>5. SofarFine(S, you, n, Deliver(X, rs[i]), data, i)
      BY <1>1, <3>1, <3>4, SofarGoesOn
    <3> QED BY <2>2, <3>3, <3>5 DEF X
  <2> QED BY <2>3, <2>4
<1>4. Fine(k)
  <2>1. k \in 0..k
    OBVIOUS
  <2> HIDE DEF Fine
  <2> QED BY <1>3, <2>1
<1> QED BY <1>1, <1>2, <1>4

(* What was in the buffer does not matter when the stream is dropped.         *)
LEMMA GoneIs ==
    ASSUME NEW c \in Conn, NEW e \in End
    PROVE  [c EXCEPT !.st[e] = "gone", !.buf[e] = <<>>]
             = [by |-> c.by, st |-> [c.st EXCEPT ![e] = "gone"],
                buf |-> [c.buf EXCEPT ![e] = <<>>], wire |-> c.wire, acked |-> c.acked]
<1>3. PICK d : d = [c EXCEPT !.st[e] = "gone", !.buf[e] = <<>>]
  OBVIOUS
<1>1. /\ d.st = [c.st EXCEPT ![e] = "gone"] /\ d.buf = [c.buf EXCEPT ![e] = <<>>]
      /\ d.wire = c.wire /\ d.by = c.by /\ d.acked = c.acked
      /\ d = [by |-> d.by, st |-> d.st, buf |-> d.buf, wire |-> d.wire, acked |-> d.acked]
  BY <1>3 DEF Conn
<1>2. d = [by |-> c.by, st |-> [c.st EXCEPT ![e] = "gone"],
           buf |-> [c.buf EXCEPT ![e] = <<>>], wire |-> c.wire, acked |-> c.acked]
  BY <1>1
<1> QED BY <1>2, <1>3

LEMMA BufferIs ==
    ASSUME NEW c \in Conn, NEW b \in [End -> Seq(Piece)], NEW d, d = [c EXCEPT !.buf = b]
    PROVE  /\ d \in Conn /\ d.buf = b /\ d.by = c.by /\ d.st = c.st
           /\ d.wire = c.wire /\ d.acked = c.acked
BY DEF Conn

LEMMA DroppedAsEmpty ==
    ASSUME NEW c \in Conn, NEW e \in End, NEW x \in Seq(Piece)
    PROVE  /\ [c EXCEPT !.buf[e] = x].st = c.st
           /\ Dropped([c EXCEPT !.buf[e] = x], e) = Dropped([c EXCEPT !.buf[e] = <<>>], e)
<1> DEFINE b == [c.buf EXCEPT ![e] = x]
           b0 == [c.buf EXCEPT ![e] = <<>>]
           d == [c EXCEPT !.buf = b]
           d0 == [c EXCEPT !.buf = b0]
<1>1. c.buf \in [End -> Seq(Piece)] /\ <<>> \in Seq(Piece)
  BY DEF Conn
<1>2. /\ b \in [End -> Seq(Piece)] /\ b0 \in [End -> Seq(Piece)]
      /\ [b EXCEPT ![e] = <<>>] = b0 /\ [b0 EXCEPT ![e] = <<>>] = b0
  BY <1>1
<1>3. [c EXCEPT !.buf[e] = x] = d /\ [c EXCEPT !.buf[e] = <<>>] = d0
  OBVIOUS
<1> HIDE DEF b, b0
<1>4. /\ d \in Conn /\ d.buf = b /\ d.by = c.by /\ d.st = c.st
      /\ d.wire = c.wire /\ d.acked = c.acked
  BY <1>2, BufferIs
<1>5. /\ d0 \in Conn /\ d0.buf = b0 /\ d0.by = c.by /\ d0.st = c.st
      /\ d0.wire = c.wire /\ d0.acked = c.acked
  BY <1>2, BufferIs
<1> HIDE DEF d, d0
<1>6. [d EXCEPT !.st[e] = "gone", !.buf[e] = <<>>]
        = [by |-> d.by, st |-> [d.st EXCEPT ![e] = "gone"],
           buf |-> [d.buf EXCEPT ![e] = <<>>], wire |-> d.wire, acked |-> d.acked]
  BY <1>4, GoneIs
<1>7. [d0 EXCEPT !.st[e] = "gone", !.buf[e] = <<>>]
        = [by |-> d0.by, st |-> [d0.st EXCEPT ![e] = "gone"],
           buf |-> [d0.buf EXCEPT ![e] = <<>>], wire |-> d0.wire, acked |-> d0.acked]
  BY <1>5, GoneIs
<1>8. [d EXCEPT !.st[e] = "gone", !.buf[e] = <<>>] = [d0 EXCEPT !.st[e] = "gone", !.buf[e] = <<>>]
  <2>1. [d.buf EXCEPT ![e] = <<>>] = b0
    BY <1>2, <1>4
  <2>2. [d0.buf EXCEPT ![e] = <<>>] = b0
    BY <1>2, <1>5
  <2>3. [d EXCEPT !.st[e] = "gone", !.buf[e] = <<>>]
          = [by |-> c.by, st |-> [c.st EXCEPT ![e] = "gone"],
             buf |-> b0, wire |-> c.wire, acked |-> c.acked]
    BY <1>4, <1>6, <2>1
  <2>4. [d0 EXCEPT !.st[e] = "gone", !.buf[e] = <<>>]
          = [by |-> c.by, st |-> [c.st EXCEPT ![e] = "gone"],
             buf |-> b0, wire |-> c.wire, acked |-> c.acked]
    BY <1>5, <1>7, <2>2
  <2> QED BY <2>3, <2>4
<1>9. Dropped(d, e) = Dropped(d0, e)
  BY <1>4, <1>5, <1>8 DEF Dropped
<1> QED BY <1>3, <1>4, <1>9

LEMMA ReadKeeps ==
    ASSUME NEW S, NEW you, NEW n, Turning(S, you, n), Calm(S.me, S.tcp, S.e)
    PROVE  LET T == Read(S)
           IN Turning(T, you, n) /\ T.e = S.e /\ Calm(T.me, T.tcp, S.e)
<1> DEFINE s == S.me.active
           e == S.e
           data == S.me.input \o S.tcp[s].buf[e]
           m == Len(data) \div Pieces
           recs == [i \in 1..m |-> data[i * Pieces][1]]
           refused == {i \in DOMAIN recs : ~Admitted(S, recs[i])}
           k == IF refused = {} THEN Len(recs)
                ELSE (CHOOSE i \in refused : \A j \in refused : i <= j) - 1
           rest == SubSeq(data, Pieces * Len(recs) + 1, Len(data))
           rs == SubSeq(recs, 1, k)
           X == FoldLeft(Deliver, S, rs)
           unread == SubSeq(data, Pieces * (k + 1) + 1, Len(data))
           W == [X EXCEPT !.tcp[s].buf[e] = unread]
           idle == ~S.me.heard \/ s = None \/ data = S.me.input
<1>1. Read(S) = IF idle THEN S
                ELSE IF ~Whole(data) THEN Closed(S, {s})
                ELSE IF refused # {} THEN Closed(W, {s})
                ELSE [X EXCEPT !.tcp[s].buf[e] = <<>>, !.me.input = rest]
  BY DEF Read
<1>2. CASE idle
  <2> HIDE DEF idle
  <2> QED BY <1>1, <1>2, Zenon
<1>3. CASE ~idle
  <2>1. e \in End /\ S.tcp \in [Stream -> Conn] /\ S.me \in Actor
    BY Zenon DEF Turning
  <2>2. s # None /\ s \in Stream
    BY <1>3, <2>1, Zenon DEF Actor
  <2>3. {s} \in SUBSET Stream
    BY <2>2
  <2>4. CASE ~Whole(data)
    <3> DEFINE T == Closed(S, {s})
    <3>1. Turning(T, you, n) /\ T.e = S.e /\ (Calm(S.me, S.tcp, S.e) => Calm(T.me, T.tcp, S.e))
      BY <2>3, ClosedKeeps, Zenon
    <3> HIDE DEF T, idle
    <3>2. Read(S) = T
      BY <1>1, <1>3, <2>4, Zenon DEF T
    <3> QED BY <3>1, <3>2
  <2>5. CASE Whole(data)
    <3>1. data \in Seq(Piece)
      <4>1. S.tcp[s] \in Conn
        BY <2>1, <2>2
      <4> DEFINE a == S.me.input
                 b == S.tcp[s].buf[e]
      <4>2. a \in Seq(Piece) /\ b \in Seq(Piece)
        <5>1. a \in Seq(Piece)
          BY <2>1 DEF Actor
        <5>2. b \in Seq(Piece)
          BY <2>1, <4>1 DEF Conn
        <5> QED BY <5>1, <5>2
      <4> HIDE DEF a, b
      <4>3. a \o b \in Seq(Piece)
        BY <4>2
      <4> QED BY <4>3 DEF a, b
    <3> HIDE DEF data
    <3>2. m \in Nat /\ Pieces * m <= Len(data) /\ Len(data) \in Nat
      <4>1. Len(data) \in Nat
        BY <3>1
      <4>2. m = Len(data) \div 2 /\ Pieces * m = 2 * m
        BY DEF Pieces
      <4>3. Len(data) \div 2 \in Nat /\ 2 * (Len(data) \div 2) <= Len(data)
        BY <4>1
      <4> QED BY <4>1, <4>2, <4>3
    <3> HIDE DEF m
    <3>3. recs \in Seq(Record) /\ Len(recs) = m /\ DOMAIN recs = 1..m
      <4>1. ASSUME NEW i \in 1..m PROVE data[i * Pieces][1] \in Record
        <5>1. i * Pieces \in 1..Len(data)
          BY <3>2 DEF Pieces
        <5>2. data[i * Pieces] \in Piece
          BY <3>1, <5>1
        <5> QED BY <5>2 DEF Piece
      <4> QED BY <3>2, <4>1
    <3>4. k \in Nat /\ k <= m /\ (refused = {} => k = m)
      <4>1. CASE refused = {}
        BY <3>2, <3>3, <4>1
      <4>2. CASE refused # {}
        <5>1. refused \in SUBSET Nat /\ refused \in SUBSET (1..m)
          BY <3>3
        <5> HIDE DEF refused
        <5>2. \E i \in refused : \A j \in refused : i <= j
          BY <4>2, <5>1, Least
        <5>3. (CHOOSE i \in refused : \A j \in refused : i <= j) \in refused
          BY <5>2
        <5>4. \E i \in 1..m : k = i - 1
          BY <4>2, <5>1, <5>3
        <5> QED BY <3>2, <4>2, <5>4
      <4> QED BY <4>1, <4>2
    <3>5. \A i \in 1..m : recs[i] = data[i * Pieces][1]
      OBVIOUS
    <3> HIDE DEF recs, refused, k
    <3>6. DOMAIN rs = 1..k /\ \A i \in 1..k : rs[i] = recs[i]
      BY <3>2, <3>3, <3>4
    <3> HIDE DEF rs
    <3>7. Reads(S, data, rs, k)
      <4>1. Pieces * k <= Len(data)
        BY <3>2, <3>4 DEF Pieces
      <4>2. \A i \in 1..k : rs[i] = data[Pieces * i][1]
        <5> SUFFICES ASSUME NEW i \in 1..k PROVE rs[i] = data[Pieces * i][1]
          OBVIOUS
        <5>1. i \in 1..m /\ Pieces * i = i * Pieces
          BY <3>2, <3>4 DEF Pieces
        <5>2. rs[i] = recs[i] /\ recs[i] = data[i * Pieces][1]
          BY <3>5, <3>6, <5>1
        <5> QED BY <5>1, <5>2
      <4>3. data = S.me.input \o S.tcp[S.me.active].buf[S.e]
        BY DEF data
      <4> QED BY <4>1, <4>2, <4>3, Zenon DEF Reads
    <3>8. SofarFine(S, you, n, X, data, k)
      BY <2>2, <3>4, <3>6, <3>7, SofarHolds
    <3> HIDE DEF X, unread, rest
    <3> DEFINE V == ReadSofar(S, X, data, k)
    <3>9. Kept(S, X) /\ Turning(V, you, n) /\ Calm(V.me, V.tcp, e)
      BY <3>8 DEF SofarFine
    <3>10. /\ X = [e |-> e, me |-> X.me, tcp |-> S.tcp, got |-> X.got, settled |-> X.settled]
           /\ X.me \in Actor
      BY <3>9 DEF Kept, Shaped
    <3>11. CASE refused = {}
      <4>1. Read(S) = [X EXCEPT !.tcp[s].buf[e] = <<>>, !.me.input = rest]
        <5> HIDE DEF idle
        <5> QED BY <1>1, <1>3, <2>5, <3>11
      <4>2. rest = SubSeq(data, Pieces * k + 1, Len(data))
        BY <3>3, <3>4, <3>11 DEF rest
      <4>3. V = [e |-> e, me |-> [X.me EXCEPT !.input = rest],
                 tcp |-> [S.tcp EXCEPT ![s].buf[e] = <<>>],
                 got |-> X.got, settled |-> X.settled]
        BY <4>2 DEF ReadSofar
      <4> HIDE DEF V, s, e
      <4>4. Read(S) = V
        <5> DEFINE xm == X.me
                   xg == X.got
                   xs == X.settled
                   tt == S.tcp
        <5>1. Read(S) = [[e |-> e, me |-> xm, tcp |-> tt, got |-> xg, settled |-> xs]
                           EXCEPT !.tcp[s].buf[e] = <<>>, !.me.input = rest]
          BY <3>10, <4>1
        <5>2. V = [e |-> e, me |-> [xm EXCEPT !.input = rest],
                   tcp |-> [tt EXCEPT ![s].buf[e] = <<>>], got |-> xg, settled |-> xs]
          BY <4>3
        <5> HIDE DEF xm, xg, xs, tt
        <5> QED BY <5>1, <5>2
      <4>5. V.e = e
        BY <4>3
      <4> QED BY <3>9, <4>4, <4>5 DEF e
    <3>12. CASE refused # {}
      <4> DEFINE T == Closed(W, {s})
      <4>1. Read(S) = T
        <5> HIDE DEF idle, W
        <5> QED BY <1>1, <1>3, <2>5, <3>12
      <4>2. W = [e |-> e, me |-> X.me, tcp |-> [S.tcp EXCEPT ![s].buf[e] = unread],
                 got |-> X.got, settled |-> X.settled]
        <5> HIDE DEF s, e
        <5> QED BY <3>10
      <4> HIDE DEF W
      <4>3. /\ Shaped(W) /\ W.e = e /\ W.me = X.me /\ W.got = X.got
            /\ W.tcp = [S.tcp EXCEPT ![s].buf[e] = unread]
        BY <4>2 DEF Shaped
      <4>4. /\ Shaped(T) /\ T.e = e /\ T.got = X.got
            /\ T.tcp = Without(W.tcp, e, {x \in {s} : Alive(W, x)})
            /\ ClosedMe(X.me, T.me, {s})
        <5> DEFINE ss == {s}
        <5>1. Shaped(W) /\ W.me \in Actor /\ T = Closed(W, ss)
          BY <3>10, <4>3
        <5> HIDE DEF T, ss
        <5>2. /\ Shaped(T) /\ T.e = W.e /\ T.got = W.got
              /\ T.tcp = Without(W.tcp, W.e, {x \in ss : Alive(W, x)})
              /\ ClosedMe(W.me, T.me, ss)
          BY <5>1, ClosedIs
        <5> QED BY <4>3, <5>2 DEF ss
      <4> HIDE DEF T, V
      <4>5. Sofar(S, X, data, k, V)
        BY <3>1, <3>4, <3>9, SofarIs DEF V
      <4>6. X.me.active = s
        BY <3>9 DEF Kept
      <4>7. ClosedMe(V.me, T.me, {s})
        <5>1. /\ V.me.active = s /\ V.me.queue = X.me.queue /\ V.me.seen = X.me.seen
              /\ V.me.conns = X.me.conns /\ V.me = [X.me EXCEPT !.input = V.me.input]
          BY <4>5, <4>6 DEF Sofar
        <5>2. V.me.auth = X.me.auth /\ V.me.heard = X.me.heard
          BY <3>10, <5>1 DEF Actor
        <5>3. Rewinds(X.me, T.me) => Rewinds(V.me, T.me)
          BY <5>1 DEF Rewinds
        <5> QED BY <4>4, <4>6, <5>1, <5>2, <5>3 DEF ClosedMe
      <4>8. S.tcp[s].st[e] = "est" /\ S.tcp[s] \in Conn
        BY <2>1, <2>2 DEF Calm
      <4>9. unread \in Seq(Piece)
        <5>1. Pieces * (k + 1) + 1 \in Int /\ Len(data) \in Int
              /\ \A j \in (Pieces * (k + 1) + 1)..Len(data) : data[j] \in Piece
          BY <3>1, <3>2, <3>4 DEF Pieces
        <5> QED BY <5>1, SubSeqProperties DEF unread
      <4> DEFINE c == S.tcp[s]
                 d == [c EXCEPT !.buf[e] = unread]
                 d0 == [c EXCEPT !.buf[e] = <<>>]
      <4>10. V.tcp = [S.tcp EXCEPT ![s] = d0] /\ W.tcp = [S.tcp EXCEPT ![s] = d]
        BY <2>1, <2>2, <4>3, <4>5 DEF Sofar
      <4>11. d.st = c.st /\ d0.st = c.st /\ Dropped(d, e) = Dropped(d0, e)
        <5> HIDE DEF c
        <5>0. c \in Conn /\ <<>> \in Seq(Piece)
          BY <4>8 DEF c
        <5>1. d.st = c.st /\ Dropped(d, e) = Dropped(d0, e)
          BY <2>1, <4>9, <5>0, DroppedAsEmpty
        <5>2. d0.st = c.st
          BY <5>0 DEF Conn
        <5> QED BY <5>1, <5>2
      <4> HIDE DEF c, d, d0
      <4>12. V.tcp[s] = d0 /\ W.tcp[s] = d /\ \A x \in Stream : x # s => V.tcp[x] = W.tcp[x]
        BY <2>1, <2>2, <4>10
      <4>13. V.e = e
        BY <4>5 DEF Sofar
      <4>14. /\ {x \in {s} : Alive(W, x)} = {s}
             /\ {x \in {s} : Alive(V, x)} = {s}
        <5>1. Alive(W, s) /\ Alive(V, s)
          BY <4>3, <4>8, <4>11, <4>12, <4>13 DEF Alive, St, c
        <5> HIDE DEF s
        <5> QED BY <5>1
      <4>15. T.tcp = Without(V.tcp, V.e, {x \in {s} : Alive(V, x)})
        <5>1. Without(W.tcp, e, {s}) = Without(V.tcp, e, {s})
          BY <4>11, <4>12 DEF Without
        <5>2. T.tcp = Without(W.tcp, e, {s})
          BY <4>4, <4>14
        <5> QED BY <4>13, <4>14, <5>1, <5>2
      <4>16. T.e = V.e /\ T.got = V.got
        BY <4>4, <4>5, <4>13 DEF Sofar
      <4>17. Turning(T, you, n) /\ (Calm(V.me, V.tcp, V.e) => Calm(T.me, T.tcp, V.e))
        BY <2>3, <3>9, <4>4, <4>7, <4>15, <4>16, ClosesTurn DEF V
      <4> QED BY <3>9, <4>1, <4>4, <4>13, <4>17 DEF V
    <3> QED BY <3>11, <3>12
  <2> QED BY <2>4, <2>5
<1> QED BY <1>2, <1>3, Zenon
-----------------------------------------------------------------------------
(* The queue is written                                                       *)

(* The front record's offset and mark change.                                 *)
FrontAt(me, her, to, mark) ==
    /\ her \in Actor /\ SameLine(me, her) /\ her.queue # <<>>
    /\ her.queue[1].off = to /\ her.queue[1].mark = mark
    /\ \A i \in 1..Len(me.queue) : i > 1 => her.queue[i] = me.queue[i]
    /\ her.auth = me.auth /\ her.heard = me.heard /\ her.conns = me.conns
    /\ her.active = me.active /\ her.input = me.input /\ her.restart = me.restart
    /\ her.seen = me.seen

LEMMA FrontMoves ==
    ASSUME NEW me \in Actor, me.queue # <<>>, NEW to \in 0..Pieces, NEW mark \in Stream \cup {None}
    PROVE  FrontAt(me, [me EXCEPT !.queue[1].off = to, !.queue[1].mark = mark], to, mark)
<1> DEFINE q == me.queue
           x == q[1]
           y == [x EXCEPT !.off = to]
           z == [y EXCEPT !.mark = mark]
           p == [q EXCEPT ![1] = y]
           r == [q EXCEPT ![1] = z]
           me1 == [me EXCEPT !.queue = p]
           her == [me EXCEPT !.queue = r]
<1>1. q \in Seq(Item) /\ q # <<>>
  BY DEF Actor
<1> HIDE DEF q
<1>2. x \in Item /\ 1 \in 1..Len(q) /\ Len(q) \in Nat /\ DOMAIN q = 1..Len(q)
  BY <1>1
<1> HIDE DEF x
<1>3. y \in Item /\ y.rec = x.rec /\ y.off = to
  BY <1>2 DEF Item
<1> HIDE DEF y
<1>4. z \in Item /\ z.rec = y.rec /\ z.off = y.off /\ z.mark = mark
  BY <1>3 DEF Item
<1> HIDE DEF z
<1>5. p \in Seq(Item) /\ p[1] = y
  BY <1>1, <1>2, <1>3
<1>6. /\ r \in Seq(Item) /\ Len(r) = Len(q) /\ r[1] = z
      /\ \A i \in 1..Len(q) : i > 1 => r[i] = q[i]
  BY <1>1, <1>2, <1>4
<1>7. [p EXCEPT ![1] = z] = r
  BY <1>1, <1>2
<1> HIDE DEF p, r
<1>8. me1 \in Actor /\ me1.queue = p
  BY <1>5 DEF Actor
<1>9. [me EXCEPT !.queue[1].off = to] = me1
  BY DEF p, q, x, y
<1> HIDE DEF me1
<1>10. [me EXCEPT !.queue[1].off = to, !.queue[1].mark = mark] = [me1 EXCEPT !.queue[1].mark = mark]
  BY <1>9
<1>11. [me1 EXCEPT !.queue[1].mark = mark] = [me1 EXCEPT !.queue = r]
  BY <1>5, <1>7, <1>8 DEF z
<1>12. [me1 EXCEPT !.queue = r] = her
  BY <1>5 DEF me1, Actor
<1>13. /\ her \in Actor /\ her.queue = r
       /\ her.auth = me.auth /\ her.heard = me.heard /\ her.conns = me.conns
       /\ her.active = me.active /\ her.input = me.input /\ her.restart = me.restart
       /\ her.seen = me.seen
  BY <1>6 DEF Actor
<1> HIDE DEF her
<1>14. SameLine(me, her)
  <2>1. \A i \in 1..Len(q) : r[i].rec = q[i].rec
    <3> SUFFICES ASSUME NEW i \in 1..Len(q) PROVE r[i].rec = q[i].rec
      OBVIOUS
    <3>1. i = 1 \/ i > 1
      OBVIOUS
    <3> QED BY <1>3, <1>4, <1>6, <3>1 DEF x
  <2> QED BY <1>6, <1>13, <2>1 DEF SameLine, q
<1>15. her.queue # <<>>
  BY <1>2, <1>6, <1>13
<1>16. FrontAt(me, her, to, mark)
  BY <1>3, <1>4, <1>6, <1>13, <1>14, <1>15 DEF FrontAt, q
<1> QED BY <1>10, <1>11, <1>12, <1>16

WritesMore(c, d, sb, him, her, s, to) ==
    /\ him.active = s /\ sb[s] = "est" /\ \A t \in Stream : sb[t] = "est" => t = s
    /\ him.queue # <<>> /\ him.queue[1].off < to
    /\ d[s] = c[s] \o [i \in 1..(to - him.queue[1].off) |->
                          <<him.queue[1].rec, him.queue[1].off + i>>]
    /\ \A t \in Stream : t # s => d[t] = c[t]
    /\ her.active = s /\ her.queue # <<>> /\ her.queue[1].off = to
    /\ SameLine(him, her)

LEMMA PiecesAre ==
    ASSUME NEW c \in Seq(Piece), NEW x \in Record
    PROVE  /\ c \o [i \in 1..1 |-> <<x, 0 + i>>] = Append(c, <<x, 1>>)
           /\ c \o [i \in 1..1 |-> <<x, 1 + i>>] = Append(c, <<x, 2>>)
           /\ c \o [i \in 1..2 |-> <<x, 0 + i>>] = Append(Append(c, <<x, 1>>), <<x, 2>>)
           /\ Append(c, <<x, 1>>) \in Seq(Piece)
<1>1. <<x, 1>> \in Piece /\ <<x, 2>> \in Piece
  BY DEF Piece, Pieces
<1>2. /\ [i \in 1..1 |-> <<x, 0 + i>>] = <<<<x, 1>>>>
      /\ [i \in 1..1 |-> <<x, 1 + i>>] = <<<<x, 2>>>>
      /\ [i \in 1..2 |-> <<x, 0 + i>>] = <<<<x, 1>>, <<x, 2>>>>
  OBVIOUS
<1> DEFINE a == <<x, 1>>
           b == <<x, 2>>
<1>3. a \in Piece /\ b \in Piece
  BY <1>1
<1> HIDE DEF a, b
<1>4. /\ c \o <<a>> = Append(c, a) /\ c \o <<b>> = Append(c, b)
      /\ c \o <<a, b>> = Append(Append(c, a), b) /\ Append(c, a) \in Seq(Piece)
  BY <1>3
<1> QED BY <1>2, <1>4 DEF a, b

LEMMA FlowWritesMore ==
    ASSUME NEW c \in [Stream -> Seq(Piece)], NEW d \in [Stream -> Seq(Piece)],
           NEW ra \in [Stream -> Status], NEW sb \in [Stream -> Status],
           NEW him \in Actor, NEW her \in Actor, NEW g \in Seq(Record), NEW n \in Nat,
           Flow(c, ra, sb, him, g, n), QueueOrder(him.queue), ~him.restart, ~her.restart,
           NEW s \in Stream, NEW to \in 1..Pieces, WritesMore(c, d, sb, him, her, s, to)
    PROVE  Flow(d, ra, sb, her, g, n)
<1> DEFINE x == him.queue[1].rec
           o == him.queue[1].off
<1>1. x \in Record /\ o \in 0..1 /\ him.queue # <<>> /\ him.active = s /\ sb[s] = "est"
  <2>1. him.queue \in Seq(Item) /\ him.queue # <<>> /\ o < to
    BY DEF Actor, WritesMore
  <2> DEFINE z == him.queue[1]
  <2>2. z \in Item
    BY <2>1
  <2> HIDE DEF z
  <2>3. z.rec \in Record /\ z.off \in 0..2
    BY <2>2 DEF Item, Pieces
  <2>4. z.off < to /\ to \in 1..2
    BY <2>1 DEF z, Pieces
  <2>5. z.off \in 0..1
    BY <2>3, <2>4
  <2> QED BY <2>3, <2>5 DEF z, WritesMore
<1>2. /\ d[s] = c[s] \o [i \in 1..(to - o) |-> <<x, o + i>>] /\ o < to
      /\ \A t \in Stream : t # s => d[t] = c[t]
  BY DEF WritesMore
<1>3. c[s] \in Seq(Piece) /\ to \in 1..2
  BY DEF Pieces
<1>4. (o = 0 /\ to = 1) \/ (o = 1 /\ to = 2) \/ (o = 0 /\ to = 2)
  <2>1. o \in 0..1 /\ to \in 1..2 /\ o < to
    BY <1>1, <1>2, <1>3
  <2> HIDE DEF o
  <2> QED BY <2>1
<1>5. Pieces = 2 /\ o # Pieces
  BY <1>1 DEF Pieces
<1> HIDE DEF x, o
<1>6. CASE to = o + 1
  <2>1. d[s] = Append(c[s], <<x, to>>)
    <3>1. CASE o = 0
      <4>1. d[s] = c[s] \o [i \in 1..1 |-> <<x, 0 + i>>] /\ to = 1
        BY <1>2, <1>6, <3>1
      <4> QED BY <1>1, <1>3, <4>1, PiecesAre
    <3>2. CASE o = 1
      <4>1. d[s] = c[s] \o [i \in 1..1 |-> <<x, 1 + i>>] /\ to = 2
        BY <1>2, <1>6, <3>2
      <4> QED BY <1>1, <1>3, <4>1, PiecesAre
    <3> QED BY <1>4, <3>1, <3>2
  <2>2. WritesOne(c, d, sb, him, her, s, to)
    BY <1>5, <1>6, <2>1 DEF WritesMore, WritesOne, x, o
  <2> QED BY <2>2, FlowWrites
<1>7. CASE o = 0 /\ to = 2
  <2> DEFINE y == [him EXCEPT !.queue[1].off = 1, !.queue[1].mark = None]
             h == [c EXCEPT ![s] = Append(c[s], <<x, 1>>)]
  <2>1. FrontAt(him, y, 1, None)
    <3>1. 1 \in 0..Pieces /\ None \in Stream \cup {None}
      BY <1>5
    <3> QED BY <1>1, <3>1, FrontMoves
  <2> HIDE DEF y
  <2>2. h \in [Stream -> Seq(Piece)] /\ h[s] = Append(c[s], <<x, 1>>)
        /\ \A t \in Stream : t # s => h[t] = c[t]
    <3>1. Append(c[s], <<x, 1>>) \in Seq(Piece)
      BY <1>1, <1>3, PiecesAre
    <3> QED BY <3>1
  <2>3. d[s] = Append(h[s], <<x, 2>>) /\ \A t \in Stream : t # s => d[t] = h[t]
    <3>1. d[s] = c[s] \o [i \in 1..2 |-> <<x, 0 + i>>]
      BY <1>2, <1>7
    <3>2. d[s] = Append(Append(c[s], <<x, 1>>), <<x, 2>>)
      BY <1>1, <1>3, <3>1, PiecesAre
    <3> QED BY <1>2, <2>2, <3>2
  <2> HIDE DEF h
  <2>4. WritesOne(c, h, sb, him, y, s, 1)
    BY <1>5, <1>7, <2>1, <2>2 DEF WritesMore, WritesOne, x, o, FrontAt
  <2>5. y \in Actor /\ ~y.restart /\ SameLine(him, y)
    BY <2>1 DEF FrontAt
  <2>6. Flow(h, ra, sb, y, g, n)
    <3>1. 1 \in 1..Pieces
      BY <1>5
    <3> QED BY <2>2, <2>4, <2>5, <3>1, FlowWrites
  <2>7. QueueOrder(y.queue)
    <3> SUFFICES ASSUME NEW i \in 1..Len(y.queue), NEW j \in 1..Len(y.queue), i < j
                 PROVE  /\ y.queue[j].rec.boot => y.queue[i].rec.boot
                        /\ InTurn(y.queue[i].rec, y.queue[j].rec)
      BY DEF QueueOrder
    <3>1. /\ i \in 1..Len(him.queue) /\ j \in 1..Len(him.queue)
          /\ y.queue[i].rec = him.queue[i].rec /\ y.queue[j].rec = him.queue[j].rec
      BY <2>5 DEF SameLine
    <3> QED BY <3>1 DEF QueueOrder
  <2>8. y.queue[1].rec = x /\ SameLine(y, her)
    <3>1. SameLine(him, her)
      BY DEF WritesMore
    <3>2. 1 \in 1..Len(him.queue)
      <4>1. him.queue \in Seq(Item)
        BY DEF Actor
      <4> QED BY <1>1, <4>1
    <3> QED BY <2>5, <3>1, <3>2 DEF SameLine, x
  <2>9. WritesOne(h, d, sb, y, her, s, 2)
    <3>1. y.active = s /\ y.queue # <<>> /\ y.queue[1].off = 1
      BY <1>1, <2>1 DEF FrontAt
    <3>2. /\ her.active = s /\ her.queue # <<>> /\ her.queue[1].off = 2
          /\ sb[s] = "est" /\ \A t \in Stream : sb[t] = "est" => t = s
      BY <1>7 DEF WritesMore
    <3> QED BY <1>5, <2>3, <2>8, <3>1, <3>2 DEF WritesOne
  <2>10. 2 \in 1..Pieces
    BY <1>5
  <2> QED BY <2>2, <2>5, <2>6, <2>7, <2>9, <2>10, FlowWrites
<1> QED BY <1>4, <1>6, <1>7

Written(T, U, s, f, ps) ==
    \E d \in Conn : /\ d.st = T[s].st /\ d.buf = T[s].buf
                    /\ d.wire = [T[s].wire EXCEPT ![f] = @ \o ps]
                    /\ U = [T EXCEPT ![s] = d]
PiecesOf(x, to) == [i \in 1..(to - x.off) |-> <<x.rec, x.off + i>>]

LEMMA PiecesOfItem ==
    ASSUME NEW x \in Item, NEW to \in 1..Pieces, x.off < to
    PROVE  PiecesOf(x, to) \in Seq(Piece)
<1>1. x.rec \in Record /\ x.off \in 0..2 /\ x.off < to /\ to \in 1..2 /\ Pieces = 2
  BY DEF Item, Pieces
<1>2. \A i \in 1..(to - x.off) : <<x.rec, x.off + i>> \in Piece
  <2> SUFFICES ASSUME NEW i \in 1..(to - x.off) PROVE <<x.rec, x.off + i>> \in Piece
    OBVIOUS
  <2>1. x.off + i \in 1..2
    BY <1>1
  <2> QED BY <1>1, <2>1 DEF Piece
<1> DEFINE m == to - x.off
           ps == PiecesOf(x, to)
<1>3. m \in Nat /\ ps = [i \in 1..m |-> ps[i]] /\ \A i \in 1..m : ps[i] \in Piece
  BY <1>1, <1>2 DEF PiecesOf
<1> HIDE DEF m, ps
<1>4. ps \in Seq(Piece)
  BY <1>3
<1> QED BY <1>4 DEF ps

LEMMA WriteTurn ==
    ASSUME NEW S, NEW you, NEW n, Turning(S, you, n), Calm(S.me, S.tcp, S.e), ~S.me.restart,
           NEW s \in Stream, s = S.me.active, S.me.queue # <<>>,
           NEW to \in 1..Pieces, S.me.queue[1].off < to,
           NEW W, Shaped(W), W.e = S.e, W.got = S.got,
           NEW mark, FrontAt(S.me, W.me, to, mark), mark # None => mark = s /\ to = Pieces,
           Written(S.tcp, W.tcp, s, Peer(S.e), PiecesOf(S.me.queue[1], to))
    PROVE  Turning(W, you, n) /\ Calm(W.me, W.tcp, W.e) /\ ~W.me.restart
<1> DEFINE e == S.e
           f == Peer(e)
           T == S.tcp
           U == W.tcp
           G == S.got
           me == S.me
           her == W.me
           ps == PiecesOf(me.queue[1], to)
           c == Coming(T, e, me)   ra == Side(T, e)
           x == Coming(T, f, you)  sa == Side(T, f)
           y == Coming(U, f, you)
<1>1. /\ e \in End /\ f \in End /\ me \in Actor /\ you \in Actor /\ f = Peer(e) /\ f # e
      /\ Peer(f) = e /\ End = {e, f}
      /\ T \in [Stream -> Conn] /\ G \in [End -> Seq(Record)] /\ n \in Nat
      /\ Good(e, f, me, you, T, G, n) /\ Calm(me, T, e) /\ s = me.active
  BY PeerIsOther DEF Turning
<1>2. /\ ~me.restart /\ me.queue # <<>> /\ me.queue[1].off < to
      /\ FrontAt(me, her, to, mark)
  OBVIOUS
<1>3. W.e = e /\ W.got = G /\ Shaped(W)
  BY Zenon
<1>4. PICK d \in Conn : /\ d.st = T[s].st /\ d.buf = T[s].buf
                        /\ d.wire = [T[s].wire EXCEPT ![f] = @ \o ps]
                        /\ U = [T EXCEPT ![s] = d]
  BY Zenon DEF Written
<1> HIDE DEF e, f, T, U, G, me, her
<1>5. U \in [Stream -> Conn] /\ U[s] = d /\ \A t \in Stream : t # s => U[t] = T[t]
  BY <1>1, <1>4
<1>6. \A t \in Stream : U[t].st = T[t].st /\ U[t].buf = T[t].buf
  BY <1>4, <1>5
<1>7. T[s].wire \in [End -> Seq(Piece)]
  <2>1. T[s] \in Conn
    BY <1>1
  <2> QED BY <2>1, Zenon DEF Conn
<1>8. d.wire[f] = T[s].wire[f] \o ps /\ d.wire[e] = T[s].wire[e]
  BY <1>1, <1>4, <1>7, Zenon
<1>9. /\ her \in Actor /\ SameLine(me, her) /\ her.queue # <<>>
      /\ her.queue[1].off = to /\ her.queue[1].mark = mark
      /\ \A i \in 1..Len(me.queue) : i > 1 => her.queue[i] = me.queue[i]
      /\ her.conns = me.conns /\ her.active = me.active /\ her.input = me.input
      /\ ~her.restart /\ her.seen = me.seen
  BY <1>2 DEF FrontAt
<1>10. /\ Pairs(T) /\ Listed(me, T, e) /\ Queued(me) /\ me.seen = ToSet(G[e])
       /\ Listed(you, T, f) /\ Queued(you) /\ you.seen = ToSet(G[f])
       /\ Calm(you, T, f) /\ ~you.restart
       /\ Flow(c, ra, sa, you, G[e], n) /\ Flow(x, sa, ra, me, G[f], n)
  BY <1>1 DEF Good
<1>11. me.queue \in Seq(Item) /\ her.queue \in Seq(Item) /\ 1 \in 1..Len(me.queue)
       /\ me.queue[1] \in Item
  <2>1. me.queue \in Seq(Item) /\ her.queue \in Seq(Item)
    BY <1>1, <1>9 DEF Actor
  <2> QED BY <1>2, <2>1
<1>12. T[s].st[e] = "est" /\ \A t \in Stream : T[t].st[e] = "est" => t = s
  BY <1>1, ControlAssumption DEF Calm
<1>13. Side(U, e) = ra /\ Side(U, f) = sa
  BY <1>6 DEF Side
<1>14. Coming(U, e, her) = c
  <2> DEFINE b == Coming(U, e, her)
  <2>1. ASSUME NEW t \in Stream PROVE b[t] = c[t]
    <3>1. U[t].st = T[t].st /\ U[t].buf = T[t].buf /\ U[t].wire[e] = T[t].wire[e]
      BY <1>5, <1>6, <1>8
    <3>2. Input(her, t) = Input(me, t)
      BY <1>9 DEF Input
    <3>3. b[t] = (IF U[t].st[e] = "est" THEN Input(her, t) ELSE <<>>)
                   \o U[t].buf[e] \o U[t].wire[e]
      BY ONLY ComingAt
    <3>4. c[t] = (IF T[t].st[e] = "est" THEN Input(me, t) ELSE <<>>)
                   \o T[t].buf[e] \o T[t].wire[e]
      BY ONLY ComingAt
    <3> QED BY <3>1, <3>2, <3>3, <3>4
  <2> QED BY <2>1, ComingSame
<1>15. /\ c \in [Stream -> Seq(Piece)] /\ x \in [Stream -> Seq(Piece)]
       /\ y \in [Stream -> Seq(Piece)]
       /\ ra \in [Stream -> Status] /\ sa \in [Stream -> Status]
  BY <1>1, <1>5, ComingIs
<1>16. ps \in Seq(Piece)
  BY <1>2, <1>11, PiecesOfItem
<1>17. ASSUME NEW t \in Stream, t # s PROVE y[t] = x[t]
  BY <1>5, <1>17 DEF Coming
<1>18. y[s] = x[s] \o ps
  <2> DEFINE i1 == IF T[s].st[f] = "est" THEN Input(you, s) ELSE <<>>
             b1 == T[s].buf[f]
             w1 == T[s].wire[f]
  <2>1. i1 \in Seq(Piece) /\ b1 \in Seq(Piece) /\ w1 \in Seq(Piece)
    <3>1. T[s] \in Conn
      BY <1>1
    <3>2. b1 \in Seq(Piece) /\ w1 \in Seq(Piece)
      BY <1>1, <3>1, ConnHas
    <3>3. you.input \in Seq(Piece) /\ <<>> \in Seq(Piece)
      BY <1>1 DEF Actor
    <3> QED BY <3>2, <3>3 DEF Input
  <2>2. x[s] = i1 \o b1 \o w1
    BY ONLY ComingAt, Zenon
  <2>3. y[s] = i1 \o b1 \o (w1 \o ps)
    <3>1. y[s] = (IF U[s].st[f] = "est" THEN Input(you, s) ELSE <<>>)
                    \o U[s].buf[f] \o U[s].wire[f]
      BY ONLY ComingAt
    <3>2. U[s].st = T[s].st /\ U[s].buf = T[s].buf /\ U[s].wire[f] = w1 \o ps
      BY <1>5, <1>6, <1>8
    <3> QED BY <3>1, <3>2, Zenon
  <2> HIDE DEF i1, b1, w1, x, y, ps
  <2>4. i1 \o b1 \in Seq(Piece)
    BY <2>1
  <2>5. ((i1 \o b1) \o w1) \o ps = (i1 \o b1) \o (w1 \o ps)
    <3> DEFINE a == i1 \o b1
    <3>1. a \in Seq(Piece)
      BY <2>4
    <3> HIDE DEF a
    <3>2. (a \o w1) \o ps = a \o (w1 \o ps)
      BY <1>16, <2>1, <3>1, JoinsInAnyOrder
    <3> QED BY <3>2 DEF a
  <2> QED BY <2>2, <2>3, <2>5
<1>19. WritesMore(x, y, ra, me, her, s, to)
  <2>1. y[s] = x[s] \o [i \in 1..(to - me.queue[1].off) |->
                          <<me.queue[1].rec, me.queue[1].off + i>>]
    BY <1>18 DEF PiecesOf
  <2>2. ra[s] = "est" /\ \A t \in Stream : ra[t] = "est" => t = s
    BY <1>12 DEF Side
  <2> HIDE DEF x, y, ra
  <2> QED BY <1>1, <1>2, <1>9, <1>17, <2>1, <2>2 DEF WritesMore
<1> HIDE DEF c, x, y, ra, sa, ps
<1>20. Flow(y, sa, ra, her, G[f], n)
  <2>1. G[f] \in Seq(Record)
    BY <1>1
  <2>2. QueueOrder(me.queue)
    BY <1>10 DEF Queued
  <2> QED BY <1>1, <1>2, <1>9, <1>10, <1>15, <1>19, <2>1, <2>2, FlowWritesMore
<1>21. Flow(c, ra, sa, you, G[e], n)
  BY <1>10
<1>22. Pairs(U) /\ Listed(her, U, e) /\ Listed(you, U, f) /\ Calm(you, U, f) /\ Calm(her, U, e)
  <2>1. Pairs(U)
    BY <1>6, <1>10 DEF Pairs
  <2>2. Listed(her, U, e) /\ Listed(you, U, f)
    BY <1>6, <1>9, <1>10 DEF Listed
  <2>3. you.active # None => you.active \in Stream
    BY <1>1 DEF Actor
  <2>4. Calm(you, U, f)
    BY <1>6, <1>10, <2>3 DEF Calm
  <2>5. Calm(her, U, e)
    BY <1>1, <1>6, <1>9 DEF Calm
  <2> QED BY <2>1, <2>2, <2>4, <2>5
<1>23. Queued(her)
  <2>1. Len(her.queue) = Len(me.queue)
        /\ \A i \in 1..Len(me.queue) : her.queue[i].rec = me.queue[i].rec
    BY <1>9 DEF SameLine
  <2>2. QueueOrder(her.queue)
    <3> SUFFICES ASSUME NEW i \in 1..Len(her.queue), NEW j \in 1..Len(her.queue), i < j
                 PROVE  /\ her.queue[j].rec.boot => her.queue[i].rec.boot
                        /\ InTurn(her.queue[i].rec, her.queue[j].rec)
      BY DEF QueueOrder
    <3>1. QueueOrder(me.queue)
      BY <1>10 DEF Queued
    <3> QED BY <2>1, <3>1 DEF QueueOrder
  <2>3. /\ \A i \in 1..Len(me.queue) : i > 1 => me.queue[i].off = 0
        /\ \A i \in 1..Len(me.queue) :
              me.queue[i].mark # None => me.queue[i].mark = me.active /\ me.queue[i].off = Pieces
    BY <1>2, <1>10 DEF Queued
  <2>4. ASSUME NEW i \in 1..Len(her.queue)
        PROVE  /\ i > 1 => her.queue[i].off = 0
               /\ her.queue[i].mark # None => her.queue[i].mark = her.active
                                              /\ her.queue[i].off = Pieces
    <3>1. i \in 1..Len(me.queue) /\ (i = 1 \/ i > 1)
      BY <2>1, <1>11
    <3>2. CASE i = 1
      BY <1>1, <1>9, <3>2
    <3>3. CASE i > 1
      BY <1>9, <2>3, <3>1, <3>3
    <3> QED BY <3>1, <3>2, <3>3
  <2>5. her.active # None
    BY <1>1, <1>9, ControlAssumption
  <2> QED BY <1>9, <2>2, <2>4, <2>5 DEF Queued
<1>24. Good(e, f, her, you, U, G, n)
  BY <1>9, <1>10, <1>13, <1>14, <1>20, <1>21, <1>22, <1>23 DEF Good, y
<1> QED BY <1>1, <1>3, <1>5, <1>9, <1>22, <1>24 DEF Turning, f, U, her

(* A record that TCP has acknowledged leaves the queue.                       *)
Popped(me, her) ==
    \/ her = me
    \/ me.queue # <<>> /\ me.queue[1].off = Pieces /\ her = [me EXCEPT !.queue = Tail(@)]
Upto(x, room) == IF x.off + room < Pieces THEN x.off + room ELSE Pieces
Pours(S, T, me, to) ==
    T = [S EXCEPT
           !.me = [me EXCEPT !.queue[1].off = to,
                             !.queue[1].mark = IF to = Pieces THEN S.me.active ELSE None],
           !.tcp[S.me.active].wire[Peer(S.e)] = @ \o PiecesOf(me.queue[1], to),
           !.tcp[S.me.active].acked[S.e] = FALSE]
Flushes(S, T, me, room) ==
    IF me.queue = <<>> \/ me.queue[1].off = Pieces THEN T = [S EXCEPT !.me = me]
    ELSE Pours(S, T, me, Upto(me.queue[1], room))

LEMMA FlushIs ==
    ASSUME NEW S, NEW room, S.me.active # None, ~S.me.restart,
           S.me.queue # <<>> /\ S.me.queue[1].mark # None => St(S, S.me.queue[1].mark) = "est"
    PROVE  \E me : Popped(S.me, me) /\ Flushes(S, Flush(S, room), me, room)
<1> DEFINE q == S.me.queue
           written(x) == x.off = Pieces /\ x.mark # None
           gone(x) == St(S, x.mark) # "est"
           me == IF q = <<>> \/ ~written(q[1]) THEN S.me
                 ELSE IF gone(q[1]) THEN Rewound(S.me)
                 ELSE IF S.tcp[q[1].mark].acked[S.e] THEN [S.me EXCEPT !.queue = Tail(@)]
                 ELSE S.me
<1>1. Popped(S.me, me)
  BY DEF Popped
<1>2. Flushes(S, Flush(S, room), me, room)
  <2>1. Flush(S, room) =
          LET x == me.queue[1]
              to == IF x.off + room < Pieces THEN x.off + room ELSE Pieces
              pieces == [i \in 1..(to - x.off) |-> <<x.rec, x.off + i>>]
          IN IF me.queue = <<>> \/ x.off = Pieces THEN [S EXCEPT !.me = me]
             ELSE [S EXCEPT
                     !.me = [me EXCEPT !.queue[1].off = to,
                                       !.queue[1].mark = IF to = Pieces THEN S.me.active ELSE None],
                     !.tcp[S.me.active].wire[Peer(S.e)] = @ \o pieces,
                     !.tcp[S.me.active].acked[S.e] = FALSE]
    BY Zenon DEF Flush, me, q, written, gone
  <2> HIDE DEF me
  <2> QED BY <2>1, Zenon DEF Flushes, Pours, Upto, PiecesOf
<1> QED BY <1>1, <1>2

LEMMA WithMe ==
    ASSUME NEW S, Shaped(S), NEW me
    PROVE  LET R == [S EXCEPT !.me = me]
           IN /\ Shaped(R) /\ R.e = S.e /\ R.me = me /\ R.tcp = S.tcp /\ R.got = S.got
              /\ R.settled = S.settled
<1> DEFINE R == [S EXCEPT !.me = me]
<1>1. S = [e |-> S.e, me |-> S.me, tcp |-> S.tcp, got |-> S.got, settled |-> S.settled]
  BY DEF Shaped
<1>2. R = [e |-> S.e, me |-> me, tcp |-> S.tcp, got |-> S.got, settled |-> S.settled]
  BY <1>1
<1> HIDE DEF R
<1>3. Shaped(R) /\ R.e = S.e /\ R.me = me /\ R.tcp = S.tcp /\ R.got = S.got
      /\ R.settled = S.settled
  BY <1>2, Zenon DEF Shaped
<1> QED BY <1>3 DEF R

LEMMA PoursIs ==
    ASSUME NEW S, Shaped(S), NEW s \in Stream, s = S.me.active, S.tcp \in [Stream -> Conn],
           S.e \in End, NEW me, NEW to, PiecesOf(me.queue[1], to) \in Seq(Piece),
           NEW T, Pours(S, T, me, to)
    PROVE  /\ Shaped(T) /\ T.e = S.e /\ T.got = S.got
           /\ T.me = [me EXCEPT !.queue[1].off = to,
                                !.queue[1].mark = IF to = Pieces THEN s ELSE None]
           /\ Written(S.tcp, T.tcp, s, Peer(S.e), PiecesOf(me.queue[1], to))
<1> DEFINE ps == PiecesOf(me.queue[1], to)
           e == S.e
           f == Peer(S.e)
           V == S.tcp
           c == V[s]
           her == [me EXCEPT !.queue[1].off = to,
                             !.queue[1].mark = IF to = Pieces THEN s ELSE None]
           a == [c.acked EXCEPT ![e] = FALSE]
           w == [c.wire EXCEPT ![f] = @ \o ps]
           d == [by |-> c.by, st |-> c.st, buf |-> c.buf, wire |-> w, acked |-> a]
<1>1. /\ e \in End /\ f \in End /\ V \in [Stream -> Conn] /\ ps \in Seq(Piece)
      /\ S = [e |-> e, me |-> S.me, tcp |-> V, got |-> S.got, settled |-> S.settled]
  BY PeerIsOther DEF Shaped
<1>2. T = [S EXCEPT !.me = her, !.tcp[s].wire[f] = @ \o ps, !.tcp[s].acked[e] = FALSE]
  BY DEF Pours
<1> HIDE DEF her, ps, e, f, V
<1>3. /\ T = [e |-> T.e, me |-> T.me, tcp |-> T.tcp, got |-> T.got, settled |-> T.settled]
      /\ T.e = e /\ T.got = S.got /\ T.me = her
      /\ T.tcp = [[V EXCEPT ![s].wire[f] = @ \o ps] EXCEPT ![s].acked[e] = FALSE]
  <2> DEFINE S1 == [S EXCEPT !.me = her]
             U1 == [V EXCEPT ![s].wire[f] = @ \o ps]
             U2 == [U1 EXCEPT ![s].acked[e] = FALSE]
             S2 == [S1 EXCEPT !.tcp = U1]
             g == S.got
             l == S.settled
  <2>1. S1 = [e |-> e, me |-> her, tcp |-> V, got |-> g, settled |-> l]
    BY <1>1
  <2>2. T = [[S1 EXCEPT !.tcp[s].wire[f] = @ \o ps] EXCEPT !.tcp[s].acked[e] = FALSE]
    BY <1>2, Zenon
  <2> HIDE DEF S1, g, l
  <2>3. [S1 EXCEPT !.tcp[s].wire[f] = @ \o ps] = S2
    BY <2>1
  <2>4. T = [S2 EXCEPT !.tcp[s].acked[e] = FALSE]
    BY <2>2, <2>3, Zenon
  <2> HIDE DEF U1
  <2>5. S2 = [e |-> e, me |-> her, tcp |-> U1, got |-> g, settled |-> l]
    BY <2>1
  <2> HIDE DEF S2
  <2>6. T = [S2 EXCEPT !.tcp = U2]
    BY <2>4, <2>5
  <2> HIDE DEF U2
  <2>7. T = [e |-> e, me |-> her, tcp |-> U2, got |-> g, settled |-> l]
    BY <2>5, <2>6
  <2> QED BY <2>7 DEF g, U2, U1
<1>4. /\ c \in Conn
      /\ c = [by |-> c.by, st |-> c.st, buf |-> c.buf, wire |-> c.wire, acked |-> c.acked]
      /\ c.wire \in [End -> Seq(Piece)] /\ c.acked \in [End -> BOOLEAN]
  <2>1. c \in Conn
    BY <1>1
  <2> HIDE DEF c
  <2> QED BY <2>1 DEF Conn
<1>5. T.tcp = [V EXCEPT ![s] = d]
  <2> DEFINE c1 == [c EXCEPT !.wire = w]
             U == [V EXCEPT ![s] = c1]
             c2 == [c1 EXCEPT !.acked[e] = FALSE]
  <2>1. [V EXCEPT ![s].wire[f] = @ \o ps] = U
    OBVIOUS
  <2>2. T.tcp = [U EXCEPT ![s].acked[e] = FALSE]
    BY <1>3, <2>1
  <2>3. c2 = d
    <3> DEFINE b == c.by   st == c.st   bf == c.buf   k == c.acked
    <3>1. c = [by |-> b, st |-> st, buf |-> bf, wire |-> c.wire, acked |-> k]
      BY <1>4
    <3> HIDE DEF w, b, st, bf, c
    <3>2. c1 = [by |-> b, st |-> st, buf |-> bf, wire |-> w, acked |-> k]
      BY <3>1
    <3> DEFINE a1 == [k EXCEPT ![e] = FALSE]
    <3> HIDE DEF c1, k
    <3>3. c2 = [c1 EXCEPT !.acked = a1]
      BY <3>2
    <3> HIDE DEF a1
    <3>4. c2 = [by |-> b, st |-> st, buf |-> bf, wire |-> w, acked |-> a1]
      BY <3>2, <3>3
    <3> QED BY <3>4 DEF b, st, bf, a1, k
  <2>4. U[s] = c1 /\ [U EXCEPT ![s].acked[e] = FALSE] = [U EXCEPT ![s] = c2]
    <3>1. U[s] = c1
      <4> HIDE DEF c1, V
      <4> QED BY <1>1
    <3> HIDE DEF U, c1
    <3> QED BY <3>1
  <2>5. [U EXCEPT ![s] = c2] = [V EXCEPT ![s] = c2]
    <3> HIDE DEF c1, c2, V
    <3> QED BY <1>1
  <2> HIDE DEF c1, c2, d, U
  <2> QED BY <2>2, <2>3, <2>4, <2>5
<1>6. d \in Conn
  <2>1. w \in [End -> Seq(Piece)]
    <3> HIDE DEF c
    <3>1. c.wire[f] \in Seq(Piece)
      BY <1>1, <1>4
    <3>2. c.wire[f] \o ps \in Seq(Piece)
      BY <1>1, <3>1
    <3> QED BY <1>1, <1>4, <3>2
  <2>2. a \in [End -> BOOLEAN]
    <3> HIDE DEF c
    <3> QED BY <1>1, <1>4
  <2> HIDE DEF c, w, a
  <2> QED BY <1>4, <2>1, <2>2 DEF Conn
<1>7. d.st = c.st /\ d.buf = c.buf /\ d.wire = w
  <2> HIDE DEF w, a, c
  <2> QED OBVIOUS
<1> HIDE DEF d
<1>8. Written(V, T.tcp, s, f, ps)
  BY <1>5, <1>6, <1>7 DEF Written
<1> QED BY <1>3, <1>8, Zenon DEF Shaped, her, ps, e, f, V

LEMMA PoppedIs ==
    ASSUME NEW me \in Actor, NEW her, Popped(me, her)
    PROVE  /\ her \in Actor /\ her.active = me.active /\ her.restart = me.restart
           /\ her # me => /\ me.queue # <<>> /\ me.queue[1].off = Pieces
                          /\ her = [me EXCEPT !.queue = SubSeq(@, 1 + 1, Len(@))]
<1>1. CASE her = me
  BY <1>1
<1>2. CASE her # me
  <2>1. me.queue # <<>> /\ me.queue[1].off = Pieces /\ her = [me EXCEPT !.queue = Tail(@)]
    BY <1>2 DEF Popped
  <2>2. me.queue \in Seq(Item)
    BY DEF Actor
  <2>3. /\ Tail(me.queue) \in Seq(Item)
        /\ Tail(me.queue) = SubSeq(me.queue, 1 + 1, Len(me.queue))
    <3> DEFINE q == me.queue
    <3>1. q \in Seq(Item) /\ q # <<>>
      BY <2>1, <2>2
    <3> HIDE DEF q
    <3>2. Tail(q) = SubSeq(q, 2, Len(q)) /\ Tail(q) \in Seq(Item)
      BY <3>1, TailIsSubSeq, HeadTailProperties
    <3> QED BY <3>2 DEF q
  <2>4. her \in Actor /\ her.active = me.active /\ her.restart = me.restart
    <3> DEFINE q == Tail(me.queue)
    <3> HIDE DEF q
    <3>1. her = [me EXCEPT !.queue = q] /\ q \in Seq(Item)
      BY <2>1, <2>3 DEF q
    <3> QED BY <3>1 DEF Actor
  <2>5. her = [me EXCEPT !.queue = SubSeq(me.queue, 1 + 1, Len(me.queue))]
    BY <2>1, <2>3
  <2> QED BY <2>1, <2>4, <2>5
<1> QED BY <1>1, <1>2

LEMMA FlushKeeps ==
    ASSUME NEW S, NEW you, NEW n, Turning(S, you, n), Calm(S.me, S.tcp, S.e),
           NEW room \in 1..Pieces
    PROVE  LET T == Flush(S, room)
           IN Turning(T, you, n) /\ T.e = S.e /\ Calm(T.me, T.tcp, S.e) /\ ~T.me.restart
<1> DEFINE s == S.me.active
           T == Flush(S, room)
<1>1. /\ Shaped(S) /\ S.e \in End /\ S.me \in Actor /\ S.tcp \in [Stream -> Conn]
      /\ Queued(S.me) /\ s \in Stream \cup {None}
  BY DEF Turning, Good, Actor
<1>2. CASE s = None
  <2>1. T = S
    BY <1>2 DEF Flush
  <2>2. ~S.me.restart
    BY <1>1, <1>2 DEF Queued
  <2> HIDE DEF T
  <2> QED BY <2>1, <2>2 DEF T
<1>3. CASE s # None /\ S.me.restart
  <2> DEFINE ss == {s}
  <2>1. T = Closed(S, ss)
    BY <1>3, Zenon DEF Flush
  <2>2. ss \in SUBSET Stream /\ s \in ss
    BY <1>1, <1>3
  <2> HIDE DEF T, ss
  <2>3. Turning(T, you, n) /\ T.e = S.e /\ ClosedMe(S.me, T.me, ss) /\ Calm(T.me, T.tcp, S.e)
    BY <2>1, <2>2, ClosedKeeps
  <2>4. ~T.me.restart
    BY <2>2, <2>3 DEF ClosedMe, Rewinds
  <2> QED BY <2>3, <2>4, Zenon DEF T
<1>4. CASE s # None /\ ~S.me.restart
  <2>1. s \in Stream /\ S.tcp[s].st[S.e] = "est"
    BY <1>1, <1>4 DEF Calm
  <2>2. S.me.queue # <<>> /\ S.me.queue[1].mark # None => St(S, S.me.queue[1].mark) = "est"
    <3> SUFFICES ASSUME S.me.queue # <<>>, S.me.queue[1].mark # None
                 PROVE  S.me.queue[1].mark = s
      BY <2>1 DEF St
    <3>1. 1 \in 1..Len(S.me.queue)
      <4>1. S.me.queue \in Seq(Item)
        BY <1>1 DEF Actor
      <4> QED BY <4>1
    <3> QED BY <1>1, <3>1 DEF Queued
  <2>3. PICK me : Popped(S.me, me) /\ Flushes(S, Flush(S, room), me, room)
    BY <1>4, <2>2, FlushIs
  <2> DEFINE R == [S EXCEPT !.me = me]
  <2>4. /\ Shaped(R) /\ R.e = S.e /\ R.me = me /\ R.tcp = S.tcp /\ R.got = S.got
    BY <1>1, WithMe
  <2>5. /\ me \in Actor /\ me.active = s /\ ~me.restart
        /\ me # S.me => /\ S.me.queue # <<>> /\ S.me.queue[1].off = Pieces
                        /\ me = [S.me EXCEPT !.queue = SubSeq(@, 1 + 1, Len(@))]
    BY <1>1, <1>4, <2>3, PoppedIs
  <2>6. Flushes(S, T, me, room)
    BY <2>3
  <2> HIDE DEF R, T
  <2>7. Turning(R, you, n)
    <3>1. CASE me = S.me
      BY <1>1, <2>4, <3>1 DEF Turning
    <3>2. CASE me # S.me
      <4> DEFINE k == 1
      <4>1. k \in Nat \ {0} /\ R.me = [S.me EXCEPT !.queue = SubSeq(@, k + 1, Len(@))]
        BY <2>4, <2>5, <3>2
      <4>2. S.me.queue # <<>> /\ S.me.queue[1].off # 1
        BY <2>5, <3>2 DEF Pieces
      <4> HIDE DEF k
      <4> QED BY <2>4, <4>1, <4>2, ShorterKeeps
    <3> QED BY <3>1, <3>2
  <2>8. Calm(R.me, R.tcp, R.e)
    BY <2>4, <2>5 DEF Calm
  <2>9. CASE me.queue = <<>> \/ me.queue[1].off = Pieces
    <3>1. T = R
      BY <2>6, <2>9 DEF Flushes, R
    <3> QED BY <2>4, <2>5, <2>7, <2>8, <3>1 DEF T
  <2>10. CASE ~(me.queue = <<>> \/ me.queue[1].off = Pieces)
    <3> DEFINE x == me.queue[1]
               to == Upto(x, room)
               mark == IF to = Pieces THEN s ELSE None
    <3>1. Pours(S, T, me, to)
      BY <2>6, <2>10 DEF Flushes
    <3>2. x \in Item
      <4>1. me.queue \in Seq(Item)
        BY <2>5 DEF Actor
      <4> QED BY <2>10, <4>1
    <3>3. to \in 1..Pieces /\ x.off < to
      <4>1. x.off \in 0..2 /\ x.off # 2 /\ room \in 1..2
        BY <2>10, <3>2 DEF Item, Pieces
      <4> HIDE DEF x
      <4> QED BY <4>1 DEF Upto, Pieces
    <3>4. mark \in Stream \cup {None} /\ (mark # None => mark = s /\ to = Pieces)
      BY <2>1
    <3> HIDE DEF x, to
    <3>5. PiecesOf(me.queue[1], to) \in Seq(Piece)
      BY <3>2, <3>3, PiecesOfItem DEF x
    <3>6. /\ Shaped(T) /\ T.e = S.e /\ T.got = S.got
          /\ T.me = [me EXCEPT !.queue[1].off = to, !.queue[1].mark = mark]
          /\ Written(S.tcp, T.tcp, s, Peer(S.e), PiecesOf(me.queue[1], to))
      BY <1>1, <2>1, <3>1, <3>5, PoursIs
    <3> HIDE DEF mark, s
    <3>7. to \in 0..Pieces
      BY <3>3 DEF Pieces
    <3>8. FrontAt(me, T.me, to, mark)
      <4>1. FrontAt(me, [me EXCEPT !.queue[1].off = to, !.queue[1].mark = mark], to, mark)
        BY <2>5, <2>10, <3>4, <3>7, FrontMoves
      <4> DEFINE her == [me EXCEPT !.queue[1].off = to, !.queue[1].mark = mark]
      <4>2. T.me = her
        BY <3>6
      <4> HIDE DEF her
      <4>3. FrontAt(me, her, to, mark)
        BY <4>1 DEF her
      <4> QED BY <4>2, <4>3
    <3>9. /\ ~R.me.restart /\ s \in Stream /\ s = R.me.active /\ R.me.queue # <<>>
          /\ R.me.queue[1].off < to /\ T.e = R.e /\ T.got = R.got
          /\ FrontAt(R.me, T.me, to, mark)
          /\ Written(R.tcp, T.tcp, s, Peer(R.e), PiecesOf(R.me.queue[1], to))
      BY <2>1, <2>4, <2>5, <2>10, <3>3, <3>6, <3>8 DEF x
    <3>10. Turning(T, you, n) /\ Calm(T.me, T.tcp, T.e) /\ ~T.me.restart
      BY <2>7, <2>8, <3>3, <3>4, <3>6, <3>9, WriteTurn
    <3> QED BY <2>4, <3>6, <3>10 DEF T
  <2> QED BY <2>9, <2>10
<1> QED BY <1>1, <1>2, <1>3, <1>4
-----------------------------------------------------------------------------
(* A turn                                                                     *)

(* T is the state of end e when its turn is over.                             *)
Over(T, e, you, n) ==
    /\ Turning(T, you, n) /\ T.e = e /\ Calm(T.me, T.tcp, e) /\ ~T.me.restart
    /\ actor' = [actor EXCEPT ![e] = T.me] /\ tcp' = T.tcp /\ got' = T.got

LEMMA TurnKeeps ==
    ASSUME NEW S, NEW you, NEW n, Turning(S, you, n),
           NEW cost, NEW old, NEW k \in Nat, NEW room \in 1..Pieces, Turn(S, cost, old, k, room)
    PROVE  \E T : Over(T, S.e, you, n)
<1> DEFINE next == Selected(S)
           S1 == SelectStreams(S, next)
           S2 == ExpireStreams(S1, old)
           Q == ExpireQueue(S2, k)
           S3 == Connect(Q)
           S4 == Read(S3)
           S5 == Flush(S4, room)
<1>1. /\ actor' = [actor EXCEPT ![S.e] = S5.me]
      /\ tcp' = S5.tcp /\ got' = S5.got
  BY DEF Turn
<1> HIDE DEF next, S1, S2, Q, S3, S4, S5
<1>2. Turning(S1, you, n) /\ S1.e = S.e /\ Calm(S1.me, S1.tcp, S.e)
  BY SelectKeeps DEF S1, next
<1>3. Turning(S2, you, n) /\ S2.e = S.e /\ Calm(S2.me, S2.tcp, S.e)
  BY <1>2, ExpireStreamsKeeps DEF S2
<1>4. Turning(Q, you, n) /\ Q.e = S.e /\ Calm(Q.me, Q.tcp, S.e)
  BY <1>3, ExpireQueueKeeps DEF Q
<1>5. Turning(S3, you, n) /\ S3.e = S.e /\ Calm(S3.me, S3.tcp, S.e)
  BY <1>4, ConnectKeeps DEF S3
<1>6. Turning(S4, you, n) /\ S4.e = S.e /\ Calm(S4.me, S4.tcp, S.e)
  BY <1>5, ReadKeeps DEF S4
<1>7. Turning(S5, you, n) /\ S5.e = S.e /\ Calm(S5.me, S5.tcp, S.e) /\ ~S5.me.restart
  BY <1>6, FlushKeeps DEF S5
<1>8. Over(S5, S.e, you, n)
  BY <1>1, <1>7 DEF Over
<1> QED BY <1>8

LEMMA TurnAtKeeps ==
    ASSUME NEW S, NEW you, NEW n, Turning(S, you, n), NEW cost, TurnAt(S, cost)
    PROVE  \E T : Over(T, S.e, you, n)
<1>1. \E old, c : \E k \in Nat, room \in 1..Pieces : Turn(S, c, old, k, room)
  <2>1. Pieces \in 1..Pieces /\ 0 \in Nat
    BY DEF Pieces
  <2>2. \A k \in 1..Len(S.me.queue) : k \in Nat
    <3>1. S.me.queue \in Seq(Item)
      BY DEF Turning, Actor
    <3> QED BY <3>1
  <2>3. CASE \E room \in IF S.me.queue = <<>> THEN {Pieces} ELSE 1..Pieces :
               Turn(S, cost, {}, 0, room)
    <3>1. PICK room \in 1..Pieces : Turn(S, cost, {}, 0, room)
      BY <2>1, <2>3
    <3> DEFINE old == {}   k == 0
    <3>2. Turn(S, cost, old, k, room) /\ k \in Nat
      BY <3>1
    <3> HIDE DEF old, k
    <3> QED BY <3>2
  <2>4. CASE \E s \in ToSet(S.me.conns) : ~S.me.auth /\ Turn(S, cost + 1, {s}, 0, Pieces)
    <3>1. PICK s : Turn(S, cost + 1, {s}, 0, Pieces)
      BY <2>4
    <3> DEFINE old == {s}   k == 0   room == Pieces   c == cost + 1
    <3>2. Turn(S, c, old, k, room) /\ k \in Nat /\ room \in 1..Pieces
      BY <2>1, <3>1
    <3> HIDE DEF old, k, room, c
    <3> QED BY <3>2
  <2>5. CASE \E k \in 1..Len(S.me.queue) : Turn(S, cost + 1, {}, k, Pieces)
    <3>1. PICK k \in 1..Len(S.me.queue) : Turn(S, cost + 1, {}, k, Pieces)
      BY <2>5
    <3> DEFINE old == {}   room == Pieces   c == cost + 1
    <3>2. Turn(S, c, old, k, room) /\ k \in Nat /\ room \in 1..Pieces
      BY <2>1, <2>2, <3>1
    <3> HIDE DEF old, room, c
    <3> QED BY <3>2
  <2> QED BY <2>3, <2>4, <2>5 DEF TurnAt
<1> QED BY <1>1, TurnKeeps

(* The two ends change places.                                                *)
LEMMA GoodBothWays ==
    ASSUME NEW e \in End, NEW f, f = Peer(e), NEW me, NEW you, NEW T, NEW G, NEW n,
           Good(e, f, me, you, T, G, n), Calm(me, T, e), ~me.restart
    PROVE  Good(f, e, you, me, T, G, n)
BY DEF Good

-----------------------------------------------------------------------------
(* The inductive invariant: between two turns each end could begin one, uses  *)
(* the only stream it has that is up, and none has to begin anew.             *)

Ready(e) ==
    /\ Turning(State(e), actor[Peer(e)], sent)
    /\ Calm(actor[e], tcp, e) /\ ~actor[e].restart
IInv == actor \in [End -> Actor] /\ \A e \in End : Ready(e)

LEMMA StateIs ==
    ASSUME NEW e
    PROVE  /\ Shaped(State(e)) /\ State(e).e = e /\ State(e).me = actor[e]
           /\ State(e).tcp = tcp /\ State(e).got = got
BY DEF State, Shaped

LEMMA OverKeeps ==
    ASSUME actor \in [End -> Actor], NEW e \in End, sent' \in Nat,
           NEW T, Over(T, e, actor[Peer(e)], sent')
    PROVE  IInv'
<1> DEFINE f == Peer(e)
           you == actor[f]
           m == sent'
<1>1. e \in End /\ f \in End /\ f # e /\ Peer(f) = e /\ End = {e, f}
  BY PeerIsOther
<1>2. /\ Turning(T, you, m) /\ T.e = e /\ Calm(T.me, T.tcp, e) /\ ~T.me.restart
      /\ actor' = [actor EXCEPT ![e] = T.me] /\ tcp' = T.tcp /\ got' = T.got
  BY DEF Over
<1>3. /\ T.me \in Actor /\ you \in Actor /\ T.tcp \in [Stream -> Conn]
      /\ T.got \in [End -> Seq(Record)] /\ m \in Nat
      /\ Good(e, f, T.me, you, T.tcp, T.got, m)
  BY <1>2 DEF Turning
<1>4. actor' \in [End -> Actor] /\ (actor')[e] = T.me /\ (actor')[f] = you
  <2> HIDE DEF f
  <2> QED BY <1>1, <1>2, <1>3 DEF f
<1>5. Ready(e)'
  <2>1. Turning(State(e), actor[Peer(e)], sent)'
    <3>1. (State(e)).e' = e /\ (State(e).me)' = T.me /\ (State(e).tcp)' = T.tcp
          /\ (State(e).got)' = T.got /\ Shaped(State(e))'
      BY <1>2, <1>4 DEF State, Shaped
    <3>2. (actor[Peer(e)])' = you
      BY <1>4
    <3> HIDE DEF f, you, m
    <3> QED BY <1>1, <1>3, <3>1, <3>2 DEF Turning, f, m
  <2> QED BY <1>2, <1>4, <2>1 DEF Ready
<1>6. Ready(f)'
  <2>1. Good(f, e, you, T.me, T.tcp, T.got, m)
    BY <1>1, <1>2, <1>3, GoodBothWays
  <2>2. Turning(State(f), actor[Peer(f)], sent)'
    <3>1. (State(f)).e' = f /\ (State(f).me)' = you /\ (State(f).tcp)' = T.tcp
          /\ (State(f).got)' = T.got /\ Shaped(State(f))'
      BY <1>2, <1>4 DEF State, Shaped
    <3>2. (actor[Peer(f)])' = T.me
      BY <1>1, <1>4
    <3> HIDE DEF f, you, m
    <3> QED BY <1>1, <1>3, <2>1, <3>1, <3>2 DEF Turning, m
  <2>3. (Calm(actor[f], tcp, f) /\ ~actor[f].restart)'
    BY <1>2, <1>3, <1>4 DEF Good
  <2> QED BY <2>2, <2>3 DEF Ready
<1> QED BY <1>1, <1>4, <1>5, <1>6 DEF IInv
-----------------------------------------------------------------------------
(* A record is queued                                                         *)

(* q with x put before its item at.                                           *)
Inserted(q, p, at, x) ==
    /\ p \in Seq(Item) /\ Len(p) = Len(q) + 1 /\ p[at] = x
    /\ \A j \in 1..Len(p) : /\ j < at => p[j] = q[j]
                            /\ j > at => p[j] = q[j - 1]

LEMMA InsertIs ==
    ASSUME NEW q \in Seq(Item), NEW at \in 1..(Len(q) + 1), NEW x \in Item
    PROVE  Inserted(q, InsertAt(q, at, x), at, x)
<1> DEFINE n == Len(q)
           a == SubSeq(q, 1, at - 1)
           b == <<x>>
           d == SubSeq(q, at, n)
           ab == a \o b
           p == ab \o d
<1>1. n \in Nat /\ at \in 1..(n + 1)
  OBVIOUS
<1>2. /\ a \in Seq(Item) /\ Len(a) = at - 1 /\ \A i \in 1..(at - 1) : a[i] = q[i]
  OBVIOUS
<1>3. b \in Seq(Item) /\ Len(b) = 1 /\ b[1] = x
  OBVIOUS
<1>4. d \in Seq(Item) /\ Len(d) = n - at + 1 /\ \A i \in 1..(n - at + 1) : d[i] = q[at + i - 1]
  OBVIOUS
<1> HIDE DEF a, b, d, n
<1>5. /\ ab \in Seq(Item) /\ Len(ab) = at /\ ab[at] = x
      /\ \A i \in 1..(at - 1) : ab[i] = q[i]
  <2>1. /\ ab \in Seq(Item) /\ Len(ab) = Len(a) + Len(b)
        /\ \A i \in 1..Len(a) + Len(b) : ab[i] = IF i <= Len(a) THEN a[i] ELSE b[i - Len(a)]
    BY <1>2, <1>3, ConcatProperties
  <2> HIDE DEF ab
  <2> QED BY <1>1, <1>2, <1>3, <2>1
<1> HIDE DEF ab
<1>6. /\ p \in Seq(Item) /\ Len(p) = n + 1
      /\ \A i \in 1..(n + 1) : p[i] = IF i <= at THEN ab[i] ELSE d[i - at]
  <2>1. /\ p \in Seq(Item) /\ Len(p) = Len(ab) + Len(d)
        /\ \A i \in 1..Len(ab) + Len(d) : p[i] = IF i <= Len(ab) THEN ab[i] ELSE d[i - Len(ab)]
    BY <1>4, <1>5, ConcatProperties
  <2> HIDE DEF p
  <2> QED BY <1>1, <1>4, <1>5, <2>1
<1> HIDE DEF p
<1>7. Inserted(q, p, at, x)
  <2>1. p[at] = x
    BY <1>1, <1>5, <1>6
  <2>2. ASSUME NEW j \in 1..(n + 1), j < at PROVE p[j] = q[j]
    BY <1>1, <1>5, <1>6, <2>2
  <2>3. ASSUME NEW j \in 1..(n + 1), j > at PROVE p[j] = q[j - 1]
    <3>1. p[j] = d[j - at] /\ j - at \in 1..(n - at + 1) /\ at + (j - at) - 1 = j - 1
      BY <1>1, <1>6, <2>3
    <3> QED BY <1>4, <3>1
  <2> QED BY <1>6, <2>1, <2>2, <2>3 DEF Inserted, n
<1> QED BY <1>7 DEF InsertAt, p, ab, a, b, d, n

(* Where a record goes: what is before it is of its kind, or bootstrap.       *)
Placed(q, at, r) ==
    /\ at \in 1..(Len(q) + 1)
    /\ r.boot => /\ \A i \in 1..Len(q) : i < at => q[i].rec.boot
                 /\ at = Len(q) + 1 \/ ~q[at].rec.boot
    /\ ~r.boot => at = Len(q) + 1

LEMMA PlaceIs ==
    ASSUME NEW me \in Actor, NEW r \in Record
    PROVE  Placed(me.queue, PlaceOf(me, r), r)
<1> DEFINE q == me.queue
           ordinary == {i \in DOMAIN q : ~q[i].rec.boot}
           first == CHOOSE i \in ordinary : \A j \in ordinary : i <= j
<1>1. q \in Seq(Item)
  BY DEF Actor
<1>2. PlaceOf(me, r) = IF ~r.boot \/ ordinary = {} THEN Len(q) + 1 ELSE first
  BY DEF PlaceOf
<1> HIDE DEF q
<1>3. DOMAIN q = 1..Len(q) /\ Len(q) \in Nat /\ \A i \in 1..Len(q) : q[i].rec.boot \in BOOLEAN
  <2>1. \A i \in 1..Len(q) : q[i] \in Item
    BY <1>1
  <2> QED BY <1>1, <2>1 DEF Item, Record
<1>4. CASE ~r.boot \/ ordinary = {}
  BY <1>2, <1>3, <1>4 DEF Placed, q
<1>5. CASE r.boot /\ ordinary # {}
  <2>1. first \in ordinary /\ \A j \in ordinary : first <= j
    <3>1. ordinary \in SUBSET Nat /\ ordinary # {}
      BY <1>3, <1>5
    <3> HIDE DEF ordinary
    <3>2. \E i \in ordinary : \A j \in ordinary : i <= j
      BY <3>1, Least
    <3> QED BY <3>2
  <2> HIDE DEF first
  <2>2. first \in 1..Len(q) /\ ~q[first].rec.boot
    BY <1>3, <2>1
  <2>3. ASSUME NEW i \in 1..Len(q), i < first PROVE q[i].rec.boot
    BY <1>3, <2>1, <2>2, <2>3
  <2>4. PlaceOf(me, r) = first
    BY <1>2, <1>5
  <2>5. first \in 1..(Len(q) + 1)
    BY <1>3, <2>2
  <2> QED BY <1>5, <2>2, <2>3, <2>4, <2>5 DEF Placed, q
<1> QED BY <1>4, <1>5 DEF Record

Pushed(me, her, at, r) ==
    /\ her \in Actor /\ Inserted(me.queue, her.queue, at, Entry(r))
    /\ her.restart <=> me.restart \/ (/\ r.boot /\ at = 1
                                      /\ me.queue # <<>> /\ me.queue[1].off > 0)
    /\ her.conns = me.conns /\ her.active = me.active /\ her.input = me.input
    /\ her.seen = me.seen

LEMMA PushIs ==
    ASSUME NEW me \in Actor, NEW r \in Record
    PROVE  Pushed(me, Push(me, r), PlaceOf(me, r), r)
<1> DEFINE at == PlaceOf(me, r)
           x == Entry(r)
           p == InsertAt(me.queue, at, x)
           new == me.restart \/ (r.boot /\ at = 1 /\ me.queue # <<>> /\ me.queue[1].off > 0)
           me1 == [me EXCEPT !.queue = p]
           her == [me1 EXCEPT !.restart = new]
<1>1. me.queue \in Seq(Item) /\ at \in 1..(Len(me.queue) + 1)
  BY PlaceIs DEF Actor, Placed
<1>2. x \in Item /\ x = Entry(r)
  BY DEF Entry, Item, Pieces
<1>3. Push(me, r) = [me EXCEPT !.queue = p, !.restart = new]
  BY DEF Push
<1> HIDE DEF x, at
<1>4. Inserted(me.queue, p, at, x)
  BY <1>1, <1>2, InsertIs
<1> HIDE DEF p
<1>5. p \in Seq(Item)
  BY <1>4 DEF Inserted
<1>6. new \in BOOLEAN
  BY DEF Actor
<1>7. Push(me, r) = her
  <2> HIDE DEF new
  <2> QED BY <1>3
<1>8. /\ her \in Actor /\ her.queue = p /\ her.restart = new
      /\ her.conns = me.conns /\ her.active = me.active /\ her.input = me.input
      /\ her.seen = me.seen
  <2> HIDE DEF new
  <2>1. me1 \in Actor /\ me1.queue = p /\ me1.conns = me.conns /\ me1.active = me.active
        /\ me1.input = me.input /\ me1.seen = me.seen
    BY <1>5 DEF Actor
  <2> HIDE DEF me1
  <2> QED BY <1>6, <2>1 DEF Actor
<1> HIDE DEF her
<1>9. Pushed(me, her, at, r)
  BY <1>2, <1>4, <1>8 DEF Pushed
<1> QED BY <1>7, <1>9 DEF at

LEMMA PushQueued ==
    ASSUME NEW me \in Actor, NEW her, NEW at, NEW r \in Record,
           Queued(me), Pushed(me, her, at, r), Placed(me.queue, at, r),
           \A i \in 1..Len(me.queue) : me.queue[i].rec.id < r.id
    PROVE  /\ Queued(her)
           /\ \A j \in 1..Len(her.queue) :
                 \/ her.queue[j].rec = r
                 \/ \E i \in 1..Len(me.queue) : her.queue[j].rec = me.queue[i].rec
<1> DEFINE q == me.queue
           p == her.queue
<1>1. /\ q \in Seq(Item) /\ her \in Actor /\ p \in Seq(Item) /\ Len(p) = Len(q) + 1
      /\ p[at] = Entry(r)
      /\ \A j \in 1..Len(p) : (j < at => p[j] = q[j]) /\ (j > at => p[j] = q[j - 1])
      /\ her.active = me.active
      /\ her.restart <=> me.restart \/ (r.boot /\ at = 1 /\ q # <<>> /\ q[1].off > 0)
  BY DEF Pushed, Inserted, Actor
<1>2. /\ at \in 1..(Len(q) + 1)
      /\ r.boot => /\ \A i \in 1..Len(q) : i < at => q[i].rec.boot
                   /\ at = Len(q) + 1 \/ ~q[at].rec.boot
      /\ ~r.boot => at = Len(q) + 1
  BY DEF Placed
<1>3. /\ \A i, j \in 1..Len(q) : i < j => /\ q[j].rec.boot => q[i].rec.boot
                                          /\ InTurn(q[i].rec, q[j].rec)
      /\ ~me.restart => \A i \in 1..Len(q) : i > 1 => q[i].off = 0
      /\ \A i \in 1..Len(q) : q[i].mark # None => q[i].mark = me.active /\ q[i].off = Pieces
      /\ me.active = None => ~me.restart /\ \A i \in 1..Len(q) : q[i].off = 0
  BY DEF Queued, QueueOrder
<1>4. \A i \in 1..Len(q) : q[i].rec.id < r.id
  OBVIOUS
<1>5. Entry(r).rec = r /\ Entry(r).off = 0 /\ Entry(r).mark = None
  BY DEF Entry
<1>6. Len(q) \in Nat /\ (q # <<>> <=> Len(q) > 0) /\ \A i \in 1..Len(q) : q[i].off \in Nat
  <2>1. \A i \in 1..Len(q) : q[i] \in Item
    BY <1>1
  <2> QED BY <1>1, <2>1 DEF Item
<1> HIDE DEF p, q
<1> DEFINE m == Len(q)
<1> HIDE DEF m
<1>7. /\ m \in Nat /\ Len(q) = m /\ Len(p) = m + 1 /\ at \in 1..(m + 1)
  BY <1>1, <1>2, <1>6 DEF m
<1>8. ASSUME NEW j \in 1..(m + 1)
      PROVE  \/ j < at /\ j \in 1..m /\ p[j] = q[j]
             \/ j = at /\ p[j] = Entry(r)
             \/ j > at /\ j - 1 \in 1..m /\ p[j] = q[j - 1]
  BY <1>1, <1>7
<1>9. ASSUME NEW i \in 1..(m + 1), NEW j \in 1..(m + 1), i < j
      PROVE  (p[j].rec.boot => p[i].rec.boot) /\ InTurn(p[i].rec, p[j].rec)
  <2>1. CASE j < at
    <3>1. p[i] = q[i] /\ p[j] = q[j] /\ i \in 1..m /\ j \in 1..m
      BY <1>7, <1>8, <1>9, <2>1
    <3> QED BY <1>3, <1>7, <1>9, <3>1
  <2>2. CASE j = at
    <3>1. p[i] = q[i] /\ i \in 1..m /\ p[j].rec = r /\ i < at
      BY <1>5, <1>7, <1>8, <1>9, <2>2
    <3> QED BY <1>2, <1>4, <1>7, <3>1 DEF InTurn
  <2>3. CASE i = at
    <3>1. p[j] = q[j - 1] /\ j - 1 \in 1..m /\ p[i].rec = r /\ at <= j - 1 /\ at \in 1..m
      BY <1>5, <1>7, <1>8, <1>9, <2>3
    <3>2. r.boot /\ ~q[at].rec.boot
      BY <1>2, <1>7, <3>1
    <3>3. ~q[j - 1].rec.boot
      BY <1>3, <1>7, <3>1, <3>2
    <3> QED BY <3>1, <3>2, <3>3 DEF InTurn
  <2>4. CASE i < at /\ j > at
    <3>1. p[i] = q[i] /\ p[j] = q[j - 1] /\ i \in 1..m /\ j - 1 \in 1..m /\ i < j - 1
      BY <1>7, <1>8, <1>9, <2>4
    <3> QED BY <1>3, <1>7, <3>1
  <2>5. CASE i > at
    <3>1. p[i] = q[i - 1] /\ p[j] = q[j - 1] /\ i - 1 \in 1..m /\ j - 1 \in 1..m /\ i - 1 < j - 1
      BY <1>7, <1>8, <1>9, <2>5
    <3> QED BY <1>3, <1>7, <3>1
  <2> QED BY <1>7, <1>9, <2>1, <2>2, <2>3, <2>4, <2>5
<1>10. ASSUME ~her.restart, NEW j \in 1..(m + 1), j > 1 PROVE p[j].off = 0
  <2>1. ~me.restart /\ (at = 1 => m = 0 \/ q[1].off = 0)
    <3>1. CASE at = 1 /\ m > 0
      <4>1. r.boot
        BY <1>2, <1>7, <3>1
      <4>2. 1 \in 1..m
        BY <1>7, <3>1
      <4> QED BY <1>1, <1>6, <1>7, <1>10, <3>1, <4>1, <4>2
    <3>2. CASE ~(at = 1 /\ m > 0)
      BY <1>1, <1>7, <1>10, <3>2
    <3> QED BY <3>1, <3>2
  <2>2. CASE j < at
    BY <1>3, <1>7, <1>8, <1>10, <2>1, <2>2
  <2>3. CASE j = at
    BY <1>1, <1>5, <2>3
  <2>4. CASE j > at
    <3>1. p[j] = q[j - 1] /\ j - 1 \in 1..m /\ (at = 1 \/ j - 1 > 1)
      BY <1>7, <1>8, <2>4
    <3>2. CASE j - 1 = 1
      BY <1>7, <2>1, <2>4, <3>1, <3>2
    <3>3. CASE j - 1 > 1
      BY <1>3, <1>7, <2>1, <3>1, <3>3
    <3> QED BY <1>7, <3>1, <3>2, <3>3
  <2> QED BY <1>7, <2>2, <2>3, <2>4
<1>11. ASSUME NEW j \in 1..(m + 1), p[j].mark # None
       PROVE  p[j].mark = her.active /\ p[j].off = Pieces
  BY <1>1, <1>3, <1>5, <1>7, <1>8, <1>11
<1>12. ASSUME her.active = None
       PROVE  ~her.restart /\ \A j \in 1..(m + 1) : p[j].off = 0
  <2>1. ~me.restart /\ \A i \in 1..m : q[i].off = 0
    BY <1>1, <1>3, <1>7, <1>12
  <2>2. ~her.restart
    <3>1. CASE m = 0
      BY <1>1, <1>6, <1>7, <2>1, <3>1
    <3>2. CASE m # 0
      <4>1. q[1].off = 0
        BY <1>7, <2>1, <3>2
      <4> QED BY <1>1, <2>1, <4>1
    <3> QED BY <3>1, <3>2
  <2>3. ASSUME NEW j \in 1..(m + 1) PROVE p[j].off = 0
    BY <1>5, <1>8, <2>1
  <2> QED BY <2>2, <2>3
<1>13. Queued(her)
  BY <1>7, <1>9, <1>10, <1>11, <1>12 DEF Queued, QueueOrder, p
<1>14. ASSUME NEW j \in 1..(m + 1)
       PROVE  p[j].rec = r \/ \E i \in 1..m : p[j].rec = q[i].rec
  BY <1>5, <1>8
<1> QED BY <1>7, <1>13, <1>14 DEF p, q

LEMMA PushFronts ==
    ASSUME NEW c, NEW ra, NEW sb, NEW me \in Actor, Fronts(c, ra, sb, me),
           NEW her, NEW at, NEW r \in Record,
           Pushed(me, her, at, r), Placed(me.queue, at, r)
    PROVE  Fronts(c, ra, sb, her)
<1> DEFINE q == me.queue
           p == her.queue
<1>1. /\ q \in Seq(Item) /\ p \in Seq(Item) /\ Len(p) = Len(q) + 1 /\ p[at] = Entry(r)
      /\ \A j \in 1..Len(p) : j < at => p[j] = q[j]
      /\ her.active = me.active /\ at \in 1..(Len(q) + 1)
      /\ her.restart <=> me.restart \/ (r.boot /\ at = 1 /\ q # <<>> /\ q[1].off > 0)
      /\ ~r.boot => at = Len(q) + 1
  BY DEF Pushed, Inserted, Actor, Placed
<1>2. Entry(r).off = 0
  BY DEF Entry
<1>3. q # <<>> => q[1].off \in Nat
  <2>1. q # <<>> => q[1] \in Item
    BY <1>1
  <2> QED BY <2>1 DEF Item
<1> HIDE DEF q, p
<1>4. ~her.restart => ~me.restart /\ (Mid(p) <=> Mid(q)) /\ (Mid(q) => p[1] = q[1])
  <2> SUFFICES ASSUME ~her.restart
               PROVE  ~me.restart /\ (Mid(p) <=> Mid(q)) /\ (Mid(q) => p[1] = q[1])
    OBVIOUS
  <2>1. CASE at = 1
    <3>1. ~Mid(p)
      BY <1>1, <1>2, <2>1 DEF Mid
    <3>2. ~Mid(q)
      <4> SUFFICES ASSUME q # <<>>, q[1].off = 1 PROVE FALSE
        BY DEF Mid
      <4>1. r.boot
        BY <1>1, <2>1
      <4> QED BY <1>1, <2>1, <4>1
    <3> QED BY <1>1, <3>1, <3>2
  <2>2. CASE at > 1
    <3>1. p # <<>> /\ q # <<>> /\ p[1] = q[1]
      BY <1>1, <2>2
    <3> QED BY <1>1, <2>2, <3>1 DEF Mid
  <2> QED BY <1>1, <2>1, <2>2
<1> SUFFICES ASSUME NEW s \in Stream, sb[s] = "est", ra[s] \in Open
             PROVE  IF s # her.active THEN c[s] = <<>> ELSE ~her.restart => AtFront(c[s], p)
  BY DEF Fronts, p
<1>5. IF s # me.active THEN c[s] = <<>> ELSE ~me.restart => AtFront(c[s], q)
  BY DEF Fronts, q
<1>6. ~her.restart /\ AtFront(c[s], q) => AtFront(c[s], p)
  BY <1>4 DEF AtFront
<1> QED BY <1>1, <1>4, <1>5, <1>6

LEMMA PushKeeps ==
    ASSUME NEW S, NEW you, NEW n, Turning(S, you, n), NEW r \in Record, r.id = n + 1,
           NEW R, Shaped(R), R.e = S.e, R.tcp = S.tcp, R.got = S.got, R.me = Push(S.me, r)
    PROVE  Turning(R, you, n + 1)
<1> DEFINE e == S.e
           f == Peer(e)
           T == S.tcp
           G == S.got
           me == S.me
           her == R.me
           at == PlaceOf(me, r)
           c == Coming(T, e, me)   ra == Side(T, e)
           x == Coming(T, f, you)  sa == Side(T, f)
<1>1. /\ e \in End /\ f \in End /\ me \in Actor /\ you \in Actor
      /\ T \in [Stream -> Conn] /\ G \in [End -> Seq(Record)] /\ n \in Nat
      /\ Good(e, f, me, you, T, G, n)
  BY PeerIsOther DEF Turning
<1>2. /\ Pairs(T) /\ Listed(me, T, e) /\ Queued(me) /\ me.seen = ToSet(G[e])
      /\ Listed(you, T, f) /\ Queued(you) /\ you.seen = ToSet(G[f])
      /\ Calm(you, T, f) /\ ~you.restart
      /\ Flow(c, ra, sa, you, G[e], n) /\ Flow(x, sa, ra, me, G[f], n)
  BY <1>1 DEF Good
<1>3. /\ c \in [Stream -> Seq(Piece)] /\ x \in [Stream -> Seq(Piece)]
      /\ ra \in [Stream -> Status] /\ sa \in [Stream -> Status]
      /\ G[e] \in Seq(Record) /\ G[f] \in Seq(Record)
  BY <1>1, ComingIs
<1>4. Pushed(me, her, at, r) /\ Placed(me.queue, at, r)
  BY <1>1, PushIs, PlaceIs
<1>5. /\ R.e = e /\ R.tcp = T /\ R.got = G /\ Shaped(R)
  OBVIOUS
<1> HIDE DEF e, f, T, G, me, her, at
<1>6. /\ her \in Actor /\ her.conns = me.conns /\ her.active = me.active
      /\ her.input = me.input /\ her.seen = me.seen
  BY <1>4 DEF Pushed
<1>7. Coming(T, e, her) = c
  BY <1>6 DEF Coming, Input
<1> HIDE DEF c, x, ra, sa
<1>8. \A i \in 1..Len(me.queue) : me.queue[i].rec.id < r.id
  <2> SUFFICES ASSUME NEW i \in 1..Len(me.queue) PROVE me.queue[i].rec.id < n + 1
    OBVIOUS
  <2>1. me.queue[i] \in Item
    <3>1. me.queue \in Seq(Item)
      BY <1>1 DEF Actor
    <3> QED BY <3>1
  <2>2. me.queue[i].rec.id \in Nat
    <3> DEFINE z == me.queue[i]
    <3> HIDE DEF z
    <3>1. z \in Item => z.rec.id \in Nat
      BY DEF Item, Record
    <3> QED BY <2>1, <3>1 DEF z
  <2>3. me.queue[i].rec.id <= n
    BY <1>2 DEF Flow, Waiting
  <2> QED BY <1>1, <2>2, <2>3
<1>9. /\ Queued(her)
      /\ \A j \in 1..Len(her.queue) :
            \/ her.queue[j].rec = r
            \/ \E i \in 1..Len(me.queue) : her.queue[j].rec = me.queue[i].rec
  BY <1>1, <1>2, <1>4, <1>8, PushQueued
<1>10. Fronts(x, sa, ra, me) /\ Fronts(c, ra, sa, you)
  BY <1>2 DEF Flow
<1>11. Fronts(x, sa, ra, her)
  BY <1>1, <1>4, <1>10, PushFronts
<1>12. Flow(x, sa, ra, her, G[f], n + 1)
  BY <1>1, <1>2, <1>3, <1>6, <1>9, <1>11, FlowSends
<1>13. Flow(c, ra, sa, you, G[e], n + 1)
  BY <1>1, <1>2, <1>3, <1>10, FlowSends
<1>14. Good(e, f, her, you, T, G, n + 1)
  <2>1. Listed(her, T, e)
    BY <1>2, <1>6 DEF Listed
  <2> QED BY <1>2, <1>6, <1>7, <1>9, <1>12, <1>13, <2>1 DEF Good, x, ra, sa
<1> QED BY <1>1, <1>5, <1>6, <1>14 DEF Turning, f, her
-----------------------------------------------------------------------------
(* What else happens to an end                                                *)

(* Its policy changes, or someone subscribes.                                 *)
LEMMA AnotherPolicy ==
    ASSUME NEW S, NEW you, NEW n, Turning(S, you, n),
           NEW R, Shaped(R), R.e = S.e, R.tcp = S.tcp, R.got = S.got, R.me \in Actor,
           SameUse(S.me, R.me), R.me.conns = S.me.conns
    PROVE  Turning(R, you, n)
<1> DEFINE e == S.e
           f == Peer(e)
           T == S.tcp
           G == S.got
           me == S.me
           her == R.me
<1>1. /\ e \in End /\ f \in End /\ me \in Actor /\ you \in Actor
      /\ T \in [Stream -> Conn] /\ G \in [End -> Seq(Record)] /\ n \in Nat
      /\ Good(e, f, me, you, T, G, n)
  BY PeerIsOther DEF Turning
<1>2. /\ R.e = e /\ R.tcp = T /\ R.got = G /\ Shaped(R) /\ her \in Actor
      /\ SameQueue(me, her) /\ her.input = me.input /\ her.conns = me.conns
      /\ her.active = me.active
  BY DEF SameUse, SameQueue
<1> HIDE DEF e, f, T, G, me, her
<1>3. Moved(T, T, e, f)
  BY <1>1 DEF Moved, Changes, Good, Pairs
<1>4. Listed(her, T, e) /\ Unused(me, T, T, e)
  BY <1>1, <1>2 DEF Good, Listed, Unused
<1>5. Coming(T, e, her) = Coming(T, e, me)
  BY <1>2 DEF Coming, Input
<1>6. Good(e, f, her, you, T, G, n)
  BY <1>1, <1>2, <1>3, <1>4, <1>5, Moves DEF f
<1> QED BY <1>1, <1>2, <1>6 DEF Turning, f, her

(* An end without a stream empties its queue, and perhaps forgets what it     *)
(* has delivered.                                                             *)
Idle(T, e) == \A s \in Stream : T[s].st[e] \notin {"syn", "est"}

LEMMA IdleKeeps ==
    ASSUME NEW S, NEW you, NEW n, Turning(S, you, n), Idle(S.tcp, S.e),
           NEW R, Shaped(R), R.e = S.e, R.tcp = S.tcp, R.me \in Actor,
           R.got \in [End -> Seq(Record)], \A f \in End : f # S.e => R.got[f] = S.got[f],
           R.me.queue = <<>>, ~R.me.restart,
           \/ R.got[S.e] = S.got[S.e] /\ R.me.seen = S.me.seen
           \/ R.got[S.e] = <<>> /\ R.me.seen = {}
    PROVE  Turning(R, you, n)
<1> DEFINE e == S.e
           f == Peer(e)
           T == S.tcp
           G == S.got
           H == R.got
           me == S.me
           her == R.me
           c == Coming(T, e, me)   ra == Side(T, e)
           x == Coming(T, f, you)  sa == Side(T, f)
<1>1. /\ e \in End /\ f \in End /\ f # e /\ me \in Actor /\ you \in Actor
      /\ T \in [Stream -> Conn] /\ G \in [End -> Seq(Record)] /\ n \in Nat
      /\ Good(e, f, me, you, T, G, n)
  BY PeerIsOther DEF Turning
<1>2. /\ Pairs(T) /\ me.seen = ToSet(G[e])
      /\ Listed(you, T, f) /\ Queued(you) /\ you.seen = ToSet(G[f])
      /\ Calm(you, T, f) /\ ~you.restart
      /\ Flow(c, ra, sa, you, G[e], n) /\ Flow(x, sa, ra, me, G[f], n)
  BY <1>1 DEF Good
<1>3. /\ c \in [Stream -> Seq(Piece)] /\ x \in [Stream -> Seq(Piece)]
      /\ ra \in [Stream -> Status] /\ sa \in [Stream -> Status]
  BY <1>1, ComingIs
<1>4. /\ R.e = e /\ R.tcp = T /\ Shaped(R) /\ her \in Actor
      /\ her.queue = <<>> /\ ~her.restart /\ Idle(T, e)
      /\ H \in [End -> Seq(Record)] /\ H[f] = G[f]
      /\ \/ H[e] = G[e] /\ her.seen = me.seen
         \/ H[e] = <<>> /\ her.seen = {}
  BY <1>1
<1>5. Coming(T, e, her) = c
  BY <1>4, Zenon DEF Coming, Idle
<1> HIDE DEF e, f, T, G, H, me, her
<1>6. \A s \in Stream : ra[s] # "est"
  BY <1>4 DEF Idle, Side
<1> HIDE DEF c, x, ra, sa
<1>7. Len(her.queue) = 0 /\ Len(<<>>) = 0
  BY <1>4
<1>8. Queued(her)
  BY <1>4, <1>7 DEF Queued, QueueOrder
<1>9. her.seen = ToSet(H[e])
  <2>1. ToSet(<<>>) = {}
    BY DEF ToSet
  <2> QED BY <1>2, <1>4, <2>1
<1>10. Flow(x, sa, ra, her, G[f], n)
  <2>1. Fronts(x, sa, ra, her)
    BY <1>6 DEF Fronts
  <2>2. \A j \in 1..Len(her.queue) : \E i \in 1..Len(me.queue) : her.queue[j].rec = me.queue[i].rec
    BY <1>7
  <2>3. G[f] \in Seq(Record)
    BY <1>1
  <2> QED BY <1>1, <1>2, <1>3, <1>4, <2>1, <2>2, <2>3, FlowQueue
<1>11. Flow(c, ra, sa, you, H[e], n)
  <2>1. CASE H[e] = G[e]
    BY <1>2, <2>1
  <2>2. CASE H[e] = <<>>
    <3>1. Known(c, ra, <<>>, n)
      BY <1>2, <1>7 DEF Flow, Known, Fresh
    <3>2. Waiting(you.queue, <<>>, n)
      BY <1>2, <1>7 DEF Flow, Waiting, Fresh
    <3>3. Ordered(<<>>, n)
      BY <1>7 DEF Ordered
    <3> QED BY <1>2, <2>2, <3>1, <3>2, <3>3 DEF Flow
  <2> QED BY <1>4, <2>1, <2>2
<1>12. Good(e, f, her, you, T, H, n)
  <2>1. Listed(her, T, e)
    BY <1>4 DEF Listed, Idle
  <2> QED BY <1>2, <1>4, <1>5, <1>8, <1>9, <1>10, <1>11, <2>1 DEF Good, c, x, ra, sa
<1> QED BY <1>1, <1>4, <1>12 DEF Turning, f, her, H

LEMMA ClosedAllIdles ==
    ASSUME NEW S, NEW you, NEW n, Turning(S, you, n)
    PROVE  LET T == ClosedAll(S)
           IN /\ Turning(T, you, n) /\ T.e = S.e /\ Idle(T.tcp, S.e)
              /\ T.tcp = Without(S.tcp, S.e, {s \in ToSet(S.me.conns) : Alive(S, s)})
              /\ T.got = S.got /\ T.me.seen = S.me.seen
<1> DEFINE ss == ToSet(S.me.conns)
           T == Closed(S, ss)
<1>1. ClosedAll(S) = T
  BY DEF ClosedAll
<1>2. /\ Shaped(S) /\ S.me \in Actor /\ S.e \in End /\ Listed(S.me, S.tcp, S.e)
  BY DEF Turning, Good
<1>3. ss \in SUBSET Stream
  <2>1. S.me.conns \in Seq(Stream)
    BY <1>2 DEF Actor
  <2> QED BY <2>1 DEF ToSet
<1>4. \A s \in Stream : S.tcp[s].st[S.e] \in {"syn", "est"} => s \in ss
  BY <1>2 DEF Listed
<1> HIDE DEF ss, T
<1>5. /\ Turning(T, you, n) /\ T.e = S.e /\ Stays(S.tcp, T.tcp, S.e, ss)
  BY <1>3, ClosedKeeps DEF T
<1>6. T.tcp = Without(S.tcp, S.e, {s \in ss : Alive(S, s)}) /\ T.got = S.got
  BY <1>2, ClosedIs DEF T
<1>7. Idle(T.tcp, S.e)
  <2>1. \A s \in Stream : T.tcp[s].st[S.e] \in {"syn", "est"} => s \notin ss /\ T.tcp[s] = S.tcp[s]
    BY <1>5 DEF Stays
  <2> QED BY <1>4, <2>1 DEF Idle
<1>8. T.me.seen = S.me.seen
  BY <1>2, ClosedIs DEF T, ClosedMe
<1> QED BY <1>1, <1>5, <1>6, <1>7, <1>8 DEF ss
-----------------------------------------------------------------------------
(* What TCP does to an end                                                    *)

(* One stream of the state becomes d.                                         *)
Put(S, R, me, s, d) ==
    /\ Shaped(R) /\ R.e = S.e /\ R.got = S.got /\ R.me = me
    /\ R.tcp = [S.tcp EXCEPT ![s] = d]

LEMMA PutIs ==
    ASSUME NEW S, Shaped(S), NEW s, NEW d
    PROVE  Put(S, [S EXCEPT !.tcp = [S.tcp EXCEPT ![s] = d]], S.me, s, d)
<1> DEFINE U == [S.tcp EXCEPT ![s] = d]
           R == [S EXCEPT !.tcp = U]
           T == S.tcp
<1>1. S = [e |-> S.e, me |-> S.me, tcp |-> T, got |-> S.got, settled |-> S.settled]
  BY DEF Shaped
<1> HIDE DEF U, T
<1>2. R = [e |-> S.e, me |-> S.me, tcp |-> U, got |-> S.got, settled |-> S.settled]
  BY <1>1
<1> HIDE DEF R
<1>3. Shaped(R) /\ R.e = S.e /\ R.got = S.got /\ R.me = S.me /\ R.tcp = U
  BY <1>2 DEF Shaped
<1> QED BY <1>3 DEF Put, R, U

LEMMA ConnFields ==
    ASSUME NEW c \in Conn
    PROVE  /\ c = [by |-> c.by, st |-> c.st, buf |-> c.buf, wire |-> c.wire, acked |-> c.acked]
           /\ c.st \in [End -> Status] /\ c.buf \in [End -> Seq(Piece)]
           /\ c.wire \in [End -> Seq(Piece)] /\ c.acked \in [End -> BOOLEAN]
BY DEF Conn

(* The other end's handshake, and the acknowledgements, leave the data alone. *)
UpAt(c, d, e) == d \in Conn /\ d.st = [c.st EXCEPT ![e] = "est"] /\ d.buf = c.buf /\ d.wire = c.wire

LEMMA UpAtIs ==
    ASSUME NEW c \in Conn, NEW e \in End
    PROVE  UpAt(c, [c EXCEPT !.st[e] = "est"], e)
<1> DEFINE t == [c.st EXCEPT ![e] = "est"]
           d == [c EXCEPT !.st = t]
<1>1. t \in [End -> Status]
  <2>1. c.st \in [End -> Status] /\ "est" \in Status
    BY ConnFields DEF Status
  <2> QED BY <2>1
<1> HIDE DEF t
<1>2. d \in Conn /\ d.st = t /\ d.buf = c.buf /\ d.wire = c.wire
  BY <1>1 DEF Conn
<1> QED BY <1>2 DEF UpAt, t

LEMMA UpBecomes ==
    ASSUME NEW e \in End, NEW c \in Conn, NEW d, UpAt(c, d, e),
           \/ c.st[e] = "syn"
           \/ c.st[e] = "free" /\ c.st[Peer(e)] = "est"
    PROVE  Becomes(c, d, e, Peer(e)) /\ d.st[e] = "est"
<1>1. Peer(e) \in End /\ Peer(e) # e
  BY PeerIsOther
<1>2. c.st \in [End -> Status]
  BY ConnFields
<1>3. d.st[e] = "est" /\ d.st[Peer(e)] = c.st[Peer(e)] /\ d.buf = c.buf /\ d.wire = c.wire
  <2>1. d.st = [c.st EXCEPT ![e] = "est"] /\ d.buf = c.buf /\ d.wire = c.wire
    BY DEF UpAt
  <2> QED BY <1>1, <1>2, <2>1
<1> QED BY <1>3 DEF Becomes, Changes

LEMMA OpenedKeeps ==
    ASSUME NEW S, NEW you, NEW n, Turning(S, you, n), Calm(S.me, S.tcp, S.e),
           NEW s \in Stream, St(S, s) = "syn"
    PROVE  LET R == [S EXCEPT !.tcp[s].st[S.e] = "est"]
           IN Turning(R, you, n) /\ R.e = S.e
<1> DEFINE e == S.e
           c == S.tcp[s]
           d == [c EXCEPT !.st[e] = "est"]
           R == [S EXCEPT !.tcp[s].st[S.e] = "est"]
<1>1. /\ Shaped(S) /\ e \in End /\ S.me \in Actor /\ S.tcp \in [Stream -> Conn]
      /\ Listed(S.me, S.tcp, e)
  BY DEF Turning, Good
<1>2. c \in Conn /\ c.st[e] = "syn"
  BY <1>1 DEF St
<1>3. R = [S EXCEPT !.tcp = [S.tcp EXCEPT ![s] = d]]
  OBVIOUS
<1> HIDE DEF R, d
<1>4. Put(S, R, S.me, s, d)
  BY <1>1, <1>3, PutIs
<1>5. UpAt(c, d, e)
  BY <1>1, <1>2, UpAtIs DEF d
<1>6. Becomes(c, d, e, Peer(e)) /\ d.st[e] = "est" /\ d \in Conn
  <2>1. d \in Conn
    BY <1>5 DEF UpAt
  <2> HIDE DEF c
  <2> QED BY <1>1, <1>2, <1>5, <2>1, UpBecomes
<1>7. s \in ToSet(S.me.conns) /\ s # S.me.active
  <2>1. s \in ToSet(S.me.conns)
    BY <1>1, <1>2 DEF Listed
  <2>2. s # S.me.active
    BY <1>2, ControlAssumption DEF Calm
  <2> QED BY <2>1, <2>2
<1>8. /\ Shaped(R) /\ R.e = e /\ R.got = S.got /\ R.me = S.me
      /\ R.tcp = [S.tcp EXCEPT ![s] = d]
  BY <1>4 DEF Put
<1>9. SameUse(S.me, R.me) /\ R.me \in Actor
  BY <1>1, <1>8 DEF SameUse, SameQueue
<1>10. Turning(R, you, n)
  BY <1>6, <1>7, <1>8, <1>9, MovesTurn
<1> QED BY <1>8, <1>10 DEF R

LEMMA AcceptKeeps ==
    ASSUME NEW S, NEW you, NEW n, Turning(S, you, n), Calm(S.me, S.tcp, S.e),
           NEW s \in Stream, St(S, s) = "free", S.tcp[s].st[Peer(S.e)] = "est"
    PROVE  LET R == [S EXCEPT !.tcp[s].st[S.e] = "est", !.me.conns = Append(@, s)]
           IN Turning(R, you, n) /\ R.e = S.e
<1> DEFINE e == S.e
           c == S.tcp[s]
           d == [c EXCEPT !.st[e] = "est"]
           her == [S.me EXCEPT !.conns = Append(@, s)]
           R == [S EXCEPT !.tcp[s].st[S.e] = "est", !.me.conns = Append(@, s)]
<1>1. /\ Shaped(S) /\ e \in End /\ S.me \in Actor /\ S.tcp \in [Stream -> Conn]
  BY DEF Turning
<1>2. c \in Conn /\ c.st[e] = "free" /\ c.st[Peer(e)] = "est"
  BY <1>1 DEF St
<1>3. /\ Shaped(R) /\ R.e = e /\ R.got = S.got /\ R.me = her
      /\ R.tcp = [S.tcp EXCEPT ![s] = d]
  <2> DEFINE r == R
  <2>1. r = [S EXCEPT !.tcp[s].st[S.e] = "est", !.me.conns = Append(@, s)]
    OBVIOUS
  <2> HIDE DEF r
  <2>2. r.e = S.e /\ r.got = S.got
    BY <1>1, <2>1 DEF Shaped
  <2>3. r.me = [S.me EXCEPT !.conns = Append(@, s)]
    BY <1>1, <2>1 DEF Shaped
  <2>4. r.tcp = [S.tcp EXCEPT ![s].st[S.e] = "est"]
    BY <1>1, <2>1 DEF Shaped
  <2>5. Shaped(r)
    BY <1>1, <2>1 DEF Shaped
  <2> QED BY <2>2, <2>3, <2>4, <2>5 DEF r
<1> HIDE DEF R, d
<1>4. UpAt(c, d, e)
  BY <1>1, <1>2, UpAtIs DEF d
<1>5. Becomes(c, d, e, Peer(e)) /\ d.st[e] = "est" /\ d \in Conn
  <2>1. d \in Conn
    BY <1>4 DEF UpAt
  <2> HIDE DEF c
  <2> QED BY <1>1, <1>2, <1>4, <2>1, UpBecomes
<1>6. s # S.me.active
  BY <1>2, ControlAssumption DEF Calm
<1>7. /\ her \in Actor /\ SameUse(S.me, her)
      /\ ToSet(S.me.conns) \subseteq ToSet(her.conns) /\ s \in ToSet(her.conns)
  BY <1>1, MoreConns
<1> HIDE DEF her
<1>8. Turning(R, you, n)
  BY <1>3, <1>5, <1>6, <1>7, MovesTurn
<1> QED BY <1>3, <1>8 DEF R

(* The first piece under way gets into the buffer.                            *)
LEMMA OneArrives ==
    ASSUME NEW b \in Seq(Piece), NEW w \in Seq(Piece), w # <<>>
    PROVE  /\ Append(b, Head(w)) \in Seq(Piece) /\ Tail(w) \in Seq(Piece)
           /\ Append(b, Head(w)) \o Tail(w) = b \o w
<1>1. /\ Head(w) \in Piece /\ Tail(w) \in Seq(Piece) /\ Head(w) = w[1]
      /\ Len(Tail(w)) = Len(w) - 1 /\ \A i \in 1..Len(Tail(w)) : Tail(w)[i] = w[i + 1]
  BY HeadTailProperties
<1> DEFINE h == Head(w)
           t == Tail(w)
           g == <<h>>
<1> HIDE DEF h, t
<1>2. h \in Piece /\ t \in Seq(Piece) /\ h = w[1] /\ Len(t) = Len(w) - 1
      /\ \A i \in 1..Len(t) : t[i] = w[i + 1]
  BY <1>1 DEF h, t
<1>3. g \in Seq(Piece) /\ Append(b, h) = b \o g /\ Append(b, h) \in Seq(Piece)
  BY <1>2
<1>4. g \o t = w
  <2> DEFINE y == g \o t
             m == Len(w)
  <2>1. m \in Nat \ {0} /\ Len(t) = m - 1 /\ Len(g) = 1 /\ g[1] = w[1]
    BY <1>2
  <2> HIDE DEF g, m
  <2>2. /\ y \in Seq(Piece) /\ Len(y) = Len(g) + Len(t)
        /\ \A i \in 1..Len(g) + Len(t) : y[i] = IF i <= Len(g) THEN g[i] ELSE t[i - Len(g)]
    BY <1>2, <1>3, ConcatProperties
  <2> HIDE DEF y
  <2>3. Len(y) = m
    BY <2>1, <2>2
  <2>4. ASSUME NEW i \in 1..m PROVE y[i] = w[i]
    <3>1. CASE i = 1
      BY <2>1, <2>2, <3>1
    <3>2. CASE i > 1
      <4>1. y[i] = t[i - 1] /\ i - 1 \in 1..(m - 1)
        BY <2>1, <2>2, <3>2
      <4> QED BY <1>2, <2>1, <4>1
    <3> QED BY <2>1, <3>1, <3>2
  <2> QED BY <2>2, <2>3, <2>4, SeqEqual DEF m, y
<1> HIDE DEF g
<1>5. (b \o g) \o t = b \o (g \o t)
  BY <1>2, <1>3, JoinsInAnyOrder
<1> QED BY <1>2, <1>3, <1>4, <1>5 DEF h, t

Arrived(c, d, e) ==
    /\ d \in Conn /\ d.st = c.st
    /\ d.wire = [c.wire EXCEPT ![e] = Tail(c.wire[e])]
    /\ d.buf = [c.buf EXCEPT ![e] = Append(c.buf[e], Head(c.wire[e]))]

LEMMA ArrivedBecomes ==
    ASSUME NEW e \in End, NEW c \in Conn, NEW d, Arrived(c, d, e),
           c.st[e] = "est", c.wire[e] # <<>>
    PROVE  Becomes(c, d, e, Peer(e)) /\ d.st[e] = c.st[e]
<1>1. Peer(e) \in End /\ Peer(e) # e
  BY PeerIsOther
<1>2. c.buf \in [End -> Seq(Piece)] /\ c.wire \in [End -> Seq(Piece)]
  BY ConnFields
<1>3. Append(c.buf[e], Head(c.wire[e])) \o Tail(c.wire[e]) = c.buf[e] \o c.wire[e]
  BY <1>2, OneArrives
<1> DEFINE a == Append(c.buf[e], Head(c.wire[e]))
           t == Tail(c.wire[e])
<1>4. d.wire = [c.wire EXCEPT ![e] = t] /\ d.buf = [c.buf EXCEPT ![e] = a] /\ d.st = c.st
  BY DEF Arrived
<1>5. a \o t = c.buf[e] \o c.wire[e]
  BY <1>3
<1> HIDE DEF a, t
<1>6. /\ d.wire[e] = t /\ d.wire[Peer(e)] = c.wire[Peer(e)]
      /\ d.buf[e] = a /\ d.buf[Peer(e)] = c.buf[Peer(e)]
  BY <1>1, <1>2, <1>4
<1> QED BY <1>4, <1>5, <1>6 DEF Becomes, Changes

LEMMA ArrivedIs ==
    ASSUME NEW S, Shaped(S), S.tcp \in [Stream -> Conn], NEW s \in Stream, S.e \in End,
           S.tcp[s].wire[S.e] # <<>>
    PROVE  LET R == [S EXCEPT !.tcp[s].wire[S.e] = Tail(@),
                              !.tcp[s].buf[S.e] = Append(@, Head(S.tcp[s].wire[S.e]))]
           IN \E d : Arrived(S.tcp[s], d, S.e) /\ Put(S, R, S.me, s, d)
<1> DEFINE e == S.e
           T == S.tcp
           c == T[s]
           a == Append(c.buf[e], Head(c.wire[e]))
           t == Tail(c.wire[e])
           w == [c.wire EXCEPT ![e] = t]
           b == [c.buf EXCEPT ![e] = a]
           c1 == [c EXCEPT !.wire = w]
           d == [c1 EXCEPT !.buf = b]
           U1 == [T EXCEPT ![s] = c1]
           U == [T EXCEPT ![s] = d]
           S1 == [S EXCEPT !.tcp = U1]
           R == [S EXCEPT !.tcp[s].wire[S.e] = Tail(@),
                          !.tcp[s].buf[S.e] = Append(@, Head(S.tcp[s].wire[S.e]))]
<1>1. c \in Conn /\ T \in [Stream -> Conn] /\ e \in End
  OBVIOUS
<1>2. /\ c = [by |-> c.by, st |-> c.st, buf |-> c.buf, wire |-> c.wire, acked |-> c.acked]
      /\ c.buf \in [End -> Seq(Piece)] /\ c.wire \in [End -> Seq(Piece)]
  <2> HIDE DEF c
  <2> QED BY <1>1, ConnFields
<1>3. a \in Seq(Piece) /\ t \in Seq(Piece)
  <2>1. c.buf[e] \in Seq(Piece) /\ c.wire[e] \in Seq(Piece) /\ c.wire[e] # <<>>
    BY <1>1, <1>2
  <2> QED BY <2>1, OneArrives
<1>4. R = [S1 EXCEPT !.tcp[s].buf[e] = Append(@, Head(c.wire[e]))]
  OBVIOUS
<1> HIDE DEF R, a, t
<1>5. w \in [End -> Seq(Piece)] /\ b \in [End -> Seq(Piece)]
  <2> HIDE DEF c
  <2> QED BY <1>1, <1>2, <1>3
<1> HIDE DEF w
<1>6. c1 \in Conn /\ c1.buf = c.buf /\ c1.st = c.st /\ c1.wire = w
  <2> HIDE DEF c
  <2> QED BY <1>1, <1>5 DEF Conn
<1> HIDE DEF c1, b
<1>7. d \in Conn /\ d.buf = b /\ d.st = c1.st /\ d.wire = c1.wire
  <2> QED BY <1>5, <1>6 DEF Conn
<1> HIDE DEF d
<1>8. S1.tcp = U1 /\ U1[s] = c1
  <2>1. U1[s] = c1
    <3> HIDE DEF T
    <3> QED BY <1>1
  <2>2. S1.tcp = U1
    <3> HIDE DEF U1
    <3> QED BY DEF Shaped
  <2> QED BY <2>1, <2>2
<1>9. R = [S1 EXCEPT !.tcp = [U1 EXCEPT ![s] = d]]
  <2>1. [c1 EXCEPT !.buf[e] = Append(@, Head(c.wire[e]))] = d
    BY <1>6 DEF d, b, a
  <2> HIDE DEF U1, S1, c, T, e
  <2>2. R = [S1 EXCEPT !.tcp[s] = [c1 EXCEPT !.buf[e] = Append(@, Head(c.wire[e]))]]
    BY <1>4, <1>8
  <2>3. R = [S1 EXCEPT !.tcp[s] = d]
    BY <2>1, <2>2
  <2> QED BY <1>8, <2>3
<1>10. [U1 EXCEPT ![s] = d] = U
  <2> HIDE DEF T
  <2> QED BY <1>1
<1>11. R = [S EXCEPT !.tcp = U]
  <2>1. R = [S1 EXCEPT !.tcp = U]
    BY <1>9, <1>10
  <2>2. S = [e |-> S.e, me |-> S.me, tcp |-> S.tcp, got |-> S.got, settled |-> S.settled]
    BY DEF Shaped
  <2> HIDE DEF U1, U
  <2> QED BY <2>1, <2>2
<1>12. Put(S, R, S.me, s, d)
  BY <1>11, PutIs
<1>13. Arrived(c, d, e)
  BY <1>6, <1>7 DEF Arrived, w, b, a, t
<1> QED BY <1>12, <1>13 DEF R

LEMMA ArriveKeeps ==
    ASSUME NEW S, NEW you, NEW n, Turning(S, you, n),
           NEW s \in Stream, St(S, s) = "est", S.tcp[s].wire[S.e] # <<>>
    PROVE  LET R == [S EXCEPT !.tcp[s].wire[S.e] = Tail(@),
                              !.tcp[s].buf[S.e] = Append(@, Head(S.tcp[s].wire[S.e]))]
           IN Turning(R, you, n) /\ R.e = S.e
<1> DEFINE c == S.tcp[s]
           R == [S EXCEPT !.tcp[s].wire[S.e] = Tail(@),
                          !.tcp[s].buf[S.e] = Append(@, Head(S.tcp[s].wire[S.e]))]
<1>1. /\ Shaped(S) /\ S.e \in End /\ S.me \in Actor /\ S.tcp \in [Stream -> Conn]
      /\ Listed(S.me, S.tcp, S.e) /\ S.tcp[s] \in Conn /\ S.tcp[s].st[S.e] = "est"
  BY Zenon DEF Turning, Good, St
<1>2. PICK d : Arrived(c, d, S.e) /\ Put(S, R, S.me, s, d)
  BY <1>1, ArrivedIs, Zenon
<1> HIDE DEF R
<1>3. /\ Shaped(R) /\ R.e = S.e /\ R.got = S.got /\ R.me = S.me
      /\ R.tcp = [S.tcp EXCEPT ![s] = d] /\ d \in Conn
  BY <1>2 DEF Put, Arrived
<1>4. Becomes(c, d, S.e, Peer(S.e)) /\ d.st[S.e] = "est"
  BY <1>1, <1>2, ArrivedBecomes
<1>5. s \in ToSet(S.me.conns)
  BY <1>1 DEF Listed
<1>6. SameUse(S.me, R.me) /\ R.me \in Actor
  BY <1>1, <1>3 DEF SameUse, SameQueue
<1>7. Turning(R, you, n)
  BY <1>1, <1>3, <1>4, <1>5, <1>6, MovesTurn
<1> QED BY <1>3, <1>7, Zenon DEF R

LEMMA AckedKeeps ==
    ASSUME NEW S, NEW you, NEW n, Turning(S, you, n), NEW s \in Stream, St(S, s) = "est"
    PROVE  LET R == [S EXCEPT !.tcp[s].acked[S.e] = TRUE]
           IN Turning(R, you, n) /\ R.e = S.e
<1> DEFINE e == S.e
           c == S.tcp[s]
           a == [c.acked EXCEPT ![e] = TRUE]
           d == [c EXCEPT !.acked = a]
           R == [S EXCEPT !.tcp[s].acked[S.e] = TRUE]
<1>1. /\ Shaped(S) /\ e \in End /\ S.me \in Actor /\ S.tcp \in [Stream -> Conn]
      /\ Listed(S.me, S.tcp, e) /\ c \in Conn /\ c.st[e] = "est" /\ Pairs(S.tcp)
  BY DEF Turning, Good, St
<1>2. R = [S EXCEPT !.tcp = [S.tcp EXCEPT ![s] = d]]
  OBVIOUS
<1>3. a \in [End -> BOOLEAN]
  <2>1. c.acked \in [End -> BOOLEAN]
    BY <1>1, ConnFields
  <2> QED BY <2>1
<1> HIDE DEF R, a
<1>4. d \in Conn /\ d.st = c.st /\ d.buf = c.buf /\ d.wire = c.wire
  <2> HIDE DEF c
  <2> QED BY <1>1, <1>3 DEF Conn
<1> HIDE DEF d
<1>5. Put(S, R, S.me, s, d)
  BY <1>1, <1>2, PutIs
<1>6. /\ Shaped(R) /\ R.e = e /\ R.got = S.got /\ R.me = S.me
      /\ R.tcp = [S.tcp EXCEPT ![s] = d]
  BY <1>5 DEF Put
<1>7. Becomes(c, d, e, Peer(e)) /\ d.st[e] = "est"
  BY <1>1, <1>4 DEF Becomes, Changes
<1>8. s \in ToSet(S.me.conns)
  BY <1>1 DEF Listed
<1>9. SameUse(S.me, R.me) /\ R.me \in Actor
  BY <1>1, <1>6 DEF SameUse, SameQueue
<1>10. Turning(R, you, n)
  BY <1>1, <1>4, <1>6, <1>7, <1>8, <1>9, MovesTurn
<1> QED BY <1>6, <1>10 DEF R

LEMMA OneAborts ==
    ASSUME NEW S, NEW you, NEW n, Turning(S, you, n), NEW s \in Stream, Alive(S, s)
    PROVE  LET R == Abort(S, {s})
           IN Turning(R, you, n) /\ R.e = S.e
<1> DEFINE ss == {s}
<1>1. ss \in SUBSET Stream /\ \A t \in ss : Alive(S, t)
  OBVIOUS
<1> HIDE DEF ss
<1>2. Turning(Abort(S, ss), you, n) /\ Abort(S, ss).e = S.e
  BY <1>1, AbortKeeps
<1> QED BY <1>2 DEF ss

-----------------------------------------------------------------------------
(* The steps                                                                  *)

LEMMA Begins ==
    ASSUME Init
    PROVE  IInv
<1> DEFINE me(e) == actor[e]
<1>1. \A e \in End : tcp \in [Stream -> Conn] /\ \A s \in Stream : tcp[s] = Free
  BY FreeIs DEF Init
<1>2. /\ got \in [End -> Seq(Record)] /\ \A e \in End : got[e] = <<>>
      /\ sent = 0 /\ sent \in Nat
  BY DEF Init
<1>3. ASSUME NEW e \in End
      PROVE  /\ actor[e] \in Actor /\ actor[e].queue = <<>> /\ ~actor[e].restart
             /\ actor[e].seen = {} /\ actor[e].active = None
  <2> DEFINE x == e \in Sender
  <2>1. actor[e] = [Started(x) EXCEPT !.heard = TRUE]
    BY DEF Init
  <2>2. x \in BOOLEAN
    OBVIOUS
  <2> HIDE DEF x
  <2>3. actor[e] = [auth |-> x, heard |-> TRUE, conns |-> <<>>, active |-> None,
                    input |-> <<>>, queue |-> <<>>, restart |-> FALSE, seen |-> {}]
    BY <2>1 DEF Started
  <2>4. <<>> \in Seq(Stream) /\ <<>> \in Seq(Piece) /\ <<>> \in Seq(Item)
    OBVIOUS
  <2> QED BY <2>2, <2>3, <2>4 DEF Actor
<1>4. actor \in [End -> Actor]
  BY <1>3 DEF Init
<1>5. ASSUME NEW e \in End PROVE Ready(e)
  <2> DEFINE f == Peer(e)
             c == Coming(tcp, e, actor[e])   ra == Side(tcp, e)
             x == Coming(tcp, f, actor[f])   sa == Side(tcp, f)
             g == <<>>
  <2>1. e \in End /\ f \in End
    BY PeerIsOther
  <2>2. \A s \in Stream : tcp[s].st[e] = "free" /\ tcp[s].st[f] = "free"
    BY <1>1, <2>1, FreeIs
  <2>3. Pairs(tcp)
    BY <1>1, FreeIs, PeerIsOther DEF Pairs, Matching
  <2>4. \A s \in Stream : c[s] = <<>> /\ x[s] = <<>> /\ ra[s] = "free" /\ sa[s] = "free"
    <3>1. \A s \in Stream : tcp[s].buf[e] = <<>> /\ tcp[s].wire[e] = <<>>
                            /\ tcp[s].buf[f] = <<>> /\ tcp[s].wire[f] = <<>>
      BY <1>1, <2>1, FreeIs
    <3> QED BY <2>2, <3>1, NothingComes DEF Coming, Side
  <2>5. Len(<<>>) = 0 /\ Paired(<<>>) /\ ToSet(<<>>) = {}
    BY DEF Paired, ToSet
  <2>6. /\ actor[e].queue = <<>> /\ actor[e].active = None /\ actor[f].queue = <<>>
        /\ actor[f].active = None /\ actor[e] \in Actor /\ actor[f] \in Actor
        /\ ~actor[e].restart /\ ~actor[f].restart /\ actor[e].seen = {} /\ actor[f].seen = {}
        /\ got[e] = <<>> /\ got[f] = <<>>
    BY <1>2, <1>3, <2>1
  <2>7. Queued(actor[e]) /\ Queued(actor[f])
    BY <2>5, <2>6 DEF Queued, QueueOrder
  <2>8. Calm(actor[e], tcp, e) /\ Calm(actor[f], tcp, f)
    BY <2>2, <2>6 DEF Calm
  <2>9. Listed(actor[e], tcp, e) /\ Listed(actor[f], tcp, f)
    BY <2>2 DEF Listed
  <2> HIDE DEF f, c, x, ra, sa
  <2>10. Flow(c, ra, sa, actor[f], got[e], sent)
    BY <2>4, <2>5, <2>6
       DEF Flow, Quiet, Fronts, Torn, Sorted, Across, Ahead, Known, Waiting, Ordered
  <2>11. Flow(x, sa, ra, actor[e], got[f], sent)
    BY <2>4, <2>5, <2>6
       DEF Flow, Quiet, Fronts, Torn, Sorted, Across, Ahead, Known, Waiting, Ordered
  <2>12. Good(e, f, actor[e], actor[f], tcp, got, sent)
    BY <2>3, <2>5, <2>6, <2>7, <2>8, <2>9, <2>10, <2>11 DEF Good, c, x, ra, sa
  <2>13. Turning(State(e), actor[f], sent)
    BY <1>1, <1>2, <2>1, <2>6, <2>12, StateIs DEF Turning, f
  <2> QED BY <2>6, <2>8, <2>13 DEF Ready, f
<1> QED BY <1>4, <1>5 DEF IInv

LEMMA TurnEnds ==
    ASSUME actor \in [End -> Actor], NEW e \in End, sent' \in Nat,
           NEW S, S.e = e, Turning(S, actor[Peer(e)], sent'), NEW cost, TurnAt(S, cost)
    PROVE  IInv'
<1> DEFINE you == actor[Peer(e)]
           m == sent'
<1>1. Turning(S, you, m) /\ S.e = e
  OBVIOUS
<1> HIDE DEF you, m
<1>2. \E T : Over(T, e, you, m)
  BY <1>1, TurnAtKeeps
<1> QED BY <1>2, OverKeeps DEF you, m

LEMMA IsReady ==
    ASSUME IInv, NEW e \in End
    PROVE  /\ Turning(State(e), actor[Peer(e)], sent)
           /\ Shaped(State(e)) /\ State(e).e = e /\ State(e).me = actor[e]
           /\ State(e).tcp = tcp /\ State(e).got = got
           /\ Calm(State(e).me, State(e).tcp, State(e).e)
           /\ actor \in [End -> Actor] /\ actor[e] \in Actor /\ sent \in Nat
BY StateIs DEF IInv, Ready, Turning

LEMMA TickStep ==
    ASSUME IInv, NEW e \in End, Tick(e)
    PROVE  IInv'
<1>1. AnyTurn(State(e)) /\ sent' = sent
  BY DEF Tick
<1>2. /\ Turning(State(e), actor[Peer(e)], sent) /\ State(e).e = e
      /\ actor \in [End -> Actor] /\ sent \in Nat
  BY IsReady
<1> DEFINE S == State(e)
           cost == 0
<1>3. TurnAt(S, cost)
  BY <1>1 DEF AnyTurn
<1> HIDE DEF S, cost
<1>4. Turning(S, actor[Peer(e)], sent') /\ S.e = e
  BY <1>1, <1>2 DEF S
<1> QED BY <1>1, <1>2, <1>3, <1>4, TurnEnds

LEMMA SendStep ==
    ASSUME IInv, NEW e \in End, NEW boot \in BOOLEAN, Send(e, boot)
    PROVE  IInv'
<1> DEFINE r == [id |-> sent + 1, boot |-> boot]
           S == State(e)
           R == [S EXCEPT !.me = Push(@, r)]
           you == actor[Peer(e)]
<1>1. sent < MaxRecords /\ sent' = sent + 1 /\ TurnAt(R, 0)
  BY DEF Send, AnyTurn
<1>2. /\ Turning(S, you, sent) /\ Shaped(S) /\ S.e = e /\ S.me = actor[e]
      /\ actor \in [End -> Actor] /\ actor[e] \in Actor /\ sent \in Nat
  BY IsReady
<1>3. r \in Record /\ r.id = sent + 1
  BY <1>1, <1>2, ControlAssumption DEF Record
<1> HIDE DEF r, S
<1> DEFINE her == Push(S.me, r)
<1>4. R = [S EXCEPT !.me = her]
  OBVIOUS
<1> HIDE DEF R, her
<1>5. Shaped(R) /\ R.e = S.e /\ R.me = her /\ R.tcp = S.tcp /\ R.got = S.got
  BY <1>2, <1>4, WithMe
<1>6. R.me = Push(S.me, r)
  BY <1>5 DEF her
<1> HIDE DEF you
<1>7. Turning(R, you, sent + 1)
  BY <1>2, <1>3, <1>5, <1>6, PushKeeps
<1> DEFINE cost == 0
<1>8. TurnAt(R, cost)
  BY <1>1
<1> HIDE DEF cost
<1>9. sent' \in Nat /\ R.e = e /\ Turning(R, actor[Peer(e)], sent')
  BY <1>1, <1>2, <1>5, <1>7 DEF you
<1> QED BY <1>2, <1>8, <1>9, TurnEnds

LEMMA SubscribeStep ==
    ASSUME IInv, NEW e \in End, Subscribe(e)
    PROVE  IInv'
<1> DEFINE S == State(e)
           R == [S EXCEPT !.me.heard = TRUE]
           her == [S.me EXCEPT !.heard = TRUE]
<1>1. sent' = sent /\ TurnAt(R, 0)
  BY DEF Subscribe, AnyTurn
<1>2. /\ Turning(S, actor[Peer(e)], sent) /\ Shaped(S) /\ S.e = e /\ S.me \in Actor
      /\ actor \in [End -> Actor] /\ sent \in Nat
  BY IsReady
<1> HIDE DEF S
<1>3. R = [S EXCEPT !.me = her]
  OBVIOUS
<1>4. her \in Actor /\ SameUse(S.me, her) /\ her.conns = S.me.conns
  <2> DEFINE me == S.me
  <2>1. me \in Actor
    BY <1>2
  <2> HIDE DEF me
  <2>2. LET x == [me EXCEPT !.heard = TRUE]
        IN x \in Actor /\ SameUse(me, x) /\ x.conns = me.conns
    BY <2>1 DEF Actor, SameUse, SameQueue
  <2> QED BY <2>2 DEF me
<1> HIDE DEF R, her
<1>5. Shaped(R) /\ R.e = S.e /\ R.me = her /\ R.tcp = S.tcp /\ R.got = S.got
  BY <1>2, <1>3, WithMe
<1>6. Turning(R, actor[Peer(e)], sent')
  BY <1>1, <1>2, <1>4, <1>5, AnotherPolicy
<1> DEFINE cost == 0
<1>7. TurnAt(R, cost)
  BY <1>1
<1> HIDE DEF cost
<1> QED BY <1>1, <1>2, <1>5, <1>6, <1>7, TurnEnds

LEMMA ClosedEmpty ==
    ASSUME NEW S, NEW you, NEW n, Turning(S, you, n), Calm(S.me, S.tcp, S.e),
           NEW T, Shaped(T), T.e = S.e, T.tcp = S.tcp, T.got = S.got, NEW me, T.me = me,
           me \in Actor, me.queue = <<>>, ~me.restart, me.conns = S.me.conns, me.seen = S.me.seen
    PROVE  Turning(ClosedAll(T), you, n) /\ ClosedAll(T).e = S.e
<1> DEFINE U == ClosedAll(S)
           R == Closed(T, ToSet(me.conns))
           ss == ToSet(me.conns)
<1>1. ClosedAll(T) = R
  BY DEF ClosedAll
<1>2. /\ Turning(U, you, n) /\ U.e = S.e /\ Idle(U.tcp, S.e) /\ U.got = S.got
      /\ U.tcp = Without(S.tcp, S.e, {s \in ss : Alive(S, s)}) /\ U.me.seen = S.me.seen
  BY ClosedAllIdles
<1>3. /\ Shaped(R) /\ R.e = S.e /\ R.got = S.got
      /\ R.tcp = Without(S.tcp, S.e, {s \in ss : Alive(T, s)})
      /\ ClosedMe(me, R.me, ss)
  <2> HIDE DEF ss
  <2> QED BY ClosedIs DEF ss
<1>4. {s \in ss : Alive(T, s)} = {s \in ss : Alive(S, s)}
  BY DEF Alive, St
<1> HIDE DEF U, R, ss
<1>5. R.tcp = U.tcp
  BY <1>2, <1>3, <1>4
<1>6. R.me \in Actor /\ R.me.queue = <<>> /\ ~R.me.restart /\ R.me.seen = me.seen
  <2>1. R.me \in Actor /\ R.me.seen = me.seen
    BY <1>3 DEF ClosedMe
  <2>2. CASE me.active \in ss
    <3>1. ~R.me.restart /\ Len(R.me.queue) = 0
      BY <1>3, <2>2 DEF ClosedMe, Rewinds
    <3>2. R.me.queue \in Seq(Item)
      BY <2>1 DEF Actor
    <3> QED BY <2>1, <3>1, <3>2
  <2>3. CASE me.active \notin ss
    BY <1>3, <2>1, <2>3 DEF ClosedMe
  <2> QED BY <2>2, <2>3
<1>7. U.got \in [End -> Seq(Record)]
  BY <1>2 DEF Turning
<1>8. /\ Idle(U.tcp, U.e) /\ R.e = U.e /\ R.got = U.got /\ R.me.seen = U.me.seen
  BY <1>2, <1>3, <1>6
<1>9. Turning(R, you, n)
  BY <1>2, <1>3, <1>5, <1>6, <1>7, <1>8, IdleKeeps
<1> QED BY <1>1, <1>3, <1>9

LEMMA SetPolicyStep ==
    ASSUME IInv, NEW e \in End, SetPolicy(e)
    PROVE  IInv'
<1> DEFINE P == State(e)
           her == [P.me EXCEPT !.auth = ~@]
           S == [P EXCEPT !.me.auth = ~@]
           dropped == {x.rec : x \in ToSet(S.me.queue)}
           T == [S EXCEPT !.me.queue = <<>>, !.me.restart = FALSE, !.settled = @ \cup dropped]
           R == IF S.me.auth THEN S ELSE ClosedAll(T)
<1>1. sent' = sent /\ TurnAt(R, 0)
  BY DEF SetPolicy, AnyTurn
<1>2. /\ Turning(P, actor[Peer(e)], sent) /\ Shaped(P) /\ P.e = e /\ P.me \in Actor
      /\ actor \in [End -> Actor] /\ sent \in Nat /\ Calm(P.me, P.tcp, P.e)
  BY IsReady
<1> HIDE DEF P
<1>3. S = [P EXCEPT !.me = her]
  OBVIOUS
<1>4. /\ her \in Actor /\ SameUse(P.me, her) /\ her.conns = P.me.conns
      /\ her.active = P.me.active
  <2> DEFINE me == P.me
  <2>1. me \in Actor
    BY <1>2
  <2> HIDE DEF me
  <2>2. LET x == [me EXCEPT !.auth = ~@]
        IN x \in Actor /\ SameUse(me, x) /\ x.conns = me.conns /\ x.active = me.active
    BY <2>1 DEF Actor, SameUse, SameQueue
  <2> QED BY <2>2 DEF me
<1> HIDE DEF S, her
<1>5. Shaped(S) /\ S.e = P.e /\ S.me = her /\ S.tcp = P.tcp /\ S.got = P.got
  BY <1>2, <1>3, WithMe
<1>6. Turning(S, actor[Peer(e)], sent) /\ S.e = e
  BY <1>2, <1>4, <1>5, AnotherPolicy
<1>7. Calm(S.me, S.tcp, S.e)
  BY <1>2, <1>4, <1>5 DEF Calm
<1>8. /\ Shaped(T) /\ T.e = S.e /\ T.tcp = S.tcp /\ T.got = S.got
      /\ T.me = [S.me EXCEPT !.queue = <<>>, !.restart = FALSE]
  <2> DEFINE t == T
  <2>1. t = [S EXCEPT !.me.queue = <<>>, !.me.restart = FALSE, !.settled = @ \cup dropped]
    OBVIOUS
  <2> HIDE DEF t, dropped
  <2>2. t.e = S.e /\ t.tcp = S.tcp /\ t.got = S.got
    BY <1>5, <2>1 DEF Shaped
  <2>3. t.me = [S.me EXCEPT !.queue = <<>>, !.restart = FALSE]
    BY <1>5, <2>1 DEF Shaped
  <2>4. Shaped(t)
    BY <1>5, <2>1 DEF Shaped
  <2> QED BY <2>2, <2>3, <2>4 DEF t
<1> HIDE DEF T
<1> DEFINE mine == [S.me EXCEPT !.queue = <<>>, !.restart = FALSE]
<1>9. /\ mine \in Actor /\ mine.queue = <<>> /\ ~mine.restart /\ mine.conns = S.me.conns
      /\ mine.seen = S.me.seen
  <2> DEFINE me == S.me
             x1 == [me EXCEPT !.queue = <<>>]
             x == [x1 EXCEPT !.restart = FALSE]
  <2>1. me \in Actor /\ <<>> \in Seq(Item)
    BY <1>4, <1>5
  <2>2. mine = x
    OBVIOUS
  <2> HIDE DEF me, mine
  <2>3. x1 \in Actor /\ x1.queue = <<>> /\ x1.conns = me.conns /\ x1.seen = me.seen
    BY <2>1 DEF Actor
  <2> HIDE DEF x1
  <2>4. x \in Actor /\ x.queue = <<>> /\ ~x.restart /\ x.conns = me.conns /\ x.seen = me.seen
    BY <2>3 DEF Actor
  <2> QED BY <2>2, <2>4 DEF me
<1> HIDE DEF mine
<1>10. Turning(ClosedAll(T), actor[Peer(e)], sent) /\ ClosedAll(T).e = S.e
  <2>1. T.me = mine
    BY <1>8 DEF mine
  <2> QED BY <1>6, <1>7, <1>8, <1>9, <2>1, ClosedEmpty
<1>11. Turning(R, actor[Peer(e)], sent') /\ R.e = e
  BY <1>1, <1>6, <1>10
<1> DEFINE cost == 0
<1>12. TurnAt(R, cost)
  BY <1>1
<1> HIDE DEF cost, R
<1> QED BY <1>1, <1>2, <1>11, <1>12, TurnEnds

LEMMA RestartStep ==
    ASSUME IInv, NEW e \in End, Restart(e)
    PROVE  IInv'
<1> DEFINE S == State(e)
           T == ClosedAll(S)
           you == actor[Peer(e)]
           new == Started(S.me.auth)
           none == [got EXCEPT ![e] = <<>>]
           R == [e |-> e, me |-> new, tcp |-> T.tcp, got |-> none, settled |-> {}]
<1>1. /\ Turning(S, you, sent) /\ Shaped(S) /\ S.e = e /\ S.me = actor[e]
      /\ S.got = got /\ actor \in [End -> Actor] /\ actor[e] \in Actor /\ sent \in Nat
  BY IsReady
<1>2. /\ actor' = [actor EXCEPT ![e] = new] /\ tcp' = T.tcp /\ got' = none /\ sent' = sent
  <2>1. actor' = [actor EXCEPT ![e] = Started(@.auth)] /\ tcp' = T.tcp /\ got' = none
        /\ sent' = sent
    BY DEF Restart
  <2> QED BY <1>1, <2>1
<1> HIDE DEF S
<1>3. Turning(T, you, sent) /\ T.e = e /\ Idle(T.tcp, e) /\ T.got = got
  BY <1>1, ClosedAllIdles
<1> HIDE DEF T, you
<1>4. /\ new \in Actor /\ new.queue = <<>> /\ ~new.restart /\ new.seen = {} /\ new.active = None
  <2>1. S.me.auth \in BOOLEAN
    BY <1>1 DEF Actor
  <2>2. new = [auth |-> S.me.auth, heard |-> FALSE, conns |-> <<>>, active |-> None,
               input |-> <<>>, queue |-> <<>>, restart |-> FALSE, seen |-> {}]
    BY DEF Started
  <2>3. <<>> \in Seq(Stream) /\ <<>> \in Seq(Piece) /\ <<>> \in Seq(Item)
    OBVIOUS
  <2> HIDE DEF new
  <2> QED BY <2>1, <2>2, <2>3 DEF Actor
<1>5. none \in [End -> Seq(Record)] /\ none[e] = <<>> /\ \A f \in End : f # e => none[f] = got[f]
  <2>1. got \in [End -> Seq(Record)] /\ <<>> \in Seq(Record)
    BY <1>3 DEF Turning
  <2> QED BY <2>1
<1> HIDE DEF new, none
<1>6. /\ Shaped(R) /\ R.e = e /\ R.me = new /\ R.tcp = T.tcp /\ R.got = none
  BY DEF Shaped
<1> HIDE DEF R
<1>7. Turning(R, you, sent)
  BY <1>3, <1>4, <1>5, <1>6, IdleKeeps
<1>8. Calm(R.me, R.tcp, e)
  BY <1>3, <1>4, <1>6 DEF Calm, Idle
<1>9. Over(R, e, you, sent')
  BY <1>2, <1>4, <1>6, <1>7, <1>8 DEF Over
<1>10. sent' \in Nat
  BY <1>1, <1>2
<1> QED BY <1>1, <1>9, <1>10, OverKeeps DEF you

LEMMA SegmentStep ==
    ASSUME IInv, NEW e \in End, NEW s \in Stream, Segment(e, s)
    PROVE  IInv'
<1> DEFINE S == State(e)
           you == actor[Peer(e)]
           cost == 0
<1>1. /\ Turning(S, you, sent) /\ Shaped(S) /\ S.e = e /\ S.tcp = tcp
      /\ actor \in [End -> Actor] /\ sent \in Nat /\ Calm(S.me, S.tcp, S.e)
  BY IsReady
<1>2. sent' = sent
  BY DEF Segment, Opened, Accept, Arrive, Acked, PeerGone
<1> HIDE DEF S
<1>3. St(S, s) = tcp[s].st[e]
  BY <1>1 DEF St
<1> SUFFICES \E R : R.e = e /\ Turning(R, you, sent) /\ TurnAt(R, 0)
  <2>1. PICK R : R.e = e /\ Turning(R, you, sent) /\ TurnAt(R, 0)
    OBVIOUS
  <2>2. TurnAt(R, cost)
    BY <2>1
  <2> HIDE DEF cost
  <2> QED BY <1>1, <1>2, <2>1, <2>2, TurnEnds
<1> HIDE DEF you, cost
<1>4. CASE Opened(e, s)
  <2> DEFINE R == [S EXCEPT !.tcp[s].st[e] = "est"]
  <2>1. St(S, s) = "syn" /\ TurnAt(R, 0)
    BY <1>3, <1>4 DEF Opened, AnyTurn, S
  <2>2. R = [S EXCEPT !.tcp[s].st[S.e] = "est"]
    BY <1>1
  <2> HIDE DEF R
  <2>3. Turning(R, you, sent) /\ R.e = S.e
    BY <1>1, <2>1, <2>2, OpenedKeeps
  <2> QED BY <1>1, <2>1, <2>3
<1>5. CASE Accept(e, s)
  <2> DEFINE R == [S EXCEPT !.tcp[s].st[e] = "est", !.me.conns = Append(@, s)]
  <2>1. St(S, s) = "free" /\ S.tcp[s].st[Peer(S.e)] = "est" /\ TurnAt(R, 0)
    BY <1>1, <1>3, <1>5 DEF Accept, AnyTurn, S
  <2>2. R = [S EXCEPT !.tcp[s].st[S.e] = "est", !.me.conns = Append(@, s)]
    BY <1>1
  <2> HIDE DEF R
  <2>3. Turning(R, you, sent) /\ R.e = S.e
    BY <1>1, <2>1, <2>2, AcceptKeeps
  <2> QED BY <1>1, <2>1, <2>3
<1>6. CASE Arrive(e, s)
  <2> DEFINE R == [S EXCEPT !.tcp[s].wire[e] = Tail(@),
                            !.tcp[s].buf[e] = Append(@, Head(tcp[s].wire[e]))]
  <2>1. St(S, s) = "est" /\ S.tcp[s].wire[S.e] # <<>> /\ TurnAt(R, 0)
    BY <1>1, <1>3, <1>6 DEF Arrive, AnyTurn, S
  <2>2. R = [S EXCEPT !.tcp[s].wire[S.e] = Tail(@),
                      !.tcp[s].buf[S.e] = Append(@, Head(S.tcp[s].wire[S.e]))]
    BY <1>1, Zenon
  <2> HIDE DEF R
  <2>3. Turning(R, you, sent) /\ R.e = S.e
    BY <1>1, <2>1, <2>2, ArriveKeeps, Zenon
  <2> QED BY <1>1, <2>1, <2>3
<1>7. CASE Acked(e, s)
  <2> DEFINE R == [S EXCEPT !.tcp[s].acked[e] = TRUE]
  <2>1. St(S, s) = "est" /\ TurnAt(R, 0)
    BY <1>3, <1>7 DEF Acked, AnyTurn, S
  <2>2. R = [S EXCEPT !.tcp[s].acked[S.e] = TRUE]
    BY <1>1
  <2> HIDE DEF R
  <2>3. Turning(R, you, sent) /\ R.e = S.e
    BY <1>1, <2>1, <2>2, AckedKeeps
  <2> QED BY <1>1, <2>1, <2>3
<1>8. CASE PeerGone(e, s)
  <2> DEFINE R == Abort(S, {s})
  <2>1. Alive(S, s) /\ TurnAt(R, 0)
    BY <1>3, <1>8 DEF PeerGone, AnyTurn, Alive, S
  <2>2. Turning(R, you, sent) /\ R.e = S.e
    BY <1>1, <2>1, OneAborts
  <2> HIDE DEF R
  <2> QED BY <1>1, <2>1, <2>2
<1> QED BY <1>4, <1>5, <1>6, <1>7, <1>8 DEF Segment

LEMMA BreakStep ==
    ASSUME IInv, NEW e \in End, NEW s \in Stream, Break(e, s)
    PROVE  IInv'
<1> DEFINE S == State(e)
           R == Abort(S, {s})
           you == actor[Peer(e)]
           cost == 1
<1>1. /\ Turning(S, you, sent) /\ S.e = e /\ S.tcp = tcp
      /\ actor \in [End -> Actor] /\ sent \in Nat
  BY IsReady
<1>2. sent' = sent /\ TurnAt(R, cost) /\ tcp[s].st[e] \in {"syn", "est"}
  BY DEF Break
<1> HIDE DEF S, cost
<1>3. Alive(S, s)
  BY <1>1, <1>2 DEF Alive, St
<1>4. Turning(R, you, sent) /\ R.e = S.e
  BY <1>1, <1>3, OneAborts
<1> HIDE DEF R
<1> QED BY <1>1, <1>2, <1>4, TurnEnds

LEMMA StaysReady ==
    ASSUME IInv, [Next]_vars
    PROVE  IInv'
<1>1. ASSUME NEW e \in End, Tick(e) PROVE IInv'
  BY <1>1, TickStep
<1>2. ASSUME NEW e \in End, SetPolicy(e) PROVE IInv'
  BY <1>2, SetPolicyStep
<1>3. ASSUME NEW e \in End, Subscribe(e) PROVE IInv'
  BY <1>3, SubscribeStep
<1>4. ASSUME NEW e \in End, Restart(e) PROVE IInv'
  BY <1>4, RestartStep
<1>5. ASSUME NEW e \in End, NEW boot \in BOOLEAN, Send(e, boot) PROVE IInv'
  BY <1>5, SendStep
<1>6. ASSUME NEW e \in End, NEW s \in Stream, Segment(e, s) PROVE IInv'
  BY <1>6, SegmentStep
<1>7. ASSUME NEW e \in End, NEW s \in Stream, Break(e, s) PROVE IInv'
  BY <1>7, BreakStep
<1>8. CASE UNCHANGED vars
  <2>1. actor' = actor /\ tcp' = tcp /\ got' = got /\ sent' = sent /\ settled' = settled
    BY <1>8 DEF vars
  <2> QED BY <2>1 DEF IInv, Ready, State
<1> QED BY <1>1, <1>2, <1>3, <1>4, <1>5, <1>6, <1>7, <1>8 DEF Next

LEMMA AlwaysReady == Spec => []IInv
<1>1. Init => IInv
  BY Begins
<1>2. IInv /\ [Next]_vars => IInv'
  BY StaysReady
<1> QED BY <1>1, <1>2, PTL DEF Spec

-----------------------------------------------------------------------------
LEMMA ReadyIsFramed ==
    ASSUME IInv
    PROVE  Framed
<1> SUFFICES ASSUME NEW e \in End, NEW s \in Stream, tcp[s].st[e] = "est"
             PROVE  Whole((IF s = actor[e].active THEN actor[e].input ELSE <<>>)
                            \o tcp[s].buf[e] \o tcp[s].wire[e])
  BY DEF Framed
<1> DEFINE c == Coming(tcp, e, actor[e])
           ra == Side(tcp, e)
<1>1. /\ Turning(State(e), actor[Peer(e)], sent) /\ State(e).e = e /\ State(e).me = actor[e]
      /\ State(e).tcp = tcp /\ State(e).got = got /\ actor[e] \in Actor
  BY IsReady
<1>2. /\ tcp \in [Stream -> Conn]
      /\ Good(e, Peer(e), actor[e], actor[Peer(e)], tcp, got, sent)
  <2> DEFINE S == State(e)
  <2> HIDE DEF S
  <2>1. /\ Turning(S, actor[Peer(e)], sent) /\ S.e = e /\ S.me = actor[e]
        /\ S.tcp = tcp /\ S.got = got
    BY <1>1 DEF S
  <2> QED BY <2>1 DEF Turning
<1>3. c[s] = (IF s = actor[e].active THEN actor[e].input ELSE <<>>)
               \o tcp[s].buf[e] \o tcp[s].wire[e]
  BY DEF Coming, Input
<1>4. c \in [Stream -> Seq(Piece)]
  BY <1>1, <1>2, ComingIs
<1>5. ra[s] \in Open /\ ~Torn(c, ra)
  <2>1. ~Torn(c, ra)
    BY <1>2 DEF Good, Flow
  <2>2. ra[s] = "est"
    BY DEF Side
  <2> HIDE DEF c, ra
  <2> QED BY <2>1, <2>2 DEF Open
<1> HIDE DEF c, ra
<1>6. Paired(c[s])
  BY <1>5 DEF Torn
<1> QED BY <1>3, <1>4, <1>6, WholeIsPaired

LEMMA ReadyIsInOrder ==
    ASSUME IInv
    PROVE  InOrder
<1> SUFFICES ASSUME NEW e \in End
             PROVE  \A i, j \in DOMAIN got[e] :
                      i < j /\ got[e][i].boot = got[e][j].boot => got[e][i].id < got[e][j].id
  BY DEF InOrder
<1>1. /\ Turning(State(e), actor[Peer(e)], sent) /\ State(e).e = e /\ State(e).me = actor[e]
      /\ State(e).tcp = tcp /\ State(e).got = got
  BY IsReady
<1>2. /\ got[e] \in Seq(Record)
      /\ Good(e, Peer(e), actor[e], actor[Peer(e)], tcp, got, sent)
  <2> DEFINE S == State(e)
  <2> HIDE DEF S
  <2>1. /\ Turning(S, actor[Peer(e)], sent) /\ S.e = e /\ S.me = actor[e]
        /\ S.tcp = tcp /\ S.got = got
    BY <1>1 DEF S
  <2> QED BY <2>1 DEF Turning
<1>3. Ordered(got[e], sent)
  BY <1>2 DEF Good, Flow
<1>4. DOMAIN got[e] = 1..Len(got[e])
  BY <1>2
<1> QED BY <1>3, <1>4 DEF Ordered, InTurn

(* Records are never torn (Framed): whatever streams were opened, dropped and *)
(* taken into use instead of one another, and however often the queue was     *)
(* rewound or a bootstrap record put at its front, what an end has decoded of *)
(* a stream, has not read yet and has still to receive is whole records.      *)
THEOREM RecordsAreWhole == Spec => []Framed
<1>1. IInv => Framed
  BY ReadyIsFramed
<1> QED BY <1>1, AlwaysReady, PTL

(* An end delivers a record at most once, and the records of each kind in the *)
(* order in which they were queued, until it is started again (InOrder).      *)
THEOREM RecordsInOrder == Spec => []InOrder
<1>1. IInv => InOrder
  BY ReadyIsInOrder
<1> QED BY <1>1, AlwaysReady, PTL
=============================================================================
