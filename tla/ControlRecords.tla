--------------------------- MODULE ControlRecords ---------------------------
(***************************************************************************)
(* The control service of fips_sync/control_runtime.rs, between two of its *)
(* ends: records wait in a queue per peer and go, one at a time, over a    *)
(* TCP stream that either end may have opened.  A record leaves the queue  *)
(* when the peer's TCP has acknowledged its last byte.  Records of the     *)
(* bootstrap topics overtake the others, because an end that does not yet  *)
(* authorize its peer admits nothing else and drops the stream.            *)
(*                                                                         *)
(* An end is one task, and a step is one turn of its loop: something       *)
(* happens (a command, a segment, the poll timer) and then the whole of    *)
(* drive runs.  The clock is left out: what depends on it (the one second  *)
(* between attempts, the five seconds of a bootstrap stream, the minute a  *)
(* record may wait) is chosen by the turn, the last two MaxBreaks times.   *)
(* TCP is external: it keeps the bytes of a stream in order, acknowledges  *)
(* what has arrived whether or not it was read, and lets each end know,    *)
(* at some later time, that the other has dropped the stream.              *)
(***************************************************************************)
EXTENDS Naturals, SequencesExt

CONSTANTS
  End, First,      \* the two ends, and the one whose npub is the smaller
  Stream, None,    \* names of streams, used again once both ends forgot one
  Sender,          \* the ends that send records
  MaxRecords,      \* bound: records ever queued
  MaxPolicies,     \* bound: changes of an end's policy
  MaxBreaks        \* bound: broken streams, restarts and lapses of time

ASSUME ControlAssumption ==
  /\ First \in End /\ Sender \subseteq End /\ \E e \in End : End = {First, e} /\ e # First
  /\ None \notin Stream
  /\ MaxRecords \in Nat /\ MaxPolicies \in Nat /\ MaxBreaks \in Nat

VARIABLES
  actor,     \* [End -> the ControlActor's fields]
  tcp,       \* [Stream -> the connection, both its ends and what is under way]
  got,       \* [End -> the records delivered since the service was started]
  settled,   \* records delivered at some time, or given up: expired, dropped
             \* by policy, or cut off when they were acknowledged but not read
  sent, policies, breaks                    \* counters for the bounds

vars == <<actor, tcp, got, settled, sent, policies, breaks>>

(* Records are numbered as they are queued; boot tells the topics apart.   *)
Record == [id : 1..MaxRecords, boot : BOOLEAN]
Pieces == 2                                 \* writes it takes to send a record
Piece == Record \X (1..Pieces)
Peer(e) == CHOOSE f \in End : f # e

Free == [by |-> None, st |-> [e \in End |-> "free"], buf |-> [e \in End |-> <<>>],
         wire |-> [e \in End |-> <<>>], acked |-> [e \in End |-> FALSE]]
Started(auth) == [auth |-> auth, heard |-> FALSE, conns |-> <<>>, active |-> None,
                  input |-> <<>>, queue |-> <<>>, restart |-> FALSE, seen |-> {}]

(* A turn works on the state of the end that runs it.                      *)
State(e) == [e |-> e, me |-> actor[e], tcp |-> tcp, got |-> got, settled |-> settled]
St(S, s) == S.tcp[s].st[S.e]
Alive(S, s) == St(S, s) \in {"syn", "est"}

---------------------------------------------------------------------------
(* PeerQueue.                                                              *)

(* Mutant: a record keeps its offset when the stream changes. *)
RewoundInPlace(me) ==
  [me EXCEPT !.restart = FALSE,
             !.queue = [i \in DOMAIN @ |-> [@[i] EXCEPT !.mark = None]]]

Rewound(me) ==
  [me EXCEPT !.restart = FALSE,
             !.queue = [i \in DOMAIN @ |-> [@[i] EXCEPT !.off = 0, !.mark = None]]]

Entry(r) == [rec |-> r, off |-> 0, mark |-> None]

(* The place of a bootstrap record: behind the others of its kind.         *)
PlaceOf(me, r) ==
  LET ordinary == {i \in DOMAIN me.queue : ~me.queue[i].rec.boot}
  IN IF ~r.boot \/ ordinary = {} THEN Len(me.queue) + 1
     ELSE CHOOSE i \in ordinary : \A j \in ordinary : i <= j

(* Mutant: every record waits behind the ones that came before it. *)
PushLast(me, r) == [me EXCEPT !.queue = Append(@, Entry(r))]

(* Mutant: the stream goes on after a record was put before its front. *)
PushWithoutRestart(me, r) ==
  [me EXCEPT !.queue = InsertAt(@, PlaceOf(me, r), Entry(r))]

(* Mutant: a bootstrap record passes the others of its kind too. *)
PushFirst(me, r) ==
  [me EXCEPT !.queue = IF r.boot THEN <<Entry(r)>> \o @ ELSE Append(@, Entry(r)),
             !.restart = @ \/ (r.boot /\ me.queue # <<>> /\ me.queue[1].off > 0)]

(* If it thereby passes a record that is partly sent, the stream has to    *)
(* begin anew.                                                             *)
Push(me, r) ==
  LET at == PlaceOf(me, r)
  IN [me EXCEPT !.queue = InsertAt(@, at, Entry(r)),
                !.restart = @ \/ (/\ r.boot /\ at = 1
                                  /\ me.queue # <<>> /\ me.queue[1].off > 0)]

---------------------------------------------------------------------------
(* Dropping a stream.                                                      *)

(* The connection after TCP's abort at end e: this end is gone at once, the *)
(* other learns of it later (PeerGone).  A name is free again when both    *)
(* ends are gone.                                                          *)
Dropped(c, e) ==
  IF c.st[Peer(e)] \in {"free", "gone"} THEN Free
  ELSE [c EXCEPT !.st[e] = "gone", !.buf[e] = <<>>]

(* The abort of some streams, with what this end had not read of them.     *)
Abort(S, ss) ==
  LET unread(c) == {p[1] : p \in {q \in ToSet(c.buf[S.e]) : q[2] = Pieces}}
  IN [S EXCEPT
        !.tcp = [s \in Stream |-> IF s \in ss THEN Dropped(@[s], S.e) ELSE @[s]],
        !.settled = @ \cup UNION {unread(S.tcp[s]) \ S.me.seen : s \in ss}]

(* The streams in ss, in their order.                                      *)
Only(streams, ss) ==
  LET only[i \in 0..Len(streams)] ==
        IF i = 0 THEN <<>>
        ELSE IF streams[i] \in ss THEN Append(only[i - 1], streams[i]) ELSE only[i - 1]
  IN only[Len(streams)]

(* abort_connection, of some streams: the actor forgets them and, if it was*)
(* using one of them, what was half read from it and half sent.            *)
Closed(S, ss) ==
  LET T == Abort(S, {s \in ss : Alive(S, s)})
      me == [S.me EXCEPT !.conns = Only(@, Stream \ ss)]
  IN [T EXCEPT !.me = IF me.active \in ss
                      THEN Rewound([me EXCEPT !.active = None, !.input = <<>>])
                      ELSE me]

ClosedAll(S) == Closed(S, ToSet(S.me.conns))

---------------------------------------------------------------------------
(* The parts of drive, in its order.                                       *)

(* Mutant: each end prefers the stream it opened itself. *)
PreferredOwn(S, s) == S.tcp[s].by = S.e

Preferred(S, s) == (S.tcp[s].by = S.e) <=> (S.e = First)

(* The stream to use, the first one of those this end prefers.             *)
Selected(S) ==
  LET up == {s \in ToSet(S.me.conns) : St(S, s) = "est"}
      best == {s \in up : Preferred(S, s)}
  IN IF up = {} THEN None
     ELSE Head(Only(S.me.conns, IF best = {} THEN up ELSE best))

(* select_streams: one stream per peer, the others are aborted.            *)
SelectStreams(S, next) ==
  LET T == Abort(S, {s \in ToSet(S.me.conns) : St(S, s) = "est" /\ s # next})
      kept == {s \in Stream : St(S, s) = "syn" \/ s = next}
      me == [S.me EXCEPT !.conns = Only(@, kept), !.active = next]
  IN [T EXCEPT !.me = IF next = S.me.active THEN me
                      ELSE Rewound([me EXCEPT !.input = <<>>])]

(* expire_bootstrap_connections: old are streams open for five seconds.    *)
ExpireStreams(S, old) == IF S.me.auth THEN S ELSE Closed(S, old \cap ToSet(S.me.conns))

(* expire_queues: the first n records have waited for a minute; one whose  *)
(* first bytes are under way stays, and so do the ones behind it.          *)
ExpireQueue(S, n) ==
  IF n = 0 \/ S.me.queue = <<>> \/ S.me.queue[1].off > 0 THEN S
  ELSE LET out == SubSeq(S.me.queue, 1, n)
       IN [S EXCEPT !.me.queue = SubSeq(@, n + 1, Len(@)),
                    !.settled = @ \cup {x.rec : x \in ToSet(out)}]

(* connect_authorized and reconnect_queued, when the second since the last *)
(* attempt is over.                                                        *)
Connect(S) ==
  LET free == {s \in Stream : S.tcp[s] = Free}
      s == CHOOSE s \in free : TRUE
  IN IF /\ S.me.auth \/ S.me.queue # <<>>
        /\ \A c \in ToSet(S.me.conns) : ~Alive(S, c)
        /\ free # {}
     THEN [S EXCEPT !.tcp[s].by = S.e, !.tcp[s].st[S.e] = "syn",
                    !.me.conns = Append(@, s)]
     ELSE S

Admitted(S, r) == S.me.auth \/ r.boot

(* Mutant: a record that comes again is delivered again. *)
DeliverAgain(S, r) ==
  [S EXCEPT !.me.seen = @ \cup {r}, !.got[S.e] = Append(@, r)]

(* mark_record_seen and the delivery to the subscribers.                   *)
Deliver(S, r) ==
  IF r \in S.me.seen THEN S
  ELSE [S EXCEPT !.me.seen = @ \cup {r}, !.got[S.e] = Append(@, r),
                 !.settled = @ \cup {r}]

(* The pieces are those of whole records, but for the last record's.       *)
Whole(data) ==
  \A i \in DOMAIN data : /\ data[i][2] = ((i - 1) % Pieces) + 1
                         /\ data[i][2] > 1 => data[i][1] = data[i - 1][1]

(* read: with a subscriber there, everything received is decoded; the      *)
(* first record that is not admitted, or bytes that are none, drop the     *)
(* stream.                                                                 *)
Read(S) ==
  LET s == S.me.active
      data == S.me.input \o S.tcp[s].buf[S.e]
      recs == [i \in 1..(Len(data) \div Pieces) |-> data[i * Pieces][1]]
      refused == {i \in DOMAIN recs : ~Admitted(S, recs[i])}
      n == IF refused = {} THEN Len(recs)
           ELSE (CHOOSE i \in refused : \A j \in refused : i <= j) - 1
      rest == SubSeq(data, Pieces * Len(recs) + 1, Len(data))
      T == FoldLeft(Deliver, S, SubSeq(recs, 1, n))
      \* A refused record has left the buffer with the ones before it.
      unread == SubSeq(data, Pieces * (n + 1) + 1, Len(data))
  IN IF ~S.me.heard \/ s = None \/ data = S.me.input THEN S
     ELSE IF ~Whole(data) THEN Closed(S, {s})
     ELSE IF refused # {} THEN Closed([T EXCEPT !.tcp[s].buf[S.e] = unread], {s})
     ELSE [T EXCEPT !.tcp[s].buf[S.e] = <<>>, !.me.input = rest]

(* flush: the front record is popped once TCP has acknowledged it whole,   *)
(* and only then is the next one written, as far as there is room.         *)
Flush(S, room) ==
  LET s == S.me.active
      written(x) == x.off = Pieces /\ x.mark # None
      gone(x) == St(S, x.mark) # "est"
      q == S.me.queue
      me == IF q = <<>> \/ ~written(q[1]) THEN S.me
            ELSE IF gone(q[1]) THEN Rewound(S.me)
            ELSE IF S.tcp[q[1].mark].acked[S.e] THEN [S.me EXCEPT !.queue = Tail(@)]
            ELSE S.me
      x == me.queue[1]
      to == IF x.off + room < Pieces THEN x.off + room ELSE Pieces
      pieces == [i \in 1..(to - x.off) |-> <<x.rec, x.off + i>>]
  IN IF s = None THEN S
     ELSE IF S.me.restart THEN Closed(S, {s})
     ELSE IF me.queue = <<>> \/ x.off = Pieces THEN [S EXCEPT !.me = me]
     ELSE [S EXCEPT
             !.me = [me EXCEPT !.queue[1].off = to,
                               !.queue[1].mark = IF to = Pieces THEN s ELSE None],
             !.tcp[s].wire[Peer(S.e)] = @ \o pieces,
             !.tcp[s].acked[S.e] = FALSE]

(* One turn: S is the state of its end after what has just happened to it. *)
(* (Each part is bound to its value, so that TLC computes it once.)        *)
Turn(S, cost, old, n, room) ==
  /\ breaks + cost <= MaxBreaks
  /\ breaks' = breaks + cost
  /\ \E next \in {Selected(S)} : \E S1 \in {SelectStreams(S, next)} :
     \E S2 \in {ExpireStreams(S1, old)} :
     \E S3 \in {Connect(ExpireQueue(S2, n))} : \E S4 \in {Read(S3)} :
     \E S5 \in {Flush(S4, room)} :
       /\ actor' = [actor EXCEPT ![S.e] = S5.me]
       /\ tcp' = S5.tcp /\ got' = S5.got /\ settled' = S5.settled

TurnAt(S0, cost) ==
  \E S \in {S0} :
    \/ \E room \in IF S.me.queue = <<>> THEN {Pieces} ELSE 1..Pieces :
         Turn(S, cost, {}, 0, room)
    \/ /\ breaks + cost < MaxBreaks
       /\ \/ \E s \in ToSet(S.me.conns) : ~S.me.auth /\ Turn(S, cost + 1, {s}, 0, Pieces)
          \/ \E n \in 1..Len(S.me.queue) : Turn(S, cost + 1, {}, n, Pieces)

AnyTurn(S) == TurnAt(S, 0)

---------------------------------------------------------------------------
(* What happens to an end.                                                 *)

Init ==
  /\ actor = [e \in End |-> [Started(e \in Sender) EXCEPT !.heard = TRUE]]
  /\ tcp = [s \in Stream |-> Free]
  /\ got = [e \in End |-> <<>>]
  /\ settled = {} /\ sent = 0 /\ policies = 0 /\ breaks = 0

(* The poll timer.                                                         *)
Tick(e) == AnyTurn(State(e)) /\ UNCHANGED <<sent, policies>>

(* What may be queued depends on the policy.  (A payload that waits already *)
(* is not queued twice, so that this turn is no more than Tick.)           *)
Send(e, boot) ==
  LET r == [id |-> sent + 1, boot |-> boot]
  IN /\ e \in Sender /\ sent < MaxRecords
     /\ actor[e].auth \/ boot
     /\ sent' = sent + 1
     /\ AnyTurn([State(e) EXCEPT !.me = Push(@, r)])
     /\ UNCHANGED policies

(* SetPolicy: what waits for a peer no longer authorized is dropped, and   *)
(* so are its streams.                                                     *)
SetPolicy(e) ==
  LET S == [State(e) EXCEPT !.me.auth = ~@]
      dropped == {x.rec : x \in ToSet(S.me.queue)}
      T == [S EXCEPT !.me.queue = <<>>, !.me.restart = FALSE, !.settled = @ \cup dropped]
  IN /\ policies < MaxPolicies
     /\ policies' = policies + 1
     /\ AnyTurn(IF S.me.auth THEN S ELSE ClosedAll(T))
     /\ UNCHANGED sent

Subscribe(e) ==
  /\ ~actor[e].heard
  /\ AnyTurn([State(e) EXCEPT !.me.heard = TRUE])
  /\ UNCHANGED <<sent, policies>>

(* Shutdown aborts every stream, and bind starts with nothing in memory;   *)
(* its owner subscribes a moment later.                                    *)
Restart(e) ==
  LET S == State(e)
      T == ClosedAll(S)
  IN /\ breaks < MaxBreaks
     /\ breaks' = breaks + 1
     /\ actor' = [actor EXCEPT ![e] = Started(@.auth)]
     /\ tcp' = T.tcp
     /\ got' = [got EXCEPT ![e] = <<>>]
     /\ settled' = T.settled \cup {x.rec : x \in ToSet(S.me.queue)}
     /\ UNCHANGED <<sent, policies>>

(* The handshake is done first at the end that asked.                      *)
Opened(e, s) ==
  /\ tcp[s].st[e] = "syn"
  /\ AnyTurn([State(e) EXCEPT !.tcp[s].st[e] = "est"])
  /\ UNCHANGED <<sent, policies>>

(* The other end's accept, in the turn in which its half is done.          *)
Accept(e, s) ==
  /\ tcp[s].st[e] = "free" /\ tcp[s].st[Peer(e)] = "est"
  /\ AnyTurn([State(e) EXCEPT !.tcp[s].st[e] = "est", !.me.conns = Append(@, s)])
  /\ UNCHANGED <<sent, policies>>

Arrive(e, s) ==
  LET c == tcp[s]
  IN /\ c.st[e] = "est" /\ c.wire[e] # <<>>
     /\ AnyTurn([State(e) EXCEPT !.tcp[s].wire[e] = Tail(@),
                                 !.tcp[s].buf[e] = Append(@, Head(c.wire[e]))])
     /\ UNCHANGED <<sent, policies>>

(* The acknowledgement of all that was written: it may still come in after *)
(* the other end has dropped the stream, but not for what never arrived.   *)
Acked(e, s) ==
  /\ tcp[s].st[e] = "est" /\ tcp[s].st[Peer(e)] # "free"
  /\ ~tcp[s].acked[e] /\ tcp[s].wire[Peer(e)] = <<>>
  /\ AnyTurn([State(e) EXCEPT !.tcp[s].acked[e] = TRUE])
  /\ UNCHANGED <<sent, policies>>

(* TCP lets an end know that its stream is gone.                           *)
PeerGone(e, s) ==
  /\ tcp[s].st[e] = "est" /\ tcp[s].st[Peer(e)] = "gone"
  /\ AnyTurn(Abort(State(e), {s}))
  /\ UNCHANGED <<sent, policies>>

(* A stream breaks: it times out at one of its ends.                       *)
Break(e, s) ==
  /\ tcp[s].st[e] \in {"syn", "est"}
  /\ TurnAt(Abort(State(e), {s}), 1)
  /\ UNCHANGED <<sent, policies>>

(* What TCP does to an end.                                                *)
Segment(e, s) == \/ Opened(e, s) \/ Accept(e, s) \/ Arrive(e, s)
                 \/ Acked(e, s) \/ PeerGone(e, s)

Next ==
  \E e \in End :
    \/ Tick(e) \/ SetPolicy(e) \/ Subscribe(e) \/ Restart(e)
    \/ \E boot \in BOOLEAN : Send(e, boot)
    \/ \E s \in Stream : Segment(e, s) \/ Break(e, s)

FullTick(e) ==
  \E S \in {State(e)} : Turn(S, 0, {}, 0, Pieces) /\ UNCHANGED <<sent, policies>>

(* The poll timer goes off for ever, and at some tick the second between   *)
(* attempts is over and TCP takes a whole record; what TCP has for a       *)
(* stream it does in the end: a handshake is finished, bytes and           *)
(* acknowledgements arrive, a stream the other end dropped is reported;    *)
(* the owner of the service subscribes.                                    *)
Fairness ==
  \A e \in End : /\ WF_vars(FullTick(e)) /\ WF_vars(Subscribe(e))
                 /\ \A s \in Stream : WF_vars(Segment(e, s))

Spec == Init /\ [][Next]_vars /\ Fairness

---------------------------------------------------------------------------
Chunks(q) == \A i \in DOMAIN q : q[i] \in Piece

TypeOK ==
  /\ \A e \in End :
       LET me == actor[e]
       IN /\ me.auth \in BOOLEAN /\ me.heard \in BOOLEAN /\ me.restart \in BOOLEAN
          /\ ToSet(me.conns) \subseteq Stream /\ IsInjective(me.conns)
          /\ me.active \in ToSet(me.conns) \cup {None}
          /\ Chunks(me.input) /\ me.seen \subseteq Record
          /\ \A i \in DOMAIN me.queue : /\ me.queue[i].rec \in Record
                                       /\ me.queue[i].off \in 0..Pieces
                                       /\ me.queue[i].mark \in {None, me.active}
          /\ ToSet(got[e]) \subseteq Record
  /\ \A s \in Stream : /\ tcp[s].by \in End \cup {None}
                       /\ \A e \in End : Chunks(tcp[s].buf[e]) /\ Chunks(tcp[s].wire[e])
  /\ settled \subseteq Record
  /\ sent \in 0..MaxRecords /\ policies \in 0..MaxPolicies /\ breaks \in 0..MaxBreaks

(* Records are never torn: what an end has decoded so far of a stream, has *)
(* not read yet and has still to receive is whole records, the last one    *)
(* perhaps unfinished.  A bootstrap record that overtakes one half sent    *)
(* and a stream that takes the place of another are the ways to break it.  *)
Framed ==
  \A e \in End, s \in Stream :
    tcp[s].st[e] = "est" =>
      Whole((IF s = actor[e].active THEN actor[e].input ELSE <<>>)
              \o tcp[s].buf[e] \o tcp[s].wire[e])

(* Until it is started again, an end delivers a record at most once, and   *)
(* the records of one kind in the order in which they were queued, however *)
(* often streams were changed and queues rewound.                          *)
InOrder ==
  \A e \in End : \A i, j \in DOMAIN got[e] :
    i < j /\ got[e][i].boot = got[e][j].boot => got[e][i].id < got[e][j].id

Waits(r) == \E e \in End : \E i \in DOMAIN actor[e].queue : actor[e].queue[i].rec = r
(* A bootstrap record reaches its peer, whether that peer authorizes the   *)
(* sender or not and whatever waits in the same queue; and once both ends  *)
(* authorize each other, every queue empties.                              *)
Together == \A e \in End : actor[e].auth

RecordsArrive ==
  /\ \A r \in Record : r.boot => (Waits(r) ~> r \in settled)
  /\ <>[]Together => []<>(\A e \in End : actor[e].queue = <<>>)

(* Though each of them opens a stream, they come to use one and the   *)
(* same, which both report as the peer's presence.                         *)
OneStream ==
  <>[]Together =>
    <>[](\A e, f \in End : actor[e].active # None /\ actor[e].active = actor[f].active)
=============================================================================
