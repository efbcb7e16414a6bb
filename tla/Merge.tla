------------------------------- MODULE Merge --------------------------------
(* What a drive shows at one path, given the snapshots of some AppKeys, as a *)
(* function on their keys: the fold of merge_drives over them in key order,  *)
(* and the conflict copies the projection adds. Pure operators; a root is    *)
(* known by its AppKey and sequence. Only roots with causal fields are       *)
(* modelled, and only what happens at a file path: directories and kind      *)
(* replacements are left out.                                                *)
EXTENDS Naturals, FiniteSetsExt, Functions

NoFile == <<0, 0>>

(* An AppKeySnapshot at the path: who published it (AppKeys are numbered in  *)
(* key order), its sequence and time, the sequences it observed, the version *)
(* of the file in it (NoFile for none) and the time in its tombstone (0 for  *)
(* none).                                                                    *)
Snapshot(by, seq, at, observed, file, grave) ==
    [by |-> by, seq |-> seq, at |-> at, observed |-> observed,
     file |-> file, grave |-> grave]

-----------------------------------------------------------------------------
(* Causal order of roots *)

SameRoot(r, s) == r.by = s.by /\ r.seq = s.seq

(* root_observes: an own later root, or one observed at s or beyond. Being   *)
(* observed by something observed does not count.                            *)
Observes(r, s) ==
    IF r.by = s.by THEN r.seq >= s.seq ELSE r.observed[s.by] >= s.seq

Descends(r, s) == Observes(r, s) /\ ~Observes(s, r)

Concurrent(r, s) == ~SameRoot(r, s) /\ (Observes(r, s) <=> Observes(s, r))

(* legacy_order_newer: by time, then by key *)
Newer(time, by, time2, by2) == time > time2 \/ (time = time2 /\ by > by2)

(* Mutant: the clock decides even between causally ordered roots. *)
WriteWinsByClock(s, e) == Newer(s.at, s.by, e.at, e.by)

WriteWins(s, e) ==
    \/ SameRoot(s, e)
    \/ Descends(s, e)
    \/ Concurrent(s, e) /\ Newer(s.at, s.by, e.at, e.by)

GraveWins(s, e) ==
    \/ SameRoot(s, e)
    \/ Descends(s, e)
    \/ Concurrent(s, e) /\ Newer(s.grave, s.by, e.grave, e.by)

(* tombstone_suppresses_write: never the file of the root it came with *)
Suppresses(g, w) ==
    /\ ~SameRoot(g, w)
    /\ \/ Descends(g, w)
       \/ Concurrent(g, w) /\ g.grave >= w.at

-----------------------------------------------------------------------------
(* The fold. A candidate or the lack of one is a set of at most one snapshot.*)

(* Mutant: the loser of a conflict is not kept. *)
InsertWriteOnly(acc, s) ==
    IF acc.write = {} THEN [acc EXCEPT !.write = {s}]
    ELSE LET e == CHOOSE e \in acc.write : TRUE
         IN  [acc EXCEPT !.write = IF WriteWins(s, e) THEN {s} ELSE @]

(* insert_write_candidate: the sides of a conflict stay recorded whatever    *)
(* comes later in the fold.                                                  *)
InsertWrite(acc, s) ==
    IF acc.write = {} THEN [acc EXCEPT !.write = {s}]
    ELSE LET e == CHOOSE e \in acc.write : TRUE
         IN  [write |-> IF WriteWins(s, e) THEN {s} ELSE acc.write,
              sides |-> IF s.file # e.file /\ Concurrent(s, e)
                        THEN acc.sides \cup {s, e} ELSE acc.sides]

(* insert_tombstone_candidate *)
InsertGrave(acc, s) ==
    IF \A e \in acc : GraveWins(s, e) THEN {s} ELSE acc

(* The greatest key is folded in last. *)
InKeyOrder(op(_, _), base, snaps, keys) ==
    MapThenFoldSet(LAMBDA s, acc : op(acc, s), base, LAMBDA o : snaps[o],
                   LAMBDA some : Max(some), keys)

Writes(snaps) ==
    InKeyOrder(InsertWrite, [write |-> {}, sides |-> {}], snaps,
               {o \in DOMAIN snaps : snaps[o].file # NoFile})

Graves(snaps) ==
    InKeyOrder(InsertGrave, {}, snaps, {o \in DOMAIN snaps : snaps[o].grave > 0})

(* record_write_delete_conflict: a tombstone concurrent with the write, and  *)
(* not of a root that is itself a side of the conflict, turns the conflict   *)
(* into a write/delete one.                                                  *)
DeleteConflict(sides, write, graves) ==
    \E g \in graves, w \in write :
        Concurrent(w, g) /\ \A s \in sides : ~SameRoot(s, g)

(* canonical_conflict_file_key *)
TopSide(sides) ==
    CHOOSE s \in sides : \A t \in sides \ {s} : Newer(s.at, s.by, t.at, t.by)

(* merge_drives and add_visible_conflict_entries: the file at the path, and  *)
(* the versions shown beside it as conflict copies. In a write/write conflict*)
(* the newest side is at the path; in a write/delete conflict copies are made*)
(* only if the path itself is empty.                                         *)
Merged(snaps) ==
    LET w == Writes(snaps)
        graves == Graves(snaps)
        deletion == DeleteConflict(w.sides, w.write, graves)
        hidden == \E g \in graves, s \in w.write : Suppresses(g, s)
        files == {s.file : s \in w.sides}
        written == {s.file : s \in w.write}
        shown == IF w.sides # {} /\ ~deletion THEN {TopSide(w.sides).file} ELSE written
    IN  IF hidden \/ w.write = {}
        THEN [file |-> NoFile, copies |-> IF deletion THEN files \cup written ELSE {}]
        ELSE [file |-> CHOOSE f \in shown : TRUE,
              copies |-> IF deletion THEN {} ELSE files \ shown]
=============================================================================
