---------------------------- MODULE Config_proofs ----------------------------
(* Proofs about the configuration of an installation: the lock that is taken *)
(* around a transaction on it, for any tasks and processes; and the config   *)
(* file with the roster operations beside it, for any tasks, roots and       *)
(* settings, in any interleaving, killed anywhere.                           *)
EXTENDS ConfigLock, ConfigStore, TLAPS

(* The types are kept by every system call, end of a process and passing of  *)
(* time.                                                                     *)
THEOREM LockTypeCorrect == LockSpec => []LockTypeOK
<1>1. LockInit => LockTypeOK
  BY ProcAssumption, RetriesAssumption DEF LockInit, LockTypeOK, Files, Steps
<1>2. LockTypeOK /\ [LockNext]_lockVars => LockTypeOK'
  <2> SUFFICES ASSUME LockTypeOK, [LockNext]_lockVars PROVE LockTypeOK'
    OBVIOUS
  <2> USE ProcAssumption, RetriesAssumption DEF LockTypeOK, Files, Steps, GoOn
  <2>1. ASSUME NEW t \in Takers, Request(t) PROVE LockTypeOK'
    BY <2>1 DEF Request
  <2>2. ASSUME NEW t \in Takers, Create(t) PROVE LockTypeOK'
    BY <2>2 DEF Create
  <2>3. ASSUME NEW t \in Takers, WritePid(t) PROVE LockTypeOK'
    <3>1. lockFile' \in Files
      <4>1. CASE lockFile.by = t
        BY <2>3, <4>1, NoTaskAssumption DEF WritePid, NoFile
      <4>2. CASE lockFile.by # t
        BY <2>3, <4>2 DEF WritePid
      <4> QED BY <4>1, <4>2
    <3>2. pc' \in [Takers -> Steps]
      BY <2>3 DEF WritePid
    <3> QED BY <2>3, <3>1, <3>2 DEF WritePid
  <2>4. ASSUME NEW t \in Takers, WritePidFails(t) PROVE LockTypeOK'
    BY <2>4 DEF WritePidFails
  <2>5. ASSUME NEW t \in Takers, Contend(t) PROVE LockTypeOK'
    BY <2>5 DEF Contend
  <2>6. ASSUME NEW t \in Takers, ReadPid(t) PROVE LockTypeOK'
    <3>1. PidIn(lockFile) \in Processes \cup {"none"}
      BY DEF PidIn, NoFile
    <3> QED BY <2>6, <3>1 DEF ReadPid
  <2>7. ASSUME NEW t \in Takers, TestPid(t) PROVE LockTypeOK'
    BY <2>7 DEF TestPid
  <2>8. ASSUME NEW t \in Takers, ReadMtime(t) PROVE LockTypeOK'
    BY <2>8 DEF ReadMtime
  <2>9. ASSUME NEW t \in Takers, RemoveStale(t) PROVE LockTypeOK'
    BY <2>9 DEF RemoveStale
  <2>10. ASSUME NEW t \in Takers, PollAgain(t) PROVE LockTypeOK'
    BY <2>10 DEF PollAgain
  <2>11. ASSUME NEW t \in Takers, TimeOut(t) PROVE LockTypeOK'
    BY <2>11 DEF TimeOut
  <2>12. ASSUME NEW t \in Takers, Release(t) PROVE LockTypeOK'
    BY <2>12 DEF Release
  <2>13. ASSUME NEW p \in Processes, Ends(p) PROVE LockTypeOK'
    BY <2>13 DEF Ends
  <2>14. CASE Age
    BY <2>14 DEF Age, NoFile
  <2>15. CASE UNCHANGED lockVars
    BY <2>15 DEF lockVars
  <2> QED
    BY <2>1, <2>2, <2>3, <2>4, <2>5, <2>6, <2>7, <2>8, <2>9, <2>10, <2>11,
       <2>12, <2>13, <2>14, <2>15 DEF LockNext, TakerStep, Crash, Exit
<1> QED
  BY <1>1, <1>2, PTL DEF LockSpec

(* Before calm ends, no process that ends is named by a file or a contender, *)
(* so what a contender tests is running and it removes nothing; then whoever *)
(* got past O_EXCL still has its own file there, and it is the only one.     *)
THEOREM HoldersExclude == LockSpec => []CalmExclusion
<1>1. LockInit => OwnFile
  BY NoTaskAssumption, ProcAssumption DEF LockInit, OwnFile, NoFile
<1>2. LockTypeOK /\ OwnFile /\ [LockNext]_lockVars => OwnFile'
  <2> SUFFICES ASSUME LockTypeOK, OwnFile, [LockNext]_lockVars PROVE OwnFile'
    OBVIOUS
  <2>0. /\ pc \in [Takers -> Steps] /\ found \in [Takers -> Processes \cup {"none"}]
        /\ lockFile \in Files
    BY DEF LockTypeOK
  <2> USE <2>0, ProcAssumption, NoTaskAssumption DEF OwnFile, GoOn, PidIn, Files
  <2>1. ASSUME NEW t \in Takers, Request(t) PROVE OwnFile'
    BY <2>1 DEF Request, NoFile
  <2>2. ASSUME NEW t \in Takers, Create(t) PROVE OwnFile'
    BY <2>2 DEF Create, NoFile
  <2>3. ASSUME NEW t \in Takers, WritePid(t) PROVE OwnFile'
    <3>0. SUFFICES ASSUME calm PROVE OwnFile'
      BY <2>3 DEF WritePid
    <3>1. lockFile.by = t /\ lockFile # NoFile
      BY <2>3, <3>0 DEF WritePid, NoFile
    <3>2. lockFile \in [by : Takers, pid : BOOLEAN, old : BOOLEAN]
      BY <3>1
    <3>3. lockFile'.by = t /\ lockFile'.pid /\ ~lockFile'.old
      BY <2>3, <3>0, <3>1, <3>2 DEF WritePid
    <3> QED BY <2>3, <3>0, <3>1, <3>3 DEF WritePid
  <2>4. ASSUME NEW t \in Takers, WritePidFails(t) PROVE OwnFile'
    BY <2>4 DEF WritePidFails
  <2>5. ASSUME NEW t \in Takers, Contend(t) PROVE OwnFile'
    BY <2>5 DEF Contend, NoFile
  <2>6. ASSUME NEW t \in Takers, ReadPid(t) PROVE OwnFile'
    <3>1. lockFile.pid => lockFile.by \in Takers
      BY DEF NoFile
    <3>2. calm /\ lockFile.pid => found'[t] \in running
      BY <2>6, <3>1 DEF ReadPid
    <3>3. pc'[t] = (IF lockFile.pid THEN "test" ELSE "stat")
          /\ \A s \in Takers : s # t => pc'[s] = pc[s] /\ found'[s] = found[s]
      BY <2>6 DEF ReadPid
    <3>4. pc[t] = "read" /\ UNCHANGED <<lockFile, running, calm>>
      BY <2>6 DEF ReadPid
    <3> QED BY <3>1, <3>2, <3>3, <3>4
  <2>7. ASSUME NEW t \in Takers, TestPid(t) PROVE OwnFile'
    BY <2>7 DEF TestPid
  <2>8. ASSUME NEW t \in Takers, ReadMtime(t) PROVE OwnFile'
    BY <2>8 DEF ReadMtime
  <2>9. ASSUME NEW t \in Takers, RemoveStale(t) PROVE OwnFile'
    BY <2>9 DEF RemoveStale, NoFile
  <2>10. ASSUME NEW t \in Takers, PollAgain(t) PROVE OwnFile'
    BY <2>10 DEF PollAgain
  <2>11. ASSUME NEW t \in Takers, TimeOut(t) PROVE OwnFile'
    <3>1. pc[t] = "wait" /\ (pc' = [pc EXCEPT ![t] = "try"] \/ pc' = [pc EXCEPT ![t] = "idle"])
          /\ UNCHANGED <<lockFile, found, running, calm>>
      BY <2>11 DEF TimeOut
    <3>2. calm => /\ \A s \in Takers : pc'[s] = "test" => found'[s] \in running
                  /\ \A s \in Takers : pc'[s] # "remove" /\ (pc'[s] # "dead" => Proc[s] \in running)
                  /\ \A s \in Takers : pc'[s] \in {"write", "locked"} => lockFile.by = s
      BY <3>1
    <3>3. calm /\ lockFile.pid => pc'[lockFile.by] = "locked"
      BY <3>1 DEF NoFile
    <3> QED BY <3>1, <3>2, <3>3
  <2>12. ASSUME NEW t \in Takers, Release(t) PROVE OwnFile'
    BY <2>12 DEF Release, NoFile
  <2>13. ASSUME NEW p \in Processes, Ends(p) PROVE OwnFile'
    <3>1. SUFFICES ASSUME calm, ~Named(p) PROVE OwnFile'
      BY <2>13 DEF Ends
    <3>2. \A t \in Takers : pc'[t] # "dead" =>
             Proc[t] # p /\ pc'[t] = pc[t] /\ found'[t] = found[t]
      BY <2>13 DEF Ends
    <3>3. UNCHANGED lockFile /\ running' = running \ {p}
      BY <2>13 DEF Ends
    <3>4. lockFile.pid => lockFile.by \in Takers /\ Proc[lockFile.by] # p
      BY <3>1 DEF Named, NoFile
    <3>5. lockFile.pid => pc'[lockFile.by] = "locked"
      BY <2>13, <3>1, <3>4 DEF Ends
    <3>6. \A t \in Takers : pc'[t] = "test" => found'[t] \in running'
      BY <3>1, <3>2, <3>3 DEF Named
    <3> QED BY <3>1, <3>2, <3>3, <3>5, <3>6
  <2>14. CASE Age
    BY <2>14 DEF Age
  <2>15. CASE UNCHANGED lockVars
    BY <2>15 DEF lockVars
  <2> QED
    BY <2>1, <2>2, <2>3, <2>4, <2>5, <2>6, <2>7, <2>8, <2>9, <2>10, <2>11,
       <2>12, <2>13, <2>14, <2>15 DEF LockNext, TakerStep, Crash, Exit
<1>3. OwnFile => CalmExclusion
  BY DEF OwnFile, CalmExclusion, MutualExclusion, Holders
<1> QED
  BY <1>1, <1>2, <1>3, LockTypeCorrect, PTL DEF LockSpec

-----------------------------------------------------------------------------
Ref == {r \in [cid : Nat, seq : Nat, pub : Nat, gen : Nat, parents : SUBSET Nat,
               observed : SUBSET Nat, local : BOOLEAN] : r.cid = 0 => r.seq = 0}

Copy == [own : Ref, peer : Ref, ops : SUBSET Ops, setting : Nat]

(* The part of TypeOK the proofs need.                                       *)
Shapes ==
    /\ file \in Copy /\ mine \in [Tasks -> Copy] /\ copy \in [Tasks -> Copy]
    /\ sidecar \subseteq Ops /\ seen \in [Tasks -> SUBSET Ops]
    /\ step \in [Tasks -> {"idle", "loaded", "changed", "sidecar", "append", "write"}]
    /\ job \in [Tasks -> {"none", "learn", "roster", "setting", "edit", "materialize"}]
    /\ lock \in Locked \cup {"none"}
    /\ trees \in Seq(SUBSET Nat)
    /\ apart \in BOOLEAN /\ guarded \in BOOLEAN
    /\ done \in [edits : SUBSET Nat, ops : SUBSET Ops, setting : Nat]

(* Own roots in any copy have been made.                                     *)
InTrees ==
    /\ file.own.cid <= Len(trees)
    /\ \A t \in Tasks : mine[t].own.cid <= Len(trees) /\ copy[t].own.cid <= Len(trees)

(* A peer's root is in no file or copy to be saved that lacks its admission. *)
Admitted ==
    /\ file.peer.seq > 0 => "admit" \in file.ops
    /\ \A t \in Saving : copy[t].ops = mine[t].ops
                         /\ (copy[t].peer.seq > 0 => "admit" \in copy[t].ops)

(* As long as no two saves overlap, the one under way has read what is on    *)
(* disk: it takes back no operation and no root.                             *)
Ahead ==
    apart =>
        /\ done.ops \subseteq sidecar
        /\ \A s, t \in Saving : s = t
        /\ \A t \in Saving :
            /\ step[t] = "append" => sidecar \subseteq seen[t]
            /\ step[t] = "write" => copy[t].ops \subseteq sidecar
            /\ file.own.seq <= copy[t].own.seq
            /\ Writes(mine[t].ops) => file.peer.seq <= copy[t].peer.seq

(* Whoever works under the lock has it.                                      *)
Held == \A t \in Locked : step[t] # "idle" => lock = t

(* What t is about to save comes after the config on file: its own root is   *)
(* that on file, or the next one, on top of its contents.                    *)
Follows(t) ==
    /\ \/ mine[t].own = file.own /\ job[t] # "edit"
       \/ /\ mine[t].own.seq = file.own.seq + 1
          /\ mine[t].own.cid \in 1..Len(trees)
          /\ Contents(file.own) \subseteq trees[mine[t].own.cid]
          /\ job[t] = "edit" => mine[t].own.cid \in trees[mine[t].own.cid]
    /\ mine[t].setting = file.setting \/ job[t] = "setting"

(* As long as all have saved under the lock, the file has not changed since  *)
(* the task that holds the lock loaded it.                                   *)
Kept ==
    guarded =>
        /\ LocalTransactionsKept
        /\ \A t \in Locked :
            /\ step[t] # "idle" => file.ops \subseteq mine[t].ops
            /\ step[t] = "loaded" =>
                mine[t].own = file.own /\ mine[t].setting = file.setting
            /\ step[t] \in {"changed", "sidecar", "append", "write"} => Follows(t)
            /\ t \in Saving => copy[t].own = mine[t].own /\ copy[t].setting = mine[t].setting

IInv == Shapes /\ InTrees /\ Admitted /\ Ahead /\ Held /\ Kept

-----------------------------------------------------------------------------
LEMMA NoRefFacts == NoRef \in Ref /\ NoRef.cid = 0 /\ NoRef.seq = 0
BY DEF NoRef, Ref

LEMMA NewConfigFacts == NewConfig \in Copy /\ NewConfig.own.cid = 0
BY NoRefFacts DEF NewConfig, Copy

(* A save never writes an older root than the one on disk, and of the copy's *)
(* roots it keeps the one that is on disk, or newer.                         *)
LEMMA PreserveFacts ==
    ASSUME NEW a \in Ref, NEW b \in Ref, NEW w \in BOOLEAN
    PROVE  /\ Preserve(a, b, w) \in {a, b, NoRef}
           /\ w => b.seq <= Preserve(a, b, w).seq
           /\ w /\ (a = b \/ a.seq > b.seq) => Preserve(a, b, w) = a
           /\ ~w => Preserve(a, b, w) = NoRef
BY DEF Preserve, Known, IsNewerThan, Ref

LEMMA ApplyFullFacts ==
    ASSUME NEW a \in Ref, NEW b \in Ref
    PROVE  ApplyFull(a, b, TRUE) \in Ref
BY DEF ApplyFull, OnWire, Ref

(* The empty files of a new installation.                                    *)
LEMMA InitIInv == Init => IInv
<1> SUFFICES ASSUME Init PROVE IInv OBVIOUS
<1>1. Shapes
  BY NewConfigFacts DEF Init, Shapes
<1>2. InTrees
  BY NewConfigFacts DEF Init, InTrees
<1>3. Admitted /\ Ahead /\ Held
  BY NoRefFacts DEF Init, Admitted, Ahead, Held, Saving, NewConfig, Tasks
<1>4. Kept
  BY NoRefFacts DEF Init, Kept, LocalTransactionsKept, NewConfig, Saving, Tasks
<1> QED BY <1>1, <1>2, <1>3, <1>4 DEF IInv

(* Nothing but the tasks' own state, and the lock, changes when t begins.    *)
LEMMA BeginKeeps ==
    ASSUME IInv, NEW t \in Tasks, NEW kind \in Jobs(t), Begin(t, kind)
    PROVE  IInv'
<1>1. Loaded \in Copy /\ Loaded.own = file.own /\ Loaded.setting = file.setting
      /\ file.ops \subseteq Loaded.ops
  BY DEF IInv, Shapes, Copy, Loaded
<1>2. /\ mine'[t] \in {file, Loaded} /\ mine' = [mine EXCEPT ![t] = mine'[t]]
      /\ step' = [step EXCEPT ![t] = "loaded"] /\ step[t] = "idle"
      /\ job' = [job EXCEPT ![t] = kind]
  BY DEF Begin, Goto, IInv, Shapes
<1>3. Shapes'
  <2>1. kind \in {"none", "learn", "roster", "setting", "edit", "materialize"}
    BY DEF Jobs
  <2>2. lock' \in Locked \cup {"none"}
    BY DEF Begin, IInv, Shapes, Tasks
  <2> QED BY <1>1, <1>2, <2>1, <2>2 DEF Begin, IInv, Shapes
<1>4. Saving' = Saving /\ t \notin Saving
  BY <1>2 DEF Saving, IInv, Shapes
<1>5. InTrees'
  BY <1>1, <1>2 DEF Begin, InTrees, IInv, Shapes
<1>6. Admitted' /\ Ahead'
  BY <1>2, <1>4 DEF Begin, Admitted, Ahead, IInv, Shapes, Writes, Saving
<1>7. Held'
  BY <1>2, TasksAssumption DEF Begin, Held, IInv, Shapes, Tasks
<1>8. Kept'
  <2>1. \A s \in Locked : s # t => /\ mine'[s] = mine[s] /\ job'[s] = job[s]
                                   /\ step'[s] = step[s]
    BY <1>2 DEF IInv, Shapes, Tasks
  <2>2. (LocalTransactionsKept <=> LocalTransactionsKept')
    BY DEF Begin, LocalTransactionsKept, Contents
  <2>3. \A s \in Locked : s # t => (Follows(s) <=> Follows(s)')
    BY <2>1 DEF Begin, Follows, Contents
  <2> QED BY <1>1, <1>2, <1>4, <2>1, <2>2, <2>3 DEF Begin, Kept, IInv, Shapes, Tasks
<1> QED BY <1>3, <1>5, <1>6, <1>7, <1>8 DEF IInv

(* A task that ends is out of every part of the invariant.                   *)
LEMMA EndFacts ==
    ASSUME IInv, NEW t \in Tasks, End(t)
    PROVE  /\ step' = [step EXCEPT ![t] = "idle"]
           /\ lock' \in Locked \cup {"none"}
           /\ job' \in [Tasks -> {"none", "learn", "roster", "setting", "edit", "materialize"}]
           /\ mine' \in [Tasks -> Copy] /\ copy' \in [Tasks -> Copy]
           /\ seen' \in [Tasks -> SUBSET Ops]
           /\ mine'[t].own.cid = 0 /\ copy'[t].own.cid = 0
           /\ Saving' = Saving \ {t}
           /\ \A s \in Tasks : s # t =>
                /\ step'[s] = step[s] /\ job'[s] = job[s] /\ mine'[s] = mine[s]
                /\ copy'[s] = copy[s] /\ seen'[s] = seen[s]
           /\ Held'
<1>1. /\ step' = [step EXCEPT ![t] = "idle"]
      /\ mine' = [mine EXCEPT ![t] = NewConfig] /\ copy' = [copy EXCEPT ![t] = NewConfig]
      /\ seen' = [seen EXCEPT ![t] = {}] /\ job' = [job EXCEPT ![t] = "none"]
      /\ lock' = IF lock = t THEN "none" ELSE lock
  BY DEF End, Goto
<1>2. Saving' = Saving \ {t}
  BY <1>1 DEF Saving, IInv, Shapes
<1>3. Held'
  BY <1>1, TasksAssumption DEF Held, IInv, Shapes, Tasks
<1> QED BY <1>1, <1>2, <1>3, NewConfigFacts DEF IInv, Shapes

LEMMA StopKeeps ==
    ASSUME IInv, NEW t \in Tasks, Stop(t)
    PROVE  IInv'
<1>1. End(t) /\ UNCHANGED <<file, sidecar, trees, apart, guarded, done>>
  BY DEF Stop
<1>2. Shapes'
  BY <1>1, EndFacts DEF IInv, Shapes
<1>3. InTrees'
  <2>1. Len(trees) \in Nat
    BY DEF IInv, Shapes
  <2> QED BY <1>1, <2>1, EndFacts DEF IInv, InTrees
<1>4. Admitted' /\ Ahead'
  BY <1>1, EndFacts DEF IInv, Admitted, Ahead, Saving
<1>5. Kept'
  <2>1. (LocalTransactionsKept <=> LocalTransactionsKept')
    BY <1>1 DEF LocalTransactionsKept, Contents
  <2>2. \A s \in Locked : s # t => (Follows(s) <=> Follows(s)')
    BY <1>1, EndFacts DEF Follows, Contents, Tasks
  <2>3. step'[t] = "idle" /\ t \notin Saving'
    BY <1>1, EndFacts DEF IInv, Shapes
  <2> QED BY <1>1, <2>1, <2>2, <2>3, EndFacts DEF Kept, IInv, Tasks
<1> QED BY <1>1, <1>2, <1>3, <1>4, <1>5, EndFacts DEF IInv

(* References as the tasks make them, and copies with one field replaced.    *)
LEMMA OwnRootFacts ==
    ASSUME NEW t \in Tasks, NEW l \in BOOLEAN, mine[t].own.seq \in Nat, Len(trees) \in Nat
    PROVE  /\ OwnRoot(t, l) \in Ref /\ OwnRoot(t, l).cid = Len(trees) + 1
           /\ OwnRoot(t, l).seq = mine[t].own.seq + 1
<1>1. PICK n : n = Len(trees) + 1
  OBVIOUS
<1>2. PICK k : k = mine[t].own.seq + 1
  OBVIOUS
<1>3. n \in Nat \ {0} /\ k \in Nat
  BY <1>1, <1>2
<1>4. PICK r : r = NoRef
  OBVIOUS
<1>5. PICK B : B = BOOLEAN
  OBVIOUS
<1>6. /\ r \in [cid : Nat, seq : Nat, pub : Nat, gen : Nat, parents : SUBSET Nat,
                observed : SUBSET Nat, local : B]
      /\ l \in B
  BY <1>4, <1>5, NoRefFacts, Zenon DEF Ref
<1> DEFINE x == [r EXCEPT !.cid = n, !.seq = k, !.local = l]
<1>7. x \in [cid : Nat, seq : Nat, pub : Nat, gen : Nat, parents : SUBSET Nat,
             observed : SUBSET Nat, local : B]
  BY <1>3, <1>6
<1>8. x.cid = n /\ x.seq = k
  BY <1>6
<1>9. OwnRoot(t, l) = x
  BY <1>1, <1>2, <1>4, Zenon DEF OwnRoot
<1> HIDE DEF x
<1>10. n # 0
  BY <1>3
<1>11. x \in Ref
  BY <1>5, <1>7, <1>8, <1>10, Zenon DEF Ref
<1> QED BY <1>1, <1>2, <1>8, <1>9, <1>11, Zenon

LEMMA PeerRootFacts ==
    ASSUME NEW c \in Nat \ {0}
    PROVE  [NoRef EXCEPT !.cid = c, !.seq = c] \in Ref
BY DEF NoRef, Ref

LEMMA PeerFacts ==
    ASSUME NEW c \in Copy, NEW r \in Ref
    PROVE  LET x == [c EXCEPT !.peer = r]
           IN  x \in Copy /\ x.own = c.own /\ x.ops = c.ops /\ x.setting = c.setting
BY DEF Copy

LEMMA OpsFacts ==
    ASSUME NEW c \in Copy, NEW ops \in SUBSET Ops
    PROVE  LET x == [c EXCEPT !.ops = ops]
           IN  x \in Copy /\ x.own = c.own /\ x.ops = ops /\ x.setting = c.setting
BY DEF Copy

LEMMA SettingFacts ==
    ASSUME NEW c \in Copy, NEW n \in Nat
    PROVE  LET x == [c EXCEPT !.setting = n]
           IN  x \in Copy /\ x.own = c.own /\ x.ops = c.ops
BY DEF Copy

(* What each kind of work makes of a copy, and of the trees.                 *)
LEMMA ChangeFacts ==
    ASSUME IInv, NEW t \in Tasks, Change(t)
    PROVE  /\ step[t] = "loaded" /\ step' = [step EXCEPT ![t] = "changed"]
           /\ mine' \in [Tasks -> Copy]
           /\ \A s \in Tasks : s # t => mine'[s] = mine[s]
           /\ mine[t].ops \subseteq mine'[t].ops \/ file.ops \subseteq mine'[t].ops
           /\ trees' \in Seq(SUBSET Nat) /\ Len(trees) <= Len(trees')
           /\ \A i \in 1..Len(trees) : trees'[i] = trees[i]
           /\ \/ mine'[t].own = mine[t].own /\ job[t] # "edit"
              \/ /\ mine'[t].own.seq = mine[t].own.seq + 1
                 /\ mine'[t].own.cid \in 1..Len(trees')
                 /\ Contents(mine[t].own) \subseteq trees'[mine'[t].own.cid]
                 /\ job[t] = "edit" => mine'[t].own.cid \in trees'[mine'[t].own.cid]
           /\ mine'[t].setting = mine[t].setting \/ job[t] = "setting"
<1> DEFINE c == mine[t]
<1>1. /\ mine \in [Tasks -> Copy] /\ trees \in Seq(SUBSET Nat) /\ c \in Copy
      /\ c.ops \in SUBSET Ops /\ c.own \in Ref /\ c.peer \in Ref /\ c.setting \in Nat
  BY DEF IInv, Shapes, Copy
<1>2. step[t] = "loaded" /\ step' = [step EXCEPT ![t] = "changed"]
  BY DEF Change, Goto
<1>3. CASE MakeRoot(t)
  <2> DEFINE n == Len(trees) + 1
             new == IF job[t] = "edit" THEN {n} ELSE {}
             tree == Contents(c.own) \cup new
             own == OwnRoot(t, job[t] = "materialize")
  <2>1. trees' = Append(trees, tree)
        /\ mine' = [mine EXCEPT ![t] = [c EXCEPT !.own = own, !.ops = Loaded.ops]]
        /\ job[t] \in {"edit", "materialize"}
    BY <1>1, <1>3 DEF MakeRoot
  <2>2. tree \in SUBSET Nat /\ n \in Nat \ {0}
    <3>1. c.own.cid \in Nat /\ c.own.cid <= Len(trees)
      BY <1>1 DEF IInv, InTrees, Ref
    <3> QED BY <1>1, <3>1 DEF Contents, Known
  <2>3. own \in Ref /\ own.cid = n /\ own.seq = c.own.seq + 1
    <3>1. own = OwnRoot(t, TRUE) \/ own = OwnRoot(t, FALSE)
      BY <2>1
    <3>2. mine[t].own.seq \in Nat /\ Len(trees) \in Nat
      BY <1>1 DEF Ref
    <3> HIDE DEF own
    <3> QED BY <3>1, <3>2, OwnRootFacts
  <2>4. trees' \in Seq(SUBSET Nat) /\ Len(trees') = n /\ trees'[n] = tree
        /\ \A i \in 1..Len(trees) : trees'[i] = trees[i]
    BY <1>1, <2>1, <2>2
  <2>5. Loaded.ops \in SUBSET Ops /\ file.ops \subseteq Loaded.ops
    BY DEF Loaded, IInv, Shapes, Copy
  <2> HIDE DEF own, tree
  <2> DEFINE x == [c EXCEPT !.own = own, !.ops = Loaded.ops]
  <2>6. x \in Copy /\ x.own = own /\ x.ops = Loaded.ops /\ x.setting = c.setting
    <3> HIDE DEF c
    <3> QED BY <1>1, <2>3, <2>5 DEF Copy
  <2>7. mine' = [mine EXCEPT ![t] = x]
    BY <2>1
  <2> HIDE DEF x
  <2> QED BY <1>1, <1>2, <2>1, <2>2, <2>3, <2>4, <2>5, <2>6, <2>7 DEF tree
<1>4. CASE LearnRoot(t)
  <2>1. PICK seq \in 1..MaxPeer :
          mine' = [mine EXCEPT ![t].peer =
                     ApplyFull(@, [NoRef EXCEPT !.cid = seq, !.seq = seq], TRUE)]
    BY <1>4 DEF LearnRoot
  <2> DEFINE peer == ApplyFull(c.peer, [NoRef EXCEPT !.cid = seq, !.seq = seq], TRUE)
             x == [c EXCEPT !.peer = peer]
  <2>2. seq \in Nat \ {0}
    BY StoreBoundsAssumption
  <2>3. peer \in Ref
    BY <1>1, <2>2, PeerRootFacts, ApplyFullFacts
  <2>4. mine' = [mine EXCEPT ![t] = x]
    BY <1>1, <2>1
  <2>5. trees' = trees /\ job[t] = "learn"
    BY <1>4 DEF LearnRoot
  <2>6. x \in Copy /\ x.own = c.own /\ x.ops = c.ops /\ x.setting = c.setting
    BY <1>1, <2>3, PeerFacts
  <2> HIDE DEF x
  <2> QED BY <1>1, <1>2, <2>4, <2>5, <2>6
<1>5. CASE ApplyOp(t)
  <2>1. PICK op \in Ops : mine' = [mine EXCEPT ![t].ops = @ \cup {op}]
    BY <1>5 DEF ApplyOp
  <2> DEFINE x == [c EXCEPT !.ops = c.ops \cup {op}]
  <2>2. mine' = [mine EXCEPT ![t] = x]
    BY <1>1, <2>1
  <2>3. trees' = trees /\ job[t] = "roster"
    BY <1>5 DEF ApplyOp
  <2>4. x \in Copy /\ x.own = c.own /\ x.ops = c.ops \cup {op} /\ x.setting = c.setting
    BY <1>1, OpsFacts
  <2> HIDE DEF x
  <2> QED BY <1>1, <1>2, <2>2, <2>3, <2>4
<1>6. CASE ChangeSetting(t)
  <2> DEFINE x == [c EXCEPT !.setting = c.setting + 1]
  <2>1. mine' = [mine EXCEPT ![t] = x] /\ trees' = trees /\ job[t] = "setting"
    BY <1>1, <1>6 DEF ChangeSetting
  <2>2. x \in Copy /\ x.own = c.own /\ x.ops = c.ops
    BY <1>1, SettingFacts
  <2> HIDE DEF x
  <2> QED BY <1>1, <1>2, <2>1, <2>2
<1> QED BY <1>3, <1>4, <1>5, <1>6 DEF Change

LEMMA ChangeKeeps ==
    ASSUME IInv, NEW t \in Tasks, Change(t)
    PROVE  IInv'
<1>1. UNCHANGED <<file, sidecar, lock, job, copy, seen, apart, guarded, done>>
  BY DEF Change
<1>2. /\ Shapes /\ InTrees /\ Admitted /\ Ahead /\ Held /\ Kept
      /\ step \in [Tasks -> {"idle", "loaded", "changed", "sidecar", "append", "write"}]
      /\ file \in Copy /\ file.own \in Ref /\ trees \in Seq(SUBSET Nat)
  BY DEF IInv, Shapes, Copy
<1>3. Shapes'
  BY <1>1, <1>2, ChangeFacts DEF Shapes
<1>4. InTrees'
  <2>1. mine[t].own.cid \in Nat /\ \A s \in Tasks : copy[s].own.cid \in Nat /\ mine[s].own.cid \in Nat
    BY <1>2 DEF Shapes, Copy, Ref
  <2>2. Len(trees) \in Nat /\ Len(trees') \in Nat /\ file.own.cid \in Nat
    BY <1>2, ChangeFacts DEF Ref
  <2>3. mine'[t].own.cid <= Len(trees')
    BY <1>2, <2>1, <2>2, ChangeFacts DEF InTrees
  <2>4. Len(trees) <= Len(trees') /\ file' = file /\ copy' = copy
        /\ \A s \in Tasks : s # t => mine'[s] = mine[s]
    BY <1>1, ChangeFacts
  <2>5. file.own.cid <= Len(trees')
    BY <1>2, <2>2, <2>4 DEF InTrees
  <2>6. ASSUME NEW s \in Tasks
        PROVE  mine'[s].own.cid <= Len(trees') /\ copy[s].own.cid <= Len(trees')
    <3>1. copy[s].own.cid <= Len(trees) /\ mine[s].own.cid <= Len(trees)
      BY <1>2 DEF InTrees
    <3>2. copy[s].own.cid <= Len(trees') /\ mine[s].own.cid <= Len(trees')
      BY <2>1, <2>2, <2>4, <3>1
    <3> QED BY <2>3, <2>4, <3>2
  <2> QED BY <2>4, <2>5, <2>6 DEF InTrees
<1>5. Saving' = Saving /\ t \notin Saving
  BY <1>2, ChangeFacts DEF Saving
<1>6. \A s \in Tasks : s # t => mine'[s] = mine[s] /\ step'[s] = step[s]
  BY <1>2, ChangeFacts
<1>7. Admitted' /\ Ahead'
  BY <1>1, <1>2, <1>5, <1>6 DEF Admitted, Ahead, Saving
<1>8. Held'
  BY <1>1, <1>2, ChangeFacts DEF Held, Tasks
<1>9. Contents(file.own)' = Contents(file.own)
  <2>1. Known(file.own) => file.own.cid \in 1..Len(trees)
    BY <1>2 DEF InTrees, Known, Ref
  <2> QED BY <1>1, <2>1, ChangeFacts DEF Contents
<1>10. Kept'
  <2> SUFFICES ASSUME guarded PROVE Kept'
    BY <1>1 DEF Kept
  <2>1. LocalTransactionsKept'
    BY <1>1, <1>2, <1>9 DEF Kept, LocalTransactionsKept
  <2>2. ASSUME NEW s \in Locked, s # t, Follows(s) PROVE Follows(s)'
    <3>1. s \in Tasks /\ mine'[s] = mine[s]
      BY <1>6, <2>2 DEF Tasks
    <3>2. \A i \in 1..Len(trees) : i \in 1..Len(trees') /\ trees'[i] = trees[i]
      BY <1>2, ChangeFacts
    <3> QED BY <1>1, <1>9, <2>2, <3>1, <3>2 DEF Follows
  <2>3. t \in Locked => /\ file.ops \subseteq mine'[t].ops
                        /\ Follows(t)'
    <3> SUFFICES ASSUME t \in Locked
                 PROVE  file.ops \subseteq mine'[t].ops /\ Follows(t)'
      OBVIOUS
    <3>1. /\ file.ops \subseteq mine[t].ops
          /\ mine[t].own = file.own /\ mine[t].setting = file.setting
      BY <1>2, ChangeFacts DEF Kept
    <3>2. file.ops \subseteq mine'[t].ops
      BY <3>1, ChangeFacts
    <3>3. Follows(t)'
      BY <1>1, <1>9, <3>1, ChangeFacts DEF Follows
    <3> QED BY <3>2, <3>3
  <2>4. step'[t] = "changed"
    BY <1>2, ChangeFacts
  <2>5. \A s \in Locked : s \in Tasks
    BY DEF Tasks
  <2> QED BY <1>1, <1>2, <1>5, <1>6, <2>1, <2>2, <2>3, <2>4, <2>5 DEF Kept
<1> QED BY <1>3, <1>4, <1>7, <1>8, <1>10 DEF IInv

(* From here on the copy to be saved is what counts.                         *)
LEMMA MergeRootsKeeps ==
    ASSUME IInv, NEW t \in Tasks, MergeRoots(t)
    PROVE  IInv'
<1> DEFINE w == Writes(mine[t].ops)
           own == Preserve(mine[t].own, file.own, TRUE)
           peer == Preserve(mine[t].peer, file.peer, w)
           x == [mine[t] EXCEPT !.own = own, !.peer = peer]
<1>1. /\ step[t] = "changed" /\ step' = [step EXCEPT ![t] = "sidecar"]
      /\ copy' = [copy EXCEPT ![t] = x] /\ apart' = (apart /\ Saving = {})
      /\ UNCHANGED <<file, sidecar, lock, job, mine, seen, trees, guarded, done>>
  BY DEF MergeRoots, Goto
<1>2. /\ Shapes /\ InTrees /\ Admitted /\ Ahead /\ Held /\ Kept
      /\ step \in [Tasks -> {"idle", "loaded", "changed", "sidecar", "append", "write"}]
      /\ copy \in [Tasks -> Copy] /\ file \in Copy /\ mine[t] \in Copy
  BY DEF IInv, Shapes
<1>3. /\ mine[t].own \in Ref /\ mine[t].peer \in Ref
      /\ file.own \in Ref /\ file.peer \in Ref /\ w \in BOOLEAN
  BY <1>2 DEF Copy, Writes
<1>4. /\ own \in {mine[t].own, file.own, NoRef} /\ file.own.seq <= own.seq
      /\ mine[t].own = file.own \/ mine[t].own.seq > file.own.seq => own = mine[t].own
  BY <1>3, PreserveFacts
<1>5. /\ peer \in {mine[t].peer, file.peer, NoRef}
      /\ w => file.peer.seq <= peer.seq
      /\ ~w => peer = NoRef
  BY <1>3, PreserveFacts
<1> HIDE DEF own, peer, w
<1>6. own \in Ref /\ peer \in Ref
  BY <1>3, <1>4, <1>5, NoRefFacts
<1>7. /\ x \in Copy /\ x.own = own /\ x.peer = peer /\ x.ops = mine[t].ops
      /\ x.setting = mine[t].setting
  BY <1>2, <1>6 DEF Copy
<1> HIDE DEF x
<1>8. /\ copy'[t] = x /\ step'[t] = "sidecar"
      /\ \A s \in Tasks : s # t => copy'[s] = copy[s] /\ step'[s] = step[s]
  BY <1>1, <1>2
<1>9. Saving' = Saving \cup {t} /\ t \notin Saving
  BY <1>1, <1>2 DEF Saving
<1>10. Shapes'
  BY <1>1, <1>2, <1>7 DEF Shapes
<1>11. InTrees'
  <2>1. own.cid <= Len(trees)
    <3>1. Len(trees) \in Nat
      BY <1>2 DEF Shapes
    <3> QED BY <1>2, <1>4, <3>1, NoRefFacts DEF InTrees
  <2> QED BY <1>1, <1>2, <1>7, <1>8, <2>1 DEF InTrees
<1>12. Admitted'
  <2>1. peer.seq > 0 => "admit" \in mine[t].ops
    BY <1>5, NoRefFacts DEF w, Writes
  <2> QED BY <1>1, <1>2, <1>7, <1>8, <1>9, <2>1 DEF Admitted, Saving
<1>13. Ahead'
  <2> SUFFICES ASSUME apart, Saving = {} PROVE Ahead'
    BY <1>1 DEF Ahead
  <2>1. Saving' = {t} /\ done.ops \subseteq sidecar
    BY <1>2, <1>9 DEF Ahead
  <2> QED BY <1>1, <1>4, <1>5, <1>7, <1>8, <2>1 DEF Ahead, w
<1>14. Held'
  BY <1>1, <1>2 DEF Held, Tasks
<1>15. Kept'
  <2> SUFFICES ASSUME guarded PROVE Kept'
    BY <1>1 DEF Kept
  <2>1. LocalTransactionsKept'
    BY <1>1, <1>2 DEF Kept, LocalTransactionsKept, Contents
  <2>2. \A s \in Locked : Follows(s) <=> Follows(s)'
    BY <1>1 DEF Follows, Contents
  <2>3. t \in Locked => own = mine[t].own
    <3>1. mine[t].own.seq \in Nat /\ file.own.seq \in Nat
      BY <1>3 DEF Ref
    <3>2. t \in Locked => Follows(t)
      BY <1>1, <1>2 DEF Kept
    <3> QED BY <1>4, <3>1, <3>2 DEF Follows
  <2>4. \A s \in Locked : s \in Tasks
    BY DEF Tasks
  <2> QED BY <1>1, <1>2, <1>7, <1>8, <1>9, <2>1, <2>2, <2>3, <2>4 DEF Kept
<1> QED BY <1>10, <1>11, <1>12, <1>13, <1>14, <1>15 DEF IInv

LEMMA ReadOpsKeeps ==
    ASSUME IInv, NEW t \in Tasks, ReadOps(t)
    PROVE  IInv'
<1>1. /\ step[t] = "sidecar" /\ step' = [step EXCEPT ![t] = "append"]
      /\ seen' = [seen EXCEPT ![t] = sidecar]
      /\ UNCHANGED <<file, sidecar, lock, job, mine, copy, trees, apart, guarded, done>>
  BY DEF ReadOps, Goto
<1>2. Saving' = Saving
  BY <1>1 DEF Saving, IInv, Shapes
<1>3. Shapes' /\ InTrees' /\ Admitted'
  BY <1>1, <1>2 DEF IInv, Shapes, InTrees, Admitted
<1>4. Ahead'
  BY <1>1, <1>2 DEF IInv, Shapes, Ahead, Saving
<1>5. Held'
  BY <1>1 DEF IInv, Shapes, Held, Tasks
<1>6. Kept'
  <2>1. (LocalTransactionsKept <=> LocalTransactionsKept')
        /\ \A s \in Locked : Follows(s) <=> Follows(s)'
    BY <1>1 DEF LocalTransactionsKept, Follows, Contents
  <2> QED BY <1>1, <1>2, <2>1 DEF IInv, Shapes, Kept, Tasks
<1> QED BY <1>3, <1>4, <1>5, <1>6 DEF IInv

(* A save that is alone appends to all the operations there are.             *)
LEMMA WriteOpsKeeps ==
    ASSUME IInv, NEW t \in Tasks, WriteOps(t)
    PROVE  IInv'
<1>1. /\ step[t] = "append" /\ step' = [step EXCEPT ![t] = "write"]
      /\ sidecar' = IF copy[t].ops = {} THEN sidecar ELSE seen[t] \cup copy[t].ops
      /\ UNCHANGED <<file, lock, job, mine, copy, seen, trees, apart, guarded, done>>
  BY DEF WriteOps, Goto
<1>2. Saving' = Saving /\ t \in Saving
  BY <1>1 DEF Saving, IInv, Shapes
<1>3. copy[t].ops \subseteq Ops /\ seen[t] \subseteq Ops
  BY DEF IInv, Shapes, Copy
<1>4. Shapes' /\ InTrees' /\ Admitted'
  BY <1>1, <1>2, <1>3 DEF IInv, Shapes, InTrees, Admitted
<1>5. Ahead'
  <2> SUFFICES ASSUME apart PROVE Ahead'
    BY <1>1 DEF Ahead
  <2>1. sidecar \subseteq sidecar' /\ copy[t].ops \subseteq sidecar'
    BY <1>1, <1>2 DEF IInv, Ahead
  <2>2. \A s \in Saving : s = t
    BY <1>2 DEF IInv, Ahead
  <2> QED BY <1>1, <1>2, <2>1, <2>2 DEF IInv, Shapes, Ahead
<1>6. Held'
  BY <1>1 DEF IInv, Shapes, Held, Tasks
<1>7. Kept'
  <2>1. (LocalTransactionsKept <=> LocalTransactionsKept')
        /\ \A s \in Locked : Follows(s) <=> Follows(s)'
    BY <1>1 DEF LocalTransactionsKept, Follows, Contents
  <2> QED BY <1>1, <1>2, <2>1 DEF IInv, Shapes, Kept, Tasks
<1> QED BY <1>4, <1>5, <1>6, <1>7 DEF IInv

(* Nobody else works under the lock when t replaces the file under it.       *)
LEMMA WriteConfigKeeps ==
    ASSUME IInv, NEW t \in Tasks, WriteConfig(t)
    PROVE  IInv'
<1>1. /\ step[t] = "write" /\ file' = copy[t] /\ guarded' = (guarded /\ t \in Locked)
      /\ done' = [edits   |-> done.edits \cup (IF job[t] = "edit" THEN {mine[t].own.cid} ELSE {}),
                  ops     |-> done.ops \cup mine[t].ops,
                  setting |-> IF job[t] = "setting" THEN mine[t].setting ELSE done.setting]
      /\ End(t) /\ UNCHANGED <<sidecar, trees, apart>>
  BY DEF WriteConfig
<1>2. /\ Shapes /\ InTrees /\ Admitted /\ Ahead /\ Held /\ Kept
      /\ step \in [Tasks -> {"idle", "loaded", "changed", "sidecar", "append", "write"}]
      /\ copy[t] \in Copy /\ mine[t] \in Copy /\ t \in Saving
  BY <1>1 DEF IInv, Shapes, Saving
<1>3. /\ mine[t].own.cid \in Nat /\ mine[t].ops \subseteq Ops /\ mine[t].setting \in Nat
      /\ done.edits \subseteq Nat /\ done.ops \subseteq Ops /\ done.setting \in Nat
  BY <1>2 DEF Copy, Ref, Shapes
<1>4. Shapes'
  <2>1. done' \in [edits : SUBSET Nat, ops : SUBSET Ops, setting : Nat]
    BY <1>1, <1>3
  <2>2. step' \in [Tasks -> {"idle", "loaded", "changed", "sidecar", "append", "write"}]
    BY <1>1, <1>2, EndFacts
  <2>3. guarded' \in BOOLEAN
    BY <1>1
  <2> QED BY <1>1, <1>2, <2>1, <2>2, <2>3, EndFacts DEF Shapes
<1>5. InTrees'
  <2>1. Len(trees) \in Nat
    BY <1>2 DEF Shapes
  <2> QED BY <1>1, <1>2, <2>1, EndFacts DEF InTrees
<1>6. Admitted'
  BY <1>1, <1>2, EndFacts DEF Admitted, Saving
<1>7. Ahead'
  <2> SUFFICES ASSUME apart PROVE Ahead'
    BY <1>1 DEF Ahead
  <2>1. Saving' = {}
    BY <1>1, <1>2, EndFacts DEF Ahead
  <2>2. done'.ops \subseteq sidecar
    BY <1>1, <1>2 DEF Ahead, Admitted
  <2> QED BY <1>1, <2>1, <2>2 DEF Ahead
<1>8. Kept'
  <2> SUFFICES ASSUME guarded, t \in Locked PROVE Kept'
    BY <1>1 DEF Kept
  <2>1. /\ Follows(t) /\ LocalTransactionsKept
        /\ copy[t].own = mine[t].own /\ copy[t].setting = mine[t].setting
    BY <1>1, <1>2 DEF Kept
  <2>2. \A s \in Locked : step'[s] = "idle"
    <3>1. lock = t /\ step'[t] = "idle"
      BY <1>1, <1>2, EndFacts DEF Held
    <3> QED BY <1>1, <1>2, <3>1, EndFacts DEF Held, Tasks
  <2>3. done'.edits \subseteq Contents(file.own)'
    <3>1. Contents(file.own)' = Contents(mine[t].own)
      BY <1>1, <2>1 DEF Contents
    <3>2. CASE mine[t].own = file.own /\ job[t] # "edit"
      BY <1>1, <2>1, <3>1, <3>2 DEF LocalTransactionsKept
    <3>3. CASE mine[t].own # file.own \/ job[t] = "edit"
      <4>1. /\ mine[t].own.cid \in 1..Len(trees)
            /\ Contents(file.own) \subseteq trees[mine[t].own.cid]
            /\ job[t] = "edit" => mine[t].own.cid \in trees[mine[t].own.cid]
        BY <2>1, <3>3 DEF Follows
      <4>2. Contents(mine[t].own) = trees[mine[t].own.cid]
        BY <4>1 DEF Contents, Known
      <4> QED BY <1>1, <2>1, <3>1, <4>1, <4>2 DEF LocalTransactionsKept
    <3> QED BY <3>2, <3>3
  <2>4. done'.setting = file'.setting
    BY <1>1, <2>1 DEF Follows, LocalTransactionsKept
  <2>5. LocalTransactionsKept'
    BY <2>3, <2>4 DEF LocalTransactionsKept
  <2>6. \A s \in Saving' : s \notin Locked
    BY <2>2 DEF Saving
  <2> QED BY <2>2, <2>5, <2>6 DEF Kept
<1> QED BY <1>1, <1>4, <1>5, <1>6, <1>7, <1>8, EndFacts DEF IInv

-----------------------------------------------------------------------------
LEMMA Invariant == Spec => []IInv
<1>1. IInv /\ [Next]_storeVars => IInv'
  <2> SUFFICES ASSUME IInv, [Next]_storeVars PROVE IInv'
    OBVIOUS
  <2>1. ASSUME NEW t \in Tasks, TaskStep(t) PROVE IInv'
    BY <2>1, BeginKeeps, ChangeKeeps, StopKeeps, MergeRootsKeeps, ReadOpsKeeps,
       WriteOpsKeeps, WriteConfigKeeps DEF TaskStep
  <2>2. CASE UNCHANGED storeVars
    BY <2>2 DEF storeVars, IInv, Shapes, InTrees, Admitted, Ahead, Held, Kept, Saving,
                Follows, LocalTransactionsKept, Contents
  <2> QED BY <2>1, <2>2 DEF Next
<1> QED BY <1>1, InitIInv, PTL DEF Spec

(* No operation that was saved is missing from a later load (AppConfig::save *)
(* appends to the operations beside the config), unless two saves overlap.   *)
THEOREM OperationsSurvive == Spec => []OpsKept
<1>1. IInv => OpsKept
  BY DEF IInv, Ahead, OpsKept, Loaded, Shapes, Copy
<1> QED BY <1>1, Invariant, PTL

(* As long as all save under the lock, a save of the whole file takes back   *)
(* nothing that another task has saved.                                      *)
THEOREM LockedTransactionsSurvive == Spec => []GuardedTransactionsKept
<1>1. IInv => GuardedTransactionsKept
  BY DEF IInv, Kept, GuardedTransactionsKept
<1> QED BY <1>1, Invariant, PTL

(* The root on file is never replaced by an older one, the own one whatever  *)
(* copy is saved, the peer's as long as it may write for all who save.       *)
THEOREM RootsGoForward == Spec => RootsForward
<1> DEFINE Forward == apart =>
         /\ file.own.seq <= file'.own.seq
         /\ guarded' /\ "revoke" \notin sidecar => file.peer.seq <= file'.peer.seq
<1>1. IInv /\ [Next]_storeVars => [Forward]_storeVars
  <2> SUFFICES ASSUME IInv, Next, apart PROVE Forward
    OBVIOUS
  <2>1. PICK t \in Tasks : TaskStep(t)
    BY DEF Next
  <2>2. file.own.seq \in Nat /\ file.peer.seq \in Nat
    BY DEF IInv, Shapes, Copy, Ref
  <2>3. CASE WriteConfig(t)
    <3>1. /\ step[t] = "write" /\ file' = copy[t] /\ guarded' = (guarded /\ t \in Locked)
          /\ t \in Saving
      BY <2>3 DEF WriteConfig, Saving
    <3>2. /\ file.own.seq <= copy[t].own.seq /\ copy[t].ops \subseteq sidecar
          /\ Writes(mine[t].ops) => file.peer.seq <= copy[t].peer.seq
      BY <3>1 DEF IInv, Ahead
    <3>3. ASSUME guarded', "revoke" \notin sidecar
          PROVE  file.peer.seq <= copy[t].peer.seq
      <4>1. copy[t].ops = mine[t].ops /\ file.ops \subseteq mine[t].ops
        BY <3>1, <3>3 DEF IInv, Admitted, Kept
      <4>2. CASE "admit" \in file.ops
        BY <3>2, <3>3, <4>1, <4>2 DEF Writes
      <4>3. CASE "admit" \notin file.ops
        <5>1. file.peer.seq = 0
          BY <2>2, <4>3 DEF IInv, Admitted
        <5>2. copy[t].peer.seq \in Nat
          BY DEF IInv, Shapes, Copy, Ref
        <5> QED BY <5>1, <5>2
      <4> QED BY <4>2, <4>3
    <3> QED BY <3>1, <3>2, <3>3
  <2>4. CASE ~WriteConfig(t)
    <3>1. file' = file
      BY <2>1, <2>4 DEF TaskStep, Begin, Change, Stop, MergeRoots, ReadOps, WriteOps
    <3> QED BY <2>2, <3>1
  <2> QED BY <2>3, <2>4
<1> QED BY <1>1, Invariant, PTL DEF Spec, RootsForward
=============================================================================
