----------------------------- MODULE ConfigLock -----------------------------
(* The cross-process config transaction lock of config_lock.rs: a file made  *)
(* with O_EXCL that names its owner's pid, removed by the owner's Drop, by   *)
(* whoever finds the pid dead, and by whoever finds the file two minutes old.*)
(* One step is one system call, because that is what other processes see.    *)
EXTENDS Naturals, FiniteSets

CONSTANTS
    Takers,     \* the threads and async tasks that ask for the lock
    Processes,  \* operating-system processes; a restart is a fresh process
    Proc,       \* Proc[t]: the process task t runs in
    Crashable,  \* processes that may be killed
    Leaving,    \* processes that may end by themselves (commands, closed apps)
    Slow,       \* tasks that may hold the lock for STALE_AFTER (2 minutes)
    Failing,    \* tasks whose write of the pid may fail (a full disk)
    Retries     \* extra attempts of acquire_for_background after a timeout

ASSUME ProcAssumption == Proc \in [Takers -> Processes]
ASSUME NoTaskAssumption == "none" \notin Takers /\ "none" \notin Processes
ASSUME RetriesAssumption == Retries \in Nat

VARIABLES
    lockFile, \* the lock file, or NoFile
    pc,       \* where each task is in acquire / hold / drop
    found,    \* the pid a contender has read and not yet tested, or "none"
    tries,    \* attempts a background request has left after this one
    running,  \* the processes that are alive
    calm      \* history: no file has got old, and no process has ended
              \* whose pid was in the file or in a contender's hand

lockVars == <<lockFile, pc, found, tries, running, calm>>

NoFile == [by |-> "none", pid |-> FALSE, old |-> FALSE]

(* by: the task that created it; pid: its pid has been written;              *)
(* old: its mtime is at least STALE_AFTER ago.                               *)
Files == [by : Takers, pid : BOOLEAN, old : BOOLEAN] \cup {NoFile}

Steps == {"idle", "try", "write", "locked", "read", "test",
          "stat", "remove", "wait", "dead"}

LockTypeOK ==
    /\ lockFile \in Files
    /\ pc \in [Takers -> Steps]
    /\ found \in [Takers -> Processes \cup {"none"}]
    /\ tries \in [Takers -> 0..Retries]
    /\ running \in SUBSET Processes
    /\ calm \in BOOLEAN

LockInit ==
    /\ lockFile = NoFile
    /\ pc = [t \in Takers |-> "idle"]
    /\ found = [t \in Takers |-> "none"]
    /\ tries = [t \in Takers |-> 0]
    /\ running = Processes
    /\ calm = TRUE

GoOn(t, where) == pc' = [pc EXCEPT ![t] = where]

-----------------------------------------------------------------------------
(* acquire / acquire_blocking (n = 0) and acquire_for_background (n = Retries)*)
Request(t) ==
    /\ pc[t] = "idle"
    /\ \E n \in {0, Retries} : tries' = [tries EXCEPT ![t] = n]
    /\ GoOn(t, "try")
    /\ UNCHANGED <<lockFile, found, running, calm>>

(* try_create: O_EXCL makes the empty file ... *)
Create(t) ==
    /\ pc[t] = "try"
    /\ lockFile = NoFile
    /\ lockFile' = [by |-> t, pid |-> FALSE, old |-> FALSE]
    /\ GoOn(t, "write")
    /\ UNCHANGED <<found, tries, running, calm>>

(* ... and the pid is written through the open handle: if the path has been  *)
(* removed or re-created meanwhile the bytes go to the unlinked file.        *)
WritePid(t) ==
    /\ pc[t] = "write"
    /\ lockFile' = IF lockFile.by = t THEN [lockFile EXCEPT !.pid = TRUE, !.old = FALSE]
                              ELSE lockFile
    /\ GoOn(t, "locked")
    /\ UNCHANGED <<found, tries, running, calm>>

(* writeln! fails: the error is not contention, so acquire returns it, and   *)
(* the file made a moment ago stays, empty.                                  *)
WritePidFails(t) ==
    /\ t \in Failing
    /\ pc[t] = "write"
    /\ tries' = [tries EXCEPT ![t] = 0]
    /\ GoOn(t, "idle")
    /\ UNCHANGED <<lockFile, found, running, calm>>

(* AlreadyExists (or Windows' PermissionDenied): on to remove_stale_lock     *)
Contend(t) ==
    /\ pc[t] = "try"
    /\ lockFile # NoFile
    /\ GoOn(t, "read")
    /\ UNCHANGED <<lockFile, found, tries, running, calm>>

(* The owner's pid, if there is a file and the pid is in it.                 *)
PidIn(f) == IF f.pid THEN Proc[f.by] ELSE "none"

(* Mutant: a file without a pid is taken for one of a dead process. *)
ReadPidEmptyIsDead(t) ==
    /\ pc[t] = "read"
    /\ found' = [found EXCEPT ![t] = PidIn(lockFile)]
    /\ GoOn(t, IF lockFile.pid THEN "test" ELSE "remove")
    /\ UNCHANGED <<lockFile, tries, running, calm>>

(* remove_stale_lock reads the file: without a pid it goes by the age        *)
ReadPid(t) ==
    /\ pc[t] = "read"
    /\ found' = [found EXCEPT ![t] = PidIn(lockFile)]
    /\ GoOn(t, IF lockFile.pid THEN "test" ELSE "stat")
    /\ UNCHANGED <<lockFile, tries, running, calm>>

(* process_is_running asks the system about the pid that was read, by a      *)
(* helper process, while the file goes its own way. Its own pid always runs. *)
TestPid(t) ==
    /\ pc[t] = "test"
    /\ found' = [found EXCEPT ![t] = "none"]
    /\ GoOn(t, IF found[t] \in running THEN "stat" ELSE "remove")
    /\ UNCHANGED <<lockFile, tries, running, calm>>

(* Mutant: the age of the file is not looked at. *)
ReadMtimeNever(t) ==
    /\ pc[t] = "stat"
    /\ GoOn(t, "wait")
    /\ UNCHANGED <<lockFile, found, tries, running, calm>>

ReadMtime(t) ==
    /\ pc[t] = "stat"
    /\ GoOn(t, IF lockFile.old THEN "remove" ELSE "wait")
    /\ UNCHANGED <<lockFile, found, tries, running, calm>>

(* remove_file acts on the path: whatever file is there by now goes          *)
RemoveStale(t) ==
    /\ pc[t] = "remove"
    /\ lockFile' = NoFile
    /\ GoOn(t, "wait")
    /\ UNCHANGED <<found, tries, running, calm>>

(* POLL_INTERVAL has passed and WAIT_TIMEOUT has not *)
PollAgain(t) ==
    /\ pc[t] = "wait"
    /\ GoOn(t, "try")
    /\ UNCHANGED <<lockFile, found, tries, running, calm>>

(* WAIT_TIMEOUT has passed: a background request with attempts left sleeps   *)
(* its retry delay and starts over, unless is_stale() by then; a last attempt *)
(* and every other request returns the error.                                *)
TimeOut(t) ==
    /\ pc[t] = "wait"
    /\ \/ /\ tries[t] > 0
          /\ tries' = [tries EXCEPT ![t] = @ - 1]
          /\ GoOn(t, "try")
       \/ /\ tries' = [tries EXCEPT ![t] = 0]
          /\ GoOn(t, "idle")
    /\ UNCHANGED <<lockFile, found, running, calm>>

(* Drop: removes the path without asking whose file it is *)
Release(t) ==
    /\ pc[t] = "locked"
    /\ lockFile' = NoFile
    /\ tries' = [tries EXCEPT ![t] = 0]
    /\ GoOn(t, "idle")
    /\ UNCHANGED <<found, running, calm>>

-----------------------------------------------------------------------------
(* p's pid is in the lock file, or another process has read it from one and  *)
(* is about to ask whether it runs.                                          *)
Named(p) ==
    \/ PidIn(lockFile) = p
    \/ \E t \in Takers : Proc[t] # p /\ found[t] = p

(* The process is gone, whatever its tasks were at.                          *)
Ends(p) ==
    /\ running' = running \ {p}
    /\ pc' = [t \in Takers |-> IF Proc[t] = p THEN "dead" ELSE pc[t]]
    /\ found' = [t \in Takers |-> IF Proc[t] = p THEN "none" ELSE found[t]]
    /\ tries' = [t \in Takers |-> IF Proc[t] = p THEN 0 ELSE tries[t]]
    /\ calm' = (calm /\ ~Named(p))
    /\ UNCHANGED lockFile

(* Killed at any step, it drops nothing.                                     *)
Crash(p) == p \in Crashable \cap running /\ Ends(p)

(* A command is done, or an application is closed: the locks its tasks held  *)
(* have been dropped; tasks that still ask just stop asking.                 *)
Exit(p) ==
    /\ p \in Leaving \cap running
    /\ \A t \in Takers : Proc[t] = p => pc[t] \notin {"write", "locked"}
    /\ Ends(p)

(* Two minutes pass over a file. A live holder is that late only if Slow;    *)
(* a file no live task is working under always gets there.                   *)
Owned == pc[lockFile.by] \in {"write", "locked"}

Age ==
    /\ lockFile # NoFile
    /\ ~lockFile.old
    /\ Owned => lockFile.by \in Slow
    /\ lockFile' = [lockFile EXCEPT !.old = TRUE]
    /\ calm' = FALSE
    /\ UNCHANGED <<pc, found, tries, running>>

TakerStep(t) ==
    \/ Request(t) \/ Create(t) \/ WritePid(t) \/ WritePidFails(t)
    \/ Contend(t) \/ ReadPid(t) \/ TestPid(t) \/ ReadMtime(t)
    \/ RemoveStale(t) \/ PollAgain(t) \/ TimeOut(t) \/ Release(t)

LockNext ==
    \/ \E t \in Takers : TakerStep(t)
    \/ \E p \in Processes : Crash(p) \/ Exit(p)
    \/ Age

LockSpec == LockInit /\ [][LockNext]_lockVars

(* Tasks of processes that stay, a daemon's.                                 *)
Resident == {t \in Takers : Proc[t] \notin Crashable \cup Leaving}

(* Every loop keeps being scheduled, holders finish, and time passes. A      *)
(* daemon's poll loops ask again for ever, so for them Request is fair too.  *)
(* Nothing is assumed of timeouts, ends of processes and failed writes.      *)
Fairness ==
    /\ \A t \in Takers :
          WF_lockVars(Create(t) \/ WritePid(t) \/ Contend(t)
                  \/ ReadPid(t) \/ TestPid(t) \/ ReadMtime(t)
                  \/ RemoveStale(t) \/ PollAgain(t) \/ Release(t))
    /\ \A t \in Resident : WF_lockVars(Request(t))
    /\ WF_lockVars(Age)

FairSpec == LockSpec /\ Fairness

-----------------------------------------------------------------------------
(* The point of the lock ("Acquire the cross-process config transaction      *)
(* lock", config_lock.rs): at most one task is between acquire and drop.     *)
Holders == {t \in Takers : pc[t] = "locked"}

MutualExclusion == \A s, t \in Holders : s = t

(* The lock excludes for as long as no lock file gets two minutes old and no *)
(* process ends whose pid is in the file or was read by a contender that has *)
(* yet to test it. All else leaves it intact: processes that come and go,    *)
(* also killed, a file left without its pid, contention at every step. Those *)
(* two do not: the contender's read, test and removal are three system calls *)
(* and the file is another's by the last, though its owner just exited.      *)
CalmExclusion == calm => MutualExclusion

(* Why: until then a task that got past O_EXCL still has its own file at the *)
(* path, a pid in the file or in hand is that of a running process, and so   *)
(* nobody judges a file stale.                                               *)
OwnFile ==
    calm =>
        /\ \A t \in Takers : pc[t] \in {"write", "locked"} => lockFile.by = t
        /\ lockFile.pid => pc[lockFile.by] = "locked"
        /\ \A t \in Takers : pc[t] # "dead" => Proc[t] \in running
        /\ ~lockFile.old
        /\ \A t \in Takers : pc[t] = "test" => found[t] \in running
        /\ \A t \in Takers : pc[t] # "remove"

(* A file nobody works under, left by a killed process or a failed write,    *)
(* does not lock the others out for ever: as long as a daemon keeps asking   *)
(* it disappears, through its dead pid or, with no pid, its age.             *)
Abandoned == lockFile # NoFile /\ ~Owned

AbandonedLockIsFreed ==
    (Abandoned /\ Resident # {}) ~> ~Abandoned
=============================================================================
