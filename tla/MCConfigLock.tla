---------------------------- MODULE MCConfigLock ----------------------------
(* Instances of ConfigLock: two tasks of one process, the daemon, and one of *)
(* each of two others, commands or native shells that come and go.           *)
EXTENDS ConfigLock, TLC

CONSTANTS t1, t2, t3, t4, p1, p2, p3

MCTasks == {t1, t2, t3, t4}
MCProcesses == {p1, p2, p3}
MCProc == t1 :> p1 @@ t2 :> p1 @@ t3 :> p2 @@ t4 :> p3
=============================================================================
