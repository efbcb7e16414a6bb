---------------------------- MODULE MCFriendBackup ----------------------------
(* An instance of FriendBackup: an owner whose second tree shares a blob     *)
(* with its first, and a host with two processes.                            *)
EXTENDS FriendBackup

CONSTANTS alice, p, q, a, b, c

Changing == [x \in Owners |-> <<{a, b}, {b, c}>>]
=============================================================================
