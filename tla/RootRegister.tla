---------------------------- MODULE RootRegister ----------------------------
(* What exchanging one AppKey's drive roots promises: the owner lines its    *)
(* roots up, and whoever follows it only ever moves forward along that line. *)
EXTENDS Naturals

CONSTANT MaxRoots  \* bound on the owner's roots

VARIABLES
    made,  \* how many roots the owner has made
    seen   \* the follower's place among them, 0 before the first

Init == made = 0 /\ seen = 0

Make == made < MaxRoots /\ made' = made + 1 /\ UNCHANGED seen

Learn == seen' \in (seen + 1)..made /\ UNCHANGED made

Next == Make \/ Learn

Spec == Init /\ [][Next]_<<made, seen>>
=============================================================================
