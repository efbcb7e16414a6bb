-------------------------- MODULE MCShareMembership --------------------------
(* Every profile has one device, which bears its name. *)
EXTENDS ShareMembership

MCProfileOf == [d \in Device |-> d]

OnlyCreator == [p \in Profile |-> IF p = Creator THEN "admin" ELSE "none"]
AllAdmins == [p \in Profile |-> "admin"]
=============================================================================
