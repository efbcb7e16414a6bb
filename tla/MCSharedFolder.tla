--------------------------- MODULE MCSharedFolder ----------------------------
(* Every profile has one device, which bears its name. *)
EXTENDS SharedFolder, TLC

MCProfileOf == [d \in Device |-> d]

AdminAndEditor ==
    [p \in Profile |-> CASE p = "a" -> "admin" [] p = "b" -> "none"
                         [] OTHER -> "editor"]
=============================================================================
