-------------------------------- MODULE MCAccess --------------------------------
(***************************************************************************)
(* A founder, somebody who may be invited, and a holder of a support       *)
(* grant; all of them may ask for everything that is told apart.           *)
(***************************************************************************)
EXTENDS Access

CONSTANTS ann, bob, eve

MCPeople == {ann, bob, eve}

AllOperations ==
    [kind : {"invite"}, target : {bob}, role : {"owner", "admin"}]
        \union [kind : {"change"}, target : {bob}, role : {"owner", "analyst"}]
        \union [kind : {"change"}, target : {ann}, role : {"admin"}]
        \union [kind : {"revoke"}, target : {ann, bob}, role : {"analyst"}]
        \union {Reading}
=============================================================================
