------------------------ MODULE MCConnectionResolver ------------------------
(* Small instances of ConnectionResolver for TLC. *)
EXTENDS ConnectionResolver
=============================================================================
