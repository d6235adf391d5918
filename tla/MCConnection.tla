---------------------------- MODULE MCConnection ----------------------------
(***************************************************************************)
(* Model values for Connection: a one-byte magic (the code's is 18 bytes). *)
(***************************************************************************)
EXTENDS Connection

MCMagic == <<"m">>

=============================================================================
