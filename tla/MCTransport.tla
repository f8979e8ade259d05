---------------------------- MODULE MCTransport -----------------------------
(***************************************************************************)
(* Releases of two versions on two networks; a body of the largest size    *)
(* and one above it.                                                       *)
(***************************************************************************)
EXTENDS Transport

MCSize == [full |-> 2, over |-> 3]
=============================================================================
