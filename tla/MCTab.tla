-------------------------------- MODULE MCTab --------------------------------
(***************************************************************************)
(* A small instance of Tab: two files.                                     *)
(***************************************************************************)
EXTENDS Tab
=============================================================================
