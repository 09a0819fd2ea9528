------------------------------ MODULE MCSynch ------------------------------
(***************************************************************************)
(* Small instances of Synch.                                               *)
(***************************************************************************)
EXTENDS Synch

=============================================================================
