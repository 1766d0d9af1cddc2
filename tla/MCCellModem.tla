---------------------------- MODULE MCCellModem ----------------------------
(* Two towers; the order of the delays is that of the code's defaults. *)
EXTENDS CellModem
=============================================================================
