------------------------------- MODULE MCAta -------------------------------
(* Two sectors around a carry through three address registers into the     *)
(* fourth, and the sector that an address without the fourth names.        *)
EXTENDS Ata

MCSectors == {0, 16777215, 16777216}

=============================================================================
