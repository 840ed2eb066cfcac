------------------------------ MODULE MCSymTab ------------------------------
(***************************************************************************)
(* A table of two slots that grows to 5 and 11 (the program's 53 grows to  *)
(* 107 and 223) and five labels, three of them in one chain until the      *)
(* array has eleven slots.                                                 *)
(***************************************************************************)
EXTENDS SymTab

MCLabels == 1 .. 5
MCValues == {0, 4}
MCHash == <<0, 5, 10, 1, 7>>
=============================================================================
