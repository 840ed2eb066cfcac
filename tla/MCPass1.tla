------------------------------ MODULE MCPass1 ------------------------------
(***************************************************************************)
(* Instances of pass 1: short source files over an alphabet with at least  *)
(* one statement of every kind the grammar has.                            *)
(***************************************************************************)
EXTENDS Pass1

CONSTANTS L1, L2

RV32 == [xlen |-> 32, extM |-> FALSE, extC |-> FALSE, autoC |-> TRUE, out_fmt |-> "OUT_RAW"]
MCOptions == {RV32}

MCLabels == {L1, L2}

\* With counters of six bits, .space 61 takes the next statement across the wrap and
\* .space 67 does not fit the word it is narrowed to.
Directives ==
  {dot_text, dot_data, eof, syntax, align(4), align(0), space(3), space(0), space(-1),
   space(61), space(67), datum(1, 127), datum(1, 128), datum(2, 1), datum(8, 1), ascii(2),
   asciiz(1)}

Instructions == {instr(nop), instr(c_nop), instr(b_label("OP_BEQ", 8, 0, L1)), la(5, L2)}

Alphabet == Directives \cup Instructions \cup {label(l) : l \in MCLabels}

\* Up to five statements, each but the first any of the alphabet.
MCSource ==
  <<{dot_data, label(L1), instr(c_nop), space(61)}>> \o [n \in 1 .. 4 |-> Alphabet]

\* A run-time shift count is taken modulo 32 by the machines the Makefile builds for:
\* 1u << 32 gives 1, 1u << 33 gives 2.
MCUndefinedAlign == {1, 2}
=============================================================================
