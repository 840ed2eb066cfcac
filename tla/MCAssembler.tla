---------------------------- MODULE MCAssembler ----------------------------
(***************************************************************************)
(* Instances of the whole assembler: every short program over an alphabet, *)
(* and a few longer programs written out line by line.                     *)
(***************************************************************************)
EXTENDS Assembler

CONSTANTS L1, L2

MCLabels == {L1, L2}
MCUndefinedAlign == {1, 2}

Opts(xlen, c, auto, fmt) ==
  [xlen |-> xlen, extM |-> FALSE, extC |-> c, autoC |-> auto, out_fmt |-> fmt]

\* -mc -mcompress -felf on RV32, the flags of tests 11 and 15; -m64 -mc -mcompress
\* into a raw file; -mc alone; no option, so -mcompress is ignored.
CompressElf == Opts(32, TRUE, TRUE, "OUT_ELF")
Compress64Raw == Opts(64, TRUE, TRUE, "OUT_RAW")
ExplicitOnly == Opts(32, TRUE, FALSE, "OUT_ELF")
NoCompression == Opts(32, FALSE, TRUE, "OUT_RAW")

AllOptions == {CompressElf, Compress64Raw, ExplicitOnly, NoCompression}
BranchOptions == {CompressElf, ExplicitOnly}
CascadeOptions == {CompressElf}

add == instr(r_type("OP_ADD", 5, 6, 7))     \* has no compressed form
beqz(l) == instr(b_label("OP_BEQ", 8, 0, l))

-----------------------------------------------------------------------------
\* Branches of every size to a label that may be near, far (300 bytes of .space
\* away), misplaced in .data, or missing.
BranchAlphabet ==
  {eof, label(L1), space(300), dot_text, dot_data, datum(4, 1), instr(nop), add, beqz(L1),
   instr(b_label("OP_BLT", 8, 9, L1)), instr(j_label(1, L1)),
   instr(cb_label("OP_C_BNEZ", 9, L1)), la(5, L1)}
BranchSource == [n \in 1 .. 4 |-> BranchAlphabet]

\* A statement for each way to succeed, to be refused and to fail; the first lines are
\* narrowed so that both sections, in either order, fit into four.
FailureAlphabet ==
  {eof, syntax, dot_text, dot_data, label(L1), align(4), space(3), datum(1, 1), datum(1, 128),
   ascii(1), instr(nop), instr(c_nop), instr(cl_type("OP_C_LD", 8, 8, 9)), beqz(L1),
   la(5, L1)}
FailureSource ==
  <<{dot_data, label(L1), instr(nop)},
    {datum(1, 1), datum(1, 128), datum(8, 1), instr(c_nop), la(5, L1), eof},
    {dot_text, dot_data, syntax, space(3)},
    FailureAlphabet>>

-----------------------------------------------------------------------------
\* A program in which dropping one compressed branch pushes the next one out of
\* range.  n labels stand at 0, 4, 8, ...; after 256 bytes and a nop that is
\* compressed come n branches, the k-th to the k-th label.  Branch 1 is two bytes
\* out of reach; each branch that grows by two bytes moves the ones behind it.
CascadeLabels == 1 .. 12
Cascade(n) ==
  LET Marked == [k \in 1 .. 2 * n |->
                   IF k % 2 = 1 THEN {label((k + 1) \div 2)} ELSE {add}]
      Filler == [k \in 1 .. 64 - n |-> {add}]
      Branches == [k \in 1 .. n |-> {beqz(k)}]
  IN Marked \o Filler \o <<{instr(nop)}>> \o Branches
CascadeSeven == Cascade(7)
CascadeNine == Cascade(9)
=============================================================================
