------------------------------ MODULE MCClaims ------------------------------
(***************************************************************************)
(* One short program for each property of Claims.                          *)
(***************************************************************************)
EXTENDS Claims, MCAssembler

ClaimOptions == {ExplicitOnly}

\* .data, then the .space 8 of test1.s between two words.
SpaceSource == <<{dot_data}, {datum(4, 1)}, {space(8)}, {datum(4, 1)}>>

\* A branch forward over one instruction: six bytes when it is compressed, eight
\* when it is not.
ForwardSource == <<{dot_text}, {beqz(L1)}, {add}, {label(L1)}, {add}>>

\* .byte 128, refused with "out of range for .byte", then a valid line.
RangeSource == <<{dot_data}, {datum(1, 128)}, {datum(1, 1)}>>

\* A word of data, and its address loaded.
LaSource == <<{dot_data}, {label(L1)}, {datum(4, 1)}, {dot_text}, {la(5, L1)}>>

\* The instructions of test10.s, on RV64.
RV64C == {Opts(64, TRUE, FALSE, "OUT_ELF")}
CSource ==
  <<{dot_text},
    {instr(x) : x \in
       {ci_type("OP_C_ADDI", 1, 1, 1), ci_type("OP_C_SLLI", 1, 1, 3),
        ci_type("OP_C_SRLI", 8, 8, 4), ci_type("OP_C_ANDI", 10, 10, -1),
        ci_type("OP_C_LWSP", 5, 2, 16), ci_type("OP_C_LDSP", 6, 2, 24),
        cr_type("OP_C_ADD", 6, 6, 7), cr_type("OP_C_JR", 0, 1, 0),
        ca_type("OP_C_SUB", 8, 9), ca_type("OP_C_XOR", 8, 9), ca_type("OP_C_OR", 8, 9),
        ca_type("OP_C_AND", 8, 9), ca_type("OP_C_SUBW", 8, 9), ca_type("OP_C_ADDW", 8, 9),
        cl_type("OP_C_LW", 8, 0, 9), cl_type("OP_C_LD", 8, 8, 9),
        cs_type("OP_C_SW", 10, 4, 11), cs_type("OP_C_SD", 10, 8, 11),
        css_type("OP_C_SWSP", 14, 8), css_type("OP_C_SDSP", 15, 16),
        cb_label("OP_C_BEQZ", 12, L1), cb_label("OP_C_BNEZ", 13, L1),
        cj_label("OP_C_J", L1)}},
    {instr(c_nop)}, {label(L1)}, {instr(c_nop)}>>
=============================================================================
