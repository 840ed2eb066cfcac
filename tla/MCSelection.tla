---------------------------- MODULE MCSelection ----------------------------
(***************************************************************************)
(* One instruction at a time: what the rules choose for it and the word    *)
(* the encoders make of it.                                                *)
(***************************************************************************)
EXTENDS MCAssembler

CompressOptions == {[CompressElf EXCEPT !.extM = TRUE], [Compress64Raw EXCEPT !.extM = TRUE]}

\* One instruction: every operation some rule of c_rules.c looks at, over the
\* registers at which a rule changes its mind and the immediates on both sides of
\* every bound a rule or an encoder tests.
Regs == {0, 1, 2, 8, 15, 16}
Imms == {-2049, -2048, -257, -256, -33, -32, -1, 0, 1, 2, 4, 8, 31, 32, 63, 64, 124, 126,
         128, 248, 252, 254, 256, 504, 512, 2046, 2047, 2048}

PowersOfTwo == {2^k : k \in 0 .. 28} \cup {-(2^k) : k \in 0 .. 28} \cup {0, 4096 * 1023}
Primes == {8, 9, 10, 12}

SelectionAlphabet ==
  {instr(x) : x \in
     {r_type(op, rd, rs1, rs2) :
        op \in {"OP_ADD", "OP_SUB", "OP_XOR", "OP_OR", "OP_AND", "OP_ADDW", "OP_SUBW", "OP_SLL"},
        rd \in Regs, rs1 \in Regs, rs2 \in Regs}
     \cup {i_type(op, rd, rs1, imm) :
        op \in {"OP_ADDI", "OP_SLLI", "OP_SRLI", "OP_SRAI", "OP_ANDI", "OP_JALR", "OP_LW",
                "OP_LD", "OP_ADDIW"},
        rd \in Regs, rs1 \in Regs, imm \in Imms}
     \cup {s_type(op, rs2, imm, rs1) :
        op \in {"OP_SW", "OP_SD"}, rs2 \in Regs, imm \in Imms, rs1 \in Regs}
     \cup {b_type(op, rs1, rs2, imm) :
        op \in {"OP_BEQ", "OP_BNE", "OP_BLT"}, rs1 \in Regs, rs2 \in Regs, imm \in Imms}
     \cup {j_type(rd, imm) : rd \in Regs, imm \in Imms}
     \cup {j_label(rd, L1) : rd \in Regs}
     \cup {b_label(op, rs1, 0, L1) : op \in {"OP_BEQ", "OP_BNE"}, rs1 \in Regs}
     \cup {i_type("OP_EBREAK", 0, 0, 0)}
     \* Every operation the encoders know, with immediates that have one bit set or one
     \* bit clear, so that each bit of a field is seen on its own.
     \cup {r_type(op, rd, 4, 24) : op \in {"OP_SLT", "OP_SLTU", "OP_SLL", "OP_SRL", "OP_SRA"}
                                \cup RegW \cup OpsM, rd \in {3, 17}}
     \cup {i_type(op, rd, 26, imm) :
        op \in {"OP_SLTI", "OP_SLTIU", "OP_XORI", "OP_ORI", "OP_ADDI", "OP_SLLI", "OP_SRLI",
                "OP_SRAI", "OP_JALR", "OP_ADDIW", "OP_SLLIW", "OP_SRLIW", "OP_SRAIW"} \cup Loads,
        rd \in {5, 18}, imm \in PowersOfTwo}
     \cup {i_type("OP_ECALL", 0, 0, 0)}
     \cup {s_type(op, 20, imm, 11) : op \in {"OP_SB", "OP_SH", "OP_SW", "OP_SD"},
                                     imm \in PowersOfTwo}
     \cup {b_type(op, 21, 10, imm) : op \in {"OP_BEQ", "OP_BNE", "OP_BLT", "OP_BGE", "OP_BLTU",
                                             "OP_BGEU"}, imm \in PowersOfTwo}
     \cup {j_type(rd, imm) : rd \in {1, 22}, imm \in PowersOfTwo}
     \cup {ui_type(op, 23, imm) : op \in {"OP_LUI", "OP_AUIPC"}, imm \in PowersOfTwo}
     \cup {ci_type(op, rd, rd, imm) :
        op \in {"OP_C_ADDI", "OP_C_ADDIW", "OP_C_SLLI", "OP_C_SRLI", "OP_C_SRAI",
                "OP_C_ANDI"}, rd \in Primes \cup {1, 2, 16}, imm \in PowersOfTwo}
     \cup {ci_type(op, rd, 0, imm) :
        op \in {"OP_C_LUI", "OP_C_LI"}, rd \in Primes \cup {1, 2, 16}, imm \in PowersOfTwo}
     \cup {ci_type("OP_C_LWSP", rd, 2, imm) : rd \in Primes \cup {1, 16}, imm \in PowersOfTwo}
     \cup {cr_type(op, rd, 0, rs2) : op \in {"OP_C_MV"}, rd \in {5, 18}, rs2 \in {0, 9, 22}}
     \cup {cr_type("OP_C_ADD", rd, rd, rs2) : rd \in {5, 18}, rs2 \in {0, 9, 22}}
     \cup {cr_type(op, 0, rs1, 0) : op \in {"OP_C_JR", "OP_C_JALR"}, rs1 \in {0, 5, 26}}
     \cup {cr_type("OP_C_EBREAK", 0, 0, 0)}
     \cup {cl_type(op, rd, imm, rs1) : op \in {"OP_C_LW", "OP_C_LD"}, rd \in Primes,
                                      rs1 \in Primes, imm \in PowersOfTwo}
     \cup {cs_type(op, rs2, imm, rs1) : op \in {"OP_C_SW", "OP_C_SD"}, rs2 \in Primes,
                                       rs1 \in Primes, imm \in PowersOfTwo}}
SelectionSource == <<{label(L1)}, SelectionAlphabet>>
=============================================================================
