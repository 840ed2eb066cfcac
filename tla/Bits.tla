-------------------------------- MODULE Bits --------------------------------
(***************************************************************************)
(* The words pass 2 writes (src/pass2.c, the encode_* packers and the      *)
(* tables they read).  A word is the set of the positions at which it has  *)
(* a 1.  x is an operand record that Encode accepts.                       *)
(***************************************************************************)
EXTENDS Encode

\* Bit k of the two's complement of v, where v has at most 32 bits when k is above 30.
ASSUME BitAssumption == HalfMod - 1 <= 2147483647

Bit(v, k) == IF k > 30 THEN v < 0 ELSE (v \div 2^k) % 2 = 1

\* put(w, hi, lo, v >> from) into a field that is still 0, and
\* ((v >> from) & mask) << lo with a mask of hi - lo + 1 bits.
put(hi, lo, v, from) == {k \in lo .. hi : Bit(v, from + k - lo)}
Field(hi, lo, v) == put(hi, lo, v, 0)

\* write_word_le, write_half_le, write_value_le: size bytes of v.
ValueBits(v, size) == Field(8 * size - 1, 0, v)

-----------------------------------------------------------------------------
(***************************************************************************)
(* encoding_table                                                          *)
(***************************************************************************)
Loads == {"OP_LB", "OP_LH", "OP_LW", "OP_LD", "OP_LBU", "OP_LHU", "OP_LWU"}
RegW == {"OP_ADDW", "OP_SUBW", "OP_SLLW", "OP_SRLW", "OP_SRAW"} \cup OpsM64
ImmW == {"OP_ADDIW", "OP_SLLIW", "OP_SRLIW", "OP_SRAIW"}
OpImm == {"OP_ADDI", "OP_SLTI", "OP_SLTIU", "OP_XORI", "OP_ORI", "OP_ANDI"} \cup Shifts

opcode(x) ==
  CASE x.op \in RegW -> \h3B   [] x.fmt = "IF_R" /\ x.op \notin RegW -> \h33
    [] x.op \in Loads -> \h03  [] x.op = "OP_JALR" -> \h67
    [] x.op \in {"OP_ECALL", "OP_EBREAK"} -> \h73
    [] x.op \in ImmW -> \h1B   [] x.op \in OpImm -> \h13
    [] x.fmt = "IF_S" -> \h23  [] x.fmt = "IF_B" -> \h63
    [] x.fmt = "IF_J" -> \h6F
    [] x.op = "OP_AUIPC" -> \h17 [] x.op = "OP_LUI" -> \h37

funct3(op) ==
  CASE op \in {"OP_SLL", "OP_MULH", "OP_SLLW", "OP_SLLI", "OP_LH", "OP_SLLIW", "OP_SH",
               "OP_BNE"} -> 1
    [] op \in {"OP_SLT", "OP_MULHSU", "OP_LW", "OP_SLTI", "OP_SW"} -> 2
    [] op \in {"OP_SLTU", "OP_MULHU", "OP_SLTIU", "OP_LD", "OP_SD"} -> 3
    [] op \in {"OP_XOR", "OP_DIV", "OP_DIVW", "OP_XORI", "OP_LBU", "OP_BLT"} -> 4
    [] op \in {"OP_SRL", "OP_SRA", "OP_DIVU", "OP_SRLW", "OP_SRAW", "OP_DIVUW", "OP_SRLI",
               "OP_SRAI", "OP_LHU", "OP_SRLIW", "OP_SRAIW", "OP_BGE"} -> 5
    [] op \in {"OP_OR", "OP_REM", "OP_REMW", "OP_ORI", "OP_LWU", "OP_BLTU"} -> 6
    [] op \in {"OP_AND", "OP_REMU", "OP_REMUW", "OP_ANDI", "OP_BGEU"} -> 7
    [] OTHER -> 0

funct7(op) ==
  CASE op \in {"OP_SUB", "OP_SRA", "OP_SUBW", "OP_SRAW", "OP_SRAI", "OP_SRAIW"} -> \h20
    [] op \in OpsM \cup OpsM64 -> 1
    [] OTHER -> 0

-----------------------------------------------------------------------------
Major(x) == Field(6, 0, opcode(x)) \cup Field(14, 12, funct3(x.op))

rtype_word(x) ==
  Major(x) \cup Field(11, 7, x.rd) \cup Field(19, 15, x.rs1) \cup Field(24, 20, x.rs2)
    \cup Field(31, 25, funct7(x.op))

\* ecall and ebreak have fixed operands; RV64 shifts have a funct6 and six bits.
itype_word(cfg, x) ==
  IF x.op \in {"OP_EBREAK", "OP_ECALL"}
  THEN Major(x) \cup Field(31, 20, IF x.op = "OP_EBREAK" THEN 1 ELSE 0)
  ELSE Major(x) \cup Field(11, 7, x.rd) \cup Field(19, 15, x.rs1)
    \cup (IF x.op \in Shifts /\ cfg.xlen = 64
          THEN Field(31, 26, IF x.op = "OP_SRAI" THEN \h10 ELSE funct7(x.op))
                 \cup Field(25, 20, x.imm)
          ELSE IF x.op \in Shifts \cup ShiftsW
          THEN Field(31, 25, funct7(x.op)) \cup Field(24, 20, x.imm)
          ELSE Field(31, 20, x.imm))

stype_word(x) ==
  Major(x) \cup put(31, 25, x.imm, 5) \cup Field(24, 20, x.rs2) \cup Field(19, 15, x.rs1)
    \cup Field(11, 7, x.imm)

\* Branch and jump offsets are shifted right by one before they are scattered.
Halved(x) == x.imm \div 2

btype_word(x) ==
  Major(x) \cup Field(24, 20, x.rs2) \cup Field(19, 15, x.rs1)
    \cup put(31, 31, Halved(x), 11) \cup put(30, 25, Halved(x), 4)
    \cup Field(11, 8, Halved(x)) \cup put(7, 7, Halved(x), 10)

\* Mutant of jtype_word: bits 10 and 11 of the halved offset not told apart.
jtype_word_Shifted(x) ==
  Field(6, 0, opcode(x)) \cup Field(11, 7, x.rd)
    \cup put(31, 31, Halved(x), 19) \cup Field(30, 21, Halved(x))
    \cup put(20, 20, Halved(x), 10) \cup put(19, 12, Halved(x), 10)

jtype_word(x) ==
  Field(6, 0, opcode(x)) \cup Field(11, 7, x.rd)
    \cup put(31, 31, Halved(x), 19) \cup Field(30, 21, Halved(x))
    \cup put(20, 20, Halved(x), 10) \cup put(19, 12, Halved(x), 11)

uitype_word(x) == Field(6, 0, opcode(x)) \cup Field(11, 7, x.rd) \cup put(31, 12, x.imm, 12)

Word32(cfg, x) ==
  CASE x.fmt = "IF_R" -> rtype_word(x) [] x.fmt = "IF_I" -> itype_word(cfg, x)
    [] x.fmt = "IF_S" -> stype_word(x) [] x.fmt = "IF_B" -> btype_word(x)
    [] x.fmt = "IF_J" -> jtype_word(x) [] x.fmt = "IF_UI" -> uitype_word(x)

-----------------------------------------------------------------------------
(***************************************************************************)
(* c_encoding_table, as c_build_tags and the CR and CA packers read it.    *)
(***************************************************************************)
AluCA == {"OP_C_SUB", "OP_C_XOR", "OP_C_OR", "OP_C_AND", "OP_C_SUBW", "OP_C_ADDW"}
StackOps == {"OP_C_LWSP", "OP_C_LDSP", "OP_C_SWSP", "OP_C_SDSP"}

quadrant(x) ==
  CASE x.fmt \in {"IF_CL", "IF_CS"} -> 0
    [] x.fmt \in {"IF_CR", "IF_CSS"} \/ x.op \in StackOps \cup {"OP_C_SLLI"} -> 2
    [] OTHER -> 1

c_funct3(op) ==
  CASE op \in {"OP_C_ADDI", "OP_C_SLLI"} -> 0
    [] op \in {"OP_C_ADDIW", "OP_C_JAL"} -> 1
    [] op \in {"OP_C_LI", "OP_C_LW", "OP_C_LWSP"} -> 2
    [] op \in {"OP_C_LUI", "OP_C_LD", "OP_C_LDSP"} -> 3
    [] op = "OP_C_J" -> 5
    [] op \in {"OP_C_BEQZ", "OP_C_SW", "OP_C_SWSP"} -> 6
    [] op \in {"OP_C_BNEZ", "OP_C_SD", "OP_C_SDSP"} -> 7
    [] OTHER -> 4

op12(op) == IF op \in AluCA \cup {"OP_C_ADD", "OP_C_JALR", "OP_C_EBREAK"} THEN 1 ELSE 0

op11_10(op) ==
  CASE op \in {"OP_C_SUB", "OP_C_XOR", "OP_C_OR", "OP_C_AND"} -> 3
    [] op \in {"OP_C_SUBW", "OP_C_ADDW", "OP_C_SRAI"} -> 1
    [] op = "OP_C_ANDI" -> 2
    [] OTHER -> 0

op6_5(op) ==
  CASE op \in {"OP_C_XOR", "OP_C_ADDW"} -> 1
    [] op = "OP_C_OR" -> 2
    [] op = "OP_C_AND" -> 3
    [] OTHER -> 0

c_build_tags(x) ==
  Field(15, 13, c_funct3(x.op)) \cup Field(12, 12, op12(x.op)) \cup Field(11, 10, op11_10(x.op))
    \cup Field(6, 5, op6_5(x.op)) \cup Field(1, 0, quadrant(x))

-----------------------------------------------------------------------------
\* c_regp and put for a register that one of x8 .. x15 must be.
Prime(hi, lo, r) == Field(hi, lo, r - 8)

crtype_half(x) ==
  Field(11, 7, IF x.op \in {"OP_C_JR", "OP_C_JALR"} THEN x.rs1 ELSE x.rd)
    \cup Field(6, 2, x.rs2)

catype_half(x) == Prime(9, 7, x.rd) \cup Prime(4, 2, x.rs2)

put_imm5_0_ci(u6) == put(12, 12, u6, 5) \cup Field(6, 2, u6)

\* c.ldsp puts no register.
citype_half(x) ==
  CASE x.op = "OP_C_LWSP" -> Field(11, 7, x.rd) \cup put(12, 12, x.imm, 5)
                               \cup put(6, 4, x.imm, 2) \cup put(3, 2, x.imm, 6)
    [] x.op = "OP_C_LDSP" -> put(12, 12, x.imm, 5) \cup put(6, 5, x.imm, 3)
                               \cup put(4, 2, x.imm, 6)
    [] x.op \in {"OP_C_SRLI", "OP_C_SRAI", "OP_C_ANDI"} ->
         Prime(9, 7, x.rd) \cup put_imm5_0_ci(x.imm)
    [] OTHER -> Field(11, 7, x.rd) \cup put_imm5_0_ci(x.imm)

\* The offset of c.lw and c.sw, or of c.ld and c.sd.
Offset4(imm) == put(12, 10, imm, 3) \cup put(6, 6, imm, 2) \cup put(5, 5, imm, 6)
Offset8(imm) == put(12, 10, imm, 3) \cup put(6, 5, imm, 6)

cltype_half(x) ==
  Prime(9, 7, x.rs1) \cup Prime(4, 2, x.rd)
    \cup (IF x.op = "OP_C_LW" THEN Offset4(x.imm) ELSE Offset8(x.imm))

cstype_half(x) ==
  Prime(9, 7, x.rs1) \cup Prime(4, 2, x.rs2)
    \cup (IF x.op = "OP_C_SW" THEN Offset4(x.imm) ELSE Offset8(x.imm))

\* The register is put last, over what c.sdsp has at bits 11 and 10.
csstype_half(x) ==
  Field(11, 7, x.rs2)
    \cup (IF x.op = "OP_C_SWSP" THEN put(12, 12, x.imm, 7) \cup put(6, 2, x.imm, 2)
          ELSE (put(12, 10, x.imm, 6) \ 7 .. 11) \cup put(6, 2, x.imm, 3))

cbtype_half(x) ==
  Prime(9, 7, x.rs1) \cup put(12, 12, Halved(x), 7) \cup put(11, 10, Halved(x), 5)
    \cup Field(6, 3, Halved(x)) \cup put(2, 2, Halved(x), 4)

cjtype_half(x) ==
  put(12, 12, Halved(x), 10) \cup put(11, 11, Halved(x), 3) \cup put(10, 9, Halved(x), 8)
    \cup put(8, 8, Halved(x), 9) \cup put(7, 7, Halved(x), 6) \cup put(6, 6, Halved(x), 7)
    \cup put(5, 3, Halved(x), 1) \cup put(2, 2, Halved(x), 5)

Half16(x) ==
  c_build_tags(x) \cup
  CASE x.fmt = "IF_CA" -> catype_half(x) [] x.fmt = "IF_CI" -> citype_half(x)
    [] x.fmt = "IF_CR" -> crtype_half(x) [] x.fmt = "IF_CS" -> cstype_half(x)
    [] x.fmt = "IF_CSS" -> csstype_half(x) [] x.fmt = "IF_CB" -> cbtype_half(x)
    [] x.fmt = "IF_CJ" -> cjtype_half(x) [] x.fmt = "IF_CL" -> cltype_half(x)

\* What is written for one instruction.
InstrBits(cfg, x) == IF is_c_fmt(x.fmt) THEN Half16(x) ELSE Word32(cfg, x)
=============================================================================
