------------------------------ MODULE Grammar ------------------------------
(***************************************************************************)
(* What the parser hands to pass 1 (src/assembler.y).  A source file is a  *)
(* sequence of statements; a statement is a label, a directive, or the     *)
(* operand record of one instruction, pseudo-instructions already expanded *)
(* the way their grammar action expands them.                              *)
(***************************************************************************)
EXTENDS IR

Labelled(x, l, rk) == [x EXCEPT !.label = l, !.reloc = rk]

-----------------------------------------------------------------------------
r_type(op, rd, rs1, rs2) == Plain(op, "IF_R", rd, rs1, rs2, 0)
neg(rd, rs) == r_type("OP_SUB", rd, 0, rs)
snez(rd, rs) == r_type("OP_SLTU", rd, 0, rs)

i_type(op, rd, rs1, imm) == Plain(op, "IF_I", rd, rs1, 0, imm)
nop == i_type("OP_ADDI", 0, 0, 0)
mv(rd, rs) == i_type("OP_ADDI", rd, rs, 0)
li(rd, imm) == i_type("OP_ADDI", rd, 0, imm)
subi(rd, rs, imm) == i_type("OP_ADDI", rd, rs, -imm)
seqz(rd, rs) == i_type("OP_SLTIU", rd, rs, 1)
jr(rs) == i_type("OP_JALR", 0, rs, 0)
ret == jr(1)

s_type(op, rs2, imm, rs1) == Plain(op, "IF_S", 0, rs1, rs2, imm)

b_type(op, rs1, rs2, imm) == Plain(op, "IF_B", 0, rs1, rs2, imm)
b_label(op, rs1, rs2, l) == Labelled(b_type(op, rs1, rs2, 0), l, "RELOC_BOFF")

j_type(rd, imm) == Plain("OP_JAL", "IF_J", rd, 0, 0, imm)
j_label(rd, l) == Labelled(j_type(rd, 0), l, "RELOC_JTGT")

ui_type(op, rd, imm) == Plain(op, "IF_UI", rd, 0, 0, imm)

\* The two instructions of "la rd, l".
la_hi(rd, l) == Labelled(ui_type("OP_AUIPC", rd, 0), l, "RELOC_HI20")
la_lo(rd, l) == Labelled(i_type("OP_ADDI", rd, rd, 0), l, "RELOC_LO12")

-----------------------------------------------------------------------------
ca_type(op, rd, rs2) == Plain(op, "IF_CA", rd, rd, rs2, 0)
cr_type(op, rd, rs1, rs2) == Plain(op, "IF_CR", rd, rs1, rs2, 0)
ci_type(op, rd, rs1, imm) == Plain(op, "IF_CI", rd, rs1, 0, imm)
c_nop == ci_type("OP_C_ADDI", 0, 0, 0)
cl_type(op, rd, imm, rs1) == Plain(op, "IF_CL", rd, rs1, 0, imm)
cs_type(op, rs2, imm, rs1) == Plain(op, "IF_CS", 0, rs1, rs2, imm)
css_type(op, rs2, imm) == Plain(op, "IF_CSS", 0, 2, rs2, imm)
cb_type(op, rs1, imm) == Plain(op, "IF_CB", 0, rs1, 0, imm)
cb_label(op, rs1, l) == Labelled(cb_type(op, rs1, 0), l, "RELOC_BOFF")
cj_type(op, imm) == Plain(op, "IF_CJ", 0, 0, 0, imm)
cj_label(op, l) == Labelled(cj_type(op, 0), l, "RELOC_JTGT")

-----------------------------------------------------------------------------
(***************************************************************************)
(* The instructions the productions build.                                 *)
(***************************************************************************)

\* The operations of a format.
OpsOf(fmt) ==
  CASE fmt = "IF_R" -> {"OP_ADD", "OP_SUB", "OP_SLL", "OP_SLT", "OP_SLTU", "OP_XOR",
         "OP_SRL", "OP_SRA", "OP_OR", "OP_AND", "OP_MUL", "OP_MULH", "OP_MULHSU",
         "OP_MULHU", "OP_DIV", "OP_DIVU", "OP_REM", "OP_REMU", "OP_ADDW", "OP_SUBW",
         "OP_SLLW", "OP_SRLW", "OP_SRAW", "OP_MULW", "OP_DIVW", "OP_DIVUW", "OP_REMW",
         "OP_REMUW"}
    [] fmt = "IF_I" -> {"OP_ADDI", "OP_SLLI", "OP_SLTI", "OP_SLTIU", "OP_XORI", "OP_ORI",
         "OP_ANDI", "OP_SRLI", "OP_SRAI", "OP_JALR", "OP_LW", "OP_LB", "OP_LH", "OP_LBU",
         "OP_LHU", "OP_EBREAK", "OP_ECALL", "OP_ADDIW", "OP_SLLIW", "OP_SRLIW", "OP_SRAIW",
         "OP_LWU", "OP_LD"}
    [] fmt = "IF_S" -> {"OP_SW", "OP_SB", "OP_SH", "OP_SD"}
    [] fmt = "IF_B" -> {"OP_BEQ", "OP_BNE", "OP_BLT", "OP_BGE", "OP_BLTU", "OP_BGEU"}
    [] fmt = "IF_J" -> {"OP_JAL"}
    [] fmt = "IF_UI" -> {"OP_AUIPC", "OP_LUI"}
    [] fmt = "IF_CA" -> {"OP_C_SUB", "OP_C_XOR", "OP_C_OR", "OP_C_AND", "OP_C_SUBW",
         "OP_C_ADDW"}
    [] fmt = "IF_CR" -> {"OP_C_ADD", "OP_C_JALR", "OP_C_EBREAK", "OP_C_JR", "OP_C_MV"}
    [] fmt = "IF_CI" -> {"OP_C_ADDI", "OP_C_LI", "OP_C_ADDIW", "OP_C_SRLI", "OP_C_SLLI",
         "OP_C_SRAI", "OP_C_ANDI", "OP_C_LUI", "OP_C_LWSP", "OP_C_LDSP"}
    [] fmt = "IF_CL" -> {"OP_C_LW", "OP_C_LD"}
    [] fmt = "IF_CS" -> {"OP_C_SW", "OP_C_SD"}
    [] fmt = "IF_CB" -> {"OP_C_BEQZ", "OP_C_BNEZ"}
    [] fmt = "IF_CJ" -> {"OP_C_J", "OP_C_JAL"}
    [] fmt = "IF_CSS" -> {"OP_C_SWSP", "OP_C_SDSP"}

\* The operand a format lacks is 0, and so is the immediate where a label stands.
NoRd == {"IF_S", "IF_B", "IF_CS", "IF_CB", "IF_CJ", "IF_CSS"}
NoRs1 == {"IF_J", "IF_UI", "IF_CJ"}
HasRs2 == {"IF_R", "IF_S", "IF_B", "IF_CA", "IF_CR", "IF_CS", "IF_CSS"}
NoImm == {"IF_R", "IF_CA", "IF_CR"}

\* The relocation a label gets.
RelocOf(fmt) ==
  CASE fmt \in {"IF_B", "IF_CB"} -> "RELOC_BOFF"
    [] fmt \in {"IF_J", "IF_CJ"} -> "RELOC_JTGT"
    [] fmt = "IF_UI" -> "RELOC_HI20"
    [] fmt = "IF_I" -> "RELOC_LO12"
    [] OTHER -> "RELOC_NONE"

Instruction ==
  {x \in Operands :
     /\ x.op \in OpsOf(x.fmt)
     /\ x.fmt \in NoRd => x.rd = 0
     /\ x.fmt \in NoRs1 => x.rs1 = 0
     /\ x.fmt \notin HasRs2 => x.rs2 = 0
     /\ x.fmt \in NoImm => x.imm = 0
     /\ x.op \in {"OP_ECALL", "OP_EBREAK"} =>
          x.rd = 0 /\ x.rs1 = 0 /\ x.imm = 0 /\ x.label = NoLabel
     /\ x.reloc = IF x.label = NoLabel THEN "RELOC_NONE" ELSE RelocOf(x.fmt)
     /\ x.label # NoLabel => x.imm = 0 /\ x.reloc # "RELOC_NONE"}

-----------------------------------------------------------------------------
(***************************************************************************)
(* Statements.  "align" carries 1u << pow2, or 0 when pow2 is above 31,    *)
(* where the shift is undefined; "ascii" and "asciiz" carry the number of  *)
(* characters; "syntax" is a line no production matches.                   *)
(***************************************************************************)
DataSizes == {1, 2, 4, 8}

Statement ==
  [t : {"label"}, name : Labels]
  \cup [t : {"text", "data", "syntax", "eof"}]
  \cup [t : {"align"}, bytes : 0 .. HalfMod]
  \cup [t : {"datum"}, size : DataSizes, value : Int]
  \cup [t : {"ascii", "asciiz"}, chars : Nat]
  \cup [t : {"space"}, bytes : Int]
  \cup [t : {"instr"}, x : Instruction]
  \cup [t : {"la"}, rd : Registers, name : Labels]

label(l) == [t |-> "label", name |-> l]
dot_text == [t |-> "text"]
dot_data == [t |-> "data"]
syntax == [t |-> "syntax"]
eof == [t |-> "eof"]
align(bytes) == [t |-> "align", bytes |-> bytes]
datum(size, value) == [t |-> "datum", size |-> size, value |-> value]
ascii(n) == [t |-> "ascii", chars |-> n]
asciiz(n) == [t |-> "asciiz", chars |-> n]
space(n) == [t |-> "space", bytes |-> n]
instr(x) == [t |-> "instr", x |-> x]
la(rd, l) == [t |-> "la", rd |-> rd, name |-> l]

\* The range a value must have in .byte, .half and .word; .dword takes any.
InRange(size, v) ==
  CASE size = 1 -> v \in -128 .. 127
    [] size = 2 -> v \in -32768 .. 32767
    [] size = 4 -> v \in -HalfMod .. (HalfMod - 1)
    [] OTHER -> TRUE
=============================================================================
