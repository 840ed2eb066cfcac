--------------------------------- MODULE IR ---------------------------------
(***************************************************************************)
(* The intermediate representation that pass 1 builds and pass 2 lays out  *)
(* and emits (include/ir.h, src/ir.c), and the fixed-width arithmetic its  *)
(* addresses are computed in.                                              *)
(*                                                                         *)
(* Opcodes, formats, kinds and relocations carry the names of their C      *)
(* enumerators.  Source line numbers feed only messages and are left out.  *)
(***************************************************************************)
EXTENDS Integers, Sequences

CONSTANTS
  Labels,    \* the label names a source may use
  NoLabel,   \* the NULL label pointer
  HalfMod    \* half the modulus of uint32_t: 2^31 in the program

ASSUME LabelAssumption == NoLabel \notin Labels
\* Every size a statement gives an entry fits the word.
ASSUME WidthAssumption == HalfMod \in Nat /\ HalfMod > 8

(***************************************************************************)
(* uint32_t and int32_t.                                                   *)
(***************************************************************************)
Mod32 == 2 * HalfMod
Word == 0 .. (Mod32 - 1)

U32(n) == n % Mod32

S32(n) == IF U32(n) >= HalfMod THEN U32(n) - Mod32 ELSE U32(n)

Add32_NoWrap(a, b) == a + b             \* mutant of Add32

\* a + b for a and b in Word: one wrap at most.
Add32(a, b) == IF a + b >= Mod32 THEN a + b - Mod32 ELSE a + b

\* Bytes from addr to the next multiple of a, a power of two.
Pad(addr, a) == (a - (addr % a)) % a

-----------------------------------------------------------------------------
Sections == {"SEC_TEXT", "SEC_DATA"}
Kinds == {"IR_INSTR", "IR_DATA", "IR_ALIGN"}
WideFormats == {"IF_R", "IF_I", "IF_S", "IF_B", "IF_J", "IF_UI"}
CFormats == {"IF_CR", "IF_CI", "IF_CL", "IF_CS", "IF_CSS", "IF_CB", "IF_CJ", "IF_CA"}
Formats == WideFormats \cup CFormats
Relocs == {"RELOC_NONE", "RELOC_HI20", "RELOC_LO12", "RELOC_BOFF", "RELOC_JTGT"}
ForcedSizes == {"IR_SIZE_AUTO", "IR_SIZE_2", "IR_SIZE_4"}

\* opcode_t
Opcodes ==
  {"OP_ADD", "OP_SUB", "OP_SLL", "OP_SLT", "OP_SLTU", "OP_XOR", "OP_SRL", "OP_SRA",
   "OP_OR", "OP_AND", "OP_MUL", "OP_MULH", "OP_MULHSU", "OP_MULHU", "OP_DIV",
   "OP_DIVU", "OP_REM", "OP_REMU", "OP_ADDW", "OP_SUBW", "OP_SLLW", "OP_SRLW",
   "OP_SRAW", "OP_MULW", "OP_DIVW", "OP_DIVUW", "OP_REMW", "OP_REMUW", "OP_ADDI",
   "OP_SLLI", "OP_LW", "OP_SLTI", "OP_SLTIU", "OP_XORI", "OP_ORI", "OP_ANDI",
   "OP_SRLI", "OP_SRAI", "OP_JALR", "OP_LB", "OP_LH", "OP_LBU", "OP_LHU", "OP_ECALL",
   "OP_EBREAK", "OP_ADDIW", "OP_SLLIW", "OP_SRLIW", "OP_SRAIW", "OP_LWU", "OP_LD",
   "OP_AUIPC", "OP_LUI", "OP_SW", "OP_SH", "OP_SB", "OP_SD", "OP_BEQ", "OP_BNE",
   "OP_BLT", "OP_BGE", "OP_BLTU", "OP_BGEU", "OP_JAL", "OP_C_ADD", "OP_C_SUB",
   "OP_C_XOR", "OP_C_OR", "OP_C_AND", "OP_C_SUBW", "OP_C_ADDW", "OP_C_JALR",
   "OP_C_EBREAK", "OP_C_ADDI", "OP_C_ADDIW", "OP_C_SRLI", "OP_C_SRAI", "OP_C_SLLI",
   "OP_C_LW", "OP_C_LD", "OP_C_BEQZ", "OP_C_BNEZ", "OP_C_JAL", "OP_C_SD", "OP_C_SW",
   "OP_C_LUI", "OP_C_SWSP", "OP_C_SDSP", "OP_C_LDSP", "OP_C_LWSP", "OP_C_J",
   "OP_C_JR", "OP_C_ANDI", "OP_C_MV", "OP_C_LI"}

\* The numbers the lexer reads as a register.
Registers == 0 .. 31

\* The operands of an instruction, and of a struct c_choice.
Operands == [op : Opcodes, fmt : Formats, rd : Registers, rs1 : Registers,
             rs2 : Registers, imm : Int, label : Labels \cup {NoLabel}, reloc : Relocs]

\* Operands with no label and no relocation.
Plain(op, fmt, rd, rs1, rs2, imm) ==
  [op |-> op, fmt |-> fmt, rd |-> rd, rs1 |-> rs1, rs2 |-> rs2, imm |-> imm,
   label |-> NoLabel, reloc |-> "RELOC_NONE"]

ZeroChoice == Plain("OP_ADD", "IF_R", 0, 0, 0, 0)

\* ir_entry_t
Entry == [kind : Kinds, op : Opcodes, fmt : Formats, rd : Registers, rs1 : Registers,
          rs2 : Registers, imm : Int, label : Labels \cup {NoLabel}, reloc : Relocs, sect : Sections,
          addr : Word, size : Word, can_compress : BOOLEAN, forced_size : ForcedSizes,
          has_c_choice : BOOLEAN, choice : Operands]

\* (ir_entry_t){0} with the fields every constructor sets.
BlankEntry(kind, sect, addr, size) ==
  [kind |-> kind, op |-> "OP_ADD", fmt |-> "IF_R", rd |-> 0, rs1 |-> 0, rs2 |-> 0,
   imm |-> 0, label |-> NoLabel, reloc |-> "RELOC_NONE", sect |-> sect,
   addr |-> addr, size |-> size, can_compress |-> FALSE,
   forced_size |-> "IR_SIZE_AUTO", has_c_choice |-> FALSE, choice |-> ZeroChoice]

\* x is a record with the operands op, fmt, rd, rs1, rs2, imm, label and reloc.
ir_append_instr(x, sect, addr, size) ==
  [kind |-> "IR_INSTR", op |-> x.op, fmt |-> x.fmt, rd |-> x.rd, rs1 |-> x.rs1,
   rs2 |-> x.rs2, imm |-> x.imm, label |-> x.label,
   reloc |-> IF x.label = NoLabel THEN "RELOC_NONE" ELSE x.reloc,
   sect |-> sect, addr |-> addr, size |-> size,
   can_compress |-> x.fmt \notin CFormats,
   forced_size |-> IF x.fmt \in CFormats THEN "IR_SIZE_2" ELSE "IR_SIZE_AUTO",
   has_c_choice |-> FALSE, choice |-> ZeroChoice]

\* The alignment itself is not recorded: imm keeps the value 0.
ir_append_align(sect, addr_before, pad_bytes) ==
  BlankEntry("IR_ALIGN", sect, addr_before, pad_bytes)

ir_append_data(sect, addr, word, size) ==
  [BlankEntry("IR_DATA", sect, addr, size) EXCEPT !.imm = word]

ir_is_explicit_c(e) ==
  /\ e.forced_size = "IR_SIZE_2"
  /\ ~e.can_compress
  /\ ~e.has_c_choice

ir_set_c_choice(e, ch) == [e EXCEPT !.choice = ch, !.has_c_choice = TRUE]

ir_clear_c_choice(e) == [e EXCEPT !.has_c_choice = FALSE]
=============================================================================
