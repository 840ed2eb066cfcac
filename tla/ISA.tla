--------------------------------- MODULE ISA ---------------------------------
(***************************************************************************)
(* What the RISC-V manual says an instruction word means: the reference    *)
(* that pass 2's words and the choices of c_rules.c are compared with.     *)
(* Nothing here comes from the program.  A word is the set of its bits; an *)
(* instruction is an operation, its operands and nothing else.             *)
(***************************************************************************)
EXTENDS Integers, Sequences

Wide(op, rd, rs1, rs2, imm) == [op |-> op, rd |-> rd, rs1 |-> rs1, rs2 |-> rs2, imm |-> imm]
Reserved == Wide("reserved", 0, 0, 0, 0)

\* The number whose bits are S, and the same with bit top as its sign.
Unsigned(S) ==
  LET upTo[k \in 0 .. 20] ==
        (IF k = 0 THEN 0 ELSE upTo[k - 1]) + (IF k \in S THEN 2^k ELSE 0)
  IN upTo[20]
Signed(S, top) == Unsigned(S \ {top}) - (IF top \in S THEN 2^top ELSE 0)

Num(w, hi, lo) == Unsigned({k - lo : k \in w \cap (lo .. hi)})

\* A row of the manual's format tables: the bits of the immediate that stand at
\* hi, hi - 1, ... of the word.
Gather(w, hi, row) == {row[n] : n \in {m \in DOMAIN row : hi + 1 - m \in w}}

-----------------------------------------------------------------------------
(***************************************************************************)
(* 32-bit words.                                                           *)
(***************************************************************************)
Reg == <<"OP_ADD", "OP_SLL", "OP_SLT", "OP_SLTU", "OP_XOR", "OP_SRL", "OP_OR", "OP_AND">>
MulDiv == <<"OP_MUL", "OP_MULH", "OP_MULHSU", "OP_MULHU", "OP_DIV", "OP_DIVU", "OP_REM",
            "OP_REMU">>
RegImm == <<"OP_ADDI", "OP_SLLI", "OP_SLTI", "OP_SLTIU", "OP_XORI", "OP_SRLI", "OP_ORI",
            "OP_ANDI">>
No == "reserved"
RegWord == <<"OP_ADDW", "OP_SLLW", No, No, No, "OP_SRLW", No, No>>
MulDivWord == <<"OP_MULW", No, No, No, "OP_DIVW", "OP_DIVUW", "OP_REMW", "OP_REMUW">>
Load == <<"OP_LB", "OP_LH", "OP_LW", "OP_LD", "OP_LBU", "OP_LHU", "OP_LWU", No>>
Store == <<"OP_SB", "OP_SH", "OP_SW", "OP_SD", No, No, No, No>>
Branch == <<"OP_BEQ", "OP_BNE", No, No, "OP_BLT", "OP_BGE", "OP_BLTU", "OP_BGEU">>

\* The fields of a word; the immediates as each format scatters them.
Major(w) == Num(w, 6, 0)
Rd(w) == Num(w, 11, 7)
Rs1(w) == Num(w, 19, 15)
Rs2(w) == Num(w, 24, 20)
Funct3(w) == Num(w, 14, 12)
Funct7(w) == Num(w, 31, 25)
ImmI(w) == Signed(Gather(w, 31, <<11, 10, 9, 8, 7, 6, 5, 4, 3, 2, 1, 0>>), 11)
ImmS(w) == Signed(Gather(w, 31, <<11, 10, 9, 8, 7, 6, 5>>) \cup Gather(w, 11, <<4, 3, 2, 1, 0>>), 11)
ImmB(w) ==
  Signed(Gather(w, 31, <<12, 10, 9, 8, 7, 6, 5>>) \cup Gather(w, 11, <<4, 3, 2, 1, 11>>), 12)
ImmJ(w) == Signed(Gather(w, 31, <<20, 10, 9, 8, 7, 6, 5, 4, 3, 2, 1, 11,
                                  19, 18, 17, 16, 15, 14, 13, 12>>), 20)
ImmU(w) == 4096 * Signed({k - 12 : k \in w \cap (12 .. 31)}, 19)

\* slli, srli, srai: a funct6 and six bits on RV64, a funct7 and five on RV32.
Shamt(w, xlen) == IF xlen = 64 THEN Num(w, 25, 20) ELSE Rs2(w)
ShiftFunct(w, xlen) == IF xlen = 64 THEN Num(w, 31, 26) * 2 ELSE Funct7(w)

Decode32(w, xlen) ==
  LET major == Major(w)
      f3 == Funct3(w)
      f7 == Funct7(w)
      funct == ShiftFunct(w, xlen)
      rd == Rd(w)
      rs1 == Rs1(w)
      rs2 == Rs2(w)
  IN CASE major = 51 /\ f7 = 0 -> Wide(Reg[f3 + 1], rd, rs1, rs2, 0)
       [] major = 51 /\ f7 = 1 -> Wide(MulDiv[f3 + 1], rd, rs1, rs2, 0)
       [] major = 51 /\ f7 = 32 /\ f3 = 0 -> Wide("OP_SUB", rd, rs1, rs2, 0)
       [] major = 51 /\ f7 = 32 /\ f3 = 5 -> Wide("OP_SRA", rd, rs1, rs2, 0)
       [] major = 59 /\ f7 = 0 -> Wide(RegWord[f3 + 1], rd, rs1, rs2, 0)
       [] major = 59 /\ f7 = 1 -> Wide(MulDivWord[f3 + 1], rd, rs1, rs2, 0)
       [] major = 59 /\ f7 = 32 /\ f3 = 0 -> Wide("OP_SUBW", rd, rs1, rs2, 0)
       [] major = 59 /\ f7 = 32 /\ f3 = 5 -> Wide("OP_SRAW", rd, rs1, rs2, 0)
       [] major = 19 /\ f3 \notin {1, 5} -> Wide(RegImm[f3 + 1], rd, rs1, 0, ImmI(w))
       [] major = 19 /\ f3 \in {1, 5} /\ funct = 0 -> Wide(RegImm[f3 + 1], rd, rs1, 0, Shamt(w, xlen))
       [] major = 19 /\ f3 = 5 /\ funct = 32 -> Wide("OP_SRAI", rd, rs1, 0, Shamt(w, xlen))
       [] major = 27 /\ f3 = 0 -> Wide("OP_ADDIW", rd, rs1, 0, ImmI(w))
       [] major = 27 /\ f3 = 1 /\ f7 = 0 -> Wide("OP_SLLIW", rd, rs1, 0, rs2)
       [] major = 27 /\ f3 = 5 /\ f7 = 0 -> Wide("OP_SRLIW", rd, rs1, 0, rs2)
       [] major = 27 /\ f3 = 5 /\ f7 = 32 -> Wide("OP_SRAIW", rd, rs1, 0, rs2)
       [] major = 3 -> Wide(Load[f3 + 1], rd, rs1, 0, ImmI(w))
       [] major = 103 /\ f3 = 0 -> Wide("OP_JALR", rd, rs1, 0, ImmI(w))
       [] major = 115 /\ w = {0, 1, 4, 5, 6} -> Wide("OP_ECALL", 0, 0, 0, 0)
       [] major = 115 /\ w = {0, 1, 4, 5, 6, 20} -> Wide("OP_EBREAK", 0, 0, 0, 0)
       [] major = 35 -> Wide(Store[f3 + 1], 0, rs1, rs2, ImmS(w))
       [] major = 99 -> Wide(Branch[f3 + 1], 0, rs1, rs2, ImmB(w))
       [] major = 111 -> Wide("OP_JAL", rd, 0, 0, ImmJ(w))
       [] major = 23 -> Wide("OP_AUIPC", rd, 0, 0, ImmU(w))
       [] major = 55 -> Wide("OP_LUI", rd, 0, 0, ImmU(w))
       [] OTHER -> Reserved

-----------------------------------------------------------------------------
(***************************************************************************)
(* 16-bit words, as the 32-bit instruction each abbreviates.               *)
(***************************************************************************)
AluC == <<"OP_SUB", "OP_XOR", "OP_OR", "OP_AND">>
AluCW == <<"OP_SUBW", "OP_ADDW", No, No>>

\* The fields of a half-word.
Quadrant(w) == Num(w, 1, 0)
CFunct3(w) == Num(w, 15, 13)
CRs2(w) == Num(w, 6, 2)
RdPrime(w) == 8 + Num(w, 4, 2)
RsPrime(w) == 8 + Num(w, 9, 7)
SubOp(w) == Num(w, 11, 10)
AluOp(w) == Num(w, 6, 5)
Six(w) == Gather(w, 12, <<5>>) \cup Gather(w, 6, <<4, 3, 2, 1, 0>>)
Off4(w) == Unsigned(Gather(w, 12, <<5, 4, 3>>) \cup Gather(w, 6, <<2, 6>>))
Off8(w) == Unsigned(Gather(w, 12, <<5, 4, 3>>) \cup Gather(w, 6, <<7, 6>>))
OffB(w) == Signed(Gather(w, 12, <<8, 4, 3>>) \cup Gather(w, 6, <<7, 6, 2, 1, 5>>), 8)
OffJ(w) == Signed(Gather(w, 12, <<11, 4, 9, 8, 10, 6, 7, 3, 2, 1, 5>>), 11)
LwSp(w) == Unsigned(Gather(w, 12, <<5>>) \cup Gather(w, 6, <<4, 3, 2, 7, 6>>))
LdSp(w) == Unsigned(Gather(w, 12, <<5>>) \cup Gather(w, 6, <<4, 3, 8, 7, 6>>))
SwSp(w) == Unsigned(Gather(w, 12, <<5, 4, 3, 2, 7, 6>>))
SdSp(w) == Unsigned(Gather(w, 12, <<5, 4, 3, 8, 7, 6>>))

Decode16(w, xlen) ==
  LET q == Quadrant(w)
      f3 == CFunct3(w)
      rd == Rd(w)
      rs2 == CRs2(w)
      rdp == RdPrime(w)
      rsp == RsPrime(w)
      b12 == 12 \in w
      sub == SubOp(w)
      imm == Signed(Six(w), 5)
  IN CASE q = 0 /\ f3 = 2 -> Wide("OP_LW", rdp, rsp, 0, Off4(w))
       [] q = 0 /\ f3 = 3 /\ xlen = 64 -> Wide("OP_LD", rdp, rsp, 0, Off8(w))
       [] q = 0 /\ f3 = 6 -> Wide("OP_SW", 0, rsp, rdp, Off4(w))
       [] q = 0 /\ f3 = 7 /\ xlen = 64 -> Wide("OP_SD", 0, rsp, rdp, Off8(w))
       [] q = 1 /\ f3 = 0 -> Wide("OP_ADDI", rd, rd, 0, imm)
       [] q = 1 /\ f3 = 1 /\ xlen = 32 -> Wide("OP_JAL", 1, 0, 0, OffJ(w))
       [] q = 1 /\ f3 = 1 /\ xlen = 64 /\ rd # 0 -> Wide("OP_ADDIW", rd, rd, 0, imm)
       [] q = 1 /\ f3 = 2 -> Wide("OP_ADDI", rd, 0, 0, imm)
       [] q = 1 /\ f3 = 3 /\ rd # 2 /\ Six(w) # {} -> Wide("OP_LUI", rd, 0, 0, 4096 * imm)
       [] q = 1 /\ f3 = 4 /\ sub = 0 /\ ~(b12 /\ xlen = 32) -> Wide("OP_SRLI", rsp, rsp, 0, Unsigned(Six(w)))
       [] q = 1 /\ f3 = 4 /\ sub = 1 /\ ~(b12 /\ xlen = 32) -> Wide("OP_SRAI", rsp, rsp, 0, Unsigned(Six(w)))
       [] q = 1 /\ f3 = 4 /\ sub = 2 -> Wide("OP_ANDI", rsp, rsp, 0, imm)
       [] q = 1 /\ f3 = 4 /\ sub = 3 /\ ~b12 -> Wide(AluC[AluOp(w) + 1], rsp, rsp, rdp, 0)
       [] q = 1 /\ f3 = 4 /\ sub = 3 /\ b12 /\ xlen = 64 -> Wide(AluCW[AluOp(w) + 1], rsp, rsp, rdp, 0)
       [] q = 1 /\ f3 = 5 -> Wide("OP_JAL", 0, 0, 0, OffJ(w))
       [] q = 1 /\ f3 = 6 -> Wide("OP_BEQ", 0, rsp, 0, OffB(w))
       [] q = 1 /\ f3 = 7 -> Wide("OP_BNE", 0, rsp, 0, OffB(w))
       [] q = 2 /\ f3 = 0 /\ ~(b12 /\ xlen = 32) -> Wide("OP_SLLI", rd, rd, 0, Unsigned(Six(w)))
       [] q = 2 /\ f3 = 2 /\ rd # 0 -> Wide("OP_LW", rd, 2, 0, LwSp(w))
       [] q = 2 /\ f3 = 3 /\ rd # 0 /\ xlen = 64 -> Wide("OP_LD", rd, 2, 0, LdSp(w))
       [] q = 2 /\ f3 = 4 /\ ~b12 /\ rs2 = 0 /\ rd # 0 -> Wide("OP_JALR", 0, rd, 0, 0)
       [] q = 2 /\ f3 = 4 /\ ~b12 /\ rs2 # 0 -> Wide("OP_ADD", rd, 0, rs2, 0)
       [] q = 2 /\ f3 = 4 /\ b12 /\ rs2 = 0 /\ rd = 0 -> Wide("OP_EBREAK", 0, 0, 0, 0)
       [] q = 2 /\ f3 = 4 /\ b12 /\ rs2 = 0 /\ rd # 0 -> Wide("OP_JALR", 1, rd, 0, 0)
       [] q = 2 /\ f3 = 4 /\ b12 /\ rs2 # 0 -> Wide("OP_ADD", rd, rd, rs2, 0)
       [] q = 2 /\ f3 = 6 -> Wide("OP_SW", 0, 2, rs2, SwSp(w))
       [] q = 2 /\ f3 = 7 /\ xlen = 64 -> Wide("OP_SD", 0, 2, rs2, SdSp(w))
       [] OTHER -> Reserved

\* The two low bits of a word tell its width.
Decode(w, xlen) == IF Quadrant(w) = 3 THEN Decode32(w, xlen) ELSE Decode16(w, xlen)

-----------------------------------------------------------------------------
\* The 32-bit instruction a compressed operation abbreviates, from the fields its
\* encoding has.
Expand(c) ==
  CASE c.op = "OP_C_ADDI" -> Wide("OP_ADDI", c.rd, c.rd, 0, c.imm)
    [] c.op = "OP_C_ADDIW" -> Wide("OP_ADDIW", c.rd, c.rd, 0, c.imm)
    [] c.op = "OP_C_LUI"  -> Wide("OP_LUI", c.rd, 0, 0, 4096 * c.imm)
    [] c.op = "OP_C_LI"   -> Wide("OP_ADDI", c.rd, 0, 0, c.imm)
    [] c.op = "OP_C_SLLI" -> Wide("OP_SLLI", c.rd, c.rd, 0, c.imm)
    [] c.op = "OP_C_SRLI" -> Wide("OP_SRLI", c.rd, c.rd, 0, c.imm)
    [] c.op = "OP_C_SRAI" -> Wide("OP_SRAI", c.rd, c.rd, 0, c.imm)
    [] c.op = "OP_C_ANDI" -> Wide("OP_ANDI", c.rd, c.rd, 0, c.imm)
    [] c.op = "OP_C_MV"   -> Wide("OP_ADD", c.rd, 0, c.rs2, 0)
    [] c.op = "OP_C_ADD"  -> Wide("OP_ADD", c.rd, c.rd, c.rs2, 0)
    [] c.op = "OP_C_SUB"  -> Wide("OP_SUB", c.rd, c.rd, c.rs2, 0)
    [] c.op = "OP_C_XOR"  -> Wide("OP_XOR", c.rd, c.rd, c.rs2, 0)
    [] c.op = "OP_C_OR"   -> Wide("OP_OR", c.rd, c.rd, c.rs2, 0)
    [] c.op = "OP_C_AND"  -> Wide("OP_AND", c.rd, c.rd, c.rs2, 0)
    [] c.op = "OP_C_SUBW" -> Wide("OP_SUBW", c.rd, c.rd, c.rs2, 0)
    [] c.op = "OP_C_ADDW" -> Wide("OP_ADDW", c.rd, c.rd, c.rs2, 0)
    [] c.op = "OP_C_JR"   -> Wide("OP_JALR", 0, c.rs1, 0, 0)
    [] c.op = "OP_C_JALR" -> Wide("OP_JALR", 1, c.rs1, 0, 0)
    [] c.op = "OP_C_EBREAK" -> Wide("OP_EBREAK", 0, 0, 0, 0)
    [] c.op = "OP_C_LW"   -> Wide("OP_LW", c.rd, c.rs1, 0, c.imm)
    [] c.op = "OP_C_LD"   -> Wide("OP_LD", c.rd, c.rs1, 0, c.imm)
    [] c.op = "OP_C_SW"   -> Wide("OP_SW", 0, c.rs1, c.rs2, c.imm)
    [] c.op = "OP_C_SD"   -> Wide("OP_SD", 0, c.rs1, c.rs2, c.imm)
    [] c.op = "OP_C_LWSP" -> Wide("OP_LW", c.rd, 2, 0, c.imm)
    [] c.op = "OP_C_LDSP" -> Wide("OP_LD", c.rd, 2, 0, c.imm)
    [] c.op = "OP_C_SWSP" -> Wide("OP_SW", 0, 2, c.rs2, c.imm)
    [] c.op = "OP_C_SDSP" -> Wide("OP_SD", 0, 2, c.rs2, c.imm)
    [] c.op = "OP_C_BEQZ" -> Wide("OP_BEQ", 0, c.rs1, 0, c.imm)
    [] c.op = "OP_C_BNEZ" -> Wide("OP_BNE", 0, c.rs1, 0, c.imm)
    [] c.op = "OP_C_J"    -> Wide("OP_JAL", 0, 0, 0, c.imm)
    [] OTHER              -> Wide("OP_JAL", 1, 0, 0, c.imm)
=============================================================================
