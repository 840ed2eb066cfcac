------------------------------- MODULE Encode -------------------------------
(***************************************************************************)
(* What pass 2 accepts when it turns one instruction into bits             *)
(* (src/pass2.c, the require_* tests and the encode_* packers).  Here is   *)
(* acceptance only; Bits has the bits of what is accepted.                 *)
(*                                                                         *)
(* x is a record with the operands op, fmt, rd, rs1, rs2 and imm, the      *)
(* label already resolved into imm; cfg holds the command-line options.    *)
(***************************************************************************)
EXTENDS CRules

is_c_fmt(fmt) == fmt \in CFormats

Ops64 == {"OP_ADDW", "OP_SUBW", "OP_SLLW", "OP_SRLW", "OP_SRAW", "OP_ADDIW",
          "OP_SRLIW", "OP_SRAIW", "OP_SLLIW", "OP_LWU", "OP_LD", "OP_SD"}
OpsM == {"OP_MUL", "OP_MULH", "OP_MULHSU", "OP_MULHU", "OP_DIV", "OP_DIVU",
         "OP_REM", "OP_REMU"}
OpsM64 == {"OP_MULW", "OP_DIVW", "OP_DIVUW", "OP_REMW", "OP_REMUW"}

\* The RV64-only and RV32-only rows of c_encoding_table.
COps64 == {"OP_C_SUBW", "OP_C_ADDW", "OP_C_ADDIW", "OP_C_LDSP", "OP_C_LD",
           "OP_C_SD", "OP_C_SDSP"}
COps32 == {"OP_C_JAL"}

require_for_op(cfg, op) ==
  /\ op \in OpsM \cup OpsM64 => cfg.extM
  /\ op \in Ops64 \cup OpsM64 => cfg.xlen = 64

require_c_for_op(cfg, op) ==
  /\ cfg.extC
  /\ op \in COps64 => cfg.xlen = 64
  /\ op \in COps32 => cfg.xlen = 32

-----------------------------------------------------------------------------
EvenIn(n, lo, hi) == n % 2 = 0 /\ n \in lo .. hi

\* A multiple of eight still is one when it is narrowed to uint32_t.
ASSUME ScaleAssumption == HalfMod % 4 = 0

\* Immediates narrowed to uint32_t before the upper bound is tested.
ScaledU32(n, k, top) == n >= 0 /\ U32(n) % k = 0 /\ U32(n) <= top

encode_crtype(x) ==
  CASE x.op = "OP_C_MV" -> x.rd # 0 /\ x.rs2 # 0 /\ x.rs1 = 0
    [] x.op = "OP_C_ADD" -> x.rd # 0 /\ x.rs2 # 0 /\ x.rs1 = x.rd
    [] x.op \in {"OP_C_JR", "OP_C_JALR"} -> x.rs1 # 0 /\ x.rs2 = 0
    [] x.op = "OP_C_EBREAK" -> x.rd = 0 /\ x.rs1 = 0 /\ x.rs2 = 0
    [] OTHER -> TRUE

encode_catype(x) == IsPrime(x.rd) /\ IsPrime(x.rs1) /\ IsPrime(x.rs2) /\ x.rd = x.rs1

encode_citype(cfg, x) ==
  CASE x.op = "OP_C_ADDI" -> IF x.rd = 0 THEN x.imm = 0 ELSE SmallImm(x)
    [] x.op = "OP_C_ADDIW" -> cfg.xlen = 64 /\ x.rd # 0 /\ SmallImm(x)
    [] x.op = "OP_C_LUI" -> x.rd \notin {0, 2} /\ x.imm # 0 /\ SmallImm(x)
    [] x.op = "OP_C_SLLI" -> x.rd # 0 /\ Shamt(cfg, x)
    [] x.op \in {"OP_C_SRLI", "OP_C_SRAI"} -> IsPrime(x.rd) /\ Shamt(cfg, x)
    [] x.op = "OP_C_ANDI" -> IsPrime(x.rd) /\ SmallImm(x)
    [] x.op = "OP_C_LWSP" -> x.rs1 = 2 /\ x.rd # 0 /\ Scaled(x, 4, 252)
    [] x.op = "OP_C_LDSP" -> cfg.xlen = 64 /\ x.rs1 = 2 /\ x.rd # 0 /\ Scaled(x, 8, 504)
    [] x.op = "OP_C_LI" -> x.rd # 0 /\ x.imm # 0 /\ SmallImm(x)
    [] OTHER -> FALSE

encode_cltype(x) ==
  /\ IsPrime(x.rd) /\ IsPrime(x.rs1)
  /\ \/ x.op = "OP_C_LW" /\ ScaledU32(x.imm, 4, 124)
     \/ x.op = "OP_C_LD" /\ ScaledU32(x.imm, 8, 248)

encode_cstype(x) ==
  /\ IsPrime(x.rs1) /\ IsPrime(x.rs2)
  /\ \/ x.op = "OP_C_SW" /\ ScaledU32(x.imm, 4, 124)
     \/ x.op = "OP_C_SD" /\ ScaledU32(x.imm, 8, 248)

encode_csstype(x) ==
  /\ x.rs1 = 2
  /\ \/ x.op = "OP_C_SWSP" /\ ScaledU32(x.imm, 4, 252)
     \/ x.op = "OP_C_SDSP" /\ ScaledU32(x.imm, 8, 504)

encode_cbtype(x) == IsPrime(x.rs1) /\ EvenIn(x.imm, -256, 254)

encode_cjtype(x) == EvenIn(x.imm, -2048, 2046)

c_encode_instruction(cfg, x) ==
  CASE x.fmt = "IF_CA"  -> encode_catype(x)
    [] x.fmt = "IF_CI"  -> encode_citype(cfg, x)
    [] x.fmt = "IF_CR"  -> encode_crtype(x)
    [] x.fmt = "IF_CS"  -> encode_cstype(x)
    [] x.fmt = "IF_CSS" -> encode_csstype(x)
    [] x.fmt = "IF_CB"  -> encode_cbtype(x)
    [] x.fmt = "IF_CJ"  -> encode_cjtype(x)
    [] x.fmt = "IF_CL"  -> encode_cltype(x)
    [] OTHER -> FALSE

-----------------------------------------------------------------------------
Shifts == {"OP_SLLI", "OP_SRLI", "OP_SRAI"}
ShiftsW == {"OP_SLLIW", "OP_SRLIW", "OP_SRAIW"}

encode_itype(cfg, x) ==
  CASE x.op \in Shifts -> Shamt(cfg, x)
    [] x.op \in ShiftsW -> x.imm \in 0 .. 31
    [] x.op \in {"OP_EBREAK", "OP_ECALL"} -> TRUE
    [] OTHER -> x.imm \in -2048 .. 2047

encode_stype(x) == x.imm \in -2048 .. 2047

encode_btype(x) == EvenIn(x.imm, -4096, 4094)

encode_jtype(x) == EvenIn(x.imm, -1048576, 1048574)

encode_uitype(x) == x.imm % 4096 = 0 /\ x.imm \in -HalfMod .. (HalfMod - 1)

encode_instruction(cfg, x) ==
  CASE x.fmt = "IF_R"  -> TRUE
    [] x.fmt = "IF_I"  -> encode_itype(cfg, x)
    [] x.fmt = "IF_S"  -> encode_stype(x)
    [] x.fmt = "IF_B"  -> encode_btype(x)
    [] x.fmt = "IF_J"  -> encode_jtype(x)
    [] x.fmt = "IF_UI" -> encode_uitype(x)
    [] OTHER -> FALSE
=============================================================================
