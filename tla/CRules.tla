------------------------------- MODULE CRules -------------------------------
(***************************************************************************)
(* Selection of a compressed replacement for a 32-bit instruction          *)
(* (src/c_rules.c).  Each c_map_* rule is the condition under which it     *)
(* applies; c_try_map takes the first rule that does, in the order of the  *)
(* || chain of the source, and builds its candidate.                       *)
(***************************************************************************)
EXTENDS IR

IsPrime(r) == r \in 8 .. 15           \* the registers a 3-bit field names
SmallImm(n) == n.imm \in -32 .. 31
Shamt(cfg, n) == n.imm \in 0 .. (IF cfg.xlen = 64 THEN 63 ELSE 31)
Scaled(n, k, top) == n.imm >= 0 /\ n.imm % k = 0 /\ n.imm <= top

\* Mutants of c_map_addi_self and c_map_andi_prime.
c_map_addi_self_AnySource(n) == n.op = "OP_ADDI" /\ SmallImm(n) /\ n.rd # 0
c_map_andi_prime_AnyRegister(n) == n.op = "OP_ANDI" /\ n.rd = n.rs1 /\ SmallImm(n)

c_map_addi_self(n) == n.op = "OP_ADDI" /\ n.rd = n.rs1 /\ SmallImm(n) /\ n.rd # 0

c_map_li_via_addi(n) ==
  n.op = "OP_ADDI" /\ n.rs1 = 0 /\ n.rd # 0 /\ n.imm # 0 /\ SmallImm(n)

c_map_nop(n) == n.op = "OP_ADDI" /\ n.rd = 0 /\ n.rs1 = 0 /\ n.imm = 0

c_map_slli(cfg, n) == n.op = "OP_SLLI" /\ n.rd # 0 /\ n.rd = n.rs1 /\ Shamt(cfg, n)

c_map_srxi_prime(cfg, n) ==
  n.op \in {"OP_SRLI", "OP_SRAI"} /\ n.rd = n.rs1 /\ IsPrime(n.rd) /\ Shamt(cfg, n)

c_map_andi_prime(n) == n.op = "OP_ANDI" /\ n.rd = n.rs1 /\ IsPrime(n.rd) /\ SmallImm(n)

c_map_mv(n) == n.op = "OP_ADD" /\ n.rd # 0 /\ n.rs2 # 0 /\ n.rs1 = 0

c_map_add_cr(n) == n.op = "OP_ADD" /\ n.rd = n.rs1 /\ n.rd # 0 /\ n.rs2 # 0

c_map_jr(n) == n.op = "OP_JALR" /\ n.rd = 0 /\ n.imm = 0 /\ n.rs1 # 0

c_map_jalr(n) == n.op = "OP_JALR" /\ n.rd = 1 /\ n.imm = 0 /\ n.rs1 # 0

c_map_ebreak(n) == n.op = "OP_EBREAK"

c_map_ca_alu(n) ==
  /\ n.op \in {"OP_SUB", "OP_XOR", "OP_OR", "OP_AND"}
  /\ n.rd = n.rs1 /\ IsPrime(n.rd) /\ IsPrime(n.rs2)

c_map_caw_alu64(cfg, n) ==
  /\ cfg.xlen = 64 /\ n.op \in {"OP_SUBW", "OP_ADDW"}
  /\ n.rd = n.rs1 /\ IsPrime(n.rd) /\ IsPrime(n.rs2)

c_map_cl_load(cfg, n) ==
  /\ IsPrime(n.rd) /\ IsPrime(n.rs1)
  /\ \/ n.op = "OP_LW" /\ Scaled(n, 4, 124)
     \/ n.op = "OP_LD" /\ cfg.xlen = 64 /\ Scaled(n, 8, 248)

\* No xlen test for OP_SD here, unlike the load rules.
c_map_cs_store(n) ==
  /\ IsPrime(n.rs2) /\ IsPrime(n.rs1)
  /\ \/ n.op = "OP_SW" /\ Scaled(n, 4, 124)
     \/ n.op = "OP_SD" /\ Scaled(n, 8, 248)

c_map_ci_sp_load(cfg, n) ==
  /\ n.rd # 0 /\ n.rs1 = 2
  /\ \/ n.op = "OP_LW" /\ Scaled(n, 4, 252)
     \/ n.op = "OP_LD" /\ cfg.xlen = 64 /\ Scaled(n, 8, 504)

c_map_css_sp_store(n) ==
  /\ n.rs2 # 0 /\ n.rs1 = 2
  /\ \/ n.op = "OP_SW" /\ Scaled(n, 4, 252)
     \/ n.op = "OP_SD" /\ Scaled(n, 8, 504)

c_map_cb_branchz(n) ==
  /\ n.op \in {"OP_BEQ", "OP_BNE"} /\ n.rs2 = 0 /\ IsPrime(n.rs1)
  /\ n.imm % 2 = 0 /\ n.imm \in -256 .. 254

c_map_cj_jump(cfg, n) ==
  /\ n.op = "OP_JAL" /\ (n.rd = 0 \/ (n.rd = 1 /\ cfg.xlen = 32))
  /\ n.imm % 2 = 0 /\ n.imm \in -2048 .. 2046

\* The compressed opcode of an operation with one compressed form.
COp(op) ==
  CASE op = "OP_SRLI" -> "OP_C_SRLI" [] op = "OP_SRAI" -> "OP_C_SRAI"
    [] op = "OP_SUB"  -> "OP_C_SUB"  [] op = "OP_XOR"  -> "OP_C_XOR"
    [] op = "OP_OR"   -> "OP_C_OR"   [] op = "OP_AND"  -> "OP_C_AND"
    [] op = "OP_SUBW" -> "OP_C_SUBW" [] op = "OP_ADDW" -> "OP_C_ADDW"
    [] op = "OP_LW"   -> "OP_C_LW"   [] op = "OP_LD"   -> "OP_C_LD"
    [] op = "OP_SW"   -> "OP_C_SW"   [] op = "OP_SD"   -> "OP_C_SD"
    [] op = "OP_BEQ"  -> "OP_C_BEQZ" [] op = "OP_BNE"  -> "OP_C_BNEZ"
    [] OTHER -> "OP_ADD"

COpSp(op) ==
  CASE op = "OP_LW" -> "OP_C_LWSP" [] op = "OP_LD" -> "OP_C_LDSP"
    [] op = "OP_SW" -> "OP_C_SWSP" [] OTHER -> "OP_C_SDSP"

\* A pc-relative candidate keeps the label and relocation of the instruction.
PcRelative(op, fmt, n, rd, rs1) ==
  [op |-> op, fmt |-> fmt, rd |-> rd, rs1 |-> rs1, rs2 |-> 0, imm |-> n.imm,
   label |-> n.label, reloc |-> n.reloc]

c_can_map(cfg, n) ==
  \/ c_map_addi_self(n) \/ c_map_li_via_addi(n) \/ c_map_nop(n) \/ c_map_slli(cfg, n)
  \/ c_map_srxi_prime(cfg, n) \/ c_map_andi_prime(n) \/ c_map_mv(n) \/ c_map_add_cr(n)
  \/ c_map_jr(n) \/ c_map_jalr(n) \/ c_map_ebreak(n) \/ c_map_ca_alu(n)
  \/ c_map_caw_alu64(cfg, n) \/ c_map_cl_load(cfg, n) \/ c_map_cs_store(n)
  \/ c_map_ci_sp_load(cfg, n) \/ c_map_css_sp_store(n) \/ c_map_cb_branchz(n)
  \/ c_map_cj_jump(cfg, n)

\* The candidate of the first rule that applies; used only where c_can_map holds.
c_try_map(cfg, n) ==
  IF c_map_addi_self(n) THEN Plain("OP_C_ADDI", "IF_CI", n.rd, n.rd, 0, n.imm)
  ELSE IF c_map_li_via_addi(n) THEN Plain("OP_C_LI", "IF_CI", n.rd, 0, 0, n.imm)
  ELSE IF c_map_nop(n) THEN Plain("OP_C_ADDI", "IF_CI", 0, 0, 0, 0)
  ELSE IF c_map_slli(cfg, n) THEN Plain("OP_C_SLLI", "IF_CI", n.rd, n.rd, 0, n.imm)
  ELSE IF c_map_srxi_prime(cfg, n) THEN Plain(COp(n.op), "IF_CI", n.rd, n.rd, 0, n.imm)
  ELSE IF c_map_andi_prime(n) THEN Plain("OP_C_ANDI", "IF_CI", n.rd, n.rd, 0, n.imm)
  ELSE IF c_map_mv(n) THEN Plain("OP_C_MV", "IF_CR", n.rd, 0, n.rs2, 0)
  ELSE IF c_map_add_cr(n) THEN Plain("OP_C_ADD", "IF_CR", n.rd, n.rd, n.rs2, 0)
  ELSE IF c_map_jr(n) THEN Plain("OP_C_JR", "IF_CR", 0, n.rs1, 0, 0)
  ELSE IF c_map_jalr(n) THEN Plain("OP_C_JALR", "IF_CR", 1, n.rs1, 0, 0)
  ELSE IF c_map_ebreak(n) THEN Plain("OP_C_EBREAK", "IF_CR", 0, 0, 0, 0)
  ELSE IF c_map_ca_alu(n) \/ c_map_caw_alu64(cfg, n)
       THEN Plain(COp(n.op), "IF_CA", n.rd, n.rd, n.rs2, 0)
  ELSE IF c_map_cl_load(cfg, n) THEN Plain(COp(n.op), "IF_CL", n.rd, n.rs1, 0, n.imm)
  ELSE IF c_map_cs_store(n) THEN Plain(COp(n.op), "IF_CS", 0, n.rs1, n.rs2, n.imm)
  ELSE IF c_map_ci_sp_load(cfg, n) THEN Plain(COpSp(n.op), "IF_CI", n.rd, 2, 0, n.imm)
  ELSE IF c_map_css_sp_store(n) THEN Plain(COpSp(n.op), "IF_CSS", 0, 2, n.rs2, n.imm)
  ELSE IF c_map_cb_branchz(n) THEN PcRelative(COp(n.op), "IF_CB", n, 0, n.rs1)
  ELSE PcRelative(IF n.rd = 0 THEN "OP_C_J" ELSE "OP_C_JAL", "IF_CJ", n, n.rd, 0)
=============================================================================
