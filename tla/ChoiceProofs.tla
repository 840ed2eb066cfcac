---------------------------- MODULE ChoiceProofs ----------------------------
(***************************************************************************)
(* Auto-compression keeps the program: the compressed form a rule of       *)
(* c_rules.c chose means the instruction it stands for, and it is refused  *)
(* only where the full-size form would be refused too.                     *)
(***************************************************************************)
EXTENDS LayoutProofs

-----------------------------------------------------------------------------
(***************************************************************************)
(* The rules.                                                              *)
(***************************************************************************)

\* Which rule c_try_map took for n, and the candidate ch it built: one line for
\* each line of its chain.
Taken(c, n, ch) ==
  \/ c_map_addi_self(n) /\ ch = Plain("OP_C_ADDI", "IF_CI", n.rd, n.rd, 0, n.imm)
  \/ c_map_li_via_addi(n) /\ ch = Plain("OP_C_LI", "IF_CI", n.rd, 0, 0, n.imm)
  \/ c_map_nop(n) /\ ch = Plain("OP_C_ADDI", "IF_CI", 0, 0, 0, 0)
  \/ c_map_slli(c, n) /\ ch = Plain("OP_C_SLLI", "IF_CI", n.rd, n.rd, 0, n.imm)
  \/ c_map_srxi_prime(c, n) /\ ch = Plain(COp(n.op), "IF_CI", n.rd, n.rd, 0, n.imm)
  \/ c_map_andi_prime(n) /\ ch = Plain("OP_C_ANDI", "IF_CI", n.rd, n.rd, 0, n.imm)
  \/ c_map_mv(n) /\ ch = Plain("OP_C_MV", "IF_CR", n.rd, 0, n.rs2, 0)
  \/ c_map_add_cr(n) /\ ch = Plain("OP_C_ADD", "IF_CR", n.rd, n.rd, n.rs2, 0)
  \/ c_map_jr(n) /\ ch = Plain("OP_C_JR", "IF_CR", 0, n.rs1, 0, 0)
  \/ c_map_jalr(n) /\ ch = Plain("OP_C_JALR", "IF_CR", 1, n.rs1, 0, 0)
  \/ c_map_ebreak(n) /\ ch = Plain("OP_C_EBREAK", "IF_CR", 0, 0, 0, 0)
  \/ /\ c_map_ca_alu(n) \/ c_map_caw_alu64(c, n)
     /\ ch = Plain(COp(n.op), "IF_CA", n.rd, n.rd, n.rs2, 0)
  \/ c_map_cl_load(c, n) /\ ch = Plain(COp(n.op), "IF_CL", n.rd, n.rs1, 0, n.imm)
  \/ c_map_cs_store(n) /\ ch = Plain(COp(n.op), "IF_CS", 0, n.rs1, n.rs2, n.imm)
  \/ c_map_ci_sp_load(c, n) /\ ch = Plain(COpSp(n.op), "IF_CI", n.rd, 2, 0, n.imm)
  \/ c_map_css_sp_store(n) /\ ch = Plain(COpSp(n.op), "IF_CSS", 0, 2, n.rs2, n.imm)
  \/ c_map_cb_branchz(n) /\ ch = PcRelative(COp(n.op), "IF_CB", n, 0, n.rs1)
  \/ /\ c_map_cj_jump(c, n)
     /\ ch = PcRelative(IF n.rd = 0 THEN "OP_C_J" ELSE "OP_C_JAL", "IF_CJ", n, n.rd, 0)

\* Where a rule applies, c_try_map takes one.
LEMMA SomeRule == \A c, n : c_can_map(c, n) => Taken(c, n, c_try_map(c, n))
BY SMTT(60) DEF c_can_map, c_try_map, Taken

\* What the production of an operation leaves 0 in its operands.
LEMMA OperandsLacking ==
  ASSUME NEW n \in Instruction
  PROVE  /\ n.op \in OpsOf("IF_R") => n.imm = 0
         /\ n.op \in OpsOf("IF_I") => n.rs2 = 0
         /\ n.op \in OpsOf("IF_S") => n.rd = 0
         /\ n.op \in OpsOf("IF_B") => n.rd = 0
         /\ n.op \in OpsOf("IF_J") => n.rs1 = 0 /\ n.rs2 = 0
         /\ n.op = "OP_EBREAK" => n.rd = 0 /\ n.rs1 = 0 /\ n.rs2 = 0 /\ n.imm = 0
<1>1. n.op \in OpsOf(n.fmt) /\ n.fmt \in Formats
  BY DEF Instruction, Operands
<1>2. /\ n.fmt \in NoRd => n.rd = 0
      /\ n.fmt \in NoRs1 => n.rs1 = 0
      /\ n.fmt \notin HasRs2 => n.rs2 = 0
      /\ n.fmt \in NoImm => n.imm = 0
      /\ n.op \in {"OP_ECALL", "OP_EBREAK"} => n.rd = 0 /\ n.rs1 = 0 /\ n.imm = 0
  BY DEF Instruction
<1>3. \A f \in {"IF_R", "IF_I", "IF_S", "IF_B", "IF_J"} : n.op \in OpsOf(f) => n.fmt = f
  <2>1. ASSUME n.op \in OpsOf("IF_R")
        PROVE  n.fmt = "IF_R"
    BY <1>1, <2>1 DEF OpsOf, Formats, WideFormats, CFormats
  <2>2. ASSUME n.op \in OpsOf("IF_I")
        PROVE  n.fmt = "IF_I"
    BY <1>1, <2>2 DEF OpsOf, Formats, WideFormats, CFormats
  <2>3. ASSUME n.op \in OpsOf("IF_S")
        PROVE  n.fmt = "IF_S"
    BY <1>1, <2>3 DEF OpsOf, Formats, WideFormats, CFormats
  <2>4. ASSUME n.op \in OpsOf("IF_B")
        PROVE  n.fmt = "IF_B"
    BY <1>1, <2>4 DEF OpsOf, Formats, WideFormats, CFormats
  <2>5. ASSUME n.op \in OpsOf("IF_J")
        PROVE  n.fmt = "IF_J"
    BY <1>1, <2>5 DEF OpsOf, Formats, WideFormats, CFormats
  <2> QED
    BY <2>1, <2>2, <2>3, <2>4, <2>5
<1>4. "OP_EBREAK" \in OpsOf("IF_I")
  BY DEF OpsOf
<1> QED
  BY <1>2, <1>3, <1>4 DEF NoRd, NoRs1, HasRs2, NoImm

-----------------------------------------------------------------------------
(***************************************************************************)
(* A choice means its instruction.                                         *)
(***************************************************************************)

\* The instruction n, as the manual writes one.
Asked(n) == Manual!Wide(n.op, n.rd, n.rs1, n.rs2, n.imm)

\* The candidate of each rule abbreviates the instruction the rule looked at.
LEMMA RuleMeans ==
  ASSUME NEW c, NEW n \in Instruction, NEW ch, Taken(c, n, ch)
  PROVE  Manual!Expand(ch) = Asked(n)
<1> USE DEF Manual!Expand, Manual!Wide, Asked, Plain
<1>1. CASE c_map_addi_self(n) /\ ch = Plain("OP_C_ADDI", "IF_CI", n.rd, n.rd, 0, n.imm)
  BY <1>1, OperandsLacking DEF c_map_addi_self, OpsOf
<1>2. CASE c_map_li_via_addi(n) /\ ch = Plain("OP_C_LI", "IF_CI", n.rd, 0, 0, n.imm)
  BY <1>2, OperandsLacking DEF c_map_li_via_addi, OpsOf
<1>3. CASE c_map_nop(n) /\ ch = Plain("OP_C_ADDI", "IF_CI", 0, 0, 0, 0)
  BY <1>3, OperandsLacking DEF c_map_nop, OpsOf
<1>4. CASE c_map_slli(c, n) /\ ch = Plain("OP_C_SLLI", "IF_CI", n.rd, n.rd, 0, n.imm)
  BY <1>4, OperandsLacking DEF c_map_slli, OpsOf
<1>5. CASE c_map_srxi_prime(c, n) /\ ch = Plain(COp(n.op), "IF_CI", n.rd, n.rd, 0, n.imm)
  <2>1. CASE n.op = "OP_SRLI"
    <3>1. ch = Plain("OP_C_SRLI", "IF_CI", n.rd, n.rd, 0, n.imm)
      BY <1>5, <2>1 DEF COp
    <3> QED
      BY <1>5, <2>1, <3>1, OperandsLacking DEF c_map_srxi_prime, OpsOf
  <2>2. CASE n.op = "OP_SRAI"
    <3>1. ch = Plain("OP_C_SRAI", "IF_CI", n.rd, n.rd, 0, n.imm)
      BY <1>5, <2>2 DEF COp
    <3> QED
      BY <1>5, <2>2, <3>1, OperandsLacking DEF c_map_srxi_prime, OpsOf
  <2> QED
    BY <1>5, <2>1, <2>2 DEF c_map_srxi_prime
<1>6. CASE c_map_andi_prime(n) /\ ch = Plain("OP_C_ANDI", "IF_CI", n.rd, n.rd, 0, n.imm)
  BY <1>6, OperandsLacking DEF c_map_andi_prime, OpsOf
<1>7. CASE c_map_mv(n) /\ ch = Plain("OP_C_MV", "IF_CR", n.rd, 0, n.rs2, 0)
  BY <1>7, OperandsLacking DEF c_map_mv, OpsOf
<1>8. CASE c_map_add_cr(n) /\ ch = Plain("OP_C_ADD", "IF_CR", n.rd, n.rd, n.rs2, 0)
  BY <1>8, OperandsLacking DEF c_map_add_cr, OpsOf
<1>9. CASE c_map_jr(n) /\ ch = Plain("OP_C_JR", "IF_CR", 0, n.rs1, 0, 0)
  BY <1>9, OperandsLacking DEF c_map_jr, OpsOf
<1>10. CASE c_map_jalr(n) /\ ch = Plain("OP_C_JALR", "IF_CR", 1, n.rs1, 0, 0)
  BY <1>10, OperandsLacking DEF c_map_jalr, OpsOf
<1>11. CASE c_map_ebreak(n) /\ ch = Plain("OP_C_EBREAK", "IF_CR", 0, 0, 0, 0)
  BY <1>11, OperandsLacking DEF c_map_ebreak, OpsOf
<1>12. CASE /\ c_map_ca_alu(n) \/ c_map_caw_alu64(c, n)
            /\ ch = Plain(COp(n.op), "IF_CA", n.rd, n.rd, n.rs2, 0)
  <2> DEFINE Ops == {"OP_SUB", "OP_XOR", "OP_OR", "OP_AND", "OP_SUBW", "OP_ADDW"}
  <2>1. \A op \in Ops : \A x :
          x.op = COp(op) => Manual!Expand(x) = Manual!Wide(op, x.rd, x.rd, x.rs2, 0)
    <3> SUFFICES ASSUME NEW op \in Ops, NEW x, x.op = COp(op)
                 PROVE  Manual!Expand(x) = Manual!Wide(op, x.rd, x.rd, x.rs2, 0)
      BY Zenon
    <3>1. \/ op = "OP_SUB" /\ x.op = "OP_C_SUB"
          \/ op = "OP_XOR" /\ x.op = "OP_C_XOR"
          \/ op = "OP_OR" /\ x.op = "OP_C_OR"
          \/ op = "OP_AND" /\ x.op = "OP_C_AND"
          \/ op = "OP_SUBW" /\ x.op = "OP_C_SUBW"
          \/ op = "OP_ADDW" /\ x.op = "OP_C_ADDW"
      BY DEF COp
    <3> QED
      BY <3>1, SMTT(60)
  <2>2. n.op \in Ops /\ n.rd = n.rs1
    BY <1>12 DEF c_map_ca_alu, c_map_caw_alu64
  <2>3. n.imm = 0
    BY <2>2, OperandsLacking DEF OpsOf
  <2>4. ch.op = COp(n.op) /\ ch.rd = n.rd /\ ch.rs2 = n.rs2
    BY <1>12
  <2> HIDE DEF Ops, Manual!Expand, Manual!Wide
  <2> QED
    BY <2>1, <2>2, <2>3, <2>4
<1>13. CASE c_map_cl_load(c, n) /\ ch = Plain(COp(n.op), "IF_CL", n.rd, n.rs1, 0, n.imm)
  <2>1. CASE n.op = "OP_LW"
    <3>1. ch = Plain("OP_C_LW", "IF_CL", n.rd, n.rs1, 0, n.imm)
      BY <1>13, <2>1 DEF COp
    <3> QED
      BY <1>13, <2>1, <3>1, OperandsLacking DEF c_map_cl_load, OpsOf
  <2>2. CASE n.op = "OP_LD"
    <3>1. ch = Plain("OP_C_LD", "IF_CL", n.rd, n.rs1, 0, n.imm)
      BY <1>13, <2>2 DEF COp
    <3> QED
      BY <1>13, <2>2, <3>1, OperandsLacking DEF c_map_cl_load, OpsOf
  <2> QED
    BY <1>13, <2>1, <2>2 DEF c_map_cl_load
<1>14. CASE c_map_cs_store(n) /\ ch = Plain(COp(n.op), "IF_CS", 0, n.rs1, n.rs2, n.imm)
  <2>1. CASE n.op = "OP_SW"
    <3>1. ch = Plain("OP_C_SW", "IF_CS", 0, n.rs1, n.rs2, n.imm)
      BY <1>14, <2>1 DEF COp
    <3> QED
      BY <1>14, <2>1, <3>1, OperandsLacking DEF c_map_cs_store, OpsOf
  <2>2. CASE n.op = "OP_SD"
    <3>1. ch = Plain("OP_C_SD", "IF_CS", 0, n.rs1, n.rs2, n.imm)
      BY <1>14, <2>2 DEF COp
    <3> QED
      BY <1>14, <2>2, <3>1, OperandsLacking DEF c_map_cs_store, OpsOf
  <2> QED
    BY <1>14, <2>1, <2>2 DEF c_map_cs_store
<1>15. CASE c_map_ci_sp_load(c, n) /\ ch = Plain(COpSp(n.op), "IF_CI", n.rd, 2, 0, n.imm)
  <2>1. CASE n.op = "OP_LW"
    <3>1. ch = Plain("OP_C_LWSP", "IF_CI", n.rd, 2, 0, n.imm)
      BY <1>15, <2>1 DEF COpSp
    <3> QED
      BY <1>15, <2>1, <3>1, OperandsLacking DEF c_map_ci_sp_load, OpsOf
  <2>2. CASE n.op = "OP_LD"
    <3>1. ch = Plain("OP_C_LDSP", "IF_CI", n.rd, 2, 0, n.imm)
      BY <1>15, <2>2 DEF COpSp
    <3> QED
      BY <1>15, <2>2, <3>1, OperandsLacking DEF c_map_ci_sp_load, OpsOf
  <2> QED
    BY <1>15, <2>1, <2>2 DEF c_map_ci_sp_load
<1>16. CASE c_map_css_sp_store(n) /\ ch = Plain(COpSp(n.op), "IF_CSS", 0, 2, n.rs2, n.imm)
  <2>1. CASE n.op = "OP_SW"
    <3>1. ch = Plain("OP_C_SWSP", "IF_CSS", 0, 2, n.rs2, n.imm)
      BY <1>16, <2>1 DEF COpSp
    <3> QED
      BY <1>16, <2>1, <3>1, OperandsLacking DEF c_map_css_sp_store, OpsOf
  <2>2. CASE n.op = "OP_SD"
    <3>1. ch = Plain("OP_C_SDSP", "IF_CSS", 0, 2, n.rs2, n.imm)
      BY <1>16, <2>2 DEF COpSp
    <3> QED
      BY <1>16, <2>2, <3>1, OperandsLacking DEF c_map_css_sp_store, OpsOf
  <2> QED
    BY <1>16, <2>1, <2>2 DEF c_map_css_sp_store
<1>17. CASE c_map_cb_branchz(n) /\ ch = PcRelative(COp(n.op), "IF_CB", n, 0, n.rs1)
  <2> DEFINE Ops == {"OP_BEQ", "OP_BNE"}
  <2>1. \A op \in Ops : \A x :
          x.op = COp(op) => Manual!Expand(x) = Manual!Wide(op, 0, x.rs1, 0, x.imm)
    <3> SUFFICES ASSUME NEW op \in Ops, NEW x, x.op = COp(op)
                 PROVE  Manual!Expand(x) = Manual!Wide(op, 0, x.rs1, 0, x.imm)
      BY Zenon
    <3>1. \/ op = "OP_BEQ" /\ x.op = "OP_C_BEQZ"
          \/ op = "OP_BNE" /\ x.op = "OP_C_BNEZ"
      BY DEF COp
    <3> QED
      BY <3>1, SMTT(60)
  <2>2. n.op \in Ops /\ n.rs2 = 0
    BY <1>17 DEF c_map_cb_branchz
  <2>3. n.rd = 0
    BY <2>2, OperandsLacking DEF OpsOf
  <2>4. ch.op = COp(n.op) /\ ch.rs1 = n.rs1 /\ ch.imm = n.imm
    BY <1>17 DEF PcRelative
  <2> HIDE DEF Ops, Manual!Expand, Manual!Wide
  <2> QED
    BY <2>1, <2>2, <2>3, <2>4
<1>18. CASE /\ c_map_cj_jump(c, n)
            /\ ch = PcRelative(IF n.rd = 0 THEN "OP_C_J" ELSE "OP_C_JAL", "IF_CJ", n, n.rd, 0)
  <2>1. CASE n.rd = 0
    <3>1. ch = PcRelative("OP_C_J", "IF_CJ", n, 0, 0)
      BY <1>18, <2>1
    <3> QED
      BY <1>18, <2>1, <3>1, OperandsLacking DEF c_map_cj_jump, OpsOf, PcRelative
  <2>2. CASE n.rd # 0
    <3>1. ch = PcRelative("OP_C_JAL", "IF_CJ", n, 1, 0)
      BY <1>18, <2>2 DEF c_map_cj_jump
    <3> QED
      BY <1>18, <2>2, <3>1, OperandsLacking DEF c_map_cj_jump, OpsOf, PcRelative
  <2> QED
    BY <2>1, <2>2
<1> HIDE DEF Manual!Expand, Manual!Wide, Asked, Plain
<1> QED
  BY <1>1, <1>2, <1>3, <1>4, <1>5, <1>6, <1>7, <1>8, <1>9, <1>10, <1>11, <1>12, <1>13, <1>14,
     <1>15, <1>16, <1>17, <1>18 DEF Taken

\* The displacement of a short branch or jump is all of it that may change.
LEMMA DisplacementFree ==
  ASSUME NEW ch \in Operands, ch.op \in PcRelOps, NEW v \in Int
  PROVE  Manual!Expand([ch EXCEPT !.imm = v]) = [Manual!Expand(ch) EXCEPT !.imm = v]
<1> DEFINE x == [ch EXCEPT !.imm = v]
<1>1. x.op = ch.op /\ x.rs1 = ch.rs1 /\ x.imm = v
  BY DEF Operands
<1>2. ch.op \in {"OP_C_BEQZ", "OP_C_BNEZ", "OP_C_J", "OP_C_JAL"}
  BY DEF PcRelOps, ShortBranches, ShortJumps
<1> HIDE DEF x
<1>3. CASE ch.op = "OP_C_BEQZ"
  BY <1>1, <1>3 DEF Manual!Expand, Manual!Wide, x
<1>4. CASE ch.op = "OP_C_BNEZ"
  BY <1>1, <1>4 DEF Manual!Expand, Manual!Wide, x
<1>5. CASE ch.op = "OP_C_J"
  BY <1>1, <1>5 DEF Manual!Expand, Manual!Wide, x
<1>6. CASE ch.op = "OP_C_JAL"
  BY <1>1, <1>6 DEF Manual!Expand, Manual!Wide, x
<1> QED
  BY <1>2, <1>3, <1>4, <1>5, <1>6

\* What a rule chose for an entry, whatever the layout has put into it since.
LEMMA EntryMeans ==
  ASSUME NEW c, NEW e, EntryOK(c, e), e.has_c_choice
  PROVE  Manual!Expand(e.choice) =
           Manual!Wide(e.op, e.rd, e.rs1, e.rs2,
                       IF e.label = NoLabel THEN e.imm ELSE e.choice.imm)
<1> DEFINE n == OperandsOf(e)
           ch == c_try_map(c, n)
<1>1. ChosenByRule(c, e) /\ e.kind = "IR_INSTR" /\ e \in Entry
  BY DEF EntryOK, ChosenByRule
<1>2. n \in Instruction /\ c_can_map(c, n) /\ n \in Operands
  BY <1>1, OperandsOfType DEF EntryOK, ChosenByRule
<1>3. Manual!Expand(ch) = Asked(n)
  BY <1>2, SomeRule, RuleMeans
<1>4. /\ n.op = e.op /\ n.rd = e.rd /\ n.rs1 = e.rs1 /\ n.rs2 = e.rs2 /\ n.imm = e.imm
      /\ n.label = e.label
  BY DEF OperandsOf
<1>5. e.choice = [ch EXCEPT !.imm = e.choice.imm] /\ e.choice.imm \in Int /\ ch \in Operands
  BY <1>1, <1>2, CandidateType DEF ChosenByRule, Entry, Operands
<1>6. ch.op \in PcRelOps => ch.label = e.label
  BY <1>2, <1>4, CandidateLabel
<1>7. ch.op \notin PcRelOps \/ ch.label = NoLabel => e.choice = ch
  BY <1>1 DEF ChosenByRule
<1>8. e.label # NoLabel => ch.op \in PcRelOps
  <2>1. e.choice.op = ch.op
    BY <1>5 DEF Operands
  <2> QED
    BY <2>1, ChoiceForm
<1> HIDE DEF ch, n
<1>9. CASE e.label = NoLabel
  BY <1>3, <1>4, <1>6, <1>7, <1>9 DEF Asked
<1>10. CASE e.label # NoLabel
  <2> DEFINE v == e.choice.imm
  <2>1. e.choice = [ch EXCEPT !.imm = v] /\ v \in Int
    BY <1>5
  <2> HIDE DEF v
  <2>2. Manual!Expand(e.choice) = [Manual!Expand(ch) EXCEPT !.imm = v]
    BY <1>5, <1>8, <1>10, <2>1, DisplacementFree
  <2> QED
    BY <1>3, <1>4, <1>10, <2>2 DEF Asked, Manual!Wide, v
<1> QED
  BY <1>9, <1>10

\* The compressed form chosen for an instruction means that instruction, for every
\* source, every option and whichever of the overlapping rules came first.
THEOREM ChoicesMeanSame == Spec => []ChoiceMeansSame
<1>1. TypeInv => ChoiceMeansSame
  <2> SUFFICES ASSUME TypeInv, NEW k \in Candidates
               PROVE  LET e == ir[k]
                      IN Manual!Expand(e.choice) =
                           [op |-> e.op, rd |-> e.rd, rs1 |-> e.rs1, rs2 |-> e.rs2,
                            imm |-> IF e.label = NoLabel THEN e.imm ELSE e.choice.imm]
    BY DEF ChoiceMeansSame
  <2>1. EntryOK(cfg, ir[k]) /\ ir[k].has_c_choice
    BY DEF TypeInv, EntriesOK, Candidates
  <2> QED
    BY <2>1, EntryMeans DEF Manual!Wide
<1> QED
  BY <1>1, TypeInvariant, PTL

-----------------------------------------------------------------------------
(***************************************************************************)
(* A choice is accepted where its instruction is.                          *)
(***************************************************************************)

\* An offset a rule accepts is still aligned and in range as a uint32_t.
LEMMA NarrowedScale ==
  ASSUME NEW x, x.imm \in Int, NEW k \in {4, 8}, NEW top \in 0 .. 504, Scaled(x, k, top)
  PROVE  ScaledU32(x.imm, k, top)
<1> DEFINE v == x.imm
           h == HalfMod \div 4
           q == v \div Mod32
           r == U32(v)
<1>1. h \in Nat \ {0} /\ HalfMod = 4 * h /\ Mod32 = 8 * h
  BY WidthAssumption, ScaleAssumption DEF Mod32
<1>2. v \in Nat /\ v % k = 0 /\ v <= top
  BY DEF Scaled
<1>3. Mod32 \in Nat \ {0}
  BY <1>1
<1>4. v = Mod32 * q + r /\ q \in Nat /\ r \in Nat
  BY <1>2, <1>3 DEF U32
<1> HIDE DEF h, q, r
<1> DEFINE p == h * q
<1>5. p \in Nat
  BY <1>1, <1>4
<1>6. Mod32 * q = 8 * p
  BY <1>1, <1>4
<1> HIDE DEF p, v
<1>7. v = 8 * p + r
  BY <1>4, <1>6
<1>8. r <= v /\ r % k = 0
  BY <1>2, <1>4, <1>5, <1>7
<1>9. v >= 0 /\ r <= top
  BY <1>2, <1>4, <1>8
<1> QED
  BY <1>8, <1>9, Zenon DEF ScaledU32, r, v

\* The format an offset of a given operation is encoded in.
FormFits(ch) ==
  /\ ch.op \in ShortBranches => ch.fmt = "IF_CB" /\ IsPrime(ch.rs1)
  /\ ch.op \in ShortJumps => ch.fmt = "IF_CJ"

\* x passes the tests pass 2 makes of a compressed instruction.
Fits(c, x) == require_c_for_op(c, x.op) /\ c_encode_instruction(c, x)

\* On a target with the operation and the C extension, what a rule built is accepted.
LEMMA RuleFits ==
  ASSUME NEW c, NEW n \in Instruction, NEW ch, Taken(c, n, ch), c.extC,
         require_for_op(c, n.op)
  PROVE  Fits(c, ch) /\ FormFits(ch)
<1>0. n.imm \in Int
  BY DEF Instruction, Operands
<1> USE DEF Fits, FormFits, Plain, require_c_for_op, COps64, COps32, ShortBranches, ShortJumps,
            c_encode_instruction
<1>1. CASE c_map_addi_self(n) /\ ch = Plain("OP_C_ADDI", "IF_CI", n.rd, n.rd, 0, n.imm)
  BY <1>1 DEF c_map_addi_self, encode_citype, SmallImm
<1>2. CASE c_map_li_via_addi(n) /\ ch = Plain("OP_C_LI", "IF_CI", n.rd, 0, 0, n.imm)
  BY <1>2 DEF c_map_li_via_addi, encode_citype, SmallImm
<1>3. CASE c_map_nop(n) /\ ch = Plain("OP_C_ADDI", "IF_CI", 0, 0, 0, 0)
  BY <1>3 DEF c_map_nop, encode_citype, SmallImm
<1>4. CASE c_map_slli(c, n) /\ ch = Plain("OP_C_SLLI", "IF_CI", n.rd, n.rd, 0, n.imm)
  BY <1>4 DEF c_map_slli, encode_citype, Shamt
<1>5. CASE c_map_srxi_prime(c, n) /\ ch = Plain(COp(n.op), "IF_CI", n.rd, n.rd, 0, n.imm)
  <2>1. ch.op \in {"OP_C_SRLI", "OP_C_SRAI"}
    BY <1>5 DEF c_map_srxi_prime, COp
  <2> QED
    BY <1>5, <2>1 DEF c_map_srxi_prime, encode_citype, Shamt
<1>6. CASE c_map_andi_prime(n) /\ ch = Plain("OP_C_ANDI", "IF_CI", n.rd, n.rd, 0, n.imm)
  BY <1>6 DEF c_map_andi_prime, encode_citype, SmallImm
<1>7. CASE c_map_mv(n) /\ ch = Plain("OP_C_MV", "IF_CR", n.rd, 0, n.rs2, 0)
  BY <1>7 DEF c_map_mv, encode_crtype
<1>8. CASE c_map_add_cr(n) /\ ch = Plain("OP_C_ADD", "IF_CR", n.rd, n.rd, n.rs2, 0)
  BY <1>8 DEF c_map_add_cr, encode_crtype
<1>9. CASE c_map_jr(n) /\ ch = Plain("OP_C_JR", "IF_CR", 0, n.rs1, 0, 0)
  BY <1>9 DEF c_map_jr, encode_crtype
<1>10. CASE c_map_jalr(n) /\ ch = Plain("OP_C_JALR", "IF_CR", 1, n.rs1, 0, 0)
  BY <1>10 DEF c_map_jalr, encode_crtype
<1>11. CASE c_map_ebreak(n) /\ ch = Plain("OP_C_EBREAK", "IF_CR", 0, 0, 0, 0)
  BY <1>11 DEF c_map_ebreak, encode_crtype
<1>12. CASE /\ c_map_ca_alu(n) \/ c_map_caw_alu64(c, n)
            /\ ch = Plain(COp(n.op), "IF_CA", n.rd, n.rd, n.rs2, 0)
  <2>1. CASE c_map_ca_alu(n)
    <3>1. ch.op \in {"OP_C_SUB", "OP_C_XOR", "OP_C_OR", "OP_C_AND"}
      BY <1>12, <2>1 DEF c_map_ca_alu, COp
    <3> QED
      BY <1>12, <2>1, <3>1 DEF c_map_ca_alu, encode_catype
  <2>2. CASE c_map_caw_alu64(c, n)
    <3>1. ch.op \in {"OP_C_SUBW", "OP_C_ADDW"}
      BY <1>12, <2>2 DEF c_map_caw_alu64, COp
    <3> QED
      BY <1>12, <2>2, <3>1 DEF c_map_caw_alu64, encode_catype
  <2> QED
    BY <1>12, <2>1, <2>2
<1>13. CASE c_map_cl_load(c, n) /\ ch = Plain(COp(n.op), "IF_CL", n.rd, n.rs1, 0, n.imm)
  <2>1. \/ ch.op = "OP_C_LW" /\ ScaledU32(n.imm, 4, 124)
        \/ ch.op = "OP_C_LD" /\ c.xlen = 64 /\ ScaledU32(n.imm, 8, 248)
    BY <1>0, <1>13, NarrowedScale, SMTT(60) DEF c_map_cl_load, COp
  <2> QED
    BY <1>13, <2>1 DEF c_map_cl_load, encode_cltype
<1>14. CASE c_map_cs_store(n) /\ ch = Plain(COp(n.op), "IF_CS", 0, n.rs1, n.rs2, n.imm)
  <2>1. \/ ch.op = "OP_C_SW" /\ ScaledU32(n.imm, 4, 124)
        \/ ch.op = "OP_C_SD" /\ n.op = "OP_SD" /\ ScaledU32(n.imm, 8, 248)
    BY <1>0, <1>14, NarrowedScale DEF c_map_cs_store, COp
  <2>2. n.op = "OP_SD" => c.xlen = 64
    BY DEF require_for_op, Ops64
  <2> QED
    BY <1>14, <2>1, <2>2 DEF c_map_cs_store, encode_cstype
<1>15. CASE c_map_ci_sp_load(c, n) /\ ch = Plain(COpSp(n.op), "IF_CI", n.rd, 2, 0, n.imm)
  <2>1. \/ ch.op = "OP_C_LWSP" /\ Scaled(n, 4, 252)
        \/ ch.op = "OP_C_LDSP" /\ c.xlen = 64 /\ Scaled(n, 8, 504)
    BY <1>15 DEF c_map_ci_sp_load, COpSp
  <2> QED
    BY <1>15, <2>1 DEF c_map_ci_sp_load, encode_citype, Scaled
<1>16. CASE c_map_css_sp_store(n) /\ ch = Plain(COpSp(n.op), "IF_CSS", 0, 2, n.rs2, n.imm)
  <2>1. \/ ch.op = "OP_C_SWSP" /\ ScaledU32(n.imm, 4, 252)
        \/ ch.op = "OP_C_SDSP" /\ n.op = "OP_SD" /\ ScaledU32(n.imm, 8, 504)
    BY <1>0, <1>16, NarrowedScale DEF c_map_css_sp_store, COpSp
  <2>2. n.op = "OP_SD" => c.xlen = 64
    BY DEF require_for_op, Ops64
  <2> QED
    BY <1>16, <2>1, <2>2 DEF c_map_css_sp_store, encode_csstype
<1>17. CASE c_map_cb_branchz(n) /\ ch = PcRelative(COp(n.op), "IF_CB", n, 0, n.rs1)
  <2>1. ch.op \in {"OP_C_BEQZ", "OP_C_BNEZ"}
    BY <1>17 DEF c_map_cb_branchz, COp, PcRelative
  <2> QED
    BY <1>17, <2>1 DEF c_map_cb_branchz, encode_cbtype, EvenIn, PcRelative
<1>18. CASE /\ c_map_cj_jump(c, n)
            /\ ch = PcRelative(IF n.rd = 0 THEN "OP_C_J" ELSE "OP_C_JAL", "IF_CJ", n, n.rd, 0)
  <2>1. \/ ch.op = "OP_C_J"
        \/ ch.op = "OP_C_JAL" /\ c.xlen = 32
    BY <1>18 DEF c_map_cj_jump, PcRelative
  <2> QED
    BY <1>18, <2>1 DEF c_map_cj_jump, encode_cjtype, EvenIn, PcRelative
<1> HIDE DEF Fits, FormFits, Plain
<1> QED
  BY <1>1, <1>2, <1>3, <1>4, <1>5, <1>6, <1>7, <1>8, <1>9, <1>10, <1>11, <1>12, <1>13, <1>14,
     <1>15, <1>16, <1>17, <1>18 DEF Taken

\* A short branch or jump whose new displacement is in range is accepted as well.
LEMMA MovedFits ==
  ASSUME NEW c, NEW ch, Fits(c, ch), FormFits(ch), ch.op \in PcRelOps,
         NEW x, x.op = ch.op, x.fmt = ch.fmt, x.rs1 = ch.rs1, pass2_choice_range_ok(x, x.imm)
  PROVE  Fits(c, x)
<1>1. CASE ch.op \in ShortBranches
  BY <1>1 DEF Fits, FormFits, pass2_choice_range_ok, c_encode_instruction, encode_cbtype
<1>2. CASE ch.op \in ShortJumps
  BY <1>2 DEF Fits, FormFits, pass2_choice_range_ok, c_encode_instruction, encode_cjtype,
     ShortJumps, ShortBranches
<1> QED
  BY <1>1, <1>2 DEF PcRelOps

\* The choice of an entry passes those tests where the target has the operation.
LEMMA EntryFits ==
  ASSUME NEW c, NEW e, EntryOK(c, e), e.has_c_choice, require_for_op(c, e.op)
  PROVE  Fits(c, c_materialize(e))
<1> DEFINE n == OperandsOf(e)
           ch == c_try_map(c, n)
           x == c_materialize(e)
<1>1. ChosenByRule(c, e) /\ e.kind = "IR_INSTR" /\ e \in Entry
  BY DEF EntryOK, ChosenByRule
<1>2. n \in Instruction /\ c_can_map(c, n) /\ n \in Operands /\ n.op = e.op /\ c.extC
  BY <1>1, OperandsOfType DEF EntryOK, ChosenByRule, OperandsOf
<1>3. Fits(c, ch) /\ FormFits(ch)
  BY <1>2, SomeRule, RuleFits
<1>4. /\ e.choice = [ch EXCEPT !.imm = e.choice.imm] /\ ch \in Operands /\ e.choice \in Operands
      /\ ch.op \notin PcRelOps => e.choice = ch
      /\ pass2_choice_range_ok(e.choice, e.choice.imm)
  BY <1>1, <1>2, CandidateType DEF ChosenByRule, Entry
<1> HIDE DEF ch, n
<1>5. e.choice.op = ch.op /\ e.choice.fmt = ch.fmt /\ e.choice.rs1 = ch.rs1
  BY <1>4 DEF Operands
<1>6. CASE ch.op \in PcRelOps
  <2>1. x = [e.choice EXCEPT !.label = NoLabel, !.reloc = "RELOC_NONE"]
    BY <1>5, <1>6 DEF c_materialize
  <2>2. x.op = ch.op /\ x.fmt = ch.fmt /\ x.rs1 = ch.rs1 /\ x.imm = e.choice.imm
    BY <1>4, <1>5, <2>1 DEF Operands
  <2> HIDE DEF x
  <2>3. pass2_choice_range_ok(x, x.imm)
    BY <1>4, <1>5, <2>2 DEF pass2_choice_range_ok
  <2>4. Fits(c, x)
    BY <1>3, <1>6, <2>2, <2>3, MovedFits
  <2> QED
    BY <2>4 DEF x
<1>7. CASE ch.op \notin PcRelOps
  BY <1>3, <1>4, <1>7 DEF c_materialize
<1> QED
  BY <1>6, <1>7

\* The form of an entry with a choice has no label left to resolve.
LEMMA ChoiceUnlabelled ==
  ASSUME NEW c, NEW e, EntryOK(c, e), e.has_c_choice
  PROVE  c_materialize(e).label = NoLabel /\ is_c_fmt(c_materialize(e).fmt)
<1>1. /\ e.choice \in Operands /\ e.choice.fmt \in CFormats
  BY ChoiceForm
<1>2. e.choice.op \notin PcRelOps => e.choice.label = NoLabel
  <2> DEFINE n == OperandsOf(e)
             ch == c_try_map(c, n)
  <2>1. ChosenByRule(c, e)
    BY DEF EntryOK
  <2>2. Taken(c, n, ch) /\ n \in Instruction
    BY <2>1, SomeRule DEF ChosenByRule, EntryOK
  <2>3. ch \in Operands /\ e.choice = [ch EXCEPT !.imm = e.choice.imm]
    BY <2>1, OperandsOfType, CandidateType DEF EntryOK, ChosenByRule
  <2>4. \A op, f, rd, rs1, rs2, imm : Plain(op, f, rd, rs1, rs2, imm).label = NoLabel
    BY DEF Plain
  <2>5. ch.label = NoLabel \/ ch.op \in PcRelOps
    <3>1. \A op, f, rd, rs1 : PcRelative(op, f, n, rd, rs1).op = op
      BY DEF PcRelative
    <3>2. c_map_cb_branchz(n) => COp(n.op) \in PcRelOps
      BY DEF c_map_cb_branchz, COp, PcRelOps, ShortBranches
    <3>3. \A r : (IF r = 0 THEN "OP_C_J" ELSE "OP_C_JAL") \in PcRelOps
      BY DEF PcRelOps, ShortJumps
    <3> QED
      BY <2>2, <2>4, <3>1, <3>2, <3>3 DEF Taken
  <2> HIDE DEF ch
  <2>6. e.choice.op = ch.op /\ e.choice.label = ch.label
    BY <2>3 DEF Operands
  <2> QED
    BY <2>5, <2>6
<1>3. CASE e.choice.op \in PcRelOps
  BY <1>1, <1>3 DEF c_materialize, Operands, is_c_fmt
<1>4. CASE e.choice.op \notin PcRelOps
  BY <1>1, <1>2, <1>4 DEF c_materialize, is_c_fmt
<1> QED
  BY <1>3, <1>4

\* Compression never makes a program fail: a choice that pass 2 refuses stands for
\* an instruction that it would have refused as well.
THEOREM CompressingIsSafe == Spec => []CompressionIsSafe
<1>1. TypeInv => CompressionIsSafe
  <2> SUFFICES ASSUME TypeInv, i \in DOMAIN ir, ir[i].has_c_choice,
                      Emittable(c_materialize(ir_clear_c_choice(ir[i])), ir[i].addr)
               PROVE  Emittable(c_materialize(ir[i]), ir[i].addr)
    BY DEF CompressionIsSafe
  <2> DEFINE e == ir[i]
             x == c_materialize(e)
             y == c_materialize(ir_clear_c_choice(e))
  <2>1. EntryOK(cfg, e) /\ e \in Entry
    BY DEF TypeInv, EntriesOK, EntryOK
  <2>2. e.fmt \notin CFormats
    BY <2>1, ChoiceForm
  <2>3. y.op = e.op /\ y.fmt = e.fmt
    BY <2>1 DEF c_materialize, ir_clear_c_choice, Entry
  <2>4. require_for_op(cfg, e.op)
    BY <2>2, <2>3 DEF Emittable, Rejected, is_c_fmt
  <2>5. Fits(cfg, x)
    BY <2>1, <2>4, EntryFits
  <2>6. x.label = NoLabel /\ is_c_fmt(x.fmt)
    BY <2>1, ChoiceUnlabelled
  <2> HIDE DEF x, y, e
  <2>7. Emittable(x, e.addr)
    BY <2>5, <2>6 DEF Fits, Emittable, NotAvailable, Rejected, Undefined, Unrelocated, Resolved
  <2> QED
    BY <2>7 DEF x, e
<1> QED
  BY <1>1, TypeInvariant, PTL
=============================================================================
