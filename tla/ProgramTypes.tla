---------------------------- MODULE ProgramTypes ----------------------------
(***************************************************************************)
(* The type invariant of the whole program, and what every entry of the IR *)
(* keeps from the statement it came from until it is written: for every    *)
(* source file, every option and every failure of memory or of a write.    *)
(***************************************************************************)
EXTENDS Assembler, Pass1Proofs

-----------------------------------------------------------------------------
(***************************************************************************)
(* The inductive invariant.                                                *)
(***************************************************************************)

OperandsOf(e) ==
  [op |-> e.op, fmt |-> e.fmt, rd |-> e.rd, rs1 |-> e.rs1, rs2 |-> e.rs2, imm |-> e.imm,
   label |-> e.label, reloc |-> e.reloc]

\* The rules of c_rules.c chose e's compressed form; only the displacement of a
\* branch or jump to a label may have been replaced since, by one that fits.
ChosenByRule(c, e) ==
  LET ch == c_try_map(c, OperandsOf(e))
  IN /\ c.extC /\ c.autoC
     /\ e.kind = "IR_INSTR" /\ e.sect = "SEC_TEXT"
     /\ e.fmt \notin CFormats
     /\ c_can_map(c, OperandsOf(e))
     /\ e.choice = [ch EXCEPT !.imm = e.choice.imm]
     /\ ch.op \notin PcRelOps \/ ch.label = NoLabel => e.choice = ch
     /\ e.reloc \in {"RELOC_NONE", "RELOC_BOFF", "RELOC_JTGT"}
     /\ pass2_choice_range_ok(e.choice, e.choice.imm)

\* An entry came from one statement, and pass 2 changes nothing of what the
\* statement said.
EntryOK(c, e) ==
  /\ e \in Entry
  /\ e.kind = "IR_INSTR" => OperandsOf(e) \in Instruction
  /\ e.kind = "IR_DATA" => e.size \in DataSizes
  /\ e.kind # "IR_INSTR" => e.label = NoLabel /\ e.fmt \notin CFormats
  /\ e.kind = "IR_ALIGN" => e.imm = 0
  /\ e.can_compress = (e.kind = "IR_INSTR" /\ e.fmt \notin CFormats)
  /\ e.forced_size = IF e.fmt \in CFormats THEN "IR_SIZE_2" ELSE "IR_SIZE_AUTO"
  /\ e.has_c_choice => ChosenByRule(c, e)

EntriesOK == \A k \in DOMAIN ir : EntryOK(cfg, ir[k])

\* Entry k has been through the layout of its section.
LaidOnce(k) ==
  \/ stage = "data_layout" /\ ir[k].sect = "SEC_DATA" /\ k < i
  \/ stage = "plan" /\ ir[k].sect = "SEC_DATA"
  \/ stage = "text_layout" /\ (ir[k].sect = "SEC_DATA" \/ k < i)
  \/ stage \in {"validate", "emit"}

\* The layout leaves an alignment no bytes, because its entry records none.
AlignsEmpty ==
  \A k \in DOMAIN ir : ir[k].kind = "IR_ALIGN" /\ LaidOnce(k) => ir[k].size = 0

\* The file holds the parts written so far, and more are to come.
FileInProgress ==
  /\ file \in Seq({file[k] : k \in DOMAIN file})
  /\ stage \notin {"container", "close", "exit"} => file = <<>>
  /\ stage = "container" =>
     /\ Len(file) < Len(Parts)
     /\ \A k \in 1 .. Len(file) : file[k] = Parts[k]

\* The parser leaves nothing behind that it read and did not emit.
AllParsed == stage # "parse" => todo = <<>>

\* Until the output is opened, nothing but the parser has run.
OnlyParsed ==
  stage \in {"parse", "parsed"} =>
    /\ Pass2Idle /\ ElfIdle
    /\ out_file = "untouched" /\ final_ok = FALSE /\ exit_code = Running /\ appended = 0

TypeInv ==
  TypeOK /\ EntriesOK /\ AlignsEmpty /\ FileInProgress /\ AllParsed /\ OnlyParsed

-----------------------------------------------------------------------------
(***************************************************************************)
(* Arithmetic and the symbol table.                                        *)
(***************************************************************************)

\* Any int narrowed to int32_t is one.
LEMMA S32IntType == \A n \in Int : S32(n) \in Int32
<1> TAKE n \in Int
<1>1. U32(n) \in 0 .. (Mod32 - 1)
  BY U32Type DEF Word
<1> QED
  BY <1>1, WidthAssumption DEF S32, Int32, Mod32

\* search_sym returns an int, -1 included.
LEMMA SearchType == GlobalsTypeOK => \A l : search_sym(l) \in Int32
BY WidthAssumption DEF GlobalsTypeOK, search_sym, Int32

\* An int is an integer and 0 a word.
LEMMA IntWords == (\A n \in Int32 : n \in Int) /\ (\A n \in Word : n \in Nat) /\ 0 \in Word
BY WidthAssumption DEF Int32, Word, Mod32

-----------------------------------------------------------------------------
(***************************************************************************)
(* The compression rules (c_rules.c).                                      *)
(***************************************************************************)

\* The operands of an entry are operands.
LEMMA OperandsOfType == \A e \in Entry : OperandsOf(e) \in Operands
BY DEF Entry, Operands, OperandsOf

\* The opcodes the rules put into candidates.
LEMMA COpType == \A op : COp(op) \in Opcodes /\ COpSp(op) \in Opcodes
BY DEF COp, COpSp, Opcodes

\* Each candidate of c_try_map is a record of operands in a compressed format.
LEMMA CandidateType ==
  \A c, n : n \in Operands =>
    c_try_map(c, n) \in Operands /\ c_try_map(c, n).fmt \in CFormats
<1> SUFFICES ASSUME NEW c, NEW n \in Operands
             PROVE  c_try_map(c, n) \in Operands /\ c_try_map(c, n).fmt \in CFormats
  OBVIOUS
<1>1. n.rd \in Registers /\ n.rs1 \in Registers /\ n.rs2 \in Registers /\ n.imm \in Int
      /\ n.label \in Labels \cup {NoLabel} /\ n.reloc \in Relocs
  BY DEF Operands
<1> DEFINE Good(x) == x \in Operands /\ x.fmt \in CFormats
<1>2. \A op \in Opcodes, f \in CFormats, rd, rs1, rs2 \in Registers, imm \in Int :
        Good(Plain(op, f, rd, rs1, rs2, imm))
  BY PlainType DEF Plain, Formats
<1>3. \A op \in Opcodes, f \in CFormats, rd, rs1 \in Registers :
        Good(PcRelative(op, f, n, rd, rs1))
  BY <1>1 DEF PcRelative, Operands, Formats, Registers
<1>4. /\ {"OP_C_ADDI", "OP_C_LI", "OP_C_SLLI", "OP_C_ANDI", "OP_C_MV", "OP_C_ADD",
           "OP_C_JR", "OP_C_JALR", "OP_C_EBREAK", "OP_C_J", "OP_C_JAL"} \subseteq Opcodes
      /\ {"IF_CI", "IF_CR", "IF_CA", "IF_CL", "IF_CS", "IF_CSS", "IF_CB", "IF_CJ"} \subseteq CFormats
      /\ {0, 1, 2} \subseteq Registers /\ 0 \in Int
  BY DEF Opcodes, CFormats, Registers
<1> HIDE DEF Good
<1>5. Good(c_try_map(c, n))
  BY <1>1, <1>2, <1>3, <1>4, COpType DEF c_try_map
<1> QED
  BY <1>5 DEF Good

\* The rules look at the operands of an entry only.
LEMMA RulesSeeOperands ==
  \A c, e : /\ c_can_map(c, e) = c_can_map(c, OperandsOf(e))
           /\ c_try_map(c, e) = c_try_map(c, OperandsOf(e))
<1> TAKE c, e
<1> DEFINE n == OperandsOf(e)
<1>1. /\ n.op = e.op /\ n.rd = e.rd /\ n.rs1 = e.rs1 /\ n.rs2 = e.rs2
      /\ n.imm = e.imm /\ n.label = e.label /\ n.reloc = e.reloc
  BY DEF OperandsOf
<1> HIDE DEF n
<1>2. /\ \A k, top : Scaled(n, k, top) = Scaled(e, k, top)
      /\ SmallImm(n) = SmallImm(e) /\ Shamt(c, n) = Shamt(c, e)
  BY <1>1, Zenon DEF Scaled, SmallImm, Shamt
<1>3. /\ c_map_addi_self(n) = c_map_addi_self(e) /\ c_map_li_via_addi(n) = c_map_li_via_addi(e)
      /\ c_map_nop(n) = c_map_nop(e) /\ c_map_slli(c, n) = c_map_slli(c, e)
      /\ c_map_srxi_prime(c, n) = c_map_srxi_prime(c, e)
      /\ c_map_andi_prime(n) = c_map_andi_prime(e)
  BY <1>1, <1>2, Zenon DEF c_map_addi_self, c_map_li_via_addi, c_map_nop, c_map_slli,
     c_map_srxi_prime, c_map_andi_prime
<1>4. /\ c_map_mv(n) = c_map_mv(e) /\ c_map_add_cr(n) = c_map_add_cr(e)
      /\ c_map_jr(n) = c_map_jr(e) /\ c_map_jalr(n) = c_map_jalr(e)
      /\ c_map_ebreak(n) = c_map_ebreak(e)
      /\ c_map_ca_alu(n) = c_map_ca_alu(e) /\ c_map_caw_alu64(c, n) = c_map_caw_alu64(c, e)
  BY <1>1, Zenon DEF c_map_mv, c_map_add_cr, c_map_jr, c_map_jalr, c_map_ebreak, c_map_ca_alu,
     c_map_caw_alu64
<1>5. /\ c_map_cl_load(c, n) = c_map_cl_load(c, e) /\ c_map_cs_store(n) = c_map_cs_store(e)
      /\ c_map_ci_sp_load(c, n) = c_map_ci_sp_load(c, e)
      /\ c_map_css_sp_store(n) = c_map_css_sp_store(e)
      /\ c_map_cb_branchz(n) = c_map_cb_branchz(e) /\ c_map_cj_jump(c, n) = c_map_cj_jump(c, e)
  <2>1. c_map_cl_load(c, n) = c_map_cl_load(c, e) /\ c_map_cs_store(n) = c_map_cs_store(e)
    BY <1>1, <1>2 DEF c_map_cl_load, c_map_cs_store
  <2>2. c_map_ci_sp_load(c, n) = c_map_ci_sp_load(c, e)
        /\ c_map_css_sp_store(n) = c_map_css_sp_store(e)
    BY <1>1, <1>2 DEF c_map_ci_sp_load, c_map_css_sp_store
  <2>3. c_map_cb_branchz(n) = c_map_cb_branchz(e) /\ c_map_cj_jump(c, n) = c_map_cj_jump(c, e)
    BY <1>1 DEF c_map_cb_branchz, c_map_cj_jump
  <2> QED
    BY <2>1, <2>2, <2>3
<1>6. \A op, f, rd, rs1 : PcRelative(op, f, n, rd, rs1) = PcRelative(op, f, e, rd, rs1)
  BY <1>1, Zenon DEF PcRelative
<1>7. c_can_map(c, n) = c_can_map(c, e)
  BY <1>3, <1>4, <1>5, Zenon DEF c_can_map
<1>8. c_try_map(c, n) = c_try_map(c, e)
  BY <1>1, <1>3, <1>4, <1>5, <1>6, SMTT(30) DEF c_try_map
<1> QED
  BY <1>7, <1>8, Zenon DEF n

-----------------------------------------------------------------------------
(***************************************************************************)
(* What pass 2 does to one entry.                                          *)
(***************************************************************************)

\* f is entry e with another layout or another choice.
SameSource(e, f) ==
  /\ f \in Entry
  /\ f.kind = e.kind /\ f.sect = e.sect
  /\ f.can_compress = e.can_compress /\ f.forced_size = e.forced_size
  /\ OperandsOf(f) = OperandsOf(e)

\* Layout and selection leave an entry what it was (pass2.c, ir.c).
LEMMA SameSourceOK ==
  ASSUME NEW e, EntryOK(cfg, e), NEW f, SameSource(e, f),
         e.kind = "IR_DATA" => f.size = e.size,
         f.has_c_choice => ChosenByRule(cfg, f)
  PROVE  EntryOK(cfg, f)
<1>1. f.op = e.op /\ f.fmt = e.fmt /\ f.imm = e.imm /\ f.label = e.label /\ f.reloc = e.reloc
  BY DEF SameSource, OperandsOf
<1> QED
  BY <1>1, Zenon DEF EntryOK, SameSource

\* Whether a rule chose an entry's form does not depend on where the entry lies.
LEMMA ChosenSame ==
  ASSUME NEW e, NEW f, SameSource(e, f), f.choice = e.choice, ChosenByRule(cfg, e)
  PROVE  ChosenByRule(cfg, f)
<1>1. f.fmt = e.fmt /\ f.reloc = e.reloc
  BY DEF SameSource, OperandsOf
<1> QED
  BY <1>1, Zenon DEF ChosenByRule, SameSource

\* The size of an instruction is that of one of its two forms.
LEMMA NodeSizeType == \A e : pass2_node_size_now(e) \in {2, 4}
BY DEF pass2_node_size_now

\* pass2_assign_addresses changes address and size, and an alignment takes no room.
LEMMA PlacedOK ==
  ASSUME NEW e, EntryOK(cfg, e), NEW at \in Word
  PROVE  LET f == Placed(e, at)
         IN /\ EntryOK(cfg, f) /\ SameSource(e, f)
            /\ f.addr = at /\ f.size \in Word
            /\ f.has_c_choice = e.has_c_choice /\ f.choice = e.choice
            /\ e.kind = "IR_ALIGN" => f.size = 0
            /\ e.kind = "IR_INSTR" => f.size = pass2_node_size_now(e)
            /\ e.kind = "IR_DATA" => f.size = e.size
<1> DEFINE f == Placed(e, at)
<1>1. e \in Entry /\ e.kind \in Kinds
  BY DEF EntryOK, Entry
<1>2. CASE e.kind = "IR_DATA"
  <2>1. f = [e EXCEPT !.addr = at]
    BY <1>2 DEF Placed
  <2>2. SameSource(e, f) /\ f.addr = at /\ f.size = e.size /\ f.has_c_choice = e.has_c_choice
        /\ f.choice = e.choice /\ f.size \in Word
    BY <1>1, <2>1 DEF SameSource, Entry, OperandsOf
  <2>3. EntryOK(cfg, f)
    BY <2>2, SameSourceOK, ChosenSame DEF EntryOK
  <2> QED
    BY <1>2, <2>2, <2>3
<1>3. CASE e.kind = "IR_INSTR"
  <2> DEFINE size == pass2_node_size_now(e)
  <2>0. size \in Word
    BY NodeSizeType, SmallWords
  <2>1. f = [e EXCEPT !.size = size, !.addr = at]
    BY <1>3 DEF Placed
  <2> HIDE DEF size
  <2>2. SameSource(e, f) /\ f.addr = at /\ f.size = size /\ f.has_c_choice = e.has_c_choice
        /\ f.choice = e.choice /\ f.size \in Word
    BY <1>1, <2>0, <2>1 DEF SameSource, Entry, OperandsOf
  <2>3. EntryOK(cfg, f)
    BY <1>3, <2>2, SameSourceOK, ChosenSame DEF EntryOK
  <2> QED
    BY <1>3, <2>2, <2>3 DEF size
<1>4. CASE e.kind = "IR_ALIGN"
  <2>1. e.imm = 0
    BY <1>4 DEF EntryOK
  <2>2. U32(e.imm) = 0 /\ Add32(at, 0) = at
    BY <2>1, WidthAssumption DEF U32, Add32, Word, Mod32
  <2> HIDE DEF f
  <2>6. f = LET pad == IF U32(e.imm) > 1 THEN Pad(at, U32(e.imm)) ELSE 0
            IN [e EXCEPT !.size = pad, !.addr = Add32(at, pad)]
    BY <1>4 DEF Placed, f
  <2>7. (IF U32(e.imm) > 1 THEN Pad(at, U32(e.imm)) ELSE 0) = 0
    BY <2>2
  <2>3. f = [e EXCEPT !.size = 0, !.addr = at]
    BY <2>2, <2>6, <2>7
  <2>4. SameSource(e, f) /\ f.addr = at /\ f.size = 0 /\ f.has_c_choice = e.has_c_choice
        /\ f.choice = e.choice /\ f.size \in Word
    BY <1>1, <2>3, IntWords DEF SameSource, Entry, OperandsOf
  <2>5. EntryOK(cfg, f)
    BY <1>4, <2>4, SameSourceOK, ChosenSame DEF EntryOK
  <2> QED
    BY <1>4, <2>4, <2>5 DEF f
<1> QED
  BY <1>1, <1>2, <1>3, <1>4 DEF Kinds

\* A rule that builds a branch or jump has checked its immediate.
LEMMA CandidateInRange ==
  \A c, n : c_can_map(c, n) => pass2_choice_range_ok(c_try_map(c, n), c_try_map(c, n).imm)
<1> SUFFICES ASSUME NEW c, NEW n, c_can_map(c, n)
             PROVE  pass2_choice_range_ok(c_try_map(c, n), c_try_map(c, n).imm)
  OBVIOUS
<1> DEFINE ch == c_try_map(c, n)
           Far(op) == op \notin PcRelOps
<1>1. \A x, v : Far(x.op) => pass2_choice_range_ok(x, v)
  BY DEF pass2_choice_range_ok, PcRelOps
<1>2. \A op, fmt, rd, rs1, rs2, imm : Plain(op, fmt, rd, rs1, rs2, imm).op = op
  BY DEF Plain
<1>3. /\ Far("OP_C_ADDI") /\ Far("OP_C_LI") /\ Far("OP_C_SLLI") /\ Far("OP_C_ANDI")
      /\ Far("OP_C_MV") /\ Far("OP_C_ADD") /\ Far("OP_C_JR") /\ Far("OP_C_JALR")
      /\ Far("OP_C_EBREAK")
      /\ \A op : Far(COpSp(op)) /\ (op \notin {"OP_BEQ", "OP_BNE"} => Far(COp(op)))
  BY DEF PcRelOps, ShortBranches, ShortJumps, COp, COpSp
<1>4. \A op, fmt, rd, rs1 : /\ PcRelative(op, fmt, n, rd, rs1).op = op
                            /\ PcRelative(op, fmt, n, rd, rs1).imm = n.imm
  BY DEF PcRelative
<1>5. c_map_cb_branchz(n) =>
        /\ COp(n.op) \in ShortBranches /\ EvenIn(n.imm, -256, 254)
  BY DEF c_map_cb_branchz, COp, ShortBranches, EvenIn
<1>6. c_map_cj_jump(c, n) => EvenIn(n.imm, -2048, 2046)
  BY DEF c_map_cj_jump, EvenIn
<1>7. /\ c_map_srxi_prime(c, n) \/ c_map_ca_alu(n) \/ c_map_caw_alu64(c, n)
           \/ c_map_cl_load(c, n) \/ c_map_cs_store(n)
         => n.op \notin {"OP_BEQ", "OP_BNE"}
  BY DEF c_map_srxi_prime, c_map_ca_alu, c_map_caw_alu64, c_map_cl_load, c_map_cs_store
<1> HIDE DEF Far
<1>8. \/ Far(ch.op)
      \/ c_map_cb_branchz(n) /\ ch = PcRelative(COp(n.op), "IF_CB", n, 0, n.rs1)
      \/ c_map_cj_jump(c, n)
            /\ ch = PcRelative(IF n.rd = 0 THEN "OP_C_J" ELSE "OP_C_JAL", "IF_CJ", n, n.rd, 0)
  BY <1>2, <1>3, <1>7, SMTT(30) DEF c_try_map, c_can_map
<1>9. \A op \in ShortBranches : op \notin ShortJumps
  BY DEF ShortBranches, ShortJumps
<1>10. \A r : (IF r = 0 THEN "OP_C_J" ELSE "OP_C_JAL") \in ShortJumps
  BY DEF ShortJumps
<1> HIDE DEF ch
<1>11. CASE Far(ch.op)
  BY <1>1, <1>11 DEF ch
<1>12. CASE c_map_cb_branchz(n) /\ ch = PcRelative(COp(n.op), "IF_CB", n, 0, n.rs1)
  <2>1. ch.op \in ShortBranches /\ EvenIn(ch.imm, -256, 254)
    BY <1>4, <1>5, <1>12
  <2> QED
    BY <1>9, <2>1 DEF pass2_choice_range_ok, ch
<1>13. CASE c_map_cj_jump(c, n)
            /\ ch = PcRelative(IF n.rd = 0 THEN "OP_C_J" ELSE "OP_C_JAL", "IF_CJ", n, n.rd, 0)
  <2>1. ch.op \in ShortJumps /\ EvenIn(ch.imm, -2048, 2046)
    BY <1>4, <1>6, <1>10, <1>13
  <2> QED
    BY <1>9, <2>1 DEF pass2_choice_range_ok, ch
<1> QED
  BY <1>8, <1>11, <1>12, <1>13

\* pass2_plan_choices stores the candidate of the first rule that applies.
LEMMA SetChoiceOK ==
  ASSUME NEW e, EntryOK(cfg, e), pass2_node_can_attempt(e), c_can_map(cfg, e)
  PROVE  LET f == ir_set_c_choice(e, c_try_map(cfg, e))
         IN EntryOK(cfg, f) /\ SameSource(e, f) /\ f.has_c_choice /\ f.addr = e.addr /\ f.size = e.size
<1> DEFINE ch == c_try_map(cfg, OperandsOf(e))
           f == ir_set_c_choice(e, c_try_map(cfg, e))
<1>1. e \in Entry /\ OperandsOf(e) \in Operands
  BY OperandsOfType DEF EntryOK
<1>2. ch \in Operands
  BY <1>1, CandidateType
<1>3. c_can_map(cfg, OperandsOf(e)) /\ f = [e EXCEPT !.choice = ch, !.has_c_choice = TRUE]
  BY RulesSeeOperands DEF ir_set_c_choice
<1> HIDE DEF ch
<1>4. SameSource(e, f) /\ f.choice = ch /\ f.has_c_choice /\ f.addr = e.addr /\ f.size = e.size
  BY <1>1, <1>2, <1>3, ZenonT(60) DEF SameSource, Entry, OperandsOf
<1>5. ch = [ch EXCEPT !.imm = ch.imm]
  BY <1>2 DEF Operands
<1>6. e.fmt \notin CFormats /\ f.fmt = e.fmt /\ f.reloc = e.reloc
  BY <1>4 DEF EntryOK, pass2_node_can_attempt, SameSource, OperandsOf
<1>9. pass2_choice_range_ok(ch, ch.imm)
  BY <1>3, CandidateInRange DEF ch
<1>7. ChosenByRule(cfg, f)
  BY <1>3, <1>4, <1>5, <1>6, <1>9, Zenon DEF ChosenByRule, Compressing, pass2_node_can_attempt, SameSource, ch
<1>8. EntryOK(cfg, f)
  BY <1>4, <1>7, SameSourceOK
<1> QED
  BY <1>4, <1>8

\* Dropping a choice changes nothing else.
LEMMA ClearChoiceOK ==
  ASSUME NEW e, EntryOK(cfg, e)
  PROVE  LET f == ir_clear_c_choice(e)
         IN EntryOK(cfg, f) /\ SameSource(e, f) /\ ~f.has_c_choice /\ f.addr = e.addr /\ f.size = e.size
<1> DEFINE f == ir_clear_c_choice(e)
<1>1. e \in Entry
  BY DEF EntryOK
<1>2. SameSource(e, f) /\ ~f.has_c_choice /\ f.addr = e.addr /\ f.size = e.size
  BY <1>1 DEF SameSource, Entry, OperandsOf, ir_clear_c_choice
<1> QED
  BY <1>2, SameSourceOK

\* pass2_validate_compressed_ranges keeps, updates or drops the choice of an entry.
LEMMA ValidatedOK ==
  ASSUME NEW e, EntryOK(cfg, e), GlobalsTypeOK, e.addr \in Word
  PROVE  LET f == Validated(e)
         IN /\ EntryOK(cfg, f) /\ SameSource(e, f)
            /\ f.has_c_choice => e.has_c_choice
            /\ f.addr = e.addr /\ f.size = e.size
<1> DEFINE f == Validated(e)
           ch == c_try_map(cfg, OperandsOf(e))
           disp == pass2_compute_disp(e.addr, search_sym(e.choice.label))
<1>1. e \in Entry /\ e.choice \in Operands
  BY DEF EntryOK, Entry
<1>2. SameSource(e, e)
  BY <1>1 DEF SameSource
<1>3. CASE f = e
  BY <1>2, <1>3
<1>4. CASE f = ir_clear_c_choice(e)
  BY <1>4, ClearChoiceOK
<1>5. CASE /\ e.has_c_choice /\ e.choice.op \in PcRelOps /\ e.choice.label # NoLabel
           /\ f = [e EXCEPT !.choice.imm = disp]
           /\ pass2_choice_range_ok(e.choice, disp)
  <2>1. disp \in Int
    <3>1. search_sym(e.choice.label) \in Int32
      BY SearchType, Zenon
    <3>2. search_sym(e.choice.label) \in Int /\ e.addr \in Int
      BY <3>1, WidthAssumption DEF Int32, Word
    <3>3. disp \in Int32
      BY <3>2, S32IntType DEF pass2_compute_disp
    <3> QED
      BY <3>3, IntWords
  <2> HIDE DEF disp
  <2> DEFINE c == [e.choice EXCEPT !.imm = disp]
  <2>2. f = [e EXCEPT !.choice = c]
    BY <1>1, <1>5 DEF Entry
  <2>3. c \in Operands
    BY <1>1, <2>1 DEF Operands
  <2> HIDE DEF f
  <2>4. /\ f.choice = c /\ f.has_c_choice /\ f.addr = e.addr /\ f.size = e.size
        /\ SameSource(e, f) /\ f.fmt = e.fmt /\ f.reloc = e.reloc
    BY <1>1, <1>5, <2>2, <2>3 DEF SameSource, Entry, OperandsOf
  <2>5. ChosenByRule(cfg, e)
    BY <1>5 DEF EntryOK
  <2>6. ch \in Operands
    BY <1>1, OperandsOfType, CandidateType
  <2> HIDE DEF ch
  <2>7. e.choice = [ch EXCEPT !.imm = e.choice.imm]
    BY <2>5 DEF ChosenByRule, ch
  <2>8. c = [ch EXCEPT !.imm = c.imm]
    BY <2>1, <2>6, <2>7 DEF Operands
  <2>9. ch.op = e.choice.op /\ ch.label = e.choice.label
    BY <2>6, <2>7 DEF Operands
  <2>12. pass2_choice_range_ok(c, c.imm)
    <3>1. c.op = e.choice.op /\ c.imm = disp
      BY <1>1, <2>1 DEF Operands
    <3> QED
      BY <1>5, <3>1 DEF pass2_choice_range_ok
  <2>10. ChosenByRule(cfg, f)
    BY <1>5, <2>4, <2>5, <2>8, <2>9, <2>12, Zenon DEF ChosenByRule, SameSource, ch
  <2>11. EntryOK(cfg, f)
    BY <2>4, <2>10, SameSourceOK
  <2> QED
    BY <1>5, <2>4, <2>11 DEF f
<1> QED
  BY <1>3, <1>4, <1>5, Zenon DEF Validated

\* An entry of a kind other than an instruction comes from no operands (ir.c).
LEMMA BlankOK ==
  ASSUME NEW kind \in {"IR_DATA", "IR_ALIGN"}, NEW sect \in Sections, NEW addr \in Word,
         NEW size \in Word, kind = "IR_DATA" => size \in DataSizes
  PROVE  EntryOK(cfg, BlankEntry(kind, sect, addr, size))
<1>1. BlankEntry(kind, sect, addr, size) \in Entry
  BY BlankEntryType DEF Kinds
<1>2. "IF_R" \notin CFormats
  BY DEF CFormats
<1> QED
  BY <1>1, <1>2 DEF EntryOK, BlankEntry

\* ir_append_align and ir_append_data make such entries.
LEMMA AppendedOK ==
  ASSUME NEW sect \in Sections, NEW addr \in Word
  PROVE  /\ \A size \in Word : EntryOK(cfg, ir_append_align(sect, addr, size))
         /\ \A size \in DataSizes, v \in Int : EntryOK(cfg, ir_append_data(sect, addr, v, size))
<1>1. \A size \in Word : EntryOK(cfg, ir_append_align(sect, addr, size))
  BY BlankOK DEF ir_append_align
<1>2. ASSUME NEW size \in DataSizes, NEW v \in Int
      PROVE  EntryOK(cfg, ir_append_data(sect, addr, v, size))
  <2> DEFINE b == BlankEntry("IR_DATA", sect, addr, size)
             e == ir_append_data(sect, addr, v, size)
  <2>1. size \in Word
    BY SmallWords DEF DataSizes
  <2>2. EntryOK(cfg, b) /\ b.kind = "IR_DATA" /\ ~b.has_c_choice
    BY <2>1, BlankOK DEF BlankEntry
  <2>3. b \in Entry /\ e = [b EXCEPT !.imm = v]
    BY <2>2 DEF EntryOK, ir_append_data
  <2> HIDE DEF b, e
  <2>4. /\ e \in Entry /\ e.kind = b.kind /\ e.size = b.size /\ e.label = b.label
        /\ e.fmt = b.fmt /\ e.can_compress = b.can_compress /\ e.forced_size = b.forced_size
        /\ e.has_c_choice = b.has_c_choice
    BY <2>3 DEF Entry
  <2> QED
    BY <2>2, <2>4 DEF EntryOK, e
<1> QED
  BY <1>1, <1>2

\* ir_append_instr keeps the operands of an instruction and forces its size when it
\* is compressed as written.
LEMMA InstrOK ==
  ASSUME NEW x \in Instruction, NEW sect \in Sections, NEW addr \in Word, NEW size \in Word
  PROVE  EntryOK(cfg, ir_append_instr(x, sect, addr, size))
<1> DEFINE e == ir_append_instr(x, sect, addr, size)
<1>1. x \in Operands
  BY InstructionType
<1>2. e \in Entry
  BY <1>1, InstrEntryType
<1>3. x.reloc = IF x.label = NoLabel THEN "RELOC_NONE" ELSE x.reloc
  BY DEF Instruction
<1>4. OperandsOf(e) = x
  BY <1>1, <1>3 DEF OperandsOf, ir_append_instr, Operands
<1> QED
  BY <1>2, <1>4 DEF EntryOK, ir_append_instr

-----------------------------------------------------------------------------
(***************************************************************************)
(* What is written for an entry.                                           *)
(***************************************************************************)

\* The operands c_materialize hands to the encoders are operands.
LEMMA MaterializeType == \A e \in Entry : c_materialize(e) \in Operands
<1> TAKE e \in Entry
<1>1. OperandsOf(e) \in Operands /\ e.choice \in Operands
  BY OperandsOfType DEF Entry
<1>2. [e.choice EXCEPT !.label = NoLabel, !.reloc = "RELOC_NONE"] \in Operands
  BY <1>1 DEF Operands, Relocs
<1> QED
  BY <1>1, <1>2 DEF c_materialize, OperandsOf

\* A resolved immediate is an int.
LEMMA ResolvedType ==
  ASSUME GlobalsTypeOK, NEW x \in Operands, NEW addr \in Word
  PROVE  Resolved(x, addr) \in Operands /\ Resolved(x, addr).fmt = x.fmt
<1> DEFINE v == resolve_label(x.label, x.reloc, addr)
           off == search_sym(x.label) - addr
<1>1. search_sym(x.label) \in Int32
  BY SearchType, Zenon
<1>2. search_sym(x.label) \in Int /\ off \in Int
  BY <1>1, WidthAssumption DEF Int32, Word
<1> HIDE DEF off
<1>3. Hi20(off) \in Int
  BY <1>2 DEF Hi20
<1> DEFINE w == CASE x.reloc = "RELOC_HI20" -> Hi20(off)
                  [] x.reloc = "RELOC_LO12" -> off - Hi20(off)
                  [] x.reloc \in {"RELOC_BOFF", "RELOC_JTGT"} -> off
                  [] OTHER -> search_sym(x.label)
<1>4. w \in Int
  BY <1>2, <1>3
<1>5. v = S32(w)
  BY DEF resolve_label, off
<1> HIDE DEF w
<1>6. v \in Int
  BY <1>4, <1>5, S32IntType, IntWords
<1> HIDE DEF v
<1>7. [x EXCEPT !.imm = v] \in Operands /\ [x EXCEPT !.imm = v].fmt = x.fmt
  BY <1>6 DEF Operands
<1> QED
  BY <1>7 DEF Resolved, v

\* A field of a word lies where it is put.
LEMMA FieldRange ==
  /\ \A hi, lo, v : Field(hi, lo, v) \subseteq lo .. hi
  /\ \A hi, lo, v, from : put(hi, lo, v, from) \subseteq lo .. hi
BY DEF Field, put

\* A value of a data directive has at most 64 bits.
LEMMA ValueBitsType ==
  \A v \in Int, size \in DataSizes : ValueBits(v, size) \subseteq 0 .. 63
<1> TAKE v \in Int, size \in DataSizes
<1>1. ValueBits(v, size) \subseteq 0 .. (8 * size - 1)
  BY FieldRange DEF ValueBits
<1>2. 0 .. (8 * size - 1) \subseteq 0 .. 63
  BY DEF DataSizes
<1> QED
  BY <1>1, <1>2

\* Every packer fills bits of a 32-bit word.
LEMMA WordType ==
  \A c, x : x.fmt \in WideFormats => Word32(c, x) \subseteq 0 .. 63
<1> SUFFICES ASSUME NEW c, NEW x, x.fmt \in WideFormats
             PROVE  Word32(c, x) \subseteq 0 .. 63
  OBVIOUS
<1> DEFINE Bits64 == 0 .. 63
<1>1. \A v : /\ Field(6, 0, v) \subseteq Bits64 /\ Field(14, 12, v) \subseteq Bits64
             /\ Field(11, 7, v) \subseteq Bits64 /\ Field(19, 15, v) \subseteq Bits64
             /\ Field(24, 20, v) \subseteq Bits64 /\ Field(31, 25, v) \subseteq Bits64
             /\ Field(31, 20, v) \subseteq Bits64 /\ Field(31, 26, v) \subseteq Bits64
             /\ Field(25, 20, v) \subseteq Bits64 /\ Field(11, 8, v) \subseteq Bits64
             /\ Field(30, 21, v) \subseteq Bits64
  BY FieldRange
<1>2. \A v, from : /\ put(31, 25, v, from) \subseteq Bits64 /\ put(31, 31, v, from) \subseteq Bits64
                   /\ put(30, 25, v, from) \subseteq Bits64 /\ put(7, 7, v, from) \subseteq Bits64
                   /\ put(20, 20, v, from) \subseteq Bits64
                   /\ put(19, 12, v, from) \subseteq Bits64 /\ put(31, 12, v, from) \subseteq Bits64
  BY FieldRange
<1> HIDE DEF Bits64
<1>3. Major(x) \subseteq Bits64
  BY <1>1, Zenon DEF Major
<1>4. rtype_word(x) \subseteq Bits64
  BY <1>1, <1>3, Zenon DEF rtype_word
<1>5. itype_word(c, x) \subseteq Bits64
  BY <1>1, <1>3 DEF itype_word
<1>6. stype_word(x) \subseteq Bits64
  BY <1>1, <1>2, <1>3, ZenonT(60) DEF stype_word
<1>7. btype_word(x) \subseteq Bits64
  BY <1>1, <1>2, <1>3, ZenonT(60) DEF btype_word
<1>8. jtype_word(x) \subseteq Bits64
  BY <1>1, <1>2, ZenonT(60) DEF jtype_word
<1>9. uitype_word(x) \subseteq Bits64
  BY <1>1, <1>2, Zenon DEF uitype_word
<1> QED
  BY <1>4, <1>5, <1>6, <1>7, <1>8, <1>9 DEF Word32, WideFormats, Bits64

\* Every compressed packer fills bits of a 16-bit half.
LEMMA HalfType ==
  \A x : x.fmt \in CFormats => Half16(x) \subseteq 0 .. 63
<1> SUFFICES ASSUME NEW x, x.fmt \in CFormats
             PROVE  Half16(x) \subseteq 0 .. 63
  OBVIOUS
<1> DEFINE Bits64 == 0 .. 63
<1>1. \A v : /\ Field(15, 13, v) \subseteq Bits64 /\ Field(12, 12, v) \subseteq Bits64
             /\ Field(11, 10, v) \subseteq Bits64 /\ Field(6, 5, v) \subseteq Bits64
             /\ Field(1, 0, v) \subseteq Bits64 /\ Field(9, 7, v) \subseteq Bits64
             /\ Field(4, 2, v) \subseteq Bits64 /\ Field(11, 7, v) \subseteq Bits64
             /\ Field(6, 2, v) \subseteq Bits64 /\ Field(6, 3, v) \subseteq Bits64
  BY FieldRange
<1>2. \A v, from : /\ put(12, 12, v, from) \subseteq Bits64 /\ put(6, 4, v, from) \subseteq Bits64
                   /\ put(3, 2, v, from) \subseteq Bits64 /\ put(6, 5, v, from) \subseteq Bits64
                   /\ put(4, 2, v, from) \subseteq Bits64 /\ put(12, 10, v, from) \subseteq Bits64
                   /\ put(6, 6, v, from) \subseteq Bits64 /\ put(5, 5, v, from) \subseteq Bits64
                   /\ put(6, 2, v, from) \subseteq Bits64 /\ put(11, 10, v, from) \subseteq Bits64
  BY FieldRange
<1>3. \A v, from : /\ put(2, 2, v, from) \subseteq Bits64 /\ put(11, 11, v, from) \subseteq Bits64
                   /\ put(10, 9, v, from) \subseteq Bits64 /\ put(8, 8, v, from) \subseteq Bits64
                   /\ put(7, 7, v, from) \subseteq Bits64 /\ put(5, 3, v, from) \subseteq Bits64
  BY FieldRange
<1> HIDE DEF Bits64
<1>4. c_build_tags(x) \subseteq Bits64
  BY <1>1, Zenon DEF c_build_tags
<1>5. /\ \A r : Prime(9, 7, r) \subseteq Bits64 /\ Prime(4, 2, r) \subseteq Bits64
      /\ \A v : /\ put_imm5_0_ci(v) \subseteq Bits64
                /\ Offset4(v) \subseteq Bits64 /\ Offset8(v) \subseteq Bits64
  BY <1>1, <1>2, Zenon DEF Prime, put_imm5_0_ci, Offset4, Offset8
<1>6. catype_half(x) \subseteq Bits64 /\ crtype_half(x) \subseteq Bits64
  BY <1>1, <1>5, Zenon DEF catype_half, crtype_half
<1>7. citype_half(x) \subseteq Bits64
  BY <1>1, <1>2, <1>5 DEF citype_half
<1>8. cltype_half(x) \subseteq Bits64 /\ cstype_half(x) \subseteq Bits64
  BY <1>5, Zenon DEF cltype_half, cstype_half
<1>9. csstype_half(x) \subseteq Bits64
  BY <1>1, <1>2, ZenonT(60) DEF csstype_half
<1>10. cbtype_half(x) \subseteq Bits64
  BY <1>1, <1>2, <1>3, <1>5, ZenonT(60) DEF cbtype_half
<1>11. cjtype_half(x) \subseteq Bits64
  <2> DEFINE h == Halved(x)
             high == put(12, 12, h, 10) \cup put(11, 11, h, 3) \cup put(10, 9, h, 8)
                       \cup put(8, 8, h, 9)
             low == put(7, 7, h, 6) \cup put(6, 6, h, 7) \cup put(5, 3, h, 1) \cup put(2, 2, h, 5)
  <2>1. high \subseteq Bits64
    <3>1. /\ put(12, 12, h, 10) \subseteq Bits64 /\ put(11, 11, h, 3) \subseteq Bits64
          /\ put(10, 9, h, 8) \subseteq Bits64 /\ put(8, 8, h, 9) \subseteq Bits64
      BY <1>2, <1>3, Zenon
    <3> QED
      BY <3>1, Zenon
  <2>2. low \subseteq Bits64
    <3>1. /\ put(7, 7, h, 6) \subseteq Bits64 /\ put(6, 6, h, 7) \subseteq Bits64
          /\ put(5, 3, h, 1) \subseteq Bits64 /\ put(2, 2, h, 5) \subseteq Bits64
      BY <1>2, <1>3, Zenon
    <3> QED
      BY <3>1, Zenon
  <2>3. cjtype_half(x) = high \cup low
    BY Zenon DEF cjtype_half
  <2> HIDE DEF high, low
  <2> QED
    BY <2>1, <2>2, <2>3, Zenon
<1> QED
  BY <1>4, <1>6, <1>7, <1>8, <1>9, <1>10, <1>11 DEF Half16, CFormats, Bits64

\* The bits of an instruction are bits of a word, whatever its format.
LEMMA InstrBitsType ==
  \A c, x : x.fmt \in Formats => InstrBits(c, x) \subseteq 0 .. 63
BY WordType, HalfType DEF InstrBits, is_c_fmt, Formats

-----------------------------------------------------------------------------
(***************************************************************************)
(* The container (out.c).                                                  *)
(***************************************************************************)

\* Rounding an offset up gives an offset.
LEMMA AlignUpType == \A x \in Nat, a \in Nat \ {0} : align_up(x, a) \in Nat
<1> TAKE x \in Nat, a \in Nat \ {0}
<1>1. \A y \in Nat : (y \div a) * a \in Nat
  <2> TAKE y \in Nat
  <2>1. y \div a \in Nat
    OBVIOUS
  <2> QED
    BY <2>1
<1>2. x + a - 1 \in Nat /\ U32(x) \in Nat
  BY U32Type, IntWords
<1>3. U32(x) + a - 1 \in Nat
  BY <1>2
<1>4. U32(((U32(x) + a - 1) \div a) * a) \in Nat
  BY <1>1, <1>3, U32Type, IntWords
<1> QED
  BY <1>1, <1>2, <1>4 DEF align_up

\* The sections out_finish finds bytes in, and the names in its string table.
LEMMA PresentType ==
  ASSUME out_len \in [Sections -> Nat]
  PROVE  /\ text_size \in Nat /\ data_size \in Nat
         /\ Present \in Seq(Sections) /\ phnum \in 0 .. 2
         /\ Len(Names) = phnum + 2
<1>1. text_size \in Nat /\ data_size \in Nat
  BY DEF text_size, data_size, Sections
<1>2. Present \in Seq(Sections) /\ phnum \in 0 .. 2
  <2> DEFINE T == IF text_size > 0 THEN <<"SEC_TEXT">> ELSE <<>>
             D == IF data_size > 0 THEN <<"SEC_DATA">> ELSE <<>>
  <2>1. /\ <<>> \in Seq(Sections) /\ Len(<<>>) = 0
        /\ \A s \in Sections : <<s>> \in Seq(Sections) /\ Len(<<s>>) = 1
    OBVIOUS
  <2>4. "SEC_TEXT" \in Sections /\ "SEC_DATA" \in Sections
    BY DEF Sections
  <2>5. T \in Seq(Sections) /\ Len(T) \in 0 .. 1
    BY <2>1, <2>4
  <2>6. D \in Seq(Sections) /\ Len(D) \in 0 .. 1
    BY <2>1, <2>4
  <2> HIDE DEF T, D
  <2>2. T \o D \in Seq(Sections) /\ Len(T \o D) = Len(T) + Len(D)
    BY <2>5, <2>6
  <2>3. Present = T \o D
    BY DEF Present, T, D
  <2> QED
    BY <2>2, <2>3, <2>5, <2>6 DEF phnum
<1>3. Len(Names) = phnum + 2
  <2> DEFINE N == {"", "SEC_TEXT", "SEC_DATA", ".shstrtab"}
             A == <<"">>
             B == <<".shstrtab">>
  <2>1. A \in Seq(N) /\ B \in Seq(N) /\ Len(A) = 1 /\ Len(B) = 1
    OBVIOUS
  <2>2. Present \in Seq(N)
    <3>1. \A s \in Sections : s \in N
      BY DEF Sections
    <3> HIDE DEF N
    <3>2. Present \in Seq(Sections)
      BY <1>2
    <3> QED
      BY <3>1, <3>2
  <2>5. Names = A \o Present \o B
    BY DEF Names
  <2> HIDE DEF N, A, B
  <2>6. \A s, t \in Seq(N) : s \o t \in Seq(N) /\ Len(s \o t) = Len(s) + Len(t)
    OBVIOUS
  <2>3. A \o Present \in Seq(N) /\ Len(A \o Present) = 1 + Len(Present)
    BY <2>1, <2>2, <2>6
  <2>4. Len(Names) = 1 + Len(Present) + 1
    BY <2>1, <2>3, <2>5, <2>6
  <2> QED
    BY <1>2, <2>4 DEF phnum
<1> QED
  BY <1>1, <1>2, <1>3

\* What out_finish computes before it writes: offsets and lengths are numbers.
LEMMA PlanTypes ==
  ASSUME cfg \in Options, out_len \in [Sections -> Nat], lost \in 0 .. 4
  PROVE  /\ phnum \in 0 .. 2 /\ Len(Names) = phnum + 2
         /\ ehdr_sz \in Nat /\ phdr_sz \in Nat /\ shdr_sz \in Nat
         /\ text_size \in Nat /\ data_size \in Nat
         /\ text_off \in Nat /\ data_off \in Nat /\ shstr_off \in Nat
         /\ \A n \in 0 .. Len(Names) : StrLen(n) \in Nat
         /\ shoff \in Nat
<1>1. text_size \in Nat /\ data_size \in Nat
  BY PresentType
<1>2. phnum \in 0 .. 2
  BY PresentType
<1>3. Len(Names) = phnum + 2
  BY PresentType
<1>4. ehdr_sz \in Nat /\ phdr_sz \in Nat /\ shdr_sz \in Nat
  BY DEF ehdr_sz, phdr_sz, shdr_sz
<1>5. PageSize \in Nat \ {0}
  BY BaseAssumption
<1>6. AfterHeaders \in Nat
  BY <1>2, <1>4 DEF AfterHeaders, phdr_sz
<1>7. text_off \in Nat
  BY <1>5, <1>6, AlignUpType DEF text_off
<1>8. AfterText \in Nat
  BY <1>1, <1>6, <1>7 DEF AfterText
<1>9. data_off \in Nat
  BY <1>5, <1>8, AlignUpType DEF data_off
<1>10. shstr_off \in Nat
  BY <1>1, <1>8, <1>9 DEF shstr_off
<1>11. \A n \in 0 .. Len(Names) : StrLen(n) \in Nat
  <2> TAKE n \in 0 .. Len(Names)
  <2>1. phnum \in 0 .. 2
    BY <1>2
  <2>2. Len(Names) = phnum + 2
    BY <1>3
  <2>3. Len(Names) \in 2 .. 4
    BY <2>1, <2>2
  <2> QED
    BY <2>3 DEF StrLen, NameBytes
<1>12. shoff \in Nat
  <2>1. StrLen(Len(Names)) \in Nat
    <3>1. Len(Names) = phnum + 2 /\ phnum \in 0 .. 2
      BY <1>2, <1>3
    <3>2. Len(Names) \in 0 .. Len(Names)
      BY <3>1
    <3> QED
      BY <1>11, <3>2
  <2>2. shstr_off + StrLen(Len(Names)) \in Nat
    BY <1>10, <2>1
  <2> QED
    BY <2>2, AlignUpType DEF shoff
<1> QED
  BY <1>1, <1>2, <1>3, <1>4, <1>7, <1>9, <1>10, <1>11, <1>12

\* What each part of the file is.
PartIs(p) == p \in [what : PartNames, off : Nat, len : Nat, body : {p.body}]

\* Every part has an offset and a length, and there is at least the header.
LEMMA PartsType ==
  ASSUME cfg \in Options, out_len \in [Sections -> Nat], lost \in 0 .. 4
  PROVE  /\ Parts \in Seq({Parts[k] : k \in 1 .. Len(Parts)}) /\ Len(Parts) > 0
         /\ \A k \in 1 .. Len(Parts) : PartIs(Parts[k])
<1> DEFINE C == [n \in 1 .. phnum |->
                   Part(Present[n], Offset(Present[n]), out_len[Present[n]], <<>>)]
           T == <<Part(".shstrtab", shstr_off, StrLen(Len(Names)), Stored)>>
           P == ProgramHeaders
           S == SectionHeaders
           H == <<Header>>
           S0 == {p \in {C[n] : n \in 1 .. phnum} \cup {T[1], P[1], Header}
                       \cup {S[n] : n \in 1 .. shnum} : PartIs(p)}
<1>1. /\ phnum \in 0 .. 2 /\ shnum \in 2 .. 4 /\ ehdr_sz \in Nat /\ phdr_sz \in Nat /\ shdr_sz \in Nat
      /\ text_off \in Nat /\ data_off \in Nat /\ shstr_off \in Nat /\ shoff \in Nat
      /\ StrLen(Len(Names)) \in Nat
  BY PlanTypes, SMTT(60) DEF shnum
<1>2. \A w \in PartNames, off \in Nat, len \in Nat : \A b : PartIs(Part(w, off, len, b))
  BY DEF PartIs, Part
<1> HIDE DEF PartIs
<1>3. C \in Seq(S0)
  <2>1. ASSUME NEW n \in 1 .. phnum
        PROVE  PartIs(C[n])
    <3>1. Present[n] \in Sections
      BY PresentType DEF phnum
    <3>2. Offset(Present[n]) \in Nat /\ out_len[Present[n]] \in Nat
      BY <1>1, <3>1 DEF Offset
    <3> QED
      BY <1>2, <3>1, <3>2 DEF PartNames
  <2>2. \A n \in 1 .. phnum : C[n] \in S0
    BY <2>1
  <2> HIDE DEF S0
  <2> QED
    BY <1>1, <2>2
<1>4. T \in Seq(S0)
  <2>1. PartIs(T[1])
    BY <1>1, <1>2 DEF PartNames
  <2> QED
    BY <2>1
<1>5. P \in Seq(S0)
  <2>1. CASE phnum = 0
    BY <2>1 DEF ProgramHeaders
  <2>2. CASE phnum # 0
    <3>1. phnum * phdr_sz \in Nat
      BY <1>1 DEF phdr_sz
    <3>2. \E b : P = <<Part("phdrs", ehdr_sz, phnum * phdr_sz, b)>>
      BY <2>2 DEF ProgramHeaders
    <3>3. "phdrs" \in PartNames
      BY DEF PartNames
    <3>4. PICK p : PartIs(p) /\ P = <<p>>
      BY <1>1, <1>2, <3>1, <3>2, <3>3
    <3>5. p \in S0
      BY <3>4
    <3> HIDE DEF S0
    <3> QED
      BY <3>4, <3>5
  <2> QED
    BY <2>1, <2>2
<1>6. S \in Seq(S0)
  <2>1. ASSUME NEW n \in 1 .. shnum
        PROVE  PartIs(S[n])
    <3>1. shoff + (n - 1) * shdr_sz \in Nat
      BY <1>1 DEF shdr_sz
    <3>2. \E b : S[n] = Part("shdr", shoff + (n - 1) * shdr_sz, shdr_sz, b)
      BY DEF SectionHeaders
    <3> QED
      BY <1>1, <1>2, <3>1, <3>2 DEF PartNames
  <2>2. \A n \in 1 .. shnum : S[n] \in S0
    BY <2>1
  <2>3. S = [n \in 1 .. shnum |-> S[n]]
    BY DEF SectionHeaders
  <2>4. shnum \in Nat
    BY <1>1
  <2> HIDE DEF S0, S
  <2>5. S \in [1 .. shnum -> S0]
    BY <2>2, <2>3
  <2>6. \A n \in Nat : \A f \in [1 .. n -> S0] : f \in Seq(S0)
    OBVIOUS
  <2> QED
    BY <2>4, <2>5, <2>6
<1>7. H \in Seq(S0) /\ Len(H) = 1
  <2>1. \E b : Header = Part("ehdr", 0, ehdr_sz, b)
    BY DEF Header
  <2>2. PartIs(Header)
    BY <1>1, <1>2, <2>1 DEF PartNames
  <2> QED
    BY <2>2
<1>8. Parts = C \o T \o P \o S \o H
  BY DEF Parts, Contents
<1> HIDE DEF C, T, P, S, H
<1>9. \A p \in S0 : PartIs(p)
  OBVIOUS
<1> HIDE DEF S0
<1>10. C \o T \in Seq(S0)
  BY <1>3, <1>4
<1>11. C \o T \o P \in Seq(S0)
  BY <1>5, <1>10
<1>12. C \o T \o P \o S \in Seq(S0)
  BY <1>6, <1>11
<1>13. Parts \in Seq(S0) /\ Len(Parts) > 0
  BY <1>7, <1>8, <1>12, SMTT(60)
<1> QED
  BY <1>9, <1>13

-----------------------------------------------------------------------------
(***************************************************************************)
(* The type invariant, by the module its variables belong to.              *)
(***************************************************************************)

Pass2Types ==
  /\ i \in Nat \ {0} /\ pc \in Word /\ iter \in 0 .. MaxIters
  /\ changed \in BOOLEAN /\ planned \in Nat
  /\ out_section \in Sections /\ seen_text \in BOOLEAN
  /\ out_len \in [Sections -> Nat] /\ has_rvc \in BOOLEAN
  /\ chunks \in Seq(Chunk) /\ run_ok \in BOOLEAN

ElfTypes ==
  /\ lost \in 0 .. 4 /\ finish_ok \in BOOLEAN
  /\ \A k \in DOMAIN file : PartIs(file[k])

MainTypes ==
  /\ out_file \in {"untouched", "open", "closed"}
  /\ final_ok \in BOOLEAN
  /\ exit_code \in {Running, 0, 1} /\ appended \in Nat

\* The four parts make up the type invariant, in this state and in the next.
LEMMA TypeParts ==
  /\ TypeOK <=> TypeOK1 /\ Pass2Types /\ ElfTypes /\ MainTypes
  /\ TypeOK' <=> TypeOK1' /\ Pass2Types' /\ ElfTypes' /\ MainTypes'
BY Zenon DEF TypeOK, Pass2Types, ElfTypes, MainTypes, PartIs

\* Variables that do not change keep their types.
LEMMA TypesKept ==
  /\ Pass2Types /\ UNCHANGED pass2_vars => Pass2Types'
  /\ ElfTypes /\ UNCHANGED elf_vars => ElfTypes'
  /\ MainTypes /\ UNCHANGED main_vars => MainTypes'
  /\ TypeOK1 /\ UNCHANGED <<cfg, symtab, ir, had_error, pass1_vars>> /\ stage' \in Stages
       => TypeOK1'
<1>1. Pass2Types /\ UNCHANGED pass2_vars => Pass2Types'
  BY DEF Pass2Types, pass2_vars
<1>2. ElfTypes /\ UNCHANGED elf_vars => ElfTypes'
  BY Zenon DEF ElfTypes, elf_vars
<1>3. MainTypes /\ UNCHANGED main_vars => MainTypes'
  BY Zenon DEF MainTypes, main_vars
<1>4. TypeOK1 /\ UNCHANGED <<cfg, symtab, ir, had_error, pass1_vars>> /\ stage' \in Stages
        => TypeOK1'
  BY DEF TypeOK1, GlobalsTypeOK, pass1_vars
<1> QED
  BY <1>1, <1>2, <1>3, <1>4

\* Entries that do not change stay what they were.
LEMMA EntriesKept == EntriesOK /\ UNCHANGED <<cfg, ir>> => EntriesOK'
BY DEF EntriesOK

\* The file stays as it is while main() is elsewhere.
LEMMA FileKept ==
  FileInProgress /\ stage # "container" /\ stage' # "container" /\ UNCHANGED file
    /\ (stage \in {"close", "exit"} => stage' \in {"close", "exit"})
  => FileInProgress'
BY DEF FileInProgress

\* Nothing but the parser has run as long as nothing but the parser moves.
LEMMA OnlyParsedKept ==
  ASSUME OnlyParsed, UNCHANGED <<pass2_vars, elf_vars, main_vars>>,
         stage = "parse" \/ stage' = stage
  PROVE  OnlyParsed'
BY DEF OnlyParsed, Pass2Idle, ElfIdle, pass2_vars, elf_vars, main_vars

\* Nothing changes, and nothing is broken.
LEMMA TypeStutter == TypeInv /\ UNCHANGED vars => TypeInv'
<1> SUFFICES ASSUME TypeInv, UNCHANGED vars
             PROVE  TypeInv'
  OBVIOUS
<1>1. UNCHANGED <<cfg, symtab, ir, had_error, pass1_vars, pass2_vars, elf_vars, main_vars, stage>>
  BY DEF vars, globals
<1>2. stage' \in Stages
  BY <1>1 DEF TypeInv, TypeOK, TypeOK1, GlobalsTypeOK
<1>3. TypeOK'
  BY <1>1, <1>2, TypeParts, TypesKept DEF TypeInv
<1>4. EntriesOK'
  BY <1>1, EntriesKept DEF TypeInv
<1>5. AlignsEmpty'
  BY <1>1 DEF TypeInv, AlignsEmpty, LaidOnce, pass2_vars
<1>6. FileInProgress'
  <2>1. Parts' = Parts
    BY <1>1 DEF Parts, Contents, ProgramHeaders, SectionHeaders, Header, Present, Names,
       phnum, shnum, text_size, data_size, text_off, data_off, shstr_off, shoff, StrLen,
       NameBytes, Stored, sh_name, AfterHeaders, AfterText, align_up, is64, ehdr_sz, phdr_sz,
       shdr_sz, Offset, Segment, pass2_vars, elf_vars
  <2> QED
    BY <1>1, <2>1 DEF TypeInv, FileInProgress, elf_vars
<1>7. AllParsed'
  BY <1>1 DEF TypeInv, AllParsed, pass1_vars
<1>8. OnlyParsed'
  BY <1>1, OnlyParsedKept DEF TypeInv
<1> QED
  BY <1>3, <1>4, <1>5, <1>6, <1>7, <1>8 DEF TypeInv

-----------------------------------------------------------------------------
(***************************************************************************)
(* The initial state and the steps of pass 1.                              *)
(***************************************************************************)

\* main() starts with empty tables and the static initialisers of pass 2.
LEMMA TypeInvInit == Init => TypeInv
<1> SUFFICES ASSUME Init
             PROVE  TypeInv
  OBVIOUS
<1>1. TypeOK1
  BY TypeInit DEF Init
<1>2. Pass2Types
  <2>1. 0 \in Word
    BY IntWords
  <2>2. out_len = [s \in Sections |-> 0] /\ chunks = <<>>
    BY DEF Init, Pass2Idle
  <2>3. out_len \in [Sections -> Nat] /\ chunks \in Seq(Chunk)
    BY <2>2
  <2>4. /\ changed \in BOOLEAN /\ seen_text \in BOOLEAN /\ has_rvc \in BOOLEAN
        /\ run_ok \in BOOLEAN
    BY Zenon DEF Init, Pass2Idle
  <2>5. i \in Nat \ {0} /\ iter \in 0 .. MaxIters /\ planned \in Nat /\ pc = 0
    BY DEF Init, Pass2Idle, MaxIters
  <2>6. out_section \in Sections
    BY DEF Init, Pass2Idle, Sections
  <2> QED
    BY <2>1, <2>3, <2>4, <2>5, <2>6 DEF Pass2Types
<1>3. ElfTypes
  <2>1. lost \in 0 .. 4 /\ file = <<>>
    BY DEF Init, ElfIdle
  <2>2. finish_ok \in BOOLEAN
    BY Zenon DEF Init, ElfIdle
  <2> QED
    BY <2>1, <2>2 DEF ElfTypes
<1>4. MainTypes
  <2>1. final_ok \in BOOLEAN
    BY Zenon DEF Init
  <2> QED
    BY <2>1 DEF Init, MainTypes
<1>5. EntriesOK
  BY DEF Init, Init1, EntriesOK
<1>6. AlignsEmpty
  BY DEF Init, Init1, AlignsEmpty
<1>7. FileInProgress
  BY DEF Init, Init1, ElfIdle, FileInProgress
<1>8. AllParsed
  BY DEF Init, Init1, AllParsed
<1>9. OnlyParsed
  BY DEF Init, OnlyParsed
<1> QED
  BY <1>1, <1>2, <1>3, <1>4, <1>5, <1>6, <1>7, <1>8, <1>9, TypeParts DEF TypeInv

\* Appending a good entry, or losing it, leaves good entries.
LEMMA AppendKeeps ==
  ASSUME EntriesOK, ir \in Seq(Entry), UNCHANGED cfg, NEW e, EntryOK(cfg, e),
         AppendToIR(e) \/ UNCHANGED ir
  PROVE  EntriesOK'
<1>1. CASE ir' = ir
  BY <1>1 DEF EntriesOK
<1>2. CASE ir' = Append(ir, e)
  <2>1. e \in Entry
    BY DEF EntryOK
  <2>2. /\ Len(ir) \in Nat /\ DOMAIN ir' = 1 .. Len(ir) + 1 /\ DOMAIN ir = 1 .. Len(ir)
        /\ ir'[Len(ir) + 1] = e /\ \A k \in 1 .. Len(ir) : ir'[k] = ir[k]
    BY <1>2, <2>1
  <2>3. \A k \in 1 .. Len(ir) + 1 : k \in 1 .. Len(ir) \/ k = Len(ir) + 1
    BY <2>2
  <2> QED
    BY <2>2, <2>3 DEF EntriesOK
<1> QED
  BY <1>1, <1>2, Zenon DEF AppendToIR

\* What pass 1 appends comes from the statement it reads.
LEMMA EntriesPassOne ==
  ASSUME TypeOK1, EntriesOK, Next1
  PROVE  EntriesOK'
<1>1. ir \in Seq(Entry) /\ todo \in Seq(Item)
  BY DEF TypeOK1, GlobalsTypeOK
<1>2. CASE Label \/ DotText \/ DotData \/ Datum \/ Emitting \/ SyntaxError \/ EndOfFile
  <2>1. UNCHANGED <<cfg, ir>>
    BY <1>2 DEF Label, DotText, DotData, SetSection, Datum, Emitting, SyntaxError, EndOfFile,
       globals
  <2> QED
    BY <2>1, EntriesKept
<1>3. CASE Align
  <2>1. PICK s \in Lines, a \in 1 .. HalfMod :
          \/ AppendToIR(ir_append_align(cur_section, pass_current_pc,
                                        Add32(pass_current_pc, Pad(pass_current_pc, a))))
          \/ UNCHANGED ir
    <3>1. PICK s \in Lines :
            /\ s.t = "align"
            /\ \E a \in IF s.bytes = 0 THEN UndefinedAlign ELSE {s.bytes} :
                 LET aligned == Add32(pass_current_pc, Pad(pass_current_pc, a))
                 IN IF aligned > 0
                    THEN AppendToIR(ir_append_align(cur_section, pass_current_pc, aligned))
                    ELSE UNCHANGED <<ir, reported>>
      BY <1>3 DEF Align
    <3>2. s.bytes \in 0 .. HalfMod
      BY <3>1, ReadStatement, StatementFields
    <3> QED
      BY <3>1, <3>2, AlignAssumption, WidthAssumption
  <2>2. Add32(pass_current_pc, Pad(pass_current_pc, a)) \in Word
    BY CurrentPc, PadType, Add32Type
  <2>3. EntryOK(cfg, ir_append_align(cur_section, pass_current_pc,
                                     Add32(pass_current_pc, Pad(pass_current_pc, a))))
    BY <2>2, CurrentPc, AppendedOK
  <2>4. UNCHANGED cfg
    BY <1>3 DEF Align
  <2> QED
    BY <1>1, <2>1, <2>3, <2>4, AppendKeeps
<1>4. CASE Space
  <2>1. PICK s \in Lines :
          /\ s.t = "space"
          /\ \/ AppendToIR(ir_append_align(cur_section, pass_current_pc, U32(s.bytes)))
             \/ UNCHANGED ir
    BY <1>4 DEF Space
  <2>2. EntryOK(cfg, ir_append_align(cur_section, pass_current_pc, U32(s.bytes)))
    BY <2>1, ReadStatement, StatementFields, U32Type, CurrentPc, AppendedOK
  <2>3. UNCHANGED cfg
    BY <1>4 DEF Space
  <2> QED
    BY <1>1, <2>1, <2>2, <2>3, AppendKeeps
<1>5. CASE pass1_emit_instruction
  <2> DEFINE x == Head(todo).x
             e == ir_append_instr(x, cur_section, pass_current_pc, InstrSize(x))
  <2>1. x \in Instruction
    BY <1>1, <1>5 DEF pass1_emit_instruction, Item
  <2>2. InstrSize(x) \in Word
    BY SmallWords DEF InstrSize
  <2>3. EntryOK(cfg, e)
    BY <2>1, <2>2, CurrentPc, InstrOK
  <2>4. AppendToIR(e) /\ UNCHANGED cfg
    BY <1>5 DEF pass1_emit_instruction
  <2> QED
    BY <1>1, <2>3, <2>4, AppendKeeps
<1>6. CASE pass1_emit_data
  <2> DEFINE d == Head(todo)
             e == ir_append_data(cur_section, pass_current_pc, d.value, d.size)
  <2>1. d.size \in DataSizes /\ d.value \in Int
    BY <1>1, <1>6 DEF pass1_emit_data, Item
  <2>2. EntryOK(cfg, e)
    BY <2>1, CurrentPc, AppendedOK
  <2>3. AppendToIR(e) /\ UNCHANGED cfg
    BY <1>6 DEF pass1_emit_data
  <2> QED
    BY <1>1, <2>2, <2>3, AppendKeeps
<1> QED
  BY <1>2, <1>3, <1>4, <1>5, <1>6 DEF Next1

\* Pass 1 takes place in the first two stages of main().
LEMMA StagesPassOne ==
  ASSUME AllParsed, Next1
  PROVE  stage = "parse" /\ stage' \in {"parse", "parsed"} /\ AllParsed'
<1>1. CASE Label \/ DotText \/ DotData \/ Align \/ Space \/ Datum \/ Emitting
  BY <1>1 DEF Label, DotText, DotData, SetSection, Align, Space, Datum, Emitting, Reads,
     globals, AllParsed
<1>2. CASE pass1_emit_instruction \/ pass1_emit_data
  BY <1>2 DEF pass1_emit_instruction, pass1_emit_data, AllParsed
<1>3. CASE SyntaxError \/ EndOfFile
  BY <1>3 DEF SyntaxError, EndOfFile, Reads, AllParsed, pass1_vars
<1> QED
  BY <1>1, <1>2, <1>3 DEF Next1

\* A step of the parser.
LEMMA TypePassOne == TypeInv /\ PassOne => TypeInv'
<1> SUFFICES ASSUME TypeInv, PassOne
             PROVE  TypeInv'
  OBVIOUS
<1>1. TypeOK1 /\ Next1 /\ UNCHANGED <<pass2_vars, elf_vars, main_vars>>
  BY TypeParts DEF TypeInv, PassOne
<1>2. stage = "parse" /\ stage' \in {"parse", "parsed"} /\ AllParsed'
  BY <1>1, StagesPassOne DEF TypeInv
<1>3. TypeOK'
  BY <1>1, TypeStep, TypeParts, TypesKept DEF TypeInv
<1>4. EntriesOK'
  BY <1>1, EntriesPassOne DEF TypeInv
<1>5. AlignsEmpty'
  BY <1>2 DEF AlignsEmpty, LaidOnce
<1>6. FileInProgress'
  BY <1>1, <1>2, FileKept DEF TypeInv, elf_vars
<1>7. OnlyParsed'
  BY <1>1, <1>2, OnlyParsedKept DEF TypeInv
<1> QED
  BY <1>2, <1>3, <1>4, <1>5, <1>6, <1>7 DEF TypeInv

-----------------------------------------------------------------------------
(***************************************************************************)
(* The steps of main().                                                    *)
(***************************************************************************)

\* Ending early, opening and closing the output, and freeing the IR.
LEMMA TypeMain ==
  TypeInv /\ (StringLost \/ GiveUp \/ OpenOutput \/ pass2_finalize \/ CloseOutput) => TypeInv'
<1> SUFFICES ASSUME TypeInv, StringLost \/ GiveUp \/ OpenOutput \/ pass2_finalize \/ CloseOutput
             PROVE  TypeInv'
  OBVIOUS
<1> USE DEF TypeInv
<1>0. TypeOK1 /\ Pass2Types /\ ElfTypes /\ MainTypes
  BY TypeParts
<1>1. CASE StringLost \/ GiveUp
  <2>1. /\ UNCHANGED <<cfg, symtab, ir, had_error, todo, cur_section, text_entered, pcs,
                       parse_rc, reported, wrapped, label_def, pass2_vars, elf_vars,
                       out_file, final_ok, appended>>
        /\ stage' = "exit" /\ exit_code' = 1 /\ stage \in {"parse", "parsed"}
        /\ line' \in {line, line + 1} /\ (stage = "parse" => todo = <<>>)
    BY <1>1 DEF StringLost, GiveUp, Reads, pass1_vars
  <2>2. TypeOK1'
    BY <1>0, <2>1 DEF TypeOK1, GlobalsTypeOK, Stages
  <2>3. MainTypes'
    BY <1>0, <2>1 DEF MainTypes
  <2>4. TypeOK'
    BY <1>0, <2>1, <2>2, <2>3, TypeParts, TypesKept
  <2>5. EntriesOK' /\ AlignsEmpty' /\ FileInProgress' /\ AllParsed'
    BY <2>1, EntriesKept, FileKept DEF AlignsEmpty, LaidOnce, AllParsed, elf_vars
  <2>6. OnlyParsed'
    BY <2>1 DEF OnlyParsed
  <2> QED
    BY <2>4, <2>5, <2>6
<1>2. CASE OpenOutput
  <2>1. /\ UNCHANGED <<cfg, symtab, ir, pass1_vars, pass2_vars, elf_vars, final_ok, exit_code>>
        /\ stage = "parsed" /\ stage' = "data_layout" /\ had_error' = FALSE
        /\ out_file' = "open" /\ appended' = Len(ir)
    BY <1>2 DEF OpenOutput, pass2_initialize
  <2>2. TypeOK1'
    BY <1>0, <2>1 DEF TypeOK1, GlobalsTypeOK, Stages, pass1_vars
  <2>3. ir \in Seq(Entry)
    BY <1>0 DEF TypeOK1, GlobalsTypeOK
  <2>4. MainTypes'
    BY <1>0, <2>1, <2>3 DEF MainTypes
  <2>5. TypeOK'
    BY <1>0, <2>1, <2>2, <2>4, TypeParts, TypesKept
  <2>6. i' = 1 /\ todo' = todo
    BY <2>1 DEF OnlyParsed, Pass2Idle, pass2_vars, pass1_vars
  <2>7. EntriesOK' /\ FileInProgress' /\ AllParsed'
    BY <2>1, <2>6, EntriesKept, FileKept DEF AllParsed, elf_vars
  <2>8. AlignsEmpty'
    BY <2>1, <2>3, <2>6 DEF AlignsEmpty, LaidOnce
  <2>9. OnlyParsed'
    BY <2>1 DEF OnlyParsed
  <2> QED
    BY <2>5, <2>7, <2>8, <2>9
<1>3. CASE pass2_finalize
  <2>1. /\ UNCHANGED <<cfg, had_error, pass1_vars, pass2_vars, elf_vars, out_file, exit_code,
                       appended>>
        /\ stage = "finalize" /\ stage' = "finish" /\ ir' = <<>> /\ symtab' = Empty
        /\ final_ok' = ~had_error
    BY <1>3 DEF pass2_finalize
  <2>2. DOMAIN symtab' = {} /\ symtab' \in [DOMAIN symtab' -> Int32]
    BY <2>1 DEF Empty
  <2>3. TypeOK1'
    BY <1>0, <2>1, <2>2 DEF TypeOK1, GlobalsTypeOK, Stages, pass1_vars
  <2>4. final_ok' \in BOOLEAN
    BY <2>1, Zenon
  <2>5. MainTypes'
    BY <1>0, <2>1, <2>4 DEF MainTypes
  <2>6. TypeOK'
    BY <1>0, <2>1, <2>3, <2>5, TypeParts, TypesKept
  <2>7. EntriesOK' /\ AlignsEmpty' /\ FileInProgress' /\ AllParsed'
    BY <2>1, FileKept DEF EntriesOK, AlignsEmpty, AllParsed, elf_vars, pass1_vars
  <2>8. OnlyParsed'
    BY <2>1 DEF OnlyParsed
  <2> QED
    BY <2>6, <2>7, <2>8
<1>4. CASE CloseOutput
  <2>1. /\ UNCHANGED <<cfg, symtab, ir, had_error, pass1_vars, pass2_vars, elf_vars, final_ok,
                       appended>>
        /\ stage = "close" /\ stage' = "exit" /\ out_file' = "closed" /\ exit_code' \in {0, 1}
    BY <1>4 DEF CloseOutput
  <2>2. stage' \in Stages
    BY <2>1 DEF Stages
  <2>3. MainTypes'
    BY <1>0, <2>1 DEF MainTypes
  <2>4. TypeOK'
    BY <1>0, <2>1, <2>2, <2>3, TypeParts, TypesKept
  <2>5. EntriesOK' /\ AlignsEmpty' /\ FileInProgress' /\ AllParsed'
    BY <2>1, EntriesKept, FileKept
    DEF AlignsEmpty, LaidOnce, AllParsed, elf_vars, pass1_vars
  <2>6. OnlyParsed'
    BY <2>1 DEF OnlyParsed
  <2> QED
    BY <2>4, <2>5, <2>6
<1> QED
  BY <1>1, <1>2, <1>3, <1>4

-----------------------------------------------------------------------------
(***************************************************************************)
(* The layout steps of pass 2.                                             *)
(***************************************************************************)

\* A step of pass 2 that leaves the table, the options and the parser alone.
LEMMA TypePassTwo ==
  ASSUME TypeInv, UNCHANGED <<cfg, symtab, pass1_vars, elf_vars, main_vars>>,
         stage \in {"data_layout", "plan", "text_layout", "validate", "emit"},
         stage' \in {"data_layout", "plan", "text_layout", "validate", "emit", "finalize"},
         ir' \in Seq(Entry), had_error' \in BOOLEAN, Pass2Types', EntriesOK', AlignsEmpty'
  PROVE  TypeInv'
<1>0. TypeOK1 /\ ElfTypes /\ MainTypes
  BY TypeParts DEF TypeInv
<1>1. TypeOK1'
  BY <1>0 DEF TypeOK1, GlobalsTypeOK, Stages, pass1_vars
<1>2. TypeOK'
  BY <1>0, <1>1, TypeParts, TypesKept
<1>3. FileInProgress'
  BY FileKept DEF TypeInv, elf_vars
<1>4. AllParsed' /\ OnlyParsed'
  BY DEF TypeInv, AllParsed, OnlyParsed, pass1_vars
<1> QED
  BY <1>2, <1>3, <1>4 DEF TypeInv

\* A loop of pass 2 replaces the entry at hand by a good one.
LEMMA UpdateOne ==
  ASSUME ir \in Seq(Entry), EntriesOK, UNCHANGED cfg, i \in 1 .. Len(ir), NEW f,
         EntryOK(cfg, f), ir' = [ir EXCEPT ![i] = f]
  PROVE  /\ ir' \in Seq(Entry) /\ EntriesOK'
         /\ Len(ir') = Len(ir) /\ DOMAIN ir' = DOMAIN ir
         /\ ir'[i] = f /\ \A k \in DOMAIN ir : k # i => ir'[k] = ir[k]
<1>1. f \in Entry
  BY DEF EntryOK
<1>2. /\ ir' \in Seq(Entry) /\ Len(ir') = Len(ir) /\ DOMAIN ir' = DOMAIN ir
      /\ ir'[i] = f /\ \A k \in DOMAIN ir : k # i => ir'[k] = ir[k]
  BY <1>1
<1>3. EntriesOK'
  BY <1>2 DEF EntriesOK
<1> QED
  BY <1>2, <1>3

\* pass2_assign_addresses, in either of the two loops that call it.
LEMMA AssignOK ==
  ASSUME TypeInv, NEW sect \in Sections, AssignAddress(sect),
         \/ stage = "data_layout" /\ sect = "SEC_DATA"
         \/ stage = "text_layout" /\ sect = "SEC_TEXT"
  PROVE  ir' \in Seq(Entry) /\ Pass2Types' /\ EntriesOK' /\ AlignsEmpty'
<1> USE DEF TypeInv
<1>0. ir \in Seq(Entry) /\ Pass2Types
  BY TypeParts DEF TypeOK1, GlobalsTypeOK
<1>1. i \in 1 .. Len(ir) /\ i' = i + 1 /\ UNCHANGED <<stage, cfg>>
  BY <1>0 DEF AssignAddress, Pass2Types
<1>2. UNCHANGED <<iter, changed, planned, out_section, seen_text, out_len, has_rvc, chunks, run_ok>>
  BY DEF AssignAddress, sink_vars
<1>3. CASE ir[i].sect # sect
  <2>1. UNCHANGED <<ir, pc>>
    BY <1>3 DEF AssignAddress
  <2>2. Pass2Types'
    BY <1>0, <1>1, <1>2, <2>1 DEF Pass2Types
  <2>3. EntriesOK'
    BY <1>1, <2>1, EntriesKept
  <2>4. ASSUME NEW k \in DOMAIN ir, LaidOnce(k)'
        PROVE  LaidOnce(k)
    <3>1. ir[k].sect \in Sections
      <4>1. ir[k] \in Entry
        BY <1>0
      <4> QED
        BY <4>1 DEF Entry
    <3> QED
      BY <1>0, <1>1, <1>3, <2>1, <2>4, <3>1 DEF LaidOnce, Pass2Types, Sections
  <2>5. AlignsEmpty'
    BY <2>1, <2>4 DEF AlignsEmpty
  <2> QED
    BY <1>0, <2>1, <2>2, <2>3, <2>5
<1>4. CASE ir[i].sect = sect
  <2> DEFINE f == Placed(ir[i], pc)
  <2>1. EntryOK(cfg, ir[i]) /\ pc \in Word
    BY <1>0, <1>1 DEF EntriesOK, Pass2Types
  <2>2. /\ EntryOK(cfg, f) /\ SameSource(ir[i], f) /\ f.size \in Word
        /\ ir[i].kind = "IR_ALIGN" => f.size = 0
    BY <2>1, PlacedOK
  <2>3. ir' = [ir EXCEPT ![i] = f] /\ pc' = Add32(pc, f.size)
    BY <1>4 DEF AssignAddress
  <2> HIDE DEF f
  <2>4. /\ ir' \in Seq(Entry) /\ EntriesOK' /\ DOMAIN ir' = DOMAIN ir
        /\ ir'[i] = f /\ \A k \in DOMAIN ir : k # i => ir'[k] = ir[k]
    BY <1>0, <1>1, <2>2, <2>3, UpdateOne
  <2>5. pc' \in Word
    BY <2>1, <2>2, <2>3, Add32Type
  <2>6. Pass2Types'
    BY <1>0, <1>1, <1>2, <2>5 DEF Pass2Types
  <2>7. f.sect = ir[i].sect /\ f.kind = ir[i].kind
    BY <2>2 DEF SameSource
  <2>8. ASSUME NEW k \in DOMAIN ir, k # i, LaidOnce(k)'
        PROVE  LaidOnce(k)
    BY <1>0, <1>1, <2>4, <2>8 DEF LaidOnce, Pass2Types
  <2>9. AlignsEmpty'
    BY <2>2, <2>4, <2>7, <2>8 DEF AlignsEmpty
  <2> QED
    BY <2>4, <2>6, <2>9
<1> QED
  BY <1>3, <1>4

\* pass2_plan_choices and pass2_validate_compressed_ranges, one entry.
LEMMA ChoicesOK ==
  ASSUME TypeInv, pass2_plan_choices \/ pass2_validate_compressed_ranges
  PROVE  ir' \in Seq(Entry) /\ Pass2Types' /\ EntriesOK' /\ AlignsEmpty'
<1> USE DEF TypeInv
<1>0. ir \in Seq(Entry) /\ Pass2Types /\ GlobalsTypeOK
  BY TypeParts DEF TypeOK1, GlobalsTypeOK
<1>1. /\ i \in 1 .. Len(ir) /\ i' = i + 1 /\ UNCHANGED <<stage, cfg>>
      /\ stage \in {"plan", "validate"}
  BY <1>0 DEF pass2_plan_choices, pass2_validate_compressed_ranges, Pass2Types
<1>2. UNCHANGED <<pc, iter, out_section, seen_text, out_len, has_rvc, chunks, run_ok>>
  BY DEF pass2_plan_choices, pass2_validate_compressed_ranges, sink_vars
<1>3. changed' \in BOOLEAN /\ planned' \in Nat
  <2>1. changed' = changed \/ changed' = (changed \/ Drops(ir[i]))
    BY Zenon DEF pass2_plan_choices, pass2_validate_compressed_ranges
  <2>2. planned' = planned \/ planned' = planned + 1
    BY Zenon DEF pass2_plan_choices, pass2_validate_compressed_ranges
  <2>3. changed' \in BOOLEAN
    BY <1>0, <2>1 DEF Pass2Types
  <2> QED
    BY <1>0, <2>2, <2>3 DEF Pass2Types
<1>4. Pass2Types'
  BY <1>0, <1>1, <1>2, <1>3 DEF Pass2Types
<1>5. EntryOK(cfg, ir[i]) /\ ir[i] \in Entry /\ ir[i].addr \in Word
  BY <1>0, <1>1 DEF EntriesOK, EntryOK, Entry
<1>6. UNCHANGED ir \/ \E f : EntryOK(cfg, f) /\ SameSource(ir[i], f) /\ f.size = ir[i].size
                             /\ ir' = [ir EXCEPT ![i] = f]
  <2>1. CASE pass2_plan_choices
    <3>1. CASE ir' = [ir EXCEPT ![i] = ir_set_c_choice(ir[i], c_try_map(cfg, ir[i]))]
               /\ pass2_node_can_attempt(ir[i]) /\ c_can_map(cfg, ir[i])
      BY <1>5, <3>1, SetChoiceOK
    <3>2. CASE ir' = [ir EXCEPT ![i] = ir_clear_c_choice(ir[i])]
      BY <1>5, <3>2, ClearChoiceOK
    <3> QED
      BY <2>1, <3>1, <3>2 DEF pass2_plan_choices
  <2>2. CASE pass2_validate_compressed_ranges
    <3>1. CASE ir' = [ir EXCEPT ![i] = Validated(ir[i])]
      BY <1>0, <1>5, <3>1, ValidatedOK
    <3> QED
      BY <2>2, <3>1 DEF pass2_validate_compressed_ranges
  <2> QED
    BY <2>1, <2>2
<1>7. CASE UNCHANGED ir
  <2>1. \A k \in DOMAIN ir : LaidOnce(k)' => LaidOnce(k)
    BY <1>1, <1>7 DEF LaidOnce
  <2>2. AlignsEmpty'
    BY <1>7, <2>1 DEF AlignsEmpty
  <2> QED
    BY <1>0, <1>1, <1>4, <1>7, <2>2, EntriesKept
<1>8. ASSUME NEW f, EntryOK(cfg, f), SameSource(ir[i], f), f.size = ir[i].size,
             ir' = [ir EXCEPT ![i] = f]
      PROVE  ir' \in Seq(Entry) /\ Pass2Types' /\ EntriesOK' /\ AlignsEmpty'
  <2>1. /\ ir' \in Seq(Entry) /\ EntriesOK' /\ DOMAIN ir' = DOMAIN ir
        /\ ir'[i] = f /\ \A k \in DOMAIN ir : k # i => ir'[k] = ir[k]
    BY <1>0, <1>1, <1>8, UpdateOne
  <2>2. f.sect = ir[i].sect /\ f.kind = ir[i].kind
    BY <1>8 DEF SameSource
  <2>3. \A k \in DOMAIN ir : ir'[k].sect = ir[k].sect /\ ir'[k].kind = ir[k].kind
                               /\ ir'[k].size = ir[k].size
    BY <1>8, <2>1, <2>2
  <2>4. \A k \in DOMAIN ir : LaidOnce(k)' => LaidOnce(k)
    BY <1>1, <2>3 DEF LaidOnce
  <2>5. AlignsEmpty'
    BY <2>1, <2>3, <2>4 DEF AlignsEmpty
  <2> QED
    BY <1>4, <2>1, <2>5
<1> QED
  BY <1>6, <1>7, <1>8

\* Leaving one loop of the layout for the next.
LEMMA LoopsOK ==
  ASSUME TypeInv,
         DataLayoutDone \/ PlanDone \/ TextLayoutDone \/ Relayout \/ RelayoutDone
  PROVE  Pass2Types' /\ AlignsEmpty'
<1> USE DEF TypeInv
<1>0. ir \in Seq(Entry) /\ Pass2Types
  BY TypeParts DEF TypeOK1, GlobalsTypeOK
<1>1. /\ i > Len(ir) /\ i' = 1 /\ pc' = 0
      /\ UNCHANGED <<ir, planned, out_section, seen_text, out_len, has_rvc, chunks, run_ok>>
  BY DEF DataLayoutDone, PlanDone, TextLayoutDone, Relayout, RelayoutDone, GoTo, sink_vars
<1>2. iter' \in 0 .. MaxIters
  <2>1. UNCHANGED iter \/ iter' = 1 \/ (iter' = iter + 1 /\ iter < MaxIters)
    BY DEF DataLayoutDone, PlanDone, TextLayoutDone, Relayout, RelayoutDone
  <2> QED
    BY <1>0, <2>1 DEF Pass2Types, MaxIters
<1>3. changed' \in BOOLEAN
  <2>1. UNCHANGED changed \/ changed' = FALSE
    BY Zenon DEF DataLayoutDone, PlanDone, TextLayoutDone, Relayout, RelayoutDone
  <2> QED
    BY <1>0, <2>1, Zenon DEF Pass2Types
<1>4. Pass2Types'
  BY <1>0, <1>1, <1>2, <1>3, IntWords DEF Pass2Types
<1>5. AlignsEmpty'
  <2>1. /\ stage = "data_layout" => stage' \in {"plan", "text_layout"}
        /\ stage = "plan" => stage' = "text_layout"
        /\ stage = "text_layout" => stage' \in {"validate", "emit"}
        /\ stage = "validate" => stage' \in {"text_layout", "emit"}
        /\ stage \in {"data_layout", "plan", "text_layout", "validate"}
    BY DEF DataLayoutDone, PlanDone, TextLayoutDone, Relayout, RelayoutDone, GoTo
  <2>2. Len(ir) \in Nat /\ DOMAIN ir = 1 .. Len(ir) /\ i \in Nat
    BY <1>0 DEF Pass2Types
  <2>3. \A k \in DOMAIN ir : k < i /\ ~(k < 1)
    BY <1>1, <2>2
  <2>4. \A k \in DOMAIN ir : LaidOnce(k)' => LaidOnce(k)
    BY <1>1, <2>1, <2>3 DEF LaidOnce
  <2> QED
    BY <1>1, <2>4 DEF AlignsEmpty
<1> QED
  BY <1>4, <1>5

\* A step of the layout.
LEMMA TypeLayout ==
  ASSUME TypeInv, Layout, UNCHANGED <<pass1_vars, elf_vars, main_vars>>
  PROVE  TypeInv'
<1>0. TypeOK1
  BY TypeParts DEF TypeInv
<1>1. had_error' \in BOOLEAN /\ UNCHANGED <<cfg, symtab>>
  <2>1. UNCHANGED <<cfg, symtab, had_error>>
    BY DEF Layout, DataLayout, DataLayoutDone, pass2_plan_choices, PlanDone, TextLayout,
       TextLayoutDone, pass2_validate_compressed_ranges, Relayout, RelayoutDone, AssignAddress
  <2> QED
    BY <1>0, <2>1 DEF TypeOK1, GlobalsTypeOK
<1>2. CASE DataLayout \/ TextLayout
  <2>1. PICK sect \in Sections :
          /\ AssignAddress(sect) /\ stage' = stage
          /\ \/ stage = "data_layout" /\ sect = "SEC_DATA"
             \/ stage = "text_layout" /\ sect = "SEC_TEXT"
    BY <1>2 DEF DataLayout, TextLayout, Sections, AssignAddress
  <2>2. ir' \in Seq(Entry) /\ Pass2Types' /\ EntriesOK' /\ AlignsEmpty'
    BY <2>1, AssignOK
  <2> QED
    BY <1>1, <2>1, <2>2, TypePassTwo
<1>3. CASE pass2_plan_choices \/ pass2_validate_compressed_ranges
  <2>1. ir' \in Seq(Entry) /\ Pass2Types' /\ EntriesOK' /\ AlignsEmpty'
    BY <1>3, ChoicesOK
  <2>2. stage \in {"plan", "validate"} /\ stage' = stage
    BY <1>3 DEF pass2_plan_choices, pass2_validate_compressed_ranges
  <2> QED
    BY <1>1, <2>1, <2>2, TypePassTwo
<1>4. CASE DataLayoutDone \/ PlanDone \/ TextLayoutDone \/ Relayout \/ RelayoutDone
  <2>1. Pass2Types' /\ AlignsEmpty'
    BY <1>4, LoopsOK
  <2>2. UNCHANGED ir /\ stage \in {"data_layout", "plan", "text_layout", "validate"}
        /\ stage' \in {"plan", "text_layout", "validate", "emit"}
    BY <1>4 DEF DataLayoutDone, PlanDone, TextLayoutDone, Relayout, RelayoutDone, GoTo
  <2>3. ir' \in Seq(Entry) /\ EntriesOK'
    BY <1>0, <1>1, <2>2, EntriesKept DEF TypeInv, TypeOK1, GlobalsTypeOK
  <2> QED
    BY <1>1, <2>1, <2>2, <2>3, TypePassTwo
<1> QED
  BY <1>2, <1>3, <1>4 DEF Layout

-----------------------------------------------------------------------------
(***************************************************************************)
(* The emission steps of pass 2.                                           *)
(***************************************************************************)

\* What a step of the emission may leave of the variables of pass 2.
EmissionTypes ==
  /\ i \in Nat \ {0} /\ out_len \in [Sections -> Nat]
  /\ chunks \in Seq(Chunk) /\ run_ok \in BOOLEAN

\* A write puts one chunk behind the others, or ends pass2_run.
LEMMA WriteOK ==
  ASSUME Pass2Types, ir \in Seq(Entry), i \in 1 .. Len(ir), stage = "emit",
         NEW n \in {1, 2, 4, 8}, NEW w \in SUBSET (0 .. 63), NEW imm \in Int,
         Write(n, w, imm)
  PROVE  EmissionTypes' /\ stage' \in {"emit", "finalize"}
<1>1. i \in Nat \ {0} /\ out_len \in [Sections -> Nat] /\ chunks \in Seq(Chunk)
      /\ run_ok \in BOOLEAN
  BY DEF Pass2Types
<1>2. ir[i].sect \in Sections
  <2>1. ir[i] \in Entry
    OBVIOUS
  <2> QED
    BY <2>1 DEF Entry
<1>3. CASE WritesMayFail /\ Stop(FALSE) /\ UNCHANGED <<chunks, out_len, i>>
  BY <1>1, <1>3, Zenon DEF EmissionTypes, Stop
<1> DEFINE c == [idx |-> i, sect |-> ir[i].sect, pos |-> out_len[ir[i].sect],
                 size |-> n, bits |-> w, imm |-> imm]
<1>4. CASE /\ chunks' = Append(chunks, c)
           /\ out_len' = [out_len EXCEPT ![ir[i].sect] = @ + n]
           /\ i' = i + 1
           /\ UNCHANGED <<stage, run_ok>>
  <2>1. out_len[ir[i].sect] \in Nat
    BY <1>1, <1>2
  <2>2. c \in Chunk
    BY <1>1, <1>2, <2>1 DEF Chunk
  <2>3. chunks' \in Seq(Chunk)
    <3> HIDE DEF c
    <3> QED
      BY <1>1, <1>4, <2>2
  <2>4. out_len[ir[i].sect] + n \in Nat
    BY <2>1
  <2>5. out_len' \in [Sections -> Nat]
    BY <1>1, <1>2, <1>4, <2>4
  <2>6. i' \in Nat \ {0}
    BY <1>1, <1>4
  <2> QED
    BY <1>1, <1>4, <2>3, <2>5, <2>6, Zenon DEF EmissionTypes
<1> QED
  BY <1>3, <1>4, Zenon DEF Write

\* Reaching an entry of the IR to write it.
LEMMA AtEntryOK ==
  ASSUME TypeInv, NEW kind, AtEntry(kind)
  PROVE  /\ i \in 1 .. Len(ir) /\ ir[i].kind = kind /\ stage = "emit"
         /\ EntryOK(cfg, ir[i]) /\ ir[i] \in Entry
         /\ out_section' \in Sections /\ seen_text' \in BOOLEAN
         /\ UNCHANGED <<cfg, symtab, ir, pc, iter, changed, planned>>
<1>1. ir \in Seq(Entry) /\ Pass2Types
  BY TypeParts DEF TypeInv, TypeOK1, GlobalsTypeOK
<1>2. i \in 1 .. Len(ir)
  BY <1>1 DEF AtEntry, Pass2Types
<1>3. EntryOK(cfg, ir[i])
  BY <1>1, <1>2 DEF TypeInv, EntriesOK
<1>4. ir[i] \in Entry
  BY <1>3 DEF EntryOK
<1>5. ir[i].sect \in Sections
  BY <1>4 DEF Entry
<1>6. seen_text' \in BOOLEAN
  BY <1>1, Zenon DEF AtEntry, Pass2Types
<1> QED
  BY <1>2, <1>3, <1>4, <1>5, <1>6 DEF AtEntry

\* A step of the emission.
LEMMA TypeEmission ==
  ASSUME TypeInv, Emission, UNCHANGED <<pass1_vars, elf_vars, main_vars>>
  PROVE  TypeInv'
<1>1. TypeOK1 /\ GlobalsTypeOK /\ ir \in Seq(Entry) /\ Pass2Types /\ had_error \in BOOLEAN
  BY TypeParts DEF TypeInv, TypeOK1, GlobalsTypeOK
<1> DEFINE Sound ==
             /\ UNCHANGED <<cfg, symtab, ir, pc, iter, changed, planned>>
             /\ stage = "emit" /\ stage' \in {"emit", "finalize"}
             /\ EmissionTypes' /\ had_error' \in BOOLEAN /\ has_rvc' \in BOOLEAN
             /\ out_section' \in Sections /\ seen_text' \in BOOLEAN
<1>2. ASSUME RefuseSection \/ EmitDone
      PROVE  Sound
  <2>1. /\ UNCHANGED <<cfg, symtab, ir, pc, iter, changed, planned, i, sink_vars>>
        /\ stage = "emit" /\ stage' = "finalize"
    BY <1>2 DEF RefuseSection, EmitDone, Stop, layout_vars
  <2>2. run_ok' \in BOOLEAN /\ had_error' \in BOOLEAN
    BY <1>1, <1>2, Zenon DEF RefuseSection, EmitDone, Stop
  <2>3. EmissionTypes'
    BY <1>1, <2>1, <2>2, Zenon DEF EmissionTypes, Pass2Types, sink_vars
  <2>4. has_rvc' \in BOOLEAN /\ out_section' \in Sections /\ seen_text' \in BOOLEAN
    BY <1>1, <2>1, Zenon DEF Pass2Types, sink_vars
  <2> QED
    BY <2>1, <2>2, <2>3, <2>4
<1>3. ASSUME pass2_emit_align
      PROVE  Sound
  <2>1. AtEntry("IR_ALIGN")
    BY <1>3 DEF pass2_emit_align
  <2>2. ir[i].size = 0
    BY <2>1, AtEntryOK DEF TypeInv, AlignsEmpty, LaidOnce
  <2>3. i' = i + 1 /\ UNCHANGED <<stage, run_ok, chunks, out_len, had_error, has_rvc>>
    BY <1>3, <2>2 DEF pass2_emit_align
  <2>4. EmissionTypes' /\ had_error' \in BOOLEAN /\ has_rvc' \in BOOLEAN
    BY <1>1, <2>3 DEF EmissionTypes, Pass2Types
  <2> QED
    BY <2>1, <2>3, <2>4, AtEntryOK
<1>4. ASSUME pass2_emit_data
      PROVE  Sound
  <2>1. AtEntry("IR_DATA")
    BY <1>4 DEF pass2_emit_data
  <2>2. ir[i].size \in DataSizes /\ ir[i].imm \in Int
    BY <2>1, AtEntryOK DEF EntryOK, Entry
  <2>3. ValueBits(ir[i].imm, ir[i].size) \in SUBSET (0 .. 63)
    BY <2>2, ValueBitsType
  <2>4. UNCHANGED has_rvc /\ had_error' \in BOOLEAN
    BY <1>1, <1>4, Zenon DEF pass2_emit_data
  <2>5. EmissionTypes' /\ stage' \in {"emit", "finalize"}
    <3>1. CASE Write(ir[i].size, ValueBits(ir[i].imm, ir[i].size), ir[i].imm)
      <4>1. ir[i].size \in {1, 2, 4, 8}
        BY <2>2 DEF DataSizes
      <4> QED
        BY <1>1, <2>1, <2>2, <2>3, <3>1, <4>1, AtEntryOK, WriteOK
    <3>2. CASE Stop(FALSE) /\ UNCHANGED <<chunks, out_len, i>>
      BY <1>1, <3>2, Zenon DEF EmissionTypes, Pass2Types, Stop
    <3> QED
      BY <1>4, <3>1, <3>2 DEF pass2_emit_data
  <2>6. has_rvc' \in BOOLEAN
    BY <1>1, <2>4 DEF Pass2Types
  <2> QED
    BY <2>1, <2>4, <2>5, <2>6, AtEntryOK
<1>5. ASSUME pass2_emit_instr
      PROVE  Sound
  <2> DEFINE x == c_materialize(ir[i])
             short == is_c_fmt(x.fmt)
             y == Resolved(x, ir[i].addr)
             n == IF short THEN 2 ELSE 4
  <2>1. AtEntry("IR_INSTR")
    BY <1>5 DEF pass2_emit_instr
  <2>2. x \in Operands /\ ir[i].addr \in Word
    BY <2>1, AtEntryOK, MaterializeType DEF Entry
  <2>3. \/ Write(n, InstrBits(cfg, y), y.imm) /\ has_rvc' = (has_rvc \/ MarksRvc(short))
             /\ UNCHANGED had_error
        \/ /\ had_error' = (had_error \/ ~NotAvailable(x))
           /\ Stop(FALSE)
           /\ UNCHANGED <<chunks, out_len, i, has_rvc>>
    BY <1>5 DEF pass2_emit_instr
  <2>4. y \in Operands
    BY <1>1, <2>2, ResolvedType
  <2> HIDE DEF x, y
  <2>5. InstrBits(cfg, y) \in SUBSET (0 .. 63) /\ y.imm \in Int
    BY <2>4, InstrBitsType DEF Operands
  <2>6. n \in {1, 2, 4, 8}
    OBVIOUS
  <2> HIDE DEF n, short
  <2>7. had_error' \in BOOLEAN /\ has_rvc' \in BOOLEAN
    <3>1. has_rvc \in BOOLEAN
      BY <1>1 DEF Pass2Types
    <3> QED
      BY <1>1, <2>3, <3>1, Zenon
  <2>8. EmissionTypes' /\ stage' \in {"emit", "finalize"}
    <3>1. CASE Write(n, InstrBits(cfg, y), y.imm)
      BY <1>1, <2>1, <2>5, <2>6, <3>1, AtEntryOK, WriteOK
    <3>2. CASE Stop(FALSE) /\ UNCHANGED <<chunks, out_len, i>>
      BY <1>1, <3>2, Zenon DEF EmissionTypes, Pass2Types, Stop
    <3> QED
      BY <2>3, <3>1, <3>2
  <2> QED
    BY <2>1, <2>7, <2>8, AtEntryOK
<1>6. Sound
  BY <1>2, <1>3, <1>4, <1>5, Zenon DEF Emission
<1>7. Pass2Types'
  <2>1. pc' \in Word /\ iter' \in 0 .. MaxIters /\ changed' \in BOOLEAN /\ planned' \in Nat
    BY <1>1, <1>6, Zenon DEF Pass2Types
  <2> QED
    BY <1>6, <2>1, Zenon DEF Pass2Types, EmissionTypes
<1>8. EntriesOK' /\ ir' \in Seq(Entry)
  BY <1>1, <1>6, EntriesKept DEF TypeInv
<1>9. AlignsEmpty'
  <2>1. UNCHANGED ir /\ stage = "emit"
    BY <1>6
  <2> QED
    BY <2>1 DEF TypeInv, AlignsEmpty, LaidOnce
<1> QED
  <2>1. /\ UNCHANGED <<cfg, symtab>> /\ stage = "emit" /\ stage' \in {"emit", "finalize"}
        /\ had_error' \in BOOLEAN
    BY <1>6
  <2> QED
    BY <1>7, <1>8, <1>9, <2>1, TypePassTwo

-----------------------------------------------------------------------------
(***************************************************************************)
(* The steps of out_finish.                                                *)
(***************************************************************************)

\* The container depends on the options, on what was written and on what was lost.
LEMMA PartsKept == UNCHANGED <<cfg, out_len, lost, has_rvc>> => Parts' = Parts
BY DEF Parts, Contents, ProgramHeaders, SectionHeaders, Header, Present, Names, phnum, shnum,
   text_size, data_size, text_off, data_off, shstr_off, shoff, StrLen, NameBytes, Stored,
   sh_name, AfterHeaders, AfterText, align_up, is64, ehdr_sz, phdr_sz, shdr_sz, Offset, Segment

\* There is always a part to write, whatever the plan is made from.
SomeParts ==
  cfg \in Options /\ out_len \in [Sections -> Nat] /\ lost \in 0 .. 4 => Len(Parts) > 0

\* SomeParts holds in every state, so in the next one as well.
LEMMA PartsExist == SomeParts /\ SomeParts'
<1>1. SomeParts
  BY PartsType DEF SomeParts
<1> QED
  BY <1>1, PTL

\* A part is added behind those that are there.
LEMMA AddPartOK ==
  ASSUME TypeInv, stage = "container", AddPart
  PROVE  /\ \A k \in DOMAIN file' : PartIs(file'[k])
         /\ file' \in Seq({file'[k] : k \in DOMAIN file'})
         /\ Len(file') = Len(file) + 1 /\ Len(file') <= Len(Parts)
         /\ \A k \in 1 .. Len(file') : file'[k] = Parts[k]
<1> DEFINE P == {Parts[k] : k \in 1 .. Len(Parts)}
           F == {file[k] : k \in DOMAIN file}
<1>1. Parts \in Seq(P) /\ \A k \in 1 .. Len(Parts) : PartIs(Parts[k])
  BY TypeParts, PartsType DEF TypeInv, TypeOK1, GlobalsTypeOK, Pass2Types, ElfTypes
<1>2. /\ file \in Seq(F) /\ Len(file) < Len(Parts)
      /\ \A k \in 1 .. Len(file) : file[k] = Parts[k]
  BY DEF TypeInv, FileInProgress
<1>3. Len(Parts) \in Nat /\ Len(file) \in Nat
  BY <1>1, <1>2
<1>4. file' = Append(file, Parts[Len(file) + 1])
  BY DEF AddPart
<1> DEFINE p == Parts[Len(file) + 1]
           G == F \cup {p}
<1>5. file \in Seq(G) /\ p \in G
  BY <1>2
<1> HIDE DEF G, F, P
<1>6. /\ file' \in Seq(G) /\ Len(file') = Len(file) + 1
      /\ \A k \in 1 .. Len(file) : file'[k] = file[k]
      /\ file'[Len(file) + 1] = p
  BY <1>4, <1>5
<1>7. Len(file') <= Len(Parts)
  BY <1>2, <1>3, <1>6
<1>8. \A k \in 1 .. Len(file') : k \in 1 .. Len(file) \/ k = Len(file) + 1
  BY <1>3, <1>6
<1>9. \A k \in 1 .. Len(file') : file'[k] = Parts[k]
  BY <1>2, <1>6, <1>8
<1>10. DOMAIN file' = 1 .. Len(file')
  BY <1>6
<1>11. \A k \in 1 .. Len(file') : k \in 1 .. Len(Parts)
  BY <1>3, <1>6, <1>7
<1>12. \A k \in DOMAIN file' : PartIs(file'[k])
  BY <1>1, <1>9, <1>10, <1>11
<1>13. file' \in Seq({file'[k] : k \in DOMAIN file'})
  <2> DEFINE S == {file'[k] : k \in DOMAIN file'}
  <2>1. \A k \in 1 .. Len(file') : file'[k] \in S
    BY <1>10
  <2>2. file' = [k \in 1 .. Len(file') |-> file'[k]] /\ Len(file') \in Nat
    BY <1>6
  <2> HIDE DEF S
  <2> QED
    BY <2>1, <2>2
<1> QED
  BY <1>6, <1>7, <1>9, <1>12, <1>13

\* A step of out_finish.
LEMMA TypeElf ==
  ASSUME TypeInv, NextElf, UNCHANGED <<pass1_vars, main_vars>>
  PROVE  TypeInv'
<1> USE DEF TypeInv
<1>1. TypeOK1 /\ Pass2Types /\ ElfTypes /\ MainTypes
  BY TypeParts
<1>2. /\ UNCHANGED <<cfg, symtab, ir, had_error, pass2_vars>>
      /\ stage \in {"finish", "container"} /\ stage' \in {"container", "close"}
  BY DEF NextElf, FinishRaw, PlanFile, WritePart, PartFails, Finished
<1>3. finish_ok' \in BOOLEAN
  BY <1>1, Zenon DEF NextElf, FinishRaw, PlanFile, WritePart, PartFails, Finished, ElfTypes
<1>4. TypeOK1' /\ Pass2Types' /\ MainTypes'
  BY <1>1, <1>2, TypesKept DEF Stages
<1>5. EntriesOK' /\ AlignsEmpty' /\ AllParsed' /\ OnlyParsed'
  BY <1>2, EntriesKept DEF AlignsEmpty, LaidOnce, AllParsed, OnlyParsed, pass1_vars
<1>6. FileInProgress' /\ lost' \in 0 .. 4 /\ \A k \in DOMAIN file' : PartIs(file'[k])
  <2>1. CASE FinishRaw
    BY <1>1, <2>1, FileKept DEF FinishRaw, Finished, ElfTypes
  <2>2. CASE PlanFile
    <3>1. UNCHANGED file /\ file = <<>> /\ stage' = "container"
      BY <2>2 DEF PlanFile, FileInProgress
    <3>2. lost' \in 0 .. 4
      <4>1. Len(Names) \in 2 .. 4
        <5>1. phnum \in 0 .. 2 /\ Len(Names) = phnum + 2
          BY <1>1, PresentType DEF Pass2Types
        <5> QED
          BY <5>1
      <4>2. lost' \in 0 .. Len(Names) \/ lost' = 0
        BY <2>2 DEF PlanFile
      <4> DEFINE n == Len(Names)
      <4> HIDE DEF n
      <4>3. n \in 2 .. 4 /\ (lost' \in 0 .. n \/ lost' = 0)
        BY <4>1, <4>2 DEF n
      <4> QED
        BY <4>3
    <3>3. Len(Parts') > 0
      <4>1. cfg' \in Options /\ out_len' \in [Sections -> Nat]
        BY <1>4 DEF TypeOK1, GlobalsTypeOK, Pass2Types
      <4> QED
        BY <3>2, <4>1, PartsExist DEF SomeParts
    <3> QED
      BY <1>1, <3>1, <3>2, <3>3 DEF FileInProgress, ElfTypes
  <2>3. CASE WritePart \/ PartFails
    <3>1. UNCHANGED lost /\ stage = "container" /\ (AddPart \/ UNCHANGED file)
      BY <2>3 DEF WritePart, PartFails
    <3>2. Parts' = Parts
      BY <1>2, <3>1, PartsKept DEF pass2_vars
    <3>3. CASE UNCHANGED file
      <4>1. stage' = "close"
        BY <2>3, <3>1, <3>3, AddPartOK DEF WritePart, PartFails, Finished, FileInProgress
      <4> QED
        BY <1>1, <3>1, <3>3, <4>1 DEF FileInProgress, ElfTypes
    <3>4. CASE AddPart
      <4>1. stage' = "container" => Len(file') # Len(Parts)
        BY <1>2, <2>3 DEF WritePart, PartFails, Finished
      <4>2. Len(Parts) \in Nat /\ Len(file') \in Nat /\ Len(file') <= Len(Parts)
        <5>1. Len(file) \in Nat
          BY DEF FileInProgress
        <5>2. Len(Parts) \in Nat
          BY <1>1, PartsType DEF TypeOK1, GlobalsTypeOK, Pass2Types, ElfTypes
        <5> QED
          BY <3>1, <3>4, <5>1, <5>2, AddPartOK
      <4>3. stage' = "container" => Len(file') < Len(Parts)
        BY <4>1, <4>2
      <4> QED
        BY <1>1, <1>2, <3>1, <3>2, <3>4, <4>3, AddPartOK DEF FileInProgress, ElfTypes
    <3> QED
      BY <3>1, <3>3, <3>4
  <2> QED
    BY <2>1, <2>2, <2>3 DEF NextElf
<1>7. ElfTypes'
  BY <1>3, <1>6 DEF ElfTypes
<1> QED
  BY <1>4, <1>5, <1>6, <1>7, TypeParts

-----------------------------------------------------------------------------
\* Every state of the program keeps the invariant: an entry of the IR says in pass 2
\* what its statement said in pass 1, with at most a rule's choice of a shorter form.
THEOREM TypeInvariant == Spec => []TypeInv
<1>1. Init => TypeInv
  BY TypeInvInit
<1>2. TypeInv /\ [Next]_vars => TypeInv'
  <2> SUFFICES ASSUME TypeInv, [Next]_vars
               PROVE  TypeInv'
    OBVIOUS
  <2>1. CASE PassOne
    BY <2>1, TypePassOne
  <2>2. CASE StringLost \/ GiveUp \/ OpenOutput \/ pass2_finalize \/ CloseOutput
    BY <2>2, TypeMain
  <2>3. CASE PassTwo
    BY <2>3, TypeLayout, TypeEmission DEF PassTwo, Next2
  <2>4. CASE out_finish
    BY <2>4, TypeElf DEF out_finish
  <2>5. CASE UNCHANGED vars
    BY <2>5, TypeStutter
  <2> QED
    BY <2>1, <2>2, <2>3, <2>4, <2>5 DEF Next
<1> QED
  BY <1>1, <1>2, PTL DEF Spec

\* TypeOK holds throughout: every variable of both passes and of the driver keeps its
\* type, whatever the source and whichever call fails.
THEOREM TypeCorrect == Spec => []TypeOK
<1>1. TypeInv => TypeOK
  BY DEF TypeInv
<1> QED
  BY <1>1, TypeInvariant, PTL
=============================================================================
