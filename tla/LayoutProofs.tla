---------------------------- MODULE LayoutProofs ----------------------------
(***************************************************************************)
(* The layout and the emission of pass 2 agree: each entry is written at   *)
(* the address the last round of the layout gave it, and each branch is    *)
(* written with the distance to its label.  The re-layout loop drops a     *)
(* candidate in every extra round.                                         *)
(***************************************************************************)
EXTENDS OutputProofs, FiniteSetTheorems

-----------------------------------------------------------------------------
(***************************************************************************)
(* Addresses within one section.                                           *)
(***************************************************************************)

\* v is the address behind the last entry of section s before the n-th of r.
After(r, s, n, v) ==
  \/ v = 0 /\ \A m \in 1 .. n - 1 : r[m].sect # s
  \/ \E j \in 1 .. n - 1 :
       /\ r[j].sect = s /\ v = Add32(r[j].addr, r[j].size)
       /\ \A m \in j + 1 .. n - 1 : r[m].sect # s

\* The entries of section s before the n-th of r lie one behind the other.
Laid(r, s, n) == \A k \in 1 .. n - 1 : r[k].sect = s => After(r, s, k, r[k].addr)

\* q differs from r, before the n-th entry, in other sections only.
Agree(r, q, s, n) ==
  \A k \in 1 .. n - 1 :
    /\ q[k].sect = r[k].sect
    /\ r[k].sect = s => q[k].addr = r[k].addr /\ q[k].size = r[k].size

-----------------------------------------------------------------------------
(***************************************************************************)
(* The inductive invariant.                                                *)
(***************************************************************************)
LaidStages == {"plan", "text_layout", "validate", "emit", "finalize"}

\* Choices are planned and validated for a source that is compressed.
OnlyCompressing == stage \in {"plan", "validate"} => Compressing

DataLaid ==
  /\ stage = "data_layout" => Laid(ir, "SEC_DATA", i) /\ After(ir, "SEC_DATA", i, pc)
  /\ stage \in LaidStages => Laid(ir, "SEC_DATA", Len(ir) + 1)

TextLaid ==
  /\ stage = "text_layout" => Laid(ir, "SEC_TEXT", i) /\ After(ir, "SEC_TEXT", i, pc)
  /\ stage \in {"validate", "emit", "finalize"} => Laid(ir, "SEC_TEXT", Len(ir) + 1)

\* The layout gave the instruction the size of the form it has now.
Sized(e) == e.kind = "IR_INSTR" => e.size = pass2_node_size_now(e)

DataSized ==
  \A k \in DOMAIN ir :
    /\ ir[k].sect = "SEC_DATA"
    /\ \/ stage = "data_layout" /\ k < i
       \/ stage \in LaidStages
    => Sized(ir[k])

\* In .text that is so until a choice is dropped.
TextSized ==
  \A k \in DOMAIN ir :
    /\ ir[k].sect = "SEC_TEXT"
    /\ \/ stage = "text_layout" /\ k < i
       \/ stage = "validate" /\ ~changed
       \/ Emitted /\ Converged
    => Sized(ir[k])

\* A short branch to a label carries the distance to it.
Aimed(table, e) ==
  LET l == e.choice.label
      to == IF l \in DOMAIN table THEN table[l] ELSE -1
  IN e.has_c_choice /\ e.choice.op \in PcRelOps /\ l # NoLabel =>
       to >= 0 /\ e.choice.imm = pass2_compute_disp(e.addr, to)

ChoicesAimed ==
  \A k \in DOMAIN ir : (stage = "validate" /\ k < i) \/ Emitted => Aimed(symtab, ir[k])

\* Each section is as long as what was written for its entries.
WrittenLength ==
  /\ stage \in LayoutStages => out_len = [s \in Sections |-> 0]
  /\ stage = "emit" /\ Converged =>
       \A s \in Sections : After(ir, s, i, U32(out_len[s]))

ChunksOfIR == Emitted => \A k \in DOMAIN chunks : chunks[k].idx \in 1 .. Len(ir)

PlacementInv ==
  /\ OutputInv /\ OnlyCompressing
  /\ DataLaid /\ TextLaid /\ DataSized /\ TextSized /\ ChoicesAimed
  /\ WrittenLength /\ ChunksOfIR
  /\ LayoutMatchesEmission /\ BranchesReachLabels

-----------------------------------------------------------------------------
(***************************************************************************)
(* Lemmas about addresses.                                                 *)
(***************************************************************************)

\* There is one address behind the entries before the n-th.
LEMMA AfterUnique ==
  ASSUME NEW r, NEW s, NEW n \in Nat, NEW v, NEW w, After(r, s, n, v), After(r, s, n, w)
  PROVE  v = w
<1>1. CASE \E j \in 1 .. n - 1 : r[j].sect = s
  <2>1. PICK j \in 1 .. n - 1 :
          /\ r[j].sect = s /\ v = Add32(r[j].addr, r[j].size)
          /\ \A m \in j + 1 .. n - 1 : r[m].sect # s
    BY <1>1 DEF After
  <2>2. PICK k \in 1 .. n - 1 :
          /\ r[k].sect = s /\ w = Add32(r[k].addr, r[k].size)
          /\ \A m \in k + 1 .. n - 1 : r[m].sect # s
    BY <1>1 DEF After
  <2>3. j = k
    BY <2>1, <2>2
  <2> QED
    BY <2>1, <2>2, <2>3
<1>2. CASE ~ \E j \in 1 .. n - 1 : r[j].sect = s
  BY <1>2 DEF After
<1> QED
  BY <1>1, <1>2

\* An entry of another section does not move the address behind this one.
LEMMA AfterSkip ==
  ASSUME NEW r, NEW s, NEW n \in Nat \ {0}, NEW v, After(r, s, n, v), r[n].sect # s
  PROVE  After(r, s, n + 1, v)
<1>1. \A m \in 1 .. (n + 1) - 1 : m \in 1 .. n - 1 \/ m = n
  OBVIOUS
<1>2. CASE v = 0 /\ \A m \in 1 .. n - 1 : r[m].sect # s
  BY <1>1, <1>2 DEF After
<1>3. CASE \E j \in 1 .. n - 1 :
             /\ r[j].sect = s /\ v = Add32(r[j].addr, r[j].size)
             /\ \A m \in j + 1 .. n - 1 : r[m].sect # s
  <2>1. PICK j \in 1 .. n - 1 :
             /\ r[j].sect = s /\ v = Add32(r[j].addr, r[j].size)
             /\ \A m \in j + 1 .. n - 1 : r[m].sect # s
    BY <1>3
  <2>2. j \in 1 .. (n + 1) - 1 /\ \A m \in j + 1 .. (n + 1) - 1 : r[m].sect # s
    BY <2>1
  <2> QED
    BY <2>1, <2>2 DEF After
<1> QED
  BY <1>2, <1>3 DEF After

\* The address behind an entry is its own plus its size.
LEMMA AfterPut ==
  ASSUME NEW r, NEW s, NEW n \in Nat \ {0}, r[n].sect = s
  PROVE  After(r, s, n + 1, Add32(r[n].addr, r[n].size))
<1>1. n \in 1 .. (n + 1) - 1 /\ \A m \in n + 1 .. (n + 1) - 1 : r[m].sect # s
  OBVIOUS
<1> QED
  BY <1>1 DEF After

\* Only the entries of the section matter.
LEMMA AgreeKeeps ==
  ASSUME NEW r, NEW q, NEW s, NEW n \in Nat, Agree(r, q, s, n)
  PROVE  /\ \A k \in 1 .. n : \A v : After(r, s, k, v) => After(q, s, k, v)
         /\ Laid(r, s, n) => Laid(q, s, n)
<1>1. ASSUME NEW k \in 1 .. n, NEW v, After(r, s, k, v)
      PROVE  After(q, s, k, v)
  <2>1. \A m \in 1 .. k - 1 : m \in 1 .. n - 1
    BY <1>1
  <2>2. CASE v = 0 /\ \A m \in 1 .. k - 1 : r[m].sect # s
    BY <2>1, <2>2 DEF After, Agree
  <2>3. CASE \E j \in 1 .. k - 1 :
             /\ r[j].sect = s /\ v = Add32(r[j].addr, r[j].size)
             /\ \A m \in j + 1 .. k - 1 : r[m].sect # s
    <3>1. PICK j \in 1 .. k - 1 :
             /\ r[j].sect = s /\ v = Add32(r[j].addr, r[j].size)
             /\ \A m \in j + 1 .. k - 1 : r[m].sect # s
      BY <2>3
    <3>2. q[j].sect = s /\ q[j].addr = r[j].addr /\ q[j].size = r[j].size
      BY <2>1, <3>1 DEF Agree
    <3>3. \A m \in j + 1 .. k - 1 : q[m].sect # s
      BY <2>1, <3>1 DEF Agree
    <3> QED
      BY <3>1, <3>2, <3>3 DEF After
  <2> QED
    BY <1>1, <2>2, <2>3 DEF After
<1>2. ASSUME Laid(r, s, n), NEW k \in 1 .. n - 1, q[k].sect = s
      PROVE  After(q, s, k, q[k].addr)
  <2>1. r[k].sect = s /\ q[k].addr = r[k].addr
    BY <1>2 DEF Agree
  <2>2. k \in 1 .. n
    OBVIOUS
  <2> QED
    BY <1>1, <1>2, <2>1, <2>2 DEF Laid
<1>3. Laid(r, s, n) => Laid(q, s, n)
  BY <1>2 DEF Laid
<1> QED
  BY <1>1, <1>3

\* The entry the walk stands at extends what is laid.
LEMMA LaidGrows ==
  ASSUME NEW r, NEW s, NEW n \in Nat \ {0}, Laid(r, s, n),
         r[n].sect = s => After(r, s, n, r[n].addr)
  PROVE  Laid(r, s, n + 1)
<1>1. \A k \in 1 .. (n + 1) - 1 : k \in 1 .. n - 1 \/ k = n
  OBVIOUS
<1> QED
  BY <1>1 DEF Laid

\* Nothing lies before the first entry.
LEMMA LaidFirst == \A r, s : Laid(r, s, 1) /\ After(r, s, 1, 0)
BY DEF Laid, After

\* The remainder of a division is unique.
LEMMA RemainderUnique ==
  ASSUME NEW m \in Nat \ {0}, NEW q \in Int, NEW r \in 0 .. m - 1
  PROVE  (m * q + r) % m = r
OBVIOUS

\* Quotient and remainder make up the number.
LEMMA DivisionExact ==
  ASSUME NEW m \in Nat \ {0}, NEW x \in Int
  PROVE  x = m * (x \div m) + (x % m) /\ x \div m \in Int /\ x % m \in 0 .. m - 1
OBVIOUS

\* Narrowing is compatible with addition and subtraction.
LEMMA U32Mod ==
  /\ \A a \in Nat, n \in Nat : n < Mod32 => U32(a + n) = Add32(U32(a), n)
  /\ \A a \in Int, p \in Nat : S32(a - U32(p)) = S32(a - p)
<1>1. Mod32 \in Nat \ {0}
  BY WidthAssumption DEF Mod32
<1>2. ASSUME NEW m \in Nat \ {0}, NEW a \in Nat, NEW n \in Nat, n < m
      PROVE  (a + n) % m = IF (a % m) + n >= m THEN (a % m) + n - m ELSE (a % m) + n
  <2> DEFINE q == a \div m
             r == a % m
  <2>1. a = m * q + r /\ q \in Int /\ r \in 0 .. m - 1
    BY DivisionExact
  <2> HIDE DEF q, r
  <2>2. CASE r + n >= m
    <3>1. r + n - m \in 0 .. m - 1 /\ q + 1 \in Int
      BY <1>2, <2>1, <2>2
    <3>2. a + n = m * (q + 1) + (r + n - m)
      BY <2>1
    <3>3. (a + n) % m = r + n - m
      BY <3>1, <3>2, RemainderUnique
    <3> QED
      BY <2>2, <3>3 DEF r
  <2>3. CASE ~(r + n >= m)
    <3>1. r + n \in 0 .. m - 1
      BY <1>2, <2>1, <2>3
    <3>2. a + n = m * q + (r + n)
      BY <2>1
    <3>3. (a + n) % m = r + n
      BY <2>1, <3>1, <3>2, RemainderUnique
    <3> QED
      BY <2>3, <3>3 DEF r
  <2> QED
    BY <2>2, <2>3
<1>3. ASSUME NEW m \in Nat \ {0}, NEW a \in Int, NEW p \in Nat
      PROVE  (a - (p % m)) % m = (a - p) % m
  <2> DEFINE x == a - (p % m)
             q == x \div m
             r == x % m
             d == p \div m
  <2>1. p % m \in Int /\ x \in Int
    BY DivisionExact
  <2>2. x = m * q + r /\ q \in Int /\ r \in 0 .. m - 1
    BY <2>1, DivisionExact
  <2>3. p = m * d + (p % m) /\ d \in Int
    BY DivisionExact
  <2>4. a - p = x - m * d
    BY <2>1, <2>3
  <2> HIDE DEF x, q, r, d
  <2>5. a - p = m * (q - d) + r /\ q - d \in Int
    BY <2>1, <2>2, <2>3, <2>4
  <2>6. (a - p) % m = r
    BY <2>2, <2>5, RemainderUnique
  <2> QED
    BY <2>6 DEF r, x
<1> QED
  BY <1>1, <1>2, <1>3 DEF U32, S32, Add32

-----------------------------------------------------------------------------
(***************************************************************************)
(* The form an instruction is written in.                                  *)
(***************************************************************************)

\* A rule builds a branch or jump with the label of the instruction, and from
\* nothing but a branch or jump.
LEMMA CandidateLabel ==
  ASSUME NEW c, NEW n \in Instruction, c_can_map(c, n)
  PROVE  LET ch == c_try_map(c, n)
         IN \/ ch.op \in PcRelOps /\ ch.label = n.label
            \/ ch.op \notin PcRelOps /\ n.reloc \notin {"RELOC_BOFF", "RELOC_JTGT"}
<1> DEFINE ch == c_try_map(c, n)
           Far(op) == op \notin PcRelOps
           Branchy == {"OP_BEQ", "OP_BNE", "OP_BLT", "OP_BGE", "OP_BLTU", "OP_BGEU", "OP_JAL",
                       "OP_C_BEQZ", "OP_C_BNEZ", "OP_C_J", "OP_C_JAL"}
<1>1. \A op, fmt, rd, rs1, rs2, imm : Plain(op, fmt, rd, rs1, rs2, imm).op = op
  BY DEF Plain
<1>2. /\ Far("OP_C_ADDI") /\ Far("OP_C_LI") /\ Far("OP_C_SLLI") /\ Far("OP_C_ANDI")
      /\ Far("OP_C_MV") /\ Far("OP_C_ADD") /\ Far("OP_C_JR") /\ Far("OP_C_JALR")
      /\ Far("OP_C_EBREAK")
      /\ \A op : Far(COpSp(op)) /\ (op \notin {"OP_BEQ", "OP_BNE"} => Far(COp(op)))
  BY DEF PcRelOps, ShortBranches, ShortJumps, COp, COpSp
<1>3. \A op, fmt, rd, rs1 : /\ PcRelative(op, fmt, n, rd, rs1).op = op
                            /\ PcRelative(op, fmt, n, rd, rs1).label = n.label
  BY DEF PcRelative
<1>4. n.reloc \in {"RELOC_BOFF", "RELOC_JTGT"} => n.op \in Branchy
  <2>1. n.op \in OpsOf(n.fmt) /\ (n.reloc = "RELOC_NONE" \/ n.reloc = RelocOf(n.fmt))
    BY DEF Instruction
  <2>2. n.reloc \in {"RELOC_BOFF", "RELOC_JTGT"} => n.fmt \in {"IF_B", "IF_CB", "IF_J", "IF_CJ"}
    BY <2>1 DEF RelocOf
  <2>3. n.fmt \in {"IF_B", "IF_CB", "IF_J", "IF_CJ"} => n.op \in Branchy
    BY <2>1 DEF OpsOf
  <2> QED
    BY <2>2, <2>3
<1>5. \/ c_map_addi_self(n) \/ c_map_li_via_addi(n) \/ c_map_nop(n) \/ c_map_slli(c, n)
      \/ c_map_srxi_prime(c, n) \/ c_map_andi_prime(n) \/ c_map_mv(n) \/ c_map_add_cr(n)
      \/ c_map_jr(n) \/ c_map_jalr(n) \/ c_map_ebreak(n) \/ c_map_ca_alu(n)
      \/ c_map_caw_alu64(c, n) \/ c_map_cl_load(c, n) \/ c_map_cs_store(n)
      \/ c_map_ci_sp_load(c, n) \/ c_map_css_sp_store(n)
      => n.op \notin Branchy
  BY DEF c_map_addi_self, c_map_li_via_addi, c_map_nop, c_map_slli, c_map_srxi_prime,
     c_map_andi_prime, c_map_mv, c_map_add_cr, c_map_jr, c_map_jalr, c_map_ebreak, c_map_ca_alu,
     c_map_caw_alu64, c_map_cl_load, c_map_cs_store, c_map_ci_sp_load, c_map_css_sp_store
<1>6. c_map_cb_branchz(n) => COp(n.op) \in PcRelOps
  BY DEF c_map_cb_branchz, COp, PcRelOps, ShortBranches
<1>7. \A r : (IF r = 0 THEN "OP_C_J" ELSE "OP_C_JAL") \in PcRelOps
  BY DEF PcRelOps, ShortJumps
<1>8. n.op \in {"OP_BEQ", "OP_BNE"} => n.op \in Branchy
  OBVIOUS
<1> HIDE DEF Far, Branchy
<1>9. \/ Far(ch.op) /\ n.op \notin Branchy
      \/ c_map_cb_branchz(n) /\ ch = PcRelative(COp(n.op), "IF_CB", n, 0, n.rs1)
      \/ ch = PcRelative(IF n.rd = 0 THEN "OP_C_J" ELSE "OP_C_JAL", "IF_CJ", n, n.rd, 0)
  BY <1>1, <1>2, <1>5, <1>8, SMTT(60) DEF c_try_map, c_can_map
<1> HIDE DEF ch
<1>10. CASE Far(ch.op) /\ n.op \notin Branchy
  BY <1>4, <1>10 DEF Far, ch
<1>11. CASE c_map_cb_branchz(n) /\ ch = PcRelative(COp(n.op), "IF_CB", n, 0, n.rs1)
  BY <1>3, <1>6, <1>11 DEF ch
<1>12. CASE ch = PcRelative(IF n.rd = 0 THEN "OP_C_J" ELSE "OP_C_JAL", "IF_CJ", n, n.rd, 0)
  BY <1>3, <1>7, <1>12 DEF ch
<1> QED
  BY <1>9, <1>10, <1>11, <1>12

\* What an entry's choice is.
LEMMA ChoiceForm ==
  ASSUME NEW c, NEW e, EntryOK(c, e), e.has_c_choice
  PROVE  /\ e.kind = "IR_INSTR" /\ e.sect = "SEC_TEXT" /\ e.fmt \notin CFormats
         /\ c.extC /\ c.autoC
         /\ e.choice \in Operands /\ e.choice.fmt \in CFormats
         /\ e.choice.op \in PcRelOps => e.choice.label = e.label
         /\ e.reloc \in {"RELOC_BOFF", "RELOC_JTGT"} => e.choice.op \in PcRelOps
         /\ e.label # NoLabel => e.choice.op \in PcRelOps
<1> DEFINE n == OperandsOf(e)
           ch == c_try_map(c, n)
<1>1. ChosenByRule(c, e) /\ e.kind = "IR_INSTR" /\ e \in Entry
  BY DEF EntryOK, ChosenByRule
<1>2. n \in Instruction /\ c_can_map(c, n)
  BY <1>1 DEF EntryOK, ChosenByRule
<1>3. n.label = e.label /\ n.reloc = e.reloc
  BY DEF OperandsOf
<1>4. ch \in Operands /\ ch.fmt \in CFormats
  BY <1>1, OperandsOfType, CandidateType
<1>5. e.choice \in Operands /\ e.choice = [ch EXCEPT !.imm = e.choice.imm]
  BY <1>1 DEF ChosenByRule, Entry
<1>6. \/ ch.op \in PcRelOps /\ ch.label = n.label
      \/ ch.op \notin PcRelOps /\ n.reloc \notin {"RELOC_BOFF", "RELOC_JTGT"}
  BY <1>2, CandidateLabel
<1>7. e.reloc \in {"RELOC_NONE", "RELOC_BOFF", "RELOC_JTGT"}
  BY <1>1 DEF ChosenByRule
<1>8. n.label # NoLabel => n.reloc # "RELOC_NONE"
  BY <1>2 DEF Instruction
<1> HIDE DEF n, ch
<1>9. e.choice.op = ch.op /\ e.choice.fmt = ch.fmt /\ e.choice.label = ch.label
  BY <1>4, <1>5 DEF Operands
<1> QED
  BY <1>1, <1>3, <1>4, <1>5, <1>6, <1>7, <1>8, <1>9, Zenon DEF ChosenByRule

\* The layout sizes an instruction by the form it is emitted in.
LEMMA SizeOfForm ==
  ASSUME NEW c, NEW e, EntryOK(c, e), e.kind = "IR_INSTR"
  PROVE  pass2_node_size_now(e) = IF is_c_fmt(c_materialize(e).fmt) THEN 2 ELSE 4
<1>1. CASE e.has_c_choice
  <2>1. e.choice \in Operands /\ e.choice.fmt \in CFormats /\ e.fmt \notin CFormats
    BY <1>1, ChoiceForm
  <2>2. c_materialize(e).fmt = e.choice.fmt
    BY <1>1, <2>1 DEF c_materialize, Operands
  <2>3. e.forced_size = "IR_SIZE_AUTO"
    BY <2>1 DEF EntryOK
  <2> QED
    BY <1>1, <2>1, <2>2, <2>3 DEF pass2_node_size_now, is_c_fmt, ir_is_explicit_c
<1>2. CASE ~e.has_c_choice
  <2>1. c_materialize(e).fmt = e.fmt
    BY <1>2 DEF c_materialize
  <2>2. e.forced_size = IF e.fmt \in CFormats THEN "IR_SIZE_2" ELSE "IR_SIZE_AUTO"
    BY DEF EntryOK
  <2> QED
    BY <1>2, <2>1, <2>2 DEF pass2_node_size_now, is_c_fmt, ir_is_explicit_c
<1> QED
  BY <1>1, <1>2

-----------------------------------------------------------------------------
(***************************************************************************)
(* The layout keeps the invariant.                                         *)
(***************************************************************************)

\* The types that the lemmas on pass 2 use, read off the type invariant.
LEMMA IRType ==
  ASSUME TypeInv
  PROVE  /\ ir \in Seq(Entry) /\ Len(ir) \in Nat /\ DOMAIN ir = 1 .. Len(ir)
         /\ i \in Nat \ {0} /\ pc \in Word /\ iter \in 0 .. MaxIters /\ changed \in BOOLEAN
         /\ planned \in Nat /\ out_len \in [Sections -> Nat] /\ chunks \in Seq(Chunk)
         /\ GlobalsTypeOK
         /\ \A k \in 1 .. Len(ir) : EntryOK(cfg, ir[k]) /\ ir[k] \in Entry /\ ir[k].sect \in Sections
<1>1. ir \in Seq(Entry) /\ Pass2Types /\ GlobalsTypeOK
  BY TypeParts DEF TypeInv, TypeOK1, GlobalsTypeOK
<1>2. Len(ir) \in Nat /\ DOMAIN ir = 1 .. Len(ir)
  BY <1>1
<1>3. \A k \in 1 .. Len(ir) : EntryOK(cfg, ir[k])
  BY <1>2 DEF TypeInv, EntriesOK
<1>4. \A k \in 1 .. Len(ir) : ir[k] \in Entry /\ ir[k].sect \in Sections
  BY <1>3 DEF EntryOK, Entry
<1> QED
  BY <1>1, <1>2, <1>3, <1>4 DEF Pass2Types

\* What a step of the layout leaves to show: nothing is emitted yet.
LEMMA NotEmitting ==
  ASSUME stage' \in LayoutStages, out_len' = [s \in Sections |-> 0]
  PROVE  /\ WrittenLength' /\ ChunksOfIR'
         /\ LayoutMatchesEmission' /\ BranchesReachLabels'
BY DEF WrittenLength, ChunksOfIR, LayoutMatchesEmission, BranchesReachLabels, Emitted, LayoutStages

\* pass2_assign_addresses places entry i behind the entries before it.
LEMMA LayoutAssign ==
  ASSUME PlacementInv, OutputInv', NEW sect \in Sections, AssignAddress(sect),
         \/ stage = "data_layout" /\ sect = "SEC_DATA"
         \/ stage = "text_layout" /\ sect = "SEC_TEXT"
  PROVE  PlacementInv'
<1>0. TypeInv
  BY DEF PlacementInv, OutputInv, DeliveryInv
<1>1. /\ ir \in Seq(Entry) /\ Len(ir) \in Nat /\ DOMAIN ir = 1 .. Len(ir)
      /\ i \in 1 .. Len(ir) /\ pc \in Word /\ i' = i + 1
      /\ \A k \in 1 .. Len(ir) : EntryOK(cfg, ir[k]) /\ ir[k].sect \in Sections
  BY <1>0, IRType DEF AssignAddress
<1>2. UNCHANGED <<stage, cfg, symtab, changed, out_len, chunks>>
  BY DEF AssignAddress, sink_vars
<1>3. Laid(ir, sect, i) /\ After(ir, sect, i, pc)
  BY DEF PlacementInv, DataLaid, TextLaid
<1>4. sect = "SEC_TEXT" => Laid(ir, "SEC_DATA", Len(ir) + 1)
  BY DEF PlacementInv, DataLaid, LaidStages
<1>5. \A k \in 1 .. Len(ir) : ir[k].sect = sect /\ k < i => Sized(ir[k])
  BY <1>1 DEF PlacementInv, DataSized, TextSized
<1>6. sect = "SEC_TEXT" => \A k \in 1 .. Len(ir) : ir[k].sect = "SEC_DATA" => Sized(ir[k])
  BY <1>1 DEF PlacementInv, DataSized, LaidStages
<1> DEFINE Placing ==
      /\ Len(ir') = Len(ir) /\ DOMAIN ir' = 1 .. Len(ir)
      /\ Laid(ir', sect, i + 1) /\ After(ir', sect, i + 1, pc')
      /\ sect = "SEC_TEXT" => Laid(ir', "SEC_DATA", Len(ir) + 1)
      /\ \A k \in 1 .. Len(ir) :
           /\ ir'[k].sect = ir[k].sect
           /\ ir'[k].sect = sect /\ k < i + 1 => Sized(ir'[k])
           /\ sect = "SEC_TEXT" /\ ir'[k].sect = "SEC_DATA" => Sized(ir'[k])
<1>7. ASSUME ir[i].sect # sect
      PROVE  Placing
  <2>1. UNCHANGED <<ir, pc>>
    BY <1>7 DEF AssignAddress
  <2>2. Laid(ir, sect, i + 1)
    BY <1>1, <1>3, <1>7, LaidGrows
  <2>3. After(ir, sect, i + 1, pc)
    BY <1>1, <1>3, <1>7, AfterSkip
  <2>4. \A k \in 1 .. Len(ir) : ir[k].sect = sect /\ k < i + 1 => Sized(ir[k])
    BY <1>1, <1>5, <1>7
  <2> QED
    BY <1>1, <1>4, <1>6, <2>1, <2>2, <2>3, <2>4
<1>8. ASSUME ir[i].sect = sect
      PROVE  Placing
  <2> DEFINE e == ir[i]
             f == Placed(e, pc)
  <2>1. EntryOK(cfg, e)
    BY <1>1
  <2>2. /\ EntryOK(cfg, f) /\ SameSource(e, f) /\ f.addr = pc
        /\ f.has_c_choice = e.has_c_choice
        /\ e.kind = "IR_INSTR" => f.size = pass2_node_size_now(e)
    BY <1>1, <2>1, PlacedOK
  <2>3. ir' = [ir EXCEPT ![i] = f] /\ pc' = Add32(pc, f.size)
    BY <1>8 DEF AssignAddress
  <2> HIDE DEF f
  <2>4. /\ Len(ir') = Len(ir) /\ DOMAIN ir' = DOMAIN ir
        /\ ir'[i] = f /\ \A k \in DOMAIN ir : k # i => ir'[k] = ir[k]
    BY <1>0, <1>1, <1>2, <2>2, <2>3, UpdateOne DEF TypeInv
  <2>5. f.sect = e.sect
    BY <2>2 DEF SameSource
  <2>6. Sized(f)
    <3>1. f.kind = e.kind /\ f.can_compress = e.can_compress /\ f.forced_size = e.forced_size
      BY <2>2 DEF SameSource
    <3>2. pass2_node_size_now(f) = pass2_node_size_now(e)
      BY <2>2, <3>1, Zenon DEF pass2_node_size_now, ir_is_explicit_c
    <3> QED
      BY <2>2, <3>1, <3>2 DEF Sized
  <2>7. Agree(ir, ir', sect, i)
    BY <1>1, <2>4 DEF Agree
  <2>8. Laid(ir', sect, i) /\ After(ir', sect, i, pc)
    BY <1>1, <1>3, <2>7, AgreeKeeps
  <2>9. Laid(ir', sect, i + 1)
    BY <1>1, <2>2, <2>4, <2>8, LaidGrows
  <2>10. After(ir', sect, i + 1, pc')
    <3>1. ir'[i].addr = pc /\ ir'[i].sect = sect /\ i \in Nat \ {0}
      BY <1>1, <1>8, <2>2, <2>4, <2>5
    <3>2. After(ir', sect, i + 1, Add32(ir'[i].addr, ir'[i].size))
      BY <3>1, AfterPut
    <3> QED
      BY <2>3, <2>4, <3>1, <3>2
  <2>11. ASSUME sect = "SEC_TEXT"
         PROVE  Laid(ir', "SEC_DATA", Len(ir) + 1)
    <3>1. Agree(ir, ir', "SEC_DATA", Len(ir) + 1)
      BY <1>1, <1>8, <2>4, <2>5, <2>11 DEF Agree
    <3> QED
      BY <1>1, <1>4, <2>11, <3>1, AgreeKeeps
  <2>12. ASSUME NEW k \in 1 .. Len(ir)
         PROVE  /\ ir'[k].sect = ir[k].sect
                /\ ir'[k].sect = sect /\ k < i + 1 => Sized(ir'[k])
                /\ sect = "SEC_TEXT" /\ ir'[k].sect = "SEC_DATA" => Sized(ir'[k])
    BY <1>1, <1>5, <1>6, <2>4, <2>5, <2>6
  <2> QED
    BY <1>1, <2>4, <2>9, <2>10, <2>11, <2>12
<1>9. Placing
  BY <1>7, <1>8
<1> HIDE DEF Placing
<1>10. DataLaid' /\ TextLaid'
  BY <1>1, <1>2, <1>9 DEF Placing, DataLaid, TextLaid, LaidStages
<1>11. DataSized'
  <2> SUFFICES ASSUME NEW k \in 1 .. Len(ir), ir'[k].sect = "SEC_DATA",
                      \/ stage = "data_layout" /\ k < i + 1
                      \/ stage \in LaidStages
               PROVE  Sized(ir'[k])
    BY <1>1, <1>2, <1>9, Zenon DEF Placing, DataSized, Sized, pass2_node_size_now, ir_is_explicit_c
  <2> QED
    BY <1>9 DEF Placing, LaidStages
<1>12. TextSized'
  <2> SUFFICES ASSUME NEW k \in 1 .. Len(ir), ir'[k].sect = "SEC_TEXT",
                      \/ stage = "text_layout" /\ k < i + 1
                      \/ stage = "validate"
                      \/ stage \in {"emit", "finalize"}
               PROVE  Sized(ir'[k])
    BY <1>1, <1>2, <1>9, Zenon DEF Placing, TextSized, Sized, Emitted, pass2_node_size_now, ir_is_explicit_c
  <2> QED
    BY <1>9 DEF Placing
<1>13. ChoicesAimed'
  BY <1>2 DEF ChoicesAimed, Emitted
<1>14. out_len' = [s \in Sections |-> 0] /\ stage' \in LayoutStages
  BY <1>2 DEF PlacementInv, WrittenLength, LayoutStages
<1>15. OnlyCompressing'
  BY <1>2 DEF OnlyCompressing
<1> QED
  BY <1>10, <1>11, <1>12, <1>13, <1>14, <1>15, NotEmitting DEF PlacementInv

\* f is entry e with another choice.
Rechosen(e, f) ==
  /\ f.sect = e.sect /\ f.addr = e.addr /\ f.size = e.size /\ f.kind = e.kind
  /\ f.forced_size = e.forced_size /\ f.can_compress = e.can_compress

\* Choosing forms moves no entry.
LEMMA LaidKept ==
  ASSUME Len(ir) \in Nat, Len(ir') = Len(ir),
         \A k \in 1 .. Len(ir) : Rechosen(ir[k], ir'[k])
  PROVE  \A s : Laid(ir, s, Len(ir) + 1) => Laid(ir', s, Len(ir') + 1)
<1> TAKE s
<1>1. Agree(ir, ir', s, Len(ir) + 1)
  BY DEF Agree, Rechosen
<1> QED
  BY <1>1, AgreeKeeps

\* Two steps that choose, each for one entry of .text.
LEMMA ChoosingStep ==
  ASSUME TypeInv, pass2_plan_choices \/ pass2_validate_compressed_ranges
  PROVE  /\ Len(ir') = Len(ir) /\ DOMAIN ir' = DOMAIN ir
         /\ i \in 1 .. Len(ir) /\ i' = i + 1
         /\ UNCHANGED <<stage, cfg, symtab, out_len, chunks>>
         /\ \A k \in 1 .. Len(ir) : Rechosen(ir[k], ir'[k])
         /\ \A k \in 1 .. Len(ir) : k # i \/ ir[k].sect # "SEC_TEXT" => ir'[k] = ir[k]
         /\ stage = "validate" /\ ir[i].sect = "SEC_TEXT" => ir'[i] = Validated(ir[i])
<1>1. /\ ir \in Seq(Entry) /\ Len(ir) \in Nat /\ DOMAIN ir = 1 .. Len(ir)
      /\ i \in 1 .. Len(ir) /\ i' = i + 1 /\ GlobalsTypeOK
      /\ \A k \in 1 .. Len(ir) : EntryOK(cfg, ir[k]) /\ ir[k] \in Entry
  BY IRType DEF pass2_plan_choices, pass2_validate_compressed_ranges
<1>2. UNCHANGED <<stage, cfg, symtab, out_len, chunks>>
  BY DEF pass2_plan_choices, pass2_validate_compressed_ranges, sink_vars
<1>3. EntryOK(cfg, ir[i]) /\ ir[i].addr \in Word
  BY <1>1 DEF Entry
<1>4. \A e \in Entry : Rechosen(e, e)
  BY DEF Rechosen
<1>5. \A e, f : SameSource(e, f) /\ f.addr = e.addr /\ f.size = e.size => Rechosen(e, f)
  BY DEF SameSource, Rechosen
<1> DEFINE Result ==
      /\ Len(ir') = Len(ir) /\ DOMAIN ir' = DOMAIN ir
      /\ \A k \in 1 .. Len(ir) : Rechosen(ir[k], ir'[k])
      /\ \A k \in 1 .. Len(ir) : k # i \/ ir[k].sect # "SEC_TEXT" => ir'[k] = ir[k]
      /\ stage = "validate" /\ ir[i].sect = "SEC_TEXT" => ir'[i] = Validated(ir[i])
<1>6. ASSUME UNCHANGED ir, stage = "validate" => ir[i].sect # "SEC_TEXT"
      PROVE  Result
  BY <1>1, <1>4, <1>6
<1>7. ASSUME NEW f, EntryOK(cfg, f), Rechosen(ir[i], f), ir[i].sect = "SEC_TEXT",
             ir' = [ir EXCEPT ![i] = f], stage = "validate" => f = Validated(ir[i])
      PROVE  Result
  <2>1. /\ Len(ir') = Len(ir) /\ DOMAIN ir' = DOMAIN ir
        /\ ir'[i] = f /\ \A k \in DOMAIN ir : k # i => ir'[k] = ir[k]
    BY <1>1, <1>2, <1>7, UpdateOne DEF TypeInv
  <2> QED
    BY <1>1, <1>4, <1>7, <2>1
<1>8. ASSUME pass2_plan_choices
      PROVE  Result
  <2>1. stage = "plan"
    BY <1>8 DEF pass2_plan_choices
  <2>2. CASE UNCHANGED ir
    BY <1>6, <2>1, <2>2
  <2>3. CASE /\ pass2_node_can_attempt(ir[i]) /\ c_can_map(cfg, ir[i])
             /\ ir' = [ir EXCEPT ![i] = ir_set_c_choice(ir[i], c_try_map(cfg, ir[i]))]
    <3> DEFINE f == ir_set_c_choice(ir[i], c_try_map(cfg, ir[i]))
    <3>1. EntryOK(cfg, f) /\ Rechosen(ir[i], f)
      BY <1>3, <1>5, <2>3, SetChoiceOK
    <3>2. ir[i].sect = "SEC_TEXT"
      BY <2>3 DEF pass2_node_can_attempt
    <3> HIDE DEF f
    <3>3. ir' = [ir EXCEPT ![i] = f]
      BY <2>3 DEF f
    <3> QED
      BY <1>7, <2>1, <3>1, <3>2, <3>3
  <2>4. CASE /\ pass2_node_can_attempt(ir[i])
             /\ ir' = [ir EXCEPT ![i] = ir_clear_c_choice(ir[i])]
    <3> DEFINE f == ir_clear_c_choice(ir[i])
    <3>1. EntryOK(cfg, f) /\ Rechosen(ir[i], f)
      BY <1>3, <1>5, ClearChoiceOK
    <3>2. ir[i].sect = "SEC_TEXT"
      BY <2>4 DEF pass2_node_can_attempt
    <3> HIDE DEF f
    <3>3. ir' = [ir EXCEPT ![i] = f]
      BY <2>4 DEF f
    <3> QED
      BY <1>7, <2>1, <3>1, <3>2, <3>3
  <2> QED
    BY <1>8, <2>2, <2>3, <2>4 DEF pass2_plan_choices
<1>9. ASSUME pass2_validate_compressed_ranges
      PROVE  Result
  <2>1. CASE ir[i].sect # "SEC_TEXT"
    BY <1>6, <1>9, <2>1 DEF pass2_validate_compressed_ranges
  <2>2. CASE ir[i].sect = "SEC_TEXT"
    <3> DEFINE f == Validated(ir[i])
    <3>1. EntryOK(cfg, f) /\ Rechosen(ir[i], f)
      BY <1>1, <1>3, <1>5, ValidatedOK
    <3>2. ir' = [ir EXCEPT ![i] = f]
      BY <1>9, <2>2 DEF pass2_validate_compressed_ranges
    <3> HIDE DEF f
    <3> QED
      BY <1>7, <2>2, <3>1, <3>2 DEF f
  <2> QED
    BY <2>1, <2>2
<1> HIDE DEF Result
<1>10. Result
  BY <1>8, <1>9
<1> QED
  BY <1>1, <1>2, <1>10 DEF Result

\* A validated choice carries the distance to its label.
LEMMA ValidatedAimed ==
  ASSUME NEW e \in Entry, GlobalsTypeOK
  PROVE  Aimed(symtab, Validated(e))
<1> DEFINE to == search_sym(e.choice.label)
           disp == pass2_compute_disp(e.addr, to)
<1>1. CASE Validated(e) = e /\ (~e.has_c_choice \/ e.choice.op \notin PcRelOps \/ e.choice.label = NoLabel)
  BY <1>1, Zenon DEF Aimed
<1>2. CASE Validated(e) = ir_clear_c_choice(e)
  <2>1. ~Validated(e).has_c_choice
    BY <1>2 DEF ir_clear_c_choice, Entry
  <2> QED
    BY <2>1, Zenon DEF Aimed
<1>3. CASE Validated(e) = [e EXCEPT !.choice.imm = disp] /\ ~(to < 0)
  <2>1. to \in Int
    BY SearchType, IntWords
  <2>2. /\ Validated(e).choice.label = e.choice.label /\ Validated(e).choice.imm = disp
        /\ Validated(e).addr = e.addr
    <3> HIDE DEF disp
    <3> QED
      BY <1>3 DEF Entry, Operands
  <2>3. to >= 0
    BY <1>3, <2>1
  <2> QED
    BY <2>2, <2>3 DEF Aimed, search_sym
<1> QED
  BY <1>1, <1>2, <1>3, Zenon DEF Validated

\* pass2_plan_choices and pass2_validate_compressed_ranges.
LEMMA LayoutChoose ==
  ASSUME PlacementInv, OutputInv', pass2_plan_choices \/ pass2_validate_compressed_ranges
  PROVE  PlacementInv'
<1>0. TypeInv
  BY DEF PlacementInv, OutputInv, DeliveryInv
<1>1. /\ Len(ir) \in Nat /\ DOMAIN ir = 1 .. Len(ir) /\ changed \in BOOLEAN
      /\ \A k \in 1 .. Len(ir) : EntryOK(cfg, ir[k]) /\ ir[k] \in Entry /\ ir[k].sect \in Sections
      /\ GlobalsTypeOK
  BY <1>0, IRType
<1>2. /\ Len(ir') = Len(ir) /\ DOMAIN ir' = DOMAIN ir
      /\ i \in 1 .. Len(ir) /\ i' = i + 1
      /\ UNCHANGED <<stage, cfg, symtab, out_len, chunks>>
      /\ \A k \in 1 .. Len(ir) : Rechosen(ir[k], ir'[k])
      /\ \A k \in 1 .. Len(ir) : k # i \/ ir[k].sect # "SEC_TEXT" => ir'[k] = ir[k]
      /\ stage = "validate" /\ ir[i].sect = "SEC_TEXT" => ir'[i] = Validated(ir[i])
  BY <1>0, ChoosingStep
<1>3. stage \in {"plan", "validate"}
  BY DEF pass2_plan_choices, pass2_validate_compressed_ranges
<1>4. \A s : Laid(ir, s, Len(ir) + 1) => Laid(ir', s, Len(ir') + 1)
  BY <1>1, <1>2, LaidKept
<1>5. DataLaid' /\ TextLaid'
  BY <1>2, <1>3, <1>4 DEF PlacementInv, DataLaid, TextLaid, LaidStages
<1>6. DataSized'
  <2> SUFFICES ASSUME NEW k \in 1 .. Len(ir), ir'[k].sect = "SEC_DATA"
               PROVE  Sized(ir'[k])
    BY <1>1, <1>2, Zenon DEF DataSized, Sized, pass2_node_size_now, ir_is_explicit_c
  <2>1. ir[k].sect = "SEC_DATA"
    BY <1>2 DEF Rechosen
  <2>2. ir'[k] = ir[k] /\ Sized(ir[k])
    BY <1>1, <1>2, <1>3, <2>1 DEF PlacementInv, DataSized, LaidStages
  <2> QED
    BY <2>2
<1>7. TextSized'
  <2> SUFFICES ASSUME NEW k \in 1 .. Len(ir), ir'[k].sect = "SEC_TEXT", stage = "validate", ~changed'
               PROVE  Sized(ir'[k])
    BY <1>1, <1>2, <1>3, Zenon DEF TextSized, Sized, Emitted, pass2_node_size_now, ir_is_explicit_c
  <2>0. ir[k].sect = "SEC_TEXT"
    BY <1>2 DEF Rechosen
  <2>1. changed' = changed \/ changed' = (changed \/ Drops(ir[i]))
    BY Zenon DEF pass2_validate_compressed_ranges, pass2_plan_choices
  <2>2. ~changed
    BY <2>1, Zenon
  <2>3. Sized(ir[k])
    BY <1>1, <2>0, <2>2 DEF PlacementInv, TextSized
  <2>4. CASE k # i
    BY <1>2, <2>3, <2>4
  <2>5. CASE k = i
    <3>1. ~Drops(ir[i])
      <4>1. changed' = (changed \/ Drops(ir[i]))
        BY <2>0, <2>5, Zenon DEF pass2_validate_compressed_ranges, pass2_plan_choices
      <4> QED
        BY <4>1, Zenon
    <3>2. ir'[i] = Validated(ir[i])
      BY <1>2, <2>0, <2>5
    <3>3. ir'[i].has_c_choice <=> ir[i].has_c_choice
      <4>1. Validated(ir[i]).has_c_choice => ir[i].has_c_choice
        <5>1. ir[i].addr \in Word
          BY <1>1, <1>2 DEF Entry
        <5> QED
          BY <1>1, <1>2, <5>1, ValidatedOK
      <4> QED
        BY <3>1, <3>2, <4>1, Zenon DEF Drops
    <3>4. Rechosen(ir[i], ir'[i])
      BY <1>2
    <3>5. pass2_node_size_now(ir'[i]) = pass2_node_size_now(ir[i])
      BY <3>3, <3>4 DEF Rechosen, pass2_node_size_now, ir_is_explicit_c
    <3> QED
      BY <2>3, <2>5, <3>4, <3>5 DEF Sized, Rechosen
  <2> QED
    BY <2>4, <2>5
<1>8. ChoicesAimed'
  <2> SUFFICES ASSUME NEW k \in 1 .. Len(ir), stage = "validate", k < i + 1
               PROVE  Aimed(symtab, ir'[k])
    BY <1>1, <1>2, <1>3, Zenon DEF ChoicesAimed, Aimed, Emitted
  <2>1. CASE k < i
    <3>1. Aimed(symtab, ir[k])
      BY <1>1, <2>1, Zenon DEF PlacementInv, ChoicesAimed
    <3>2. ir'[k] = ir[k]
      BY <1>2, <2>1
    <3> QED
      BY <3>1, <3>2
  <2>2. CASE k = i /\ ir[i].sect = "SEC_TEXT"
    BY <1>1, <1>2, <2>2, ValidatedAimed
  <2>3. CASE k = i /\ ir[i].sect # "SEC_TEXT"
    <3>1. ir'[k] = ir[k] /\ ~ir[k].has_c_choice
      BY <1>1, <1>2, <2>3, ChoiceForm
    <3> QED
      BY <3>1, Zenon DEF Aimed
  <2> QED
    BY <1>2, <2>1, <2>2, <2>3
<1>9. stage' \in LayoutStages /\ out_len' = [s \in Sections |-> 0]
  BY <1>2, <1>3 DEF PlacementInv, WrittenLength, LayoutStages
<1>10. OnlyCompressing'
  BY <1>2 DEF PlacementInv, OnlyCompressing, Compressing
<1> QED
  BY <1>5, <1>6, <1>7, <1>8, <1>9, <1>10, NotEmitting DEF PlacementInv

\* Leaving one loop of the layout for the next.
LEMMA LayoutLoops ==
  ASSUME PlacementInv, OutputInv',
         DataLayoutDone \/ PlanDone \/ TextLayoutDone \/ Relayout \/ RelayoutDone
  PROVE  PlacementInv'
<1>0. TypeInv
  BY DEF PlacementInv, OutputInv, DeliveryInv
<1>1. /\ Len(ir) \in Nat /\ DOMAIN ir = 1 .. Len(ir) /\ i \in Nat /\ chunks \in Seq(Chunk)
      /\ \A k \in 1 .. Len(ir) : EntryOK(cfg, ir[k]) /\ ir[k] \in Entry /\ ir[k].sect \in Sections
  BY <1>0, IRType
<1>2. /\ i > Len(ir) /\ i' = 1 /\ pc' = 0 /\ UNCHANGED <<cfg, symtab, ir, out_len, chunks>>
  BY DEF DataLayoutDone, PlanDone, TextLayoutDone, Relayout, RelayoutDone, GoTo, sink_vars
<1>3. i = Len(ir) + 1
  <2>1. i <= Len(ir) + 1
    BY DEF PlacementInv, OutputInv, DeliveryInv, WithinIR, Walking, DataLayoutDone, PlanDone, TextLayoutDone,
       Relayout, RelayoutDone, LayoutStages
  <2> QED
    BY <1>1, <1>2, <2>1
<1>4. /\ stage = "data_layout" => stage' = IF Compressing THEN "plan" ELSE "text_layout"
      /\ stage = "plan" => stage' = "text_layout"
      /\ stage = "text_layout" => stage' = (IF Compressing THEN "validate" ELSE "emit") /\ changed' = FALSE
      /\ stage = "validate" => stage' \in {"text_layout", "emit"} /\ UNCHANGED changed
      /\ stage \in LayoutStages
  BY DEF DataLayoutDone, PlanDone, TextLayoutDone, Relayout, RelayoutDone, GoTo, LayoutStages
<1>5. DataLaid' /\ TextLaid'
  <2>1. stage = "data_layout" => Laid(ir, "SEC_DATA", Len(ir) + 1)
    BY <1>3 DEF PlacementInv, DataLaid
  <2>2. stage = "text_layout" => Laid(ir, "SEC_TEXT", Len(ir) + 1)
    BY <1>3 DEF PlacementInv, TextLaid
  <2> QED
    BY <1>2, <1>4, <2>1, <2>2, LaidFirst
    DEF PlacementInv, DataLaid, TextLaid, LaidStages, LayoutStages
<1>6. DataSized'
  <2> SUFFICES ASSUME NEW k \in 1 .. Len(ir), ir[k].sect = "SEC_DATA"
               PROVE  Sized(ir[k])
    BY <1>1, <1>2, Zenon DEF DataSized, Sized, pass2_node_size_now, ir_is_explicit_c
  <2> QED
    BY <1>1, <1>3, <1>4 DEF PlacementInv, DataSized, LaidStages, LayoutStages
<1>7. TextSized'
  <2> SUFFICES ASSUME NEW k \in 1 .. Len(ir), ir[k].sect = "SEC_TEXT",
                      (stage' = "validate" /\ ~changed') \/ (Emitted' /\ Converged')
               PROVE  Sized(ir[k])
    <3>1. \A k \in 1 .. Len(ir) : ~(k < 1)
      OBVIOUS
    <3> QED
      BY <1>1, <1>2, <3>1, Zenon DEF TextSized, Sized, pass2_node_size_now, ir_is_explicit_c
  <2>1. stage \in {"text_layout", "validate"}
    BY <1>4 DEF Emitted, LayoutStages
  <2>2. CASE stage = "text_layout"
    BY <1>1, <1>3, <2>2 DEF PlacementInv, TextSized
  <2>3. CASE stage = "validate"
    <3>1. Compressing' /\ Converged'
      BY <1>2, <1>4, <2>3 DEF PlacementInv, OnlyCompressing, Compressing, Emitted
    <3>2. ~changed
      BY <1>4, <2>3, <3>1, Zenon DEF Converged
    <3> QED
      BY <1>1, <2>3, <3>2 DEF PlacementInv, TextSized
  <2> QED
    BY <2>1, <2>2, <2>3
<1>8. ChoicesAimed'
  <2> SUFFICES ASSUME NEW k \in 1 .. Len(ir), stage' = "emit"
               PROVE  Aimed(symtab, ir[k])
    <3>1. \A k \in 1 .. Len(ir) : ~(k < 1)
      OBVIOUS
    <3>2. stage' # "finalize"
      BY <1>4 DEF LayoutStages
    <3> QED
      BY <1>1, <1>2, <3>1, <3>2 DEF ChoicesAimed, Emitted, Aimed
  <2>1. CASE stage = "text_layout"
    <3>1. ~ir[k].has_c_choice
      BY <1>1, <1>4, <2>1, ChoiceForm DEF Compressing
    <3> QED
      BY <3>1, Zenon DEF Aimed
  <2>2. CASE stage = "validate"
    BY <1>1, <1>3, <2>2 DEF PlacementInv, ChoicesAimed
  <2> QED
    BY <1>4, <2>1, <2>2 DEF LayoutStages
<1>9. out_len' = [s \in Sections |-> 0] /\ chunks' = chunks
  BY <1>2, <1>4 DEF PlacementInv, WrittenLength
<1>10. WrittenLength'
  <2>1. \A s \in Sections : U32(out_len'[s]) = 0
    BY <1>9, WidthAssumption DEF U32, Mod32
  <2> QED
    BY <1>2, <1>9, <2>1, LaidFirst DEF WrittenLength
<1>11. OnlyCompressing'
  BY <1>2, <1>4 DEF OnlyCompressing, Compressing, LayoutStages
<1>12. chunks' = <<>>
  BY <1>2, <1>4 DEF PlacementInv, OutputInv, NothingYet
<1>13. ChunksOfIR' /\ LayoutMatchesEmission' /\ BranchesReachLabels'
  <2>1. DOMAIN chunks' = {}
    BY <1>12
  <2> QED
    BY <2>1 DEF ChunksOfIR, LayoutMatchesEmission, BranchesReachLabels
<1> QED
  BY <1>5, <1>6, <1>7, <1>8, <1>10, <1>11, <1>13 DEF PlacementInv

-----------------------------------------------------------------------------
(***************************************************************************)
(* The emission keeps the invariant.                                       *)
(***************************************************************************)

\* The addresses behind entry i are those up to which the sections are written.
LEMMA AtWrittenLength ==
  ASSUME PlacementInv, stage = "emit", Converged, i \in 1 .. Len(ir)
  PROVE  /\ ir[i].addr = U32(out_len[ir[i].sect]) /\ ir[i].addr \in Word
         /\ \A s \in Sections : s # ir[i].sect => After(ir, s, i + 1, U32(out_len[s]))
         /\ After(ir, ir[i].sect, i + 1, Add32(ir[i].addr, ir[i].size))
         /\ Sized(ir[i]) /\ Aimed(symtab, ir[i])
<1>1. TypeInv
  BY DEF PlacementInv, OutputInv, DeliveryInv
<1>2. /\ Len(ir) \in Nat /\ DOMAIN ir = 1 .. Len(ir) /\ i \in Nat \ {0}
      /\ ir[i] \in Entry /\ ir[i].sect \in Sections
  BY <1>1, IRType
<1>3. \A s \in Sections : Laid(ir, s, Len(ir) + 1) /\ After(ir, s, i, U32(out_len[s]))
  BY DEF PlacementInv, DataLaid, TextLaid, WrittenLength, LaidStages, Sections
<1>4. After(ir, ir[i].sect, i, ir[i].addr)
  <2>1. i \in 1 .. (Len(ir) + 1) - 1
    BY <1>2
  <2> QED
    BY <1>2, <1>3, <2>1 DEF Laid
<1>5. ir[i].addr = U32(out_len[ir[i].sect])
  BY <1>2, <1>3, <1>4, AfterUnique
<1>6. \A s \in Sections : s # ir[i].sect => After(ir, s, i + 1, U32(out_len[s]))
  BY <1>2, <1>3, AfterSkip
<1>7. After(ir, ir[i].sect, i + 1, Add32(ir[i].addr, ir[i].size))
  BY <1>2, AfterPut
<1>8. Sized(ir[i])
  BY <1>2 DEF PlacementInv, DataSized, TextSized, LaidStages, Emitted, Sections
<1>9. Aimed(symtab, ir[i])
  BY <1>2 DEF PlacementInv, ChoicesAimed, Emitted
<1> QED
  BY <1>2, <1>5, <1>6, <1>7, <1>8, <1>9 DEF Entry

\* A chunk is as long as its entry.
LEMMA ChunkSize ==
  ASSUME TypeInv, i \in 1 .. Len(ir), Sized(ir[i]), NEW c, ChunkOfEntry(c)
  PROVE  c.size = ir[i].size
<1>1. EntryOK(cfg, ir[i])
  BY IRType
<1>2. CASE ir[i].kind = "IR_DATA"
  BY <1>2 DEF ChunkOfEntry
<1>3. CASE ir[i].kind = "IR_INSTR"
  BY <1>1, <1>3, SizeOfForm DEF ChunkOfEntry, Sized
<1> QED
  BY <1>2, <1>3 DEF ChunkOfEntry

\* What is written for an entry with a label.
Reaches(c) ==
  LET e == ir[c.idx]
  IN /\ e.label # NoLabel => e.label \in DOMAIN symtab /\ symtab[e.label] >= 0
     /\ e.kind = "IR_INSTR" /\ e.reloc \in {"RELOC_BOFF", "RELOC_JTGT"} =>
          c.imm = S32(symtab[e.label] - c.pos)

\* search_sym answers with a non-negative address for a label of the table only.
LEMMA Found ==
  \A l : search_sym(l) >= 0 => l \in DOMAIN symtab /\ symtab[l] = search_sym(l)
BY DEF search_sym

\* What is written for an entry aimed at its label reaches it, if the entry is written
\* where its address says.
LEMMA ChunkReaches ==
  ASSUME TypeInv, i \in 1 .. Len(ir), Aimed(symtab, ir[i]), NEW c, ChunkOfEntry(c),
         ir[i].addr = U32(c.pos)
  PROVE  Reaches(c)
<1> DEFINE e == ir[i]
           x == c_materialize(e)
<1>1. EntryOK(cfg, e) /\ e \in Entry /\ GlobalsTypeOK
  BY IRType
<1>2. c.idx = i /\ c.pos \in Nat
  BY DEF ChunkOfEntry, Chunk
<1>3. e.label = NoLabel => e.reloc \notin {"RELOC_BOFF", "RELOC_JTGT"} \/ e.kind # "IR_INSTR"
  <2> SUFFICES ASSUME e.label = NoLabel, e.kind = "IR_INSTR"
               PROVE  e.reloc \notin {"RELOC_BOFF", "RELOC_JTGT"}
    OBVIOUS
  <2>1. OperandsOf(e) \in Instruction
    BY <1>1 DEF EntryOK
  <2>2. e.reloc = "RELOC_NONE"
    BY <2>1 DEF Instruction, OperandsOf
  <2> QED
    BY <2>2
<1>4. CASE e.label = NoLabel
  BY <1>2, <1>3, <1>4 DEF Reaches
<1>5. CASE e.label # NoLabel
  <2>1. e.kind = "IR_INSTR"
    BY <1>1, <1>5 DEF EntryOK
  <2>2. Emittable(x, e.addr) /\ c.imm = Resolved(x, e.addr).imm
    BY <2>1 DEF ChunkOfEntry
  <2>3. \A l : search_sym(l) \in Int
    BY <1>1, SearchType, IntWords
  <2>4. ASSUME search_sym(e.label) >= 0,
               e.reloc \in {"RELOC_BOFF", "RELOC_JTGT"} =>
                 c.imm = S32(search_sym(e.label) - U32(c.pos))
        PROVE  Reaches(c)
    <3>1. e.label \in DOMAIN symtab /\ symtab[e.label] = search_sym(e.label)
      BY <2>4, Found
    <3>2. S32(search_sym(e.label) - U32(c.pos)) = S32(search_sym(e.label) - c.pos)
      BY <1>2, <2>3, U32Mod
    <3> QED
      BY <1>2, <2>4, <3>1, <3>2 DEF Reaches
  <2>5. CASE e.has_c_choice
    <3>1. /\ e.choice.op \in PcRelOps /\ e.choice.label = e.label /\ e.choice \in Operands
      BY <1>1, <1>5, <2>5, ChoiceForm
    <3>2. search_sym(e.label) >= 0
          /\ e.choice.imm = pass2_compute_disp(e.addr, search_sym(e.label))
      BY <1>5, <2>5, <3>1 DEF Aimed, search_sym
    <3>3. x = [e.choice EXCEPT !.label = NoLabel, !.reloc = "RELOC_NONE"]
      BY <2>5, <3>1 DEF c_materialize
    <3>4. x.label = NoLabel /\ x.imm = e.choice.imm
      BY <3>1, <3>3 DEF Operands
    <3> HIDE DEF x
    <3>5. c.imm = e.choice.imm
      BY <2>2, <3>4 DEF Resolved
    <3>6. c.imm = S32(search_sym(e.label) - U32(c.pos))
      BY <3>2, <3>5 DEF pass2_compute_disp
    <3> QED
      BY <2>4, <3>2, <3>6
  <2>6. CASE ~e.has_c_choice
    <3>1. x.label = e.label /\ x.reloc = e.reloc
      BY <2>6 DEF c_materialize
    <3>7. x \in Operands
      BY <1>1, MaterializeType
    <3> HIDE DEF x
    <3>2. ~Undefined(x)
      BY <2>2 DEF Emittable, Rejected
    <3>3. search_sym(e.label) >= 0
      BY <1>5, <2>3, <3>1, <3>2 DEF Undefined
    <3>4. c.imm = resolve_label(e.label, e.reloc, e.addr)
      BY <1>5, <2>2, <3>1, <3>7 DEF Resolved, Operands
    <3>5. e.reloc \in {"RELOC_BOFF", "RELOC_JTGT"} =>
            resolve_label(e.label, e.reloc, e.addr) = S32(search_sym(e.label) - e.addr)
      BY DEF resolve_label
    <3> QED
      BY <2>4, <3>3, <3>4, <3>5
  <2> QED
    BY <2>5, <2>6
<1> QED
  BY <1>4, <1>5

\* A step of the emission.
LEMMA LayoutEmission ==
  ASSUME PlacementInv, OutputInv', Emission
  PROVE  PlacementInv'
<1>0. TypeInv
  BY DEF PlacementInv, OutputInv, DeliveryInv
<1>1. /\ Len(ir) \in Nat /\ DOMAIN ir = 1 .. Len(ir) /\ i \in Nat \ {0} /\ chunks \in Seq(Chunk)
      /\ out_len \in [Sections -> Nat]
      /\ \A k \in 1 .. Len(ir) : EntryOK(cfg, ir[k]) /\ ir[k] \in Entry /\ ir[k].sect \in Sections
  BY <1>0, IRType
<1>2. /\ UNCHANGED <<cfg, symtab, ir>>
      /\ \/ EndsWalk
         \/ SkipsEntry /\ EntersEntry
         \/ EntersEntry /\ \E c : WritesChunk(c)
  BY <1>0, EmissionStep
<1>3. UNCHANGED changed
  BY DEF Emission, RefuseSection, pass2_emit_align, pass2_emit_data, pass2_emit_instr, EmitDone,
     AtEntry, layout_vars
<1>4. stage = "emit" /\ stage' \in {"emit", "finalize"}
  BY <1>2 DEF EndsWalk, SkipsEntry, WritesChunk
<1>5. Converged' <=> Converged
  BY <1>2, <1>3, Zenon DEF Converged, Compressing
<1>6. DataLaid' /\ TextLaid'
  BY <1>2, <1>4 DEF PlacementInv, DataLaid, TextLaid, LaidStages
<1>7. DataSized' /\ TextSized' /\ ChoicesAimed' /\ OnlyCompressing'
  <2>1. \A k \in DOMAIN ir : ir[k].sect = "SEC_DATA" => Sized(ir[k])
    BY <1>4 DEF PlacementInv, DataSized, LaidStages
  <2>2. \A k \in DOMAIN ir : ir[k].sect = "SEC_TEXT" /\ Converged => Sized(ir[k])
    BY <1>4 DEF PlacementInv, TextSized, Emitted
  <2>3. \A k \in DOMAIN ir : Aimed(symtab, ir[k])
    BY <1>4 DEF PlacementInv, ChoicesAimed, Emitted
  <2>4. \A k \in DOMAIN ir : Sized(ir[k])' <=> Sized(ir[k])
    BY <1>2 DEF Sized, pass2_node_size_now, ir_is_explicit_c
  <2>5. DataSized' /\ TextSized'
    BY <1>2, <1>4, <1>5, <2>1, <2>2, <2>4 DEF DataSized, TextSized, Sized
  <2>6. ChoicesAimed' /\ OnlyCompressing'
    BY <1>2, <1>4, <2>3 DEF ChoicesAimed, OnlyCompressing, Aimed
  <2> QED
    BY <2>5, <2>6
<1>8. CASE EndsWalk
  <2>1. stage' = "finalize" /\ UNCHANGED chunks
    BY <1>8 DEF EndsWalk
  <2>2. WrittenLength'
    BY <2>1 DEF WrittenLength, LayoutStages
  <2>3. ChunksOfIR' /\ LayoutMatchesEmission' /\ BranchesReachLabels'
    BY <1>2, <1>4, <1>5, <2>1
    DEF PlacementInv, ChunksOfIR, LayoutMatchesEmission, BranchesReachLabels, Emitted
  <2> QED
    BY <1>6, <1>7, <2>2, <2>3 DEF PlacementInv
<1>9. CASE SkipsEntry
  <2>1. /\ stage' = "emit" /\ UNCHANGED <<chunks, out_len>>
        /\ i \in 1 .. Len(ir) /\ i' = i + 1 /\ ir[i].size = 0
    BY <1>9 DEF SkipsEntry
  <2>2. WrittenLength'
    <3> SUFFICES ASSUME Converged, NEW s \in Sections
                 PROVE  After(ir, s, i + 1, U32(out_len[s]))
      BY <1>2, <1>5, <2>1 DEF WrittenLength, LayoutStages
    <3>1. CASE s # ir[i].sect
      BY <1>4, <2>1, <3>1, AtWrittenLength
    <3>2. CASE s = ir[i].sect
      <4>1. /\ ir[i].addr = U32(out_len[s]) /\ ir[i].addr \in Word
            /\ After(ir, s, i + 1, Add32(ir[i].addr, ir[i].size))
        BY <1>4, <2>1, <3>2, AtWrittenLength
      <4>2. Add32(ir[i].addr, ir[i].size) = ir[i].addr
        BY <2>1, <4>1, WidthAssumption DEF Add32, Word, Mod32
      <4> QED
        BY <4>1, <4>2
    <3> QED
      BY <3>1, <3>2
  <2>3. ChunksOfIR' /\ LayoutMatchesEmission' /\ BranchesReachLabels'
    BY <1>2, <1>4, <1>5, <2>1
    DEF PlacementInv, ChunksOfIR, LayoutMatchesEmission, BranchesReachLabels, Emitted
  <2> QED
    BY <1>6, <1>7, <2>2, <2>3 DEF PlacementInv
<1>10. ASSUME NEW c, WritesChunk(c)
       PROVE  PlacementInv'
  <2>1. /\ stage' = "emit" /\ i \in 1 .. Len(ir) /\ i' = i + 1 /\ ChunkOfEntry(c)
        /\ chunks' = Append(chunks, c) /\ out_len' = [out_len EXCEPT ![c.sect] = @ + c.size]
    BY <1>10, <1>4 DEF WritesChunk
  <2>2. /\ c \in Chunk /\ c.sect = ir[i].sect /\ c.sect \in Sections /\ c.idx = i
        /\ c.pos = out_len[c.sect] /\ c.size \in {1, 2, 4, 8}
    BY <2>1 DEF ChunkOfEntry, Chunk
  <2>3. /\ Len(chunks) \in Nat /\ DOMAIN chunks' = 1 .. Len(chunks) + 1
        /\ DOMAIN chunks = 1 .. Len(chunks)
        /\ chunks'[Len(chunks) + 1] = c /\ \A k \in 1 .. Len(chunks) : chunks'[k] = chunks[k]
    BY <1>1, <2>1, <2>2
  <2>4. WrittenLength'
    <3> SUFFICES ASSUME Converged, NEW s \in Sections
                 PROVE  After(ir, s, i + 1, U32(out_len'[s]))
      BY <1>2, <1>5, <2>1 DEF WrittenLength, LayoutStages
    <3>1. CASE s # ir[i].sect
      <4>1. out_len'[s] = out_len[s]
        BY <1>1, <2>1, <2>2, <3>1
      <4> QED
        BY <1>4, <2>1, <3>1, <4>1, AtWrittenLength
    <3>2. CASE s = ir[i].sect
      <4>1. /\ ir[i].addr = U32(out_len[s]) /\ ir[i].addr \in Word /\ Sized(ir[i])
            /\ After(ir, s, i + 1, Add32(ir[i].addr, ir[i].size))
        BY <1>4, <2>1, <3>2, AtWrittenLength
      <4>2. c.size = ir[i].size
        BY <1>0, <2>1, <4>1, ChunkSize
      <4>3. out_len'[s] = out_len[s] + c.size /\ out_len[s] \in Nat
        BY <1>1, <2>1, <2>2, <3>2
      <4>4. c.size \in Nat /\ c.size < Mod32
        BY <2>2, WidthAssumption DEF Mod32
      <4>5. U32(out_len[s] + c.size) = Add32(U32(out_len[s]), c.size)
        BY <4>3, <4>4, U32Mod
      <4> QED
        BY <4>1, <4>2, <4>3, <4>5
    <3> QED
      BY <3>1, <3>2
  <2>5. ChunksOfIR'
    <3> SUFFICES ASSUME NEW k \in 1 .. Len(chunks) + 1
                 PROVE  chunks'[k].idx \in 1 .. Len(ir)
      BY <1>2, <2>3 DEF ChunksOfIR
    <3>1. CASE k = Len(chunks) + 1
      BY <2>1, <2>2, <2>3, <3>1
    <3>2. CASE k # Len(chunks) + 1
      <4>1. k \in 1 .. Len(chunks)
        BY <2>3, <3>2
      <4> QED
        BY <1>4, <2>3, <4>1 DEF PlacementInv, ChunksOfIR, Emitted
    <3> QED
      BY <3>1, <3>2
  <2>6. ASSUME Converged
        PROVE  Reaches(c) /\ U32(c.pos) = ir[c.idx].addr
    <3>1. Aimed(symtab, ir[i]) /\ ir[i].addr = U32(c.pos)
      BY <1>4, <2>1, <2>2, <2>6, AtWrittenLength
    <3> QED
      BY <1>0, <2>1, <2>2, <3>1, ChunkReaches
  <2>7. LayoutMatchesEmission' /\ BranchesReachLabels'
    <3> SUFFICES ASSUME Converged, NEW k \in 1 .. Len(chunks) + 1
                 PROVE  Reaches(chunks'[k]) /\ U32(chunks'[k].pos) = ir[chunks'[k].idx].addr
      BY <1>2, <1>5, <2>3 DEF LayoutMatchesEmission, BranchesReachLabels, Reaches
    <3>1. CASE k = Len(chunks) + 1
      BY <2>3, <2>6, <3>1
    <3>2. CASE k # Len(chunks) + 1
      <4>1. k \in 1 .. Len(chunks)
        BY <2>3, <3>2
      <4>2. Reaches(chunks[k]) /\ U32(chunks[k].pos) = ir[chunks[k].idx].addr
        BY <1>4, <2>3, <4>1
        DEF PlacementInv, LayoutMatchesEmission, BranchesReachLabels, Reaches, Emitted
      <4> QED
        BY <2>3, <4>1, <4>2
    <3> QED
      BY <3>1, <3>2
  <2> QED
    BY <1>6, <1>7, <2>4, <2>5, <2>7 DEF PlacementInv
<1> QED
  BY <1>2, <1>8, <1>9, <1>10

\* The steps of main() around pass 2.
LEMMA LayoutMain ==
  ASSUME PlacementInv, OutputInv',
         \/ PassOne \/ StringLost \/ GiveUp \/ OpenOutput \/ pass2_finalize \/ out_finish
         \/ CloseOutput
  PROVE  PlacementInv'
<1>0. TypeInv
  BY DEF PlacementInv, OutputInv, DeliveryInv
<1>1. CASE OpenOutput
  <2>1. stage = "parsed" /\ stage' = "data_layout" /\ UNCHANGED <<i, pc, ir, out_len, chunks>>
    BY <1>1 DEF OpenOutput, pass2_initialize, pass2_vars
  <2>2. i = 1 /\ pc = 0 /\ out_len = [s \in Sections |-> 0]
    BY <1>0, <2>1 DEF TypeInv, OnlyParsed, Pass2Idle
  <2>3. DataLaid' /\ TextLaid'
    BY <2>1, <2>2, LaidFirst DEF DataLaid, TextLaid, LaidStages
  <2>4. \A k \in DOMAIN ir : ~(k < 1)
    BY <1>0, IRType
  <2>5. DataSized' /\ TextSized' /\ ChoicesAimed'
    BY <2>1, <2>2, <2>4 DEF DataSized, TextSized, ChoicesAimed, LaidStages, Emitted
  <2>6. WrittenLength' /\ ChunksOfIR' /\ LayoutMatchesEmission' /\ BranchesReachLabels'
    BY <2>1, <2>2, NotEmitting DEF LayoutStages
  <2> QED
    BY <2>1, <2>3, <2>5, <2>6 DEF PlacementInv, OnlyCompressing
<1>2. CASE PassOne \/ StringLost \/ GiveUp \/ pass2_finalize \/ out_finish \/ CloseOutput
  <2>1. stage' \notin LayoutStages \cup {"emit", "finalize"}
    BY <1>0, <1>2, StagesPassOne, ElfStep
    DEF PassOne, StringLost, GiveUp, pass2_finalize, CloseOutput, ElfMoves, TypeInv, LayoutStages
  <2> QED
    BY <2>1
    DEF PlacementInv, OnlyCompressing, DataLaid, TextLaid, DataSized, TextSized, ChoicesAimed,
        WrittenLength, ChunksOfIR, LayoutMatchesEmission, BranchesReachLabels, Emitted,
        LaidStages, LayoutStages
<1> QED
  BY <1>1, <1>2

\* The invariant holds: layout and emission see one arrangement of the entries.
LEMMA PlacementInvariant == Spec => []PlacementInv
<1>1. Init /\ OutputInv => PlacementInv
  <2> SUFFICES ASSUME Init, OutputInv
               PROVE  PlacementInv
    OBVIOUS
  <2>1. stage = "parse"
    BY DEF Init, Init1
  <2> QED
    BY <2>1
    DEF PlacementInv, OnlyCompressing, DataLaid, TextLaid, DataSized, TextSized, ChoicesAimed,
        WrittenLength, ChunksOfIR, LayoutMatchesEmission, BranchesReachLabels, Emitted,
        LaidStages, LayoutStages
<1>2. PlacementInv /\ OutputInv' /\ [Next]_vars => PlacementInv'
  <2> SUFFICES ASSUME PlacementInv, OutputInv', [Next]_vars
               PROVE  PlacementInv'
    OBVIOUS
  <2>1. CASE PassTwo
    <3>1. CASE DataLayout
      BY <3>1, LayoutAssign DEF DataLayout, Sections
    <3>2. CASE TextLayout
      BY <3>2, LayoutAssign DEF TextLayout, Sections
    <3> QED
      BY <2>1, <3>1, <3>2, LayoutChoose, LayoutLoops, LayoutEmission, Zenon
      DEF PassTwo, Next2, Layout
  <2>2. CASE UNCHANGED vars
    BY <2>2
    DEF PlacementInv, OnlyCompressing, DataLaid, TextLaid, DataSized, TextSized, ChoicesAimed,
        WrittenLength, ChunksOfIR, LayoutMatchesEmission, BranchesReachLabels, Emitted, Converged,
        Compressing, Sized, pass2_node_size_now, ir_is_explicit_c, vars, globals, pass2_vars
  <2> QED
    BY <2>1, <2>2, LayoutMain DEF Next
<1> QED
  BY <1>1, <1>2, OutputInvariant, PTL DEF Spec

\* Layout and emission agree, for every source and every set of options: what an
\* address was computed for is what lies there when the layout has converged.
THEOREM OneLayout == Spec => []LayoutMatchesEmission
<1>1. PlacementInv => LayoutMatchesEmission
  BY DEF PlacementInv
<1> QED
  BY <1>1, PlacementInvariant, PTL

\* A branch or jump to a label is written with the distance to that label, however
\* many of the instructions it crosses were compressed after it was first measured.
THEOREM BranchesReach == Spec => []BranchesReachLabels
<1>1. PlacementInv => BranchesReachLabels
  BY DEF PlacementInv
<1> QED
  BY <1>1, PlacementInvariant, PTL

-----------------------------------------------------------------------------
(***************************************************************************)
(* The re-layout loop.                                                     *)
(***************************************************************************)

\* Nothing is chosen before the plan.
NoChoiceYet == stage \in {"parse", "parsed", "data_layout"} => Candidates = {} /\ planned = 0

\* The plan counts the choices it makes.
PlanCounts ==
  stage = "plan" => Candidates \subseteq 1 .. i - 1 /\ Cardinality(Candidates) = planned

ProgressInv == PlacementInv /\ NoChoiceYet /\ PlanCounts /\ RelayoutProgress

\* Adding one position to a set of them, or dropping one.
LEMMA CountedOnce ==
  ASSUME NEW n \in Nat, NEW S \in SUBSET (1 .. n)
  PROVE  /\ Cardinality(S) \in Nat
         /\ \A x \in 1 .. n : x \notin S => Cardinality(S \cup {x}) = Cardinality(S) + 1
         /\ \A x \in S : Cardinality(S \ {x}) = Cardinality(S) - 1
<1>1. IsFiniteSet(S) /\ Cardinality(S) \in Nat
  <2>1. IsFiniteSet(1 .. n)
    BY FS_Interval
  <2>2. IsFiniteSet(S)
    BY <2>1, FS_Subset
  <2> QED
    BY <2>2, FS_CardinalityType
<1> QED
  BY <1>1, FS_AddElement, FS_RemoveElement

\* The candidates are positions of the IR.
LEMMA CandidatesType ==
  TypeInv => /\ Candidates \in SUBSET (1 .. Len(ir)) /\ Len(ir) \in Nat
             /\ Cardinality(Candidates) \in Nat
<1> SUFFICES ASSUME TypeInv
             PROVE  /\ Candidates \in SUBSET (1 .. Len(ir)) /\ Len(ir) \in Nat
                    /\ Cardinality(Candidates) \in Nat
  OBVIOUS
<1>1. Len(ir) \in Nat /\ DOMAIN ir = 1 .. Len(ir)
  BY IRType
<1>2. Candidates \in SUBSET (1 .. Len(ir))
  BY <1>1 DEF Candidates
<1> QED
  BY <1>1, <1>2, CountedOnce

\* What pass 1 appends has no chosen form.
LEMMA AppendsNoChoice ==
  ASSUME TypeInv, Next1
  PROVE  \/ UNCHANGED ir
         \/ \E e : ir' = Append(ir, e) /\ ~e.has_c_choice
<1>1. CASE Label \/ DotText \/ DotData \/ Datum \/ Emitting \/ SyntaxError \/ EndOfFile
  BY <1>1 DEF Label, DotText, DotData, SetSection, Datum, Emitting, SyntaxError, EndOfFile, globals
<1>2. \A sect, addr, n : ~ir_append_align(sect, addr, n).has_c_choice
  BY DEF ir_append_align, BlankEntry
<1>3. \A sect, addr, w, n : ~ir_append_data(sect, addr, w, n).has_c_choice
  BY DEF ir_append_data, BlankEntry
<1>4. \A x, sect, addr, n : ~ir_append_instr(x, sect, addr, n).has_c_choice
  BY DEF ir_append_instr
<1>5. \A e : AppendToIR(e) => ir' = Append(ir, e) \/ UNCHANGED ir
  BY DEF AppendToIR
<1>6. CASE Align
  BY <1>2, <1>5, <1>6 DEF Align
<1>7. CASE Space
  BY <1>2, <1>5, <1>7 DEF Space
<1>8. CASE pass1_emit_instruction
  BY <1>4, <1>5, <1>8 DEF pass1_emit_instruction
<1>9. CASE pass1_emit_data
  BY <1>3, <1>5, <1>9 DEF pass1_emit_data
<1> QED
  BY <1>1, <1>6, <1>7, <1>8, <1>9 DEF Next1

\* Parsing, and the steps around pass 2, have no candidates to count.
LEMMA ProgressMain ==
  ASSUME ProgressInv, PlacementInv',
         \/ PassOne \/ StringLost \/ GiveUp \/ OpenOutput \/ pass2_finalize \/ out_finish
         \/ CloseOutput
  PROVE  ProgressInv'
<1>0. TypeInv /\ TypeInv'
  BY DEF ProgressInv, PlacementInv, OutputInv, DeliveryInv
<1>1. CASE PassOne
  <2>1. Next1 /\ stage = "parse" /\ stage' \in {"parse", "parsed"}
    BY <1>0, <1>1, StagesPassOne DEF PassOne, TypeInv
  <2>2. planned' = 0
    BY <1>0, <2>1 DEF TypeInv, OnlyParsed, Pass2Idle
  <2>3. \A k \in DOMAIN ir : ~ir[k].has_c_choice
    BY <2>1 DEF ProgressInv, NoChoiceYet, Candidates
  <2>4. \A k \in DOMAIN ir' : ~ir'[k].has_c_choice
    <3>1. CASE UNCHANGED ir
      BY <2>3, <3>1
    <3>2. ASSUME NEW e, ir' = Append(ir, e), ~e.has_c_choice
          PROVE  \A k \in DOMAIN ir' : ~ir'[k].has_c_choice
      <4>1. Len(ir) \in Nat /\ ir \in Seq(Entry) /\ DOMAIN ir = 1 .. Len(ir)
        BY <1>0, IRType
      <4>2. /\ DOMAIN ir' = 1 .. Len(ir) + 1 /\ ir'[Len(ir) + 1] = e
            /\ \A k \in 1 .. Len(ir) : ir'[k] = ir[k]
        BY <3>2, <4>1
      <4>3. \A k \in 1 .. Len(ir) + 1 : k \in 1 .. Len(ir) \/ k = Len(ir) + 1
        BY <4>1
      <4> QED
        BY <2>3, <3>2, <4>1, <4>2, <4>3
    <3> QED
      BY <1>0, <2>1, <3>1, <3>2, AppendsNoChoice
  <2> QED
    BY <2>1, <2>2, <2>4 DEF ProgressInv, NoChoiceYet, PlanCounts, RelayoutProgress, Candidates
<1>2. CASE OpenOutput
  <2>1. stage = "parsed" /\ stage' = "data_layout" /\ UNCHANGED <<ir, planned>>
    BY <1>2 DEF OpenOutput, pass2_initialize, pass2_vars
  <2> QED
    BY <2>1 DEF ProgressInv, NoChoiceYet, PlanCounts, RelayoutProgress, Candidates
<1>3. CASE StringLost \/ GiveUp \/ pass2_finalize \/ out_finish \/ CloseOutput
  <2>1. stage' \notin LayoutStages \cup {"parse", "parsed"}
    BY <1>0, <1>3, ElfStep
    DEF StringLost, GiveUp, pass2_finalize, CloseOutput, ElfMoves, TypeInv, LayoutStages
  <2> QED
    BY <2>1 DEF ProgressInv, NoChoiceYet, PlanCounts, RelayoutProgress, LayoutStages
<1> QED
  BY <1>1, <1>2, <1>3

\* Assigning addresses chooses nothing.
LEMMA ProgressAssign ==
  ASSUME ProgressInv, PlacementInv', DataLayout \/ TextLayout
  PROVE  ProgressInv'
<1>0. TypeInv /\ TypeInv'
  BY DEF ProgressInv, PlacementInv, OutputInv, DeliveryInv
<1>1. PICK sect \in Sections :
        /\ AssignAddress(sect)
        /\ stage = "data_layout" \/ stage = "text_layout"
  BY DEF DataLayout, TextLayout, Sections
<1>2. UNCHANGED <<stage, cfg, iter, changed, planned>>
  BY <1>1 DEF AssignAddress
<1>3. /\ Len(ir) \in Nat /\ DOMAIN ir = 1 .. Len(ir) /\ i \in 1 .. Len(ir) /\ pc \in Word
      /\ \A k \in 1 .. Len(ir) : EntryOK(cfg, ir[k])
  BY <1>0, <1>1, IRType DEF AssignAddress
<1>4. Candidates' = Candidates
  <2>1. CASE UNCHANGED ir
    BY <2>1 DEF Candidates
  <2>2. CASE ir' = [ir EXCEPT ![i] = Placed(@, pc)]
    <3> DEFINE f == Placed(ir[i], pc)
    <3>1. f.has_c_choice = ir[i].has_c_choice
      BY <1>3, PlacedOK
    <3>2. ir' = [ir EXCEPT ![i] = f]
      BY <2>2
    <3> HIDE DEF f
    <3>3. DOMAIN ir' = DOMAIN ir /\ \A k \in DOMAIN ir : ir'[k] = IF k = i THEN f ELSE ir[k]
      BY <1>3, <3>2
    <3>4. \A k \in DOMAIN ir : ir'[k].has_c_choice = ir[k].has_c_choice
      BY <3>1, <3>3
    <3> QED
      BY <3>3, <3>4 DEF Candidates
  <2> QED
    BY <1>1, <2>1, <2>2 DEF AssignAddress
<1> QED
  BY <1>1, <1>2, <1>4 DEF ProgressInv, NoChoiceYet, PlanCounts, RelayoutProgress, Compressing

\* The plan adds a candidate and counts it; the validation drops one and says so.
LEMMA ProgressChoose ==
  ASSUME ProgressInv, PlacementInv', pass2_plan_choices \/ pass2_validate_compressed_ranges
  PROVE  ProgressInv'
<1>0. TypeInv /\ TypeInv'
  BY DEF ProgressInv, PlacementInv, OutputInv, DeliveryInv
<1>1. /\ Len(ir) \in Nat /\ DOMAIN ir = 1 .. Len(ir) /\ i \in 1 .. Len(ir) /\ i' = i + 1
      /\ Candidates \in SUBSET (1 .. Len(ir)) /\ Cardinality(Candidates) \in Nat
      /\ stage' = stage /\ UNCHANGED <<cfg, iter>> /\ iter \in Nat /\ planned \in Nat
      /\ changed \in BOOLEAN
  <2>1. UNCHANGED iter
    BY DEF pass2_plan_choices, pass2_validate_compressed_ranges
  <2>2. iter \in Nat /\ planned \in Nat /\ changed \in BOOLEAN
    BY <1>0 DEF TypeInv, TypeOK, MaxIters
  <2> QED
    BY <1>0, <2>1, <2>2, IRType, CandidatesType, ChoosingStep
<1>2. \A f : ir' = [ir EXCEPT ![i] = f] =>
        Candidates' = IF f.has_c_choice THEN Candidates \cup {i} ELSE Candidates \ {i}
  <2> SUFFICES ASSUME NEW f, ir' = [ir EXCEPT ![i] = f]
               PROVE  Candidates' = IF f.has_c_choice THEN Candidates \cup {i} ELSE Candidates \ {i}
    OBVIOUS
  <2>1. DOMAIN ir' = DOMAIN ir /\ \A k \in DOMAIN ir : ir'[k] = IF k = i THEN f ELSE ir[k]
    BY <1>1
  <2>2. \A k : k \in Candidates' <=> k \in DOMAIN ir /\ ir'[k].has_c_choice
    BY <2>1 DEF Candidates
  <2>3. \A k : k \in Candidates <=> k \in DOMAIN ir /\ ir[k].has_c_choice
    BY DEF Candidates
  <2>4. i \in DOMAIN ir
    BY <1>1
  <2>5. CASE f.has_c_choice
    BY <2>1, <2>2, <2>3, <2>4, <2>5
  <2>6. CASE ~f.has_c_choice
    BY <2>1, <2>2, <2>3, <2>4, <2>6
  <2> QED
    BY <2>5, <2>6
<1>3. UNCHANGED ir => Candidates' = Candidates
  BY DEF Candidates
<1>4. CASE pass2_plan_choices
  <2>1. stage = "plan"
    BY <1>4 DEF pass2_plan_choices
  <2>2. Candidates \subseteq 1 .. i - 1 /\ Cardinality(Candidates) = planned
    BY <2>1 DEF ProgressInv, PlanCounts
  <2>3. i \notin Candidates /\ \A k \in 1 .. i - 1 : k \in 1 .. (i + 1) - 1
    BY <1>1, <2>2
  <2>4. i \in 1 .. (i + 1) - 1
    BY <1>1
  <2>5. \/ Candidates' = Candidates /\ planned' = planned
        \/ Candidates' = Candidates \cup {i} /\ planned' = planned + 1
    <3>1. CASE UNCHANGED <<ir, planned>>
      BY <1>3, <3>1
    <3>2. CASE /\ ir' = [ir EXCEPT ![i] = ir_set_c_choice(@, c_try_map(cfg, @))]
               /\ planned' = planned + 1
      <4> DEFINE f == ir_set_c_choice(ir[i], c_try_map(cfg, ir[i]))
      <4>1. ir[i] \in Entry
        BY <1>0, <1>1, IRType
      <4>2. f.has_c_choice
        BY <4>1 DEF ir_set_c_choice, Entry
      <4> QED
        BY <1>2, <3>2, <4>2
    <3>3. CASE ir' = [ir EXCEPT ![i] = ir_clear_c_choice(@)] /\ UNCHANGED planned
      <4> DEFINE f == ir_clear_c_choice(ir[i])
      <4>1. ir[i] \in Entry
        BY <1>0, <1>1, IRType
      <4>2. ~f.has_c_choice
        BY <4>1 DEF ir_clear_c_choice, Entry
      <4>3. Candidates' = Candidates \ {i}
        BY <1>2, <3>3, <4>2
      <4> QED
        BY <2>3, <3>3, <4>3
    <3> QED
      BY <1>4, <3>1, <3>2, <3>3 DEF pass2_plan_choices
  <2>6. Candidates' \subseteq 1 .. i' - 1 /\ Cardinality(Candidates') = planned'
    <3>1. Cardinality(Candidates \cup {i}) = Cardinality(Candidates) + 1
      BY <1>1, <2>3, CountedOnce
    <3>2. Candidates' \subseteq 1 .. (i + 1) - 1
      BY <2>2, <2>3, <2>4, <2>5
    <3> QED
      BY <1>1, <2>2, <2>5, <3>1, <3>2
  <2> QED
    BY <1>1, <2>1, <2>6 DEF ProgressInv, NoChoiceYet, PlanCounts, RelayoutProgress
<1>5. CASE pass2_validate_compressed_ranges
  <2>1. stage = "validate" /\ UNCHANGED planned
    BY <1>5 DEF pass2_validate_compressed_ranges
  <2>2. Compressing =>
          Cardinality(Candidates) + iter - 1 + (IF changed THEN 1 ELSE 0) <= planned
    BY <2>1 DEF ProgressInv, RelayoutProgress
  <2>3. \/ Candidates' = Candidates /\ changed' = changed
        \/ Candidates' = Candidates \ {i} /\ i \in Candidates /\ changed' = TRUE
    <3>1. CASE UNCHANGED <<ir, changed>>
      BY <1>3, <3>1
    <3>2. CASE ir' = [ir EXCEPT ![i] = Validated(@)] /\ changed' = (changed \/ Drops(ir[i]))
      <4> DEFINE f == Validated(ir[i])
      <4>1. ir[i] \in Entry /\ ir[i].has_c_choice \in BOOLEAN /\ f.has_c_choice \in BOOLEAN
        <5>1. ir[i] \in Entry
          BY <1>0, <1>1, IRType
        <5> QED
          BY <5>1 DEF Entry, Validated, ir_clear_c_choice
      <4>2. f.has_c_choice => ir[i].has_c_choice
        BY <4>1 DEF Validated, ir_clear_c_choice, Entry
      <4>3. Candidates' = IF f.has_c_choice THEN Candidates \cup {i} ELSE Candidates \ {i}
        BY <1>2, <3>2
      <4>4. i \in Candidates <=> ir[i].has_c_choice
        BY <1>1 DEF Candidates
      <4>5. Drops(ir[i]) <=> ir[i].has_c_choice /\ ~f.has_c_choice
        BY DEF Drops
      <4> HIDE DEF f
      <4>6. CASE Drops(ir[i])
        BY <3>2, <4>3, <4>4, <4>5, <4>6
      <4>7. CASE ~Drops(ir[i])
        <5>1. changed' = changed
          BY <1>1, <3>2, <4>7
        <5> QED
          BY <4>2, <4>3, <4>4, <4>5, <4>7, <5>1
      <4> QED
        BY <4>6, <4>7
    <3> QED
      BY <1>5, <3>1, <3>2 DEF pass2_validate_compressed_ranges
  <2>4. Compressing =>
          Cardinality(Candidates') + iter - 1 + (IF changed' THEN 1 ELSE 0) <= planned
    <3>1. i \in Candidates => Cardinality(Candidates \ {i}) = Cardinality(Candidates) - 1
      BY <1>1, CountedOnce
    <3>2. CASE Candidates' = Candidates /\ changed' = changed
      BY <2>2, <3>2
    <3>3. CASE Candidates' = Candidates \ {i} /\ i \in Candidates /\ changed' = TRUE
      <4> DEFINE n == Cardinality(Candidates)
      <4> HIDE DEF n
      <4>1. Compressing => n + iter - 1 <= planned
        BY <1>1, <2>2 DEF n
      <4>2. Cardinality(Candidates') = n - 1
        BY <3>1, <3>3 DEF n
      <4>3. n \in Nat
        BY <1>1 DEF n
      <4> QED
        BY <1>1, <3>3, <4>1, <4>2, <4>3
    <3> QED
      BY <2>3, <3>2, <3>3
  <2> QED
    BY <1>1, <2>1, <2>4 DEF ProgressInv, NoChoiceYet, PlanCounts, RelayoutProgress, Compressing
<1> QED
  BY <1>4, <1>5

\* A round ends with what it dropped accounted for.
LEMMA ProgressLoops ==
  ASSUME ProgressInv, PlacementInv',
         DataLayoutDone \/ PlanDone \/ TextLayoutDone \/ Relayout \/ RelayoutDone
  PROVE  ProgressInv'
<1>0. TypeInv /\ TypeInv'
  BY DEF ProgressInv, PlacementInv, OutputInv, DeliveryInv
<1>1. /\ i' = 1 /\ UNCHANGED <<cfg, ir, planned>> /\ iter \in Nat /\ planned \in Nat
      /\ Cardinality(Candidates) \in Nat
  <2>1. iter \in Nat /\ planned \in Nat
    BY <1>0 DEF TypeInv, TypeOK, MaxIters
  <2> QED
    BY <1>0, <2>1, CandidatesType
    DEF DataLayoutDone, PlanDone, TextLayoutDone, Relayout, RelayoutDone, GoTo
<1>2. Candidates' = Candidates
  BY <1>1 DEF Candidates
<1>3. CASE DataLayoutDone
  <2>1. stage = "data_layout" /\ stage' = IF Compressing THEN "plan" ELSE "text_layout"
    BY <1>3 DEF DataLayoutDone, GoTo
  <2>2. Candidates = {} /\ planned = 0 /\ Cardinality({}) = 0
    BY <2>1, FS_EmptySet DEF ProgressInv, NoChoiceYet
  <2> QED
    BY <1>1, <1>2, <2>1, <2>2 DEF ProgressInv, NoChoiceYet, PlanCounts, RelayoutProgress, Compressing
<1>4. CASE PlanDone
  <2>1. stage = "plan" /\ stage' = "text_layout" /\ iter' = 1
    BY <1>4 DEF PlanDone, GoTo
  <2>2. Cardinality(Candidates) = planned
    BY <2>1 DEF ProgressInv, PlanCounts
  <2> QED
    BY <1>1, <1>2, <2>1, <2>2 DEF ProgressInv, NoChoiceYet, PlanCounts, RelayoutProgress, Compressing
<1>5. CASE TextLayoutDone
  <2>1. /\ stage = "text_layout" /\ stage' = IF Compressing THEN "validate" ELSE "emit"
        /\ changed' = FALSE /\ UNCHANGED iter
    BY <1>5 DEF TextLayoutDone, GoTo
  <2>2. Compressing => Cardinality(Candidates) + iter - 1 <= planned
    BY <1>1, <2>1 DEF ProgressInv, RelayoutProgress
  <2> QED
    BY <1>1, <1>2, <2>1, <2>2 DEF ProgressInv, NoChoiceYet, PlanCounts, RelayoutProgress, Compressing
<1>6. CASE Relayout
  <2>1. stage = "validate" /\ changed /\ stage' = "text_layout" /\ iter' = iter + 1
    BY <1>6 DEF Relayout, GoTo
  <2>2. Compressing => Cardinality(Candidates) + iter - 1 + 1 <= planned
    BY <1>1, <2>1 DEF ProgressInv, RelayoutProgress
  <2> QED
    BY <1>1, <1>2, <2>1, <2>2 DEF ProgressInv, NoChoiceYet, PlanCounts, RelayoutProgress, Compressing
<1>7. CASE RelayoutDone
  <2>1. stage' = "emit"
    BY <1>7 DEF RelayoutDone, GoTo
  <2> QED
    BY <2>1 DEF ProgressInv, NoChoiceYet, PlanCounts, RelayoutProgress
<1> QED
  BY <1>3, <1>4, <1>5, <1>6, <1>7

\* The re-layout loop drops a candidate for good in every extra round, for every
\* source: with n candidates it would end after n + 1 rounds without its bound.
THEOREM EachRoundDrops == Spec => []RelayoutProgress
<1>1. Init /\ PlacementInv => ProgressInv
  <2> SUFFICES ASSUME Init, PlacementInv
               PROVE  ProgressInv
    OBVIOUS
  <2>1. stage = "parse" /\ ir = <<>> /\ planned = 0
    BY DEF Init, Init1, Pass2Idle
  <2> QED
    BY <2>1 DEF ProgressInv, NoChoiceYet, PlanCounts, RelayoutProgress, Candidates
<1>2. ProgressInv /\ PlacementInv' /\ [Next]_vars => ProgressInv'
  <2> SUFFICES ASSUME ProgressInv, PlacementInv', [Next]_vars
               PROVE  ProgressInv'
    OBVIOUS
  <2>1. CASE PassTwo
    <3>1. CASE Emission
      <4>1. stage' \in {"emit", "finalize"}
        BY <2>1, <3>1
        DEF Emission, RefuseSection, pass2_emit_align, pass2_emit_data, pass2_emit_instr,
            EmitDone, AtEntry, Write, Stop
      <4> QED
        BY <4>1 DEF ProgressInv, NoChoiceYet, PlanCounts, RelayoutProgress
    <3> QED
      BY <2>1, <3>1, ProgressAssign, ProgressChoose, ProgressLoops, Zenon DEF PassTwo, Next2, Layout
  <2>2. CASE UNCHANGED vars
    BY <2>2
    DEF ProgressInv, NoChoiceYet, PlanCounts, RelayoutProgress, Candidates, Compressing,
        vars, globals, pass2_vars
  <2> QED
    BY <2>1, <2>2, ProgressMain DEF Next
<1>3. ProgressInv => RelayoutProgress
  BY DEF ProgressInv
<1> QED
  BY <1>1, <1>2, <1>3, PlacementInvariant, PTL DEF Spec
-----------------------------------------------------------------------------
(***************************************************************************)
(* Pass 1 and pass 2 compute one layout.                                   *)
(***************************************************************************)

\* Nothing that parts the two layouts has happened: no message, no wrapped counter
\* and no directive whose padding pass 2 forgets.
NoAligns == \A k \in DOMAIN ir : ir[k].kind # "IR_ALIGN"
Undisturbed == ~reported /\ ~wrapped /\ NoAligns

\* The IR is laid out with its labels in place.
InOrderWithLabels ==
  /\ \A s \in Sections : Laid(ir, s, Len(ir) + 1)
  /\ \A k \in DOMAIN ir : Sized(ir[k])
  /\ InPlace

BeforeLayout == stage \in {"parse", "parsed"}
PlainLayout == stage \in {"data_layout", "text_layout", "emit"} /\ ~Compressing

\* The counters of pass 1 stand behind the last entries of their sections.
CountersBehind ==
  Clean /\ NoAligns => \A s \in Sections : After(ir, s, Len(ir) + 1, pcs[s])

OneLayoutInv ==
  /\ LayoutInv /\ CountersBehind
  /\ (BeforeLayout \/ PlainLayout) /\ Undisturbed => InOrderWithLabels

\* What pass 1 appends has the size of its form.
LEMMA AppendsSized ==
  ASSUME TypeInv, Next1
  PROVE  UNCHANGED ir \/ \E e : ir' = Append(ir, e) /\ Sized(e)
<1>1. CASE Label \/ DotText \/ DotData \/ Datum \/ Emitting \/ SyntaxError \/ EndOfFile
  BY <1>1 DEF Label, DotText, DotData, SetSection, Datum, Emitting, SyntaxError, EndOfFile, globals
<1>2. \A sect, addr, n : Sized(ir_append_align(sect, addr, n))
  BY DEF ir_append_align, BlankEntry, Sized
<1>3. \A sect, addr, w, n : Sized(ir_append_data(sect, addr, w, n))
  BY DEF ir_append_data, BlankEntry, Sized
<1>4. \A x, sect, addr : Sized(ir_append_instr(x, sect, addr, InstrSize(x)))
  BY DEF ir_append_instr, Sized, InstrSize, pass2_node_size_now, ir_is_explicit_c
<1>5. \A e : AppendToIR(e) => ir' = Append(ir, e) \/ UNCHANGED ir
  BY DEF AppendToIR
<1>6. CASE Align
  BY <1>2, <1>5, <1>6 DEF Align
<1>7. CASE Space
  BY <1>2, <1>5, <1>7 DEF Space
<1>8. CASE pass1_emit_instruction
  BY <1>4, <1>5, <1>8 DEF pass1_emit_instruction
<1>9. CASE pass1_emit_data
  BY <1>3, <1>5, <1>9 DEF pass1_emit_data
<1> QED
  BY <1>1, <1>6, <1>7, <1>8, <1>9 DEF Next1

\* An entry appended at its section's counter extends the layout.
LEMMA LaidAppends ==
  ASSUME TypeOK1, TypeOK1', NEW e \in Entry, NEW bytes \in Nat, Grows(e, bytes),
         e.kind # "IR_ALIGN",
         \A s \in Sections : Laid(ir, s, Len(ir) + 1) /\ After(ir, s, Len(ir) + 1, pcs[s])
  PROVE  \A s \in Sections : Laid(ir', s, Len(ir') + 1) /\ After(ir', s, Len(ir') + 1, pcs'[s])
<1> DEFINE last == Len(ir) + 1
<1>1. /\ Len(ir) \in Nat /\ Len(ir') = last
      /\ \A n \in 1 .. Len(ir) : ir'[n] = ir[n]
      /\ ir'[last] = e
  BY GrownIR DEF Grows
<1>2. /\ e.sect = cur_section /\ e.addr = pcs[cur_section] /\ e.size = bytes
      /\ pcs'[cur_section] = pcs[cur_section] + bytes
      /\ \A s \in Sections : s # cur_section => pcs'[s] = pcs[s]
      /\ cur_section \in Sections /\ pcs'[cur_section] \in Word
  BY DEF Grows, TypeOK1
<1>3. last \in Nat \ {0} /\ last - 1 = Len(ir) /\ 1 .. last - 1 = 1 .. Len(ir)
  BY <1>1
<1>4. TAKE s \in Sections
<1>5. Agree(ir, ir', s, last)
  BY <1>1, <1>3 DEF Agree
<1>6. Laid(ir', s, last) /\ After(ir', s, last, pcs[s])
  <2>1. last \in Nat /\ last \in 1 .. last
    BY <1>3
  <2> QED
    BY <1>5, <2>1, AgreeKeeps
<1>7. Laid(ir', s, last + 1)
  BY <1>1, <1>2, <1>3, <1>6, LaidGrows
<1>8. After(ir', s, last + 1, pcs'[s])
  <2>1. CASE s = cur_section
    <3>1. Add32(e.addr, e.size) = pcs'[s]
      <4>1. \A v \in Word : ~(v >= Mod32)
        BY WidthAssumption DEF Word, Mod32
      <4>2. e.addr + e.size = pcs'[s] /\ pcs'[s] \in Word
        BY <1>2, <2>1
      <4> QED
        BY <4>1, <4>2, Zenon DEF Add32
    <3>2. After(ir', s, last + 1, Add32(ir'[last].addr, ir'[last].size))
      BY <1>1, <1>2, <1>3, <2>1, AfterPut
    <3> QED
      BY <1>1, <3>1, <3>2
  <2>2. CASE s # cur_section
    BY <1>1, <1>2, <1>3, <1>6, <2>2, AfterSkip
  <2> QED
    BY <2>1, <2>2
<1> QED
  BY <1>1, <1>7, <1>8

\* The parser keeps it.
LEMMA OneLayoutParse ==
  ASSUME OneLayoutInv, TypeInv, TypeInv', Next1
  PROVE  OneLayoutInv'
<1>1. TypeOK1 /\ TypeOK1' /\ Len(ir) \in Nat /\ DOMAIN ir = 1 .. Len(ir)
  BY IRType, TypeParts DEF TypeInv
<1>2. stage = "parse" /\ stage' \in {"parse", "parsed"} /\ BeforeLayout /\ ~PlainLayout'
  BY StagesPassOne DEF TypeInv, BeforeLayout, PlainLayout
<1>3. LayoutInv'
  BY <1>1, LayoutStep DEF OneLayoutInv
<1>4. Undisturbed' /\ stage' = "parse" => Clean' /\ NoAligns'
  BY DEF Undisturbed, Clean
<1> DEFINE Good == /\ \A s \in Sections : Laid(ir, s, Len(ir) + 1) /\ After(ir, s, Len(ir) + 1, pcs[s])
                   /\ \A k \in DOMAIN ir : Sized(ir[k])
<1>5. ASSUME Clean', NoAligns'
      PROVE  Good' /\ InPlace'
  <2>1. /\ Clean
        /\ \/ Quiet
           \/ \E l \in Labels : Defines(l)
           \/ \E e \in Entry, bytes \in Nat : Grows(e, bytes)
    BY <1>1, <1>5, CleanStep
  <2>2. InPlace'
    BY <1>3, <1>5 DEF LayoutInv
  <2>3. ASSUME NoAligns
        PROVE  Good
    BY <1>2, <2>1, <2>3 DEF OneLayoutInv, CountersBehind, Undisturbed, InOrderWithLabels, Clean
  <2>4. CASE Quiet \/ \E l \in Labels : Defines(l)
    <3>1. ir' = ir /\ pcs' = pcs
      BY <2>4 DEF Quiet, Defines
    <3>2. Good
      BY <1>5, <2>3, <3>1 DEF NoAligns
    <3> QED
      BY <2>2, <3>1, <3>2 DEF Sized, pass2_node_size_now, ir_is_explicit_c
  <2>5. ASSUME NEW e \in Entry, NEW bytes \in Nat, Grows(e, bytes)
        PROVE  Good'
    <3>1. /\ ir' = Append(ir, e) /\ DOMAIN ir' = 1 .. Len(ir) + 1
          /\ \A n \in 1 .. Len(ir) : ir'[n] = ir[n]
          /\ ir'[Len(ir) + 1] = e
      BY <1>1, <2>5, GrownIR DEF Grows
    <3>2. Good /\ e.kind # "IR_ALIGN"
      <4>1. \A n \in 1 .. Len(ir) : n \in 1 .. Len(ir) + 1
        BY <1>1
      <4>2. NoAligns
        BY <1>1, <1>5, <3>1, <4>1 DEF NoAligns
      <4>3. Len(ir) + 1 \in DOMAIN ir'
        BY <1>1, <3>1
      <4> QED
        BY <1>5, <2>3, <3>1, <4>2, <4>3 DEF NoAligns
    <3>3. \A s \in Sections : Laid(ir', s, Len(ir') + 1) /\ After(ir', s, Len(ir') + 1, pcs'[s])
      BY <1>1, <2>5, <3>2, LaidAppends
    <3>4. Sized(e)
      <4>1. ir' # ir
        <5>1. Len(ir) + 1 \in DOMAIN ir' /\ Len(ir) + 1 \notin DOMAIN ir
          BY <1>1, <3>1
        <5> QED
          BY <5>1
      <4>2. PICK f : ir' = Append(ir, f) /\ Sized(f)
        BY <4>1, AppendsSized
      <4>3. f = e
        <5>1. Append(ir, f)[Len(ir) + 1] = f
          BY <1>1, IRType
        <5> QED
          BY <3>1, <4>2, <5>1
      <4> QED
        BY <4>2, <4>3
    <3>5. \A k \in DOMAIN ir' : k \in 1 .. Len(ir) \/ k = Len(ir) + 1
      BY <1>1, <3>1
    <3>6. \A k \in DOMAIN ir' : Sized(ir'[k])
      BY <1>1, <3>1, <3>2, <3>4, <3>5
    <3>7. (\A k \in DOMAIN ir : Sized(ir[k]))'
      BY <3>6 DEF Sized, pass2_node_size_now, ir_is_explicit_c
    <3> QED
      BY <3>3, <3>7
  <2> QED
    BY <2>1, <2>2, <2>4, <2>5
<1>6. CountersBehind'
  BY <1>5 DEF CountersBehind
<1>7. ASSUME Undisturbed'
      PROVE  InOrderWithLabels'
  <2>1. CASE stage' = "parse"
    BY <1>4, <1>5, <1>7, <2>1 DEF InOrderWithLabels
  <2>2. CASE stage' = "parsed"
    <3>1. ~SyntaxError
      BY <1>7 DEF SyntaxError, yyerror, Undisturbed
    <3>2. EndOfFile
      BY <1>2, <2>2, <3>1
      DEF Next1, Label, DotText, DotData, SetSection, Align, Space, Datum, Emitting,
          pass1_emit_instruction, pass1_emit_data, globals
    <3>3. UNCHANGED <<ir, symtab, pcs, reported, wrapped, label_def>>
      BY <3>2 DEF EndOfFile, pass1_vars
    <3>4. Undisturbed
      BY <1>7, <3>3 DEF Undisturbed, NoAligns
    <3>5. InOrderWithLabels
      BY <1>2, <3>4 DEF OneLayoutInv
    <3> QED
      BY <3>3, <3>5
      DEF InOrderWithLabels, InPlace, EntriesFrom, Sized, pass2_node_size_now, ir_is_explicit_c
  <2> QED
    BY <1>2, <2>1, <2>2
<1> QED
  BY <1>3, <1>6, <1>7 DEF OneLayoutInv

\* A round of pass2_assign_addresses changes nothing that is laid out already.
LEMMA AssignsSame ==
  ASSUME PlacementInv, NEW sect \in Sections, AssignAddress(sect),
         \/ stage = "data_layout" /\ sect = "SEC_DATA"
         \/ stage = "text_layout" /\ sect = "SEC_TEXT",
         NoAligns, InOrderWithLabels
  PROVE  ir' = ir
<1>0. TypeInv
  BY DEF PlacementInv, OutputInv, DeliveryInv
<1>1. /\ Len(ir) \in Nat /\ DOMAIN ir = 1 .. Len(ir) /\ i \in 1 .. Len(ir) /\ ir \in Seq(Entry)
      /\ ir[i] \in Entry
  BY <1>0, IRType DEF AssignAddress
<1>2. CASE ir[i].sect # sect
  BY <1>2 DEF AssignAddress
<1>3. CASE ir[i].sect = sect
  <2> DEFINE e == ir[i]
  <2>1. After(ir, sect, i, pc)
    BY DEF PlacementInv, DataLaid, TextLaid
  <2>2. After(ir, sect, i, e.addr)
    <3>1. i \in 1 .. (Len(ir) + 1) - 1
      BY <1>1
    <3> QED
      BY <1>3, <3>1 DEF InOrderWithLabels, Laid
  <2>3. pc = e.addr
    BY <1>1, <2>1, <2>2, AfterUnique
  <2>4. e.kind \in {"IR_INSTR", "IR_DATA"} /\ Sized(e)
    BY <1>1 DEF NoAligns, InOrderWithLabels, Entry, Kinds
  <2>5. Placed(e, pc) = e
    <3>1. [e EXCEPT !.addr = e.addr] = e
      BY <1>1 DEF Entry
    <3>2. [e EXCEPT !.size = e.size, !.addr = e.addr] = e
      BY <1>1 DEF Entry
    <3> QED
      BY <2>3, <2>4, <3>1, <3>2 DEF Placed, Sized
  <2>6. ir' = [ir EXCEPT ![i] = Placed(ir[i], pc)]
    BY <1>3 DEF AssignAddress
  <2> QED
    BY <1>1, <2>5, <2>6
<1> QED
  BY <1>2, <1>3

\* So does what comes before and after it.
LEMMA OneLayoutStep == OneLayoutInv /\ PlacementInv /\ PlacementInv' /\ [Next]_vars => OneLayoutInv'
<1> SUFFICES ASSUME OneLayoutInv, PlacementInv, PlacementInv', [Next]_vars
             PROVE  OneLayoutInv'
  OBVIOUS
<1>0. TypeInv /\ TypeInv'
  BY DEF PlacementInv, OutputInv, DeliveryInv
<1>1. CASE PassOne
  BY <1>0, <1>1, OneLayoutParse DEF PassOne
<1> DEFINE Keeps == UNCHANGED <<ir, symtab, pcs, reported, wrapped, label_def, cfg>>
<1>2. ASSUME Keeps, PlainLayout' => BeforeLayout \/ PlainLayout, ~BeforeLayout'
      PROVE  OneLayoutInv'
  <2>1. ~Clean'
    BY <1>2 DEF Clean, BeforeLayout
  <2>2. ASSUME PlainLayout', Undisturbed'
        PROVE  InOrderWithLabels'
    <3>1. Undisturbed
      BY <1>2, <2>2 DEF Undisturbed, NoAligns
    <3>2. InOrderWithLabels
      BY <1>2, <2>2, <3>1 DEF OneLayoutInv
    <3> QED
      BY <1>2, <3>2
      DEF InOrderWithLabels, InPlace, EntriesFrom, Sized, pass2_node_size_now, ir_is_explicit_c
  <2> QED
    BY <1>2, <2>1, <2>2 DEF OneLayoutInv, LayoutInv, CountersBehind
<1>3. ASSUME ~BeforeLayout', ~PlainLayout'
      PROVE  OneLayoutInv'
  BY <1>3 DEF OneLayoutInv, LayoutInv, CountersBehind, Clean, BeforeLayout
<1>4. CASE OpenOutput
  BY <1>2, <1>4 DEF OpenOutput, pass2_initialize, pass1_vars, BeforeLayout
<1>5. CASE StringLost \/ GiveUp \/ pass2_finalize \/ out_finish \/ CloseOutput
  <2>1. stage' \notin {"parse", "parsed", "data_layout", "text_layout", "emit"}
    BY <1>0, <1>5, ElfStep
    DEF StringLost, GiveUp, pass2_finalize, CloseOutput, ElfMoves, TypeInv
  <2> QED
    BY <1>3, <2>1 DEF BeforeLayout, PlainLayout
<1>6. CASE PassTwo
  <2>0. UNCHANGED pass1_vars /\ Next2
    BY <1>6 DEF PassTwo
  <2>1. CASE DataLayout \/ TextLayout
    <3>1. PICK sect \in Sections :
            /\ AssignAddress(sect)
            /\ \/ stage = "data_layout" /\ sect = "SEC_DATA"
               \/ stage = "text_layout" /\ sect = "SEC_TEXT"
      BY <2>1 DEF DataLayout, TextLayout, Sections
    <3>2. UNCHANGED <<stage, cfg, symtab>>
      BY <3>1 DEF AssignAddress
    <3>3. ~BeforeLayout' /\ (PlainLayout' => PlainLayout)
      BY <3>1, <3>2 DEF BeforeLayout, PlainLayout, Compressing
    <3>4. NoAligns' => NoAligns
      <4>1. ASSUME NEW k \in DOMAIN ir
            PROVE  k \in DOMAIN ir' /\ ir'[k].kind = ir[k].kind
        <5>1. CASE UNCHANGED ir
          BY <5>1
        <5>2. CASE ir' = [ir EXCEPT ![i] = Placed(@, pc)]
          <6> DEFINE f == Placed(ir[i], pc)
          <6>1. i \in DOMAIN ir /\ pc \in Word /\ EntryOK(cfg, ir[i])
            BY <1>0, <3>1, IRType DEF AssignAddress
          <6>2. f.kind = ir[i].kind
            BY <6>1, PlacedOK DEF SameSource
          <6>3. ir' = [ir EXCEPT ![i] = f]
            BY <5>2
          <6> HIDE DEF f
          <6>4. k \in DOMAIN ir' /\ ir'[k] = IF k = i THEN f ELSE ir[k]
            BY <6>1, <6>3
          <6> QED
            BY <6>2, <6>4
        <5> QED
          BY <3>1, <5>1, <5>2 DEF AssignAddress
      <4> QED
        BY <4>1 DEF NoAligns
    <3>5. CASE PlainLayout /\ Undisturbed
      <4>1. InOrderWithLabels /\ NoAligns
        BY <3>5 DEF OneLayoutInv, Undisturbed
      <4>2. ir' = ir
        BY <3>1, <4>1, AssignsSame
      <4> QED
        BY <1>2, <2>0, <3>2, <3>3, <4>2 DEF pass1_vars
    <3>6. CASE ~(PlainLayout /\ Undisturbed)
      <4>1. PlainLayout' => ~Undisturbed'
        BY <2>0, <3>3, <3>4, <3>6 DEF Undisturbed, pass1_vars
      <4> QED
        BY <3>3, <4>1 DEF OneLayoutInv, LayoutInv, CountersBehind, Clean, BeforeLayout
    <3> QED
      BY <3>5, <3>6
  <2>2. CASE pass2_plan_choices \/ pass2_validate_compressed_ranges
    <3>1. stage' \in {"plan", "validate"}
      BY <2>2 DEF pass2_plan_choices, pass2_validate_compressed_ranges
    <3> QED
      BY <1>3, <3>1 DEF BeforeLayout, PlainLayout
  <2>3. CASE DataLayoutDone \/ PlanDone \/ TextLayoutDone \/ Relayout \/ RelayoutDone
    <3>1. UNCHANGED <<ir, symtab, cfg>>
      BY <2>3 DEF DataLayoutDone, PlanDone, TextLayoutDone, Relayout, RelayoutDone
    <3>2. /\ stage \in LayoutStages
          /\ stage' \in {"plan", "text_layout", "validate", "emit"}
      BY <2>3 DEF DataLayoutDone, PlanDone, TextLayoutDone, Relayout, RelayoutDone, GoTo,
                  LayoutStages
    <3>3. PlainLayout' => PlainLayout
      BY <3>1, <3>2 DEF PlacementInv, OnlyCompressing, PlainLayout, Compressing, LayoutStages
    <3> QED
      BY <1>2, <2>0, <3>1, <3>2, <3>3 DEF BeforeLayout, pass1_vars
  <2>4. CASE Emission
    <3>1. UNCHANGED <<ir, symtab, cfg>> /\ stage = "emit" /\ stage' \in {"emit", "finalize"}
      BY <2>4
      DEF Emission, RefuseSection, pass2_emit_align, pass2_emit_data, pass2_emit_instr,
          EmitDone, AtEntry, Write, Stop
    <3> QED
      BY <1>2, <2>0, <3>1 DEF BeforeLayout, PlainLayout, Compressing, pass1_vars
  <2> QED
    BY <2>0, <2>1, <2>2, <2>3, <2>4, Zenon DEF Next2, Layout
<1>7. CASE UNCHANGED vars
  BY <1>7
  DEF OneLayoutInv, LayoutInv, CountersBehind, Clean, Gapless, Adjacent, IsLastOf, InPlace,
      EntriesFrom, DefinedWithin, BeforeLayout, PlainLayout, Compressing, Undisturbed, NoAligns,
      InOrderWithLabels, Sized, pass2_node_size_now, ir_is_explicit_c,
      vars, globals, pass1_vars
<1> QED
  BY <1>1, <1>4, <1>5, <1>6, <1>7 DEF Next

\* Without auto-compression and .align or .space, a label of the table has the address
\* at which pass 2 puts the entry it stands before, for every source: pass1.c and
\* pass2.c count the same bytes.
THEOREM LabelsMatch == Spec => []LabelsMatchOutput
<1>1. Init => OneLayoutInv
  <2> SUFFICES ASSUME Init
               PROVE  OneLayoutInv
    OBVIOUS
  <2>1. /\ stage = "parse" /\ ir = <<>> /\ symtab = Empty /\ pcs = [s \in Sections |-> 0]
    BY DEF Init, Init1
  <2>2. LayoutInv
    BY LayoutInit DEF Init
  <2>3. Len(ir) + 1 = 1 /\ DOMAIN ir = {} /\ DOMAIN symtab = {}
    BY <2>1 DEF Empty
  <2>4. \A s \in Sections : Laid(ir, s, Len(ir) + 1) /\ After(ir, s, Len(ir) + 1, pcs[s])
    BY <2>1, <2>3, LaidFirst
  <2> QED
    BY <2>2, <2>3, <2>4 DEF OneLayoutInv, CountersBehind, InOrderWithLabels, InPlace
<1>2. OneLayoutInv /\ PlacementInv => LabelsMatchOutput
  <2> SUFFICES ASSUME OneLayoutInv, PlacementInv, stage = "emit", ~Compressing, Undisturbed,
                      NEW l \in DOMAIN symtab, NEW n \in DOMAIN ir,
                      n >= label_def[l].next, ir[n].sect = label_def[l].sect,
                      \A m \in label_def[l].next .. n - 1 : ir[m].sect # label_def[l].sect
               PROVE  symtab[l] = S32(ir[n].addr)
    BY DEF LabelsMatchOutput, Undisturbed, NoAligns
  <2> DEFINE d == label_def[l]
  <2>1. /\ TypeInv /\ TypeOK1 /\ Len(ir) \in Nat /\ DOMAIN ir = 1 .. Len(ir)
    BY IRType, TypeParts DEF PlacementInv, OutputInv, DeliveryInv, TypeInv
  <2>2. d.next \in Nat
    BY <2>1 DEF TypeOK1
  <2>3. InPlace
    BY DEF OneLayoutInv, PlainLayout, InOrderWithLabels
  <2>4. n \in EntriesFrom(d)
    BY <2>1, <2>2 DEF EntriesFrom
  <2>5. \A m \in EntriesFrom(d) : n <= m
    BY <2>1, <2>2 DEF EntriesFrom
  <2> QED
    BY <2>3, <2>4, <2>5 DEF InPlace
<1> QED
  BY <1>1, <1>2, OneLayoutStep, PlacementInvariant, PTL DEF Spec
=============================================================================
