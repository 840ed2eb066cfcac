------------------------------- MODULE Pass2 -------------------------------
(***************************************************************************)
(* Pass 2 (src/pass2.c): lay the sections out, choose compressed forms,    *)
(* re-lay the text until no choice is dropped (eight times at most), then  *)
(* walk the IR and write every entry.  Each loop of the source is an       *)
(* action that handles entry i and one that leaves the loop.               *)
(***************************************************************************)
EXTENDS Globals, Bits

CONSTANT WritesMayFail     \* whether fwrite or realloc may fail under a write

ASSUME WritesAssumption == WritesMayFail \in BOOLEAN

VARIABLES
  i,            \* the loop index, from 1
  pc,           \* the pc of pass2_assign_addresses
  iter,         \* the iteration of pass2_relayout_and_validate
  changed,      \* pass2_validate_compressed_ranges dropped a choice
  planned,      \* pass2_plan_choices' count
  out_section, seen_text,
  out_len,      \* bytes written to each section
  has_rvc,      \* G.has_rvc
  chunks,       \* what was written, in order
  run_ok        \* pass2_run's result

pass2_vars == <<i, pc, iter, changed, planned, out_section, seen_text, out_len, has_rvc,
                chunks, run_ok>>
layout_vars == <<i, pc, iter, changed, planned>>
sink_vars == <<out_section, seen_text, out_len, has_rvc, chunks>>

MaxIters == 8

\* The state before main() reaches pass 2, static initialisers included.
Pass2Idle ==
  /\ i = 1 /\ pc = 0 /\ iter = 0 /\ changed = FALSE /\ planned = 0
  /\ out_section = "SEC_TEXT" /\ seen_text = FALSE
  /\ out_len = [s \in Sections |-> 0]
  /\ has_rvc = FALSE /\ chunks = <<>> /\ run_ok = FALSE

\* pass2_initialize, out_begin and out_set_file, then pass2_run up to its first loop.
pass2_initialize ==
  /\ stage' = "data_layout"
  /\ had_error' = FALSE
  /\ UNCHANGED <<cfg, symtab, ir, pass2_vars>>

GoTo_FromZero(s) == stage' = s /\ i' = 0 /\ pc' = 0     \* mutant of GoTo

\* Leave the current loop for the one of stage s.
GoTo(s) == stage' = s /\ i' = 1 /\ pc' = 0

-----------------------------------------------------------------------------
(***************************************************************************)
(* Layout.                                                                 *)
(***************************************************************************)
pass2_node_size_now_NoChoice(e) == IF e.forced_size = "IR_SIZE_2" THEN 2 ELSE 4    \* mutant

pass2_node_size_now(e) ==
  IF ir_is_explicit_c(e) \/ e.forced_size = "IR_SIZE_2" THEN 2
  ELSE IF e.forced_size = "IR_SIZE_4" THEN 4
  ELSE IF e.has_c_choice THEN 2 ELSE 4

\* The entry with the size and address pass2_assign_addresses gives it at pc.
\* An IR_ALIGN entry is aligned to its imm, and so placed after its padding.
Placed(e, at) ==
  CASE e.kind = "IR_DATA" -> [e EXCEPT !.addr = at]
    [] e.kind = "IR_INSTR" -> [e EXCEPT !.size = pass2_node_size_now(e), !.addr = at]
    [] e.kind = "IR_ALIGN" ->
         LET a == U32(e.imm)
             pad == IF a > 1 THEN Pad(at, a) ELSE 0
         IN [e EXCEPT !.size = pad, !.addr = Add32(at, pad)]

\* Mutant of AssignAddress: an entry of the other section holds the loop up.
AssignAddress_Stuck(sect) ==
  /\ i <= Len(ir) /\ ir[i].sect = sect
  /\ ir' = [ir EXCEPT ![i] = Placed(@, pc)]
  /\ pc' = Add32(pc, Placed(ir[i], pc).size)
  /\ i' = i + 1
  /\ UNCHANGED <<stage, cfg, symtab, had_error, iter, changed, planned, sink_vars, run_ok>>

AssignAddress(sect) ==
  /\ i <= Len(ir)
  /\ IF ir[i].sect = sect
     THEN /\ ir' = [ir EXCEPT ![i] = Placed(@, pc)]
          /\ pc' = Add32(pc, Placed(ir[i], pc).size)
     ELSE UNCHANGED <<ir, pc>>
  /\ i' = i + 1
  /\ UNCHANGED <<stage, cfg, symtab, had_error, iter, changed, planned, sink_vars, run_ok>>

DataLayout == stage = "data_layout" /\ AssignAddress("SEC_DATA")

DataLayoutDone ==
  /\ stage = "data_layout" /\ i > Len(ir)
  /\ GoTo(IF Compressing THEN "plan" ELSE "text_layout")
  /\ UNCHANGED <<cfg, symtab, ir, had_error, iter, changed, planned, sink_vars, run_ok>>

pass2_node_can_attempt(e) ==
  /\ Compressing
  /\ e.kind = "IR_INSTR"
  /\ ~ir_is_explicit_c(e)
  /\ e.forced_size # "IR_SIZE_4"
  /\ e.can_compress
  /\ e.reloc \in {"RELOC_NONE", "RELOC_BOFF", "RELOC_JTGT"}
  /\ e.sect = "SEC_TEXT"

pass2_plan_choices ==
  /\ stage = "plan" /\ i <= Len(ir)
  /\ IF ~pass2_node_can_attempt(ir[i]) THEN UNCHANGED <<ir, planned>>
     ELSE IF c_can_map(cfg, ir[i])
     THEN /\ ir' = [ir EXCEPT ![i] = ir_set_c_choice(@, c_try_map(cfg, @))]
          /\ planned' = planned + 1
     ELSE /\ ir' = [ir EXCEPT ![i] = ir_clear_c_choice(@)]
          /\ UNCHANGED planned
  /\ i' = i + 1
  /\ UNCHANGED <<stage, cfg, symtab, had_error, pc, iter, changed, sink_vars, run_ok>>

PlanDone ==
  /\ stage = "plan" /\ i > Len(ir)
  /\ GoTo("text_layout")
  /\ iter' = 1
  /\ UNCHANGED <<cfg, symtab, ir, had_error, changed, planned, sink_vars, run_ok>>

TextLayout == stage = "text_layout" /\ AssignAddress("SEC_TEXT")

TextLayoutDone ==
  /\ stage = "text_layout" /\ i > Len(ir)
  /\ GoTo(IF Compressing THEN "validate" ELSE "emit")
  /\ changed' = FALSE
  /\ UNCHANGED <<cfg, symtab, ir, had_error, iter, planned, sink_vars, run_ok>>

-----------------------------------------------------------------------------
(***************************************************************************)
(* Validation of the choices whose displacement depends on the layout.     *)
(***************************************************************************)
ShortBranches == {"OP_C_BEQZ", "OP_C_BNEZ"}
ShortJumps == {"OP_C_J", "OP_C_JAL"}
PcRelOps == ShortBranches \cup ShortJumps

pass2_choice_range_ok(ch, disp) ==
  CASE ch.op \in ShortBranches -> EvenIn(disp, -256, 254)
    [] ch.op \in ShortJumps -> EvenIn(disp, -2048, 2046)
    [] OTHER -> TRUE

\* int32_t subtraction, which wraps in the builds the Makefile makes.
pass2_compute_disp(from, to) == S32(to - from)

\* Mutant of Validated: the choice keeps the displacement of its first layout.
Validated_StaleDisp(e) ==
  LET ch == e.choice
      to == search_sym(ch.label)
      disp == pass2_compute_disp(e.addr, to)
  IN IF ~e.has_c_choice \/ ch.op \notin PcRelOps \/ ch.label = NoLabel THEN e
     ELSE IF to < 0 \/ ~pass2_choice_range_ok(ch, disp) THEN ir_clear_c_choice(e)
     ELSE e

\* What becomes of entry e: with a label that is unknown (or whose address reads
\* as negative) or out of range the choice is dropped, in range it takes the
\* displacement; a branch to a number is left as it is.
Validated(e) ==
  LET ch == e.choice
      to == search_sym(ch.label)
      disp == pass2_compute_disp(e.addr, to)
  IN IF ~e.has_c_choice \/ ch.op \notin PcRelOps \/ ch.label = NoLabel THEN e
     ELSE IF to < 0 \/ ~pass2_choice_range_ok(ch, disp) THEN ir_clear_c_choice(e)
     ELSE [e EXCEPT !.choice.imm = disp]

Drops_AnyUpdate(e) == Validated(e) # e            \* mutant of Drops

Drops(e) == e.has_c_choice /\ ~Validated(e).has_c_choice

pass2_validate_compressed_ranges ==
  /\ stage = "validate" /\ i <= Len(ir)
  /\ IF ir[i].sect = "SEC_TEXT"
     THEN /\ ir' = [ir EXCEPT ![i] = Validated(@)]
          /\ changed' = (changed \/ Drops(ir[i]))
     ELSE UNCHANGED <<ir, changed>>
  /\ i' = i + 1
  /\ UNCHANGED <<stage, cfg, symtab, had_error, pc, iter, planned, sink_vars, run_ok>>

\* Mutant of Relayout: validate again without assigning addresses.
Relayout_NoLayout ==
  /\ stage = "validate" /\ i > Len(ir)
  /\ changed /\ iter < MaxIters
  /\ GoTo("validate")
  /\ iter' = iter + 1 /\ changed' = FALSE
  /\ UNCHANGED <<cfg, symtab, ir, had_error, planned, sink_vars, run_ok>>

\* pass2_relayout_and_validate goes round again when a choice was dropped, unless
\* that was iteration MaxIters; its caller ignores which way it ended.
Relayout ==
  /\ stage = "validate" /\ i > Len(ir)
  /\ changed /\ iter < MaxIters
  /\ GoTo("text_layout")
  /\ iter' = iter + 1
  /\ UNCHANGED <<cfg, symtab, ir, had_error, changed, planned, sink_vars, run_ok>>

RelayoutDone ==
  /\ stage = "validate" /\ i > Len(ir)
  /\ ~changed \/ iter = MaxIters
  /\ GoTo("emit")
  /\ UNCHANGED <<cfg, symtab, ir, had_error, iter, changed, planned, sink_vars, run_ok>>

-----------------------------------------------------------------------------
(***************************************************************************)
(* Emission.                                                               *)
(***************************************************************************)

\* The operands to emit: the compressed choice when the entry has one.  A short
\* branch carries its displacement, so its label is dropped.
c_materialize(e) ==
  IF ~e.has_c_choice
  THEN [op |-> e.op, fmt |-> e.fmt, rd |-> e.rd, rs1 |-> e.rs1, rs2 |-> e.rs2,
        imm |-> e.imm, label |-> e.label, reloc |-> e.reloc]
  ELSE IF e.choice.op \in PcRelOps
  THEN [e.choice EXCEPT !.label = NoLabel, !.reloc = "RELOC_NONE"]
  ELSE e.choice

\* The high part of an offset, rounded so that the low part is a signed 12 bits.
Hi20(off) == ((off + 2048) \div 4096) * 4096

\* For a label the table holds at a non-negative address.
resolve_label(l, reloc, addr) ==
  LET off == search_sym(l) - addr
  IN S32(CASE reloc = "RELOC_HI20" -> Hi20(off)
           [] reloc = "RELOC_LO12" -> off - Hi20(off)
           [] reloc \in {"RELOC_BOFF", "RELOC_JTGT"} -> off
           [] OTHER -> search_sym(l))

Undefined(x) == x.label # NoLabel /\ search_sym(x.label) < 0

\* A label without a relocation kind is an error.
Unrelocated(x) == x.label # NoLabel /\ x.reloc = "RELOC_NONE"

\* The operands with the label resolved into imm.
Resolved(x, addr) ==
  IF x.label = NoLabel THEN x ELSE [x EXCEPT !.imm = resolve_label(x.label, x.reloc, addr)]

\* Refused without raising had_error: a compressed instruction this target lacks.
NotAvailable(x) == is_c_fmt(x.fmt) /\ ~require_c_for_op(cfg, x.op)

\* Refused with had_error raised.
Rejected(x, addr) ==
  \/ ~is_c_fmt(x.fmt) /\ ~require_for_op(cfg, x.op)
  \/ Undefined(x) \/ Unrelocated(x)
  \/ IF is_c_fmt(x.fmt) THEN ~c_encode_instruction(cfg, Resolved(x, addr))
     ELSE ~encode_instruction(cfg, Resolved(x, addr))

Emittable(x, addr) == ~NotAvailable(x) /\ ~Rejected(x, addr)

\* pass2_run calls pass2_emit_section for the first entry and at every change.
EntersSection == i = 1 \/ ir[i].sect # out_section
BackToData == EntersSection /\ seen_text /\ ir[i].sect = "SEC_DATA"

Stop(ok) == stage' = "finalize" /\ run_ok' = ok

\* Write n bytes, the word w, for entry i; a failed write ends pass2_run without an
\* error flag.  imm is the immediate that went into w.
Write(n, w, imm) ==
  \/ /\ chunks' = Append(chunks, [idx |-> i, sect |-> ir[i].sect, pos |-> out_len[ir[i].sect],
                                  size |-> n, bits |-> w, imm |-> imm])
     /\ out_len' = [out_len EXCEPT ![ir[i].sect] = @ + n]
     /\ i' = i + 1
     /\ UNCHANGED <<stage, run_ok>>
  \/ /\ WritesMayFail
     /\ Stop(FALSE)
     /\ UNCHANGED <<chunks, out_len, i>>

\* The entry at hand, its section entered.
AtEntry(kind) ==
  /\ stage = "emit" /\ i <= Len(ir)
  /\ ir[i].kind = kind
  /\ ~BackToData
  /\ out_section' = ir[i].sect
  /\ seen_text' = (seen_text \/ ir[i].sect = "SEC_TEXT")
  /\ UNCHANGED <<cfg, symtab, ir, pc, iter, changed, planned>>

RefuseSection ==
  /\ stage = "emit" /\ i <= Len(ir)
  /\ BackToData
  /\ had_error' = TRUE
  /\ Stop(FALSE)
  /\ UNCHANGED <<cfg, symtab, ir, layout_vars, sink_vars>>

\* Nothing to write when the layout left the entry no bytes.
pass2_emit_align ==
  /\ AtEntry("IR_ALIGN")
  /\ IF ir[i].size = 0
     THEN i' = i + 1 /\ UNCHANGED <<stage, run_ok, chunks, out_len>>
     ELSE Write(ir[i].size, {}, 0)
  /\ UNCHANGED <<had_error, has_rvc>>

\* Data is written in .data only.
pass2_emit_data ==
  /\ AtEntry("IR_DATA")
  /\ IF ir[i].sect = "SEC_DATA"
     THEN Write(ir[i].size, ValueBits(ir[i].imm, ir[i].size), ir[i].imm) /\ UNCHANGED had_error
     ELSE had_error' = TRUE /\ Stop(FALSE) /\ UNCHANGED <<chunks, out_len, i>>
  /\ UNCHANGED has_rvc

MarksRvc_AnySection(short) == short /\ cfg.out_fmt = "OUT_ELF"     \* mutant of MarksRvc

MarksRvc(short) == short /\ cfg.out_fmt = "OUT_ELF" /\ ir[i].sect = "SEC_TEXT"

pass2_emit_instr ==
  /\ AtEntry("IR_INSTR")
  /\ LET x == c_materialize(ir[i])
         short == is_c_fmt(x.fmt)
         y == Resolved(x, ir[i].addr)
     IN IF Emittable(x, ir[i].addr)
        THEN /\ Write(IF short THEN 2 ELSE 4, InstrBits(cfg, y), y.imm)
             /\ has_rvc' = (has_rvc \/ MarksRvc(short))
             /\ UNCHANGED had_error
        ELSE /\ had_error' = (had_error \/ ~NotAvailable(x))
             /\ Stop(FALSE)
             /\ UNCHANGED <<chunks, out_len, i, has_rvc>>

EmitDone ==
  /\ stage = "emit" /\ i > Len(ir)
  /\ Stop(~had_error)
  /\ UNCHANGED <<cfg, symtab, ir, had_error, layout_vars, sink_vars>>

-----------------------------------------------------------------------------
Layout ==
  \/ DataLayout \/ DataLayoutDone
  \/ pass2_plan_choices \/ PlanDone
  \/ TextLayout \/ TextLayoutDone
  \/ pass2_validate_compressed_ranges \/ Relayout \/ RelayoutDone

Emission ==
  \/ RefuseSection \/ pass2_emit_align \/ pass2_emit_data \/ pass2_emit_instr \/ EmitDone

Next2 == Layout \/ Emission
=============================================================================
