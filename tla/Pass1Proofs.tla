---------------------------- MODULE Pass1Proofs ----------------------------
(***************************************************************************)
(* Theorems about pass 1, its types and the layout it computes, for every  *)
(* source file, every width of the program counters and every outcome of   *)
(* an undefined shift or a failed allocation.                              *)
(***************************************************************************)
EXTENDS Pass1, TLAPS

-----------------------------------------------------------------------------
(***************************************************************************)
(* Arithmetic.                                                             *)
(***************************************************************************)

\* A sum of two words is a word again: pass_advance_pc keeps its uint32_t.
LEMMA Add32Type == \A a, b \in Word : Add32(a, b) \in Word
BY WidthAssumption DEF Add32, Word, Mod32

\* Narrowing to uint32_t gives a word.
LEMMA U32Type == \A n \in Int : U32(n) \in Word
<1> TAKE n \in Int
<1>1. Mod32 \in Nat /\ Mod32 > 0
  BY WidthAssumption DEF Mod32
<1>2. n % Mod32 \in 0 .. (Mod32 - 1)
  BY <1>1
<1> QED
  BY <1>2 DEF U32, Word

\* A word read as int32_t is an int.
LEMMA S32Type == \A a \in Word : S32(a) \in Int32
<1> TAKE a \in Word
<1>1. Mod32 \in Nat /\ Mod32 > 0 /\ Mod32 = 2 * HalfMod
  BY WidthAssumption DEF Mod32
<1>2. U32(a) \in 0 .. (Mod32 - 1)
  BY U32Type, <1>1 DEF Word
<1> QED
  BY <1>1, <1>2, WidthAssumption DEF S32, Int32

\* The padding up to a multiple of a is a word less than a.
LEMMA PadType == \A addr \in Word, a \in 1 .. HalfMod : Pad(addr, a) \in Word
<1> TAKE addr \in Word, a \in 1 .. HalfMod
<1>1. addr % a \in 0 .. (a - 1)
  BY WidthAssumption DEF Word, Mod32
<1>2. (a - (addr % a)) % a \in 0 .. (a - 1)
  BY <1>1, WidthAssumption
<1> QED
  BY <1>2, WidthAssumption DEF Pad, Word, Mod32

-----------------------------------------------------------------------------
(***************************************************************************)
(* What the constructors of the IR and the statements of the grammar hold. *)
(***************************************************************************)

\* Operands without a label are operands (the emit calls of assembler.y).
LEMMA PlainType ==
  \A op \in Opcodes, fmt \in Formats, rd, rs1, rs2 \in Registers, imm \in Int :
    Plain(op, fmt, rd, rs1, rs2, imm) \in Operands
BY DEF Plain, Operands, Relocs

\* The zeroed choice of a new entry is one too (ir.c).
LEMMA ZeroChoiceType == ZeroChoice \in Operands
<1>1. 0 \in Registers /\ "OP_ADD" \in Opcodes /\ "IF_R" \in Formats
  BY DEF Registers, Opcodes, Formats, WideFormats
<1> QED
  BY <1>1, PlainType DEF ZeroChoice

\* ir_append_instr makes an entry of the operands it is given.
LEMMA InstrEntryType ==
  \A x \in Operands, sect \in Sections, addr, size \in Word :
    ir_append_instr(x, sect, addr, size) \in Entry
BY ZeroChoiceType DEF Operands, Entry, ir_append_instr, Relocs, ForcedSizes, Kinds

\* A zeroed entry with the fields every constructor of ir.c sets is an entry.
LEMMA BlankEntryType ==
  \A kind \in Kinds, sect \in Sections, addr, size \in Word :
    BlankEntry(kind, sect, addr, size) \in Entry
BY ZeroChoiceType DEF Entry, BlankEntry, Opcodes, Formats, WideFormats, Relocs, ForcedSizes,
   Registers

\* ir_append_align makes an entry of the address and size it is given.
LEMMA AlignEntryType ==
  \A sect \in Sections, addr, size \in Word : ir_append_align(sect, addr, size) \in Entry
BY BlankEntryType DEF ir_append_align, Kinds

\* ir_append_data makes an entry, whatever the value.
LEMMA DataEntryType ==
  \A sect \in Sections, addr, size \in Word, word \in Int :
    ir_append_data(sect, addr, word, size) \in Entry
<1> TAKE sect \in Sections, addr, size \in Word, word \in Int
<1>1. \A e \in Entry : [e EXCEPT !.imm = word] \in Entry
  BY DEF Entry
<1>2. BlankEntry("IR_DATA", sect, addr, size) \in Entry
  BY BlankEntryType DEF Kinds
<1> QED
  BY <1>1, <1>2 DEF ir_append_data

\* The instructions the productions build are operands (assembler.y).
LEMMA InstructionType == Instruction \subseteq Operands
BY DEF Instruction

\* Operands with a label and a relocation, field by field (assembler.y).
LEMMA LabelledIs ==
  \A x \in Operands, l \in Labels, rk \in Relocs :
    LET y == Labelled(x, l, rk)
    IN /\ y \in Operands
       /\ y.op = x.op /\ y.fmt = x.fmt /\ y.rd = x.rd /\ y.rs1 = x.rs1 /\ y.rs2 = x.rs2
       /\ y.imm = x.imm /\ y.label = l /\ y.reloc = rk
BY ZenonT(60) DEF Labelled, Operands

\* The two instructions of la are among those the productions build (assembler.y).
LEMMA LaType ==
  \A rd \in Registers, l \in Labels :
    la_hi(rd, l) \in Instruction /\ la_lo(rd, l) \in Instruction
<1> TAKE rd \in Registers, l \in Labels
<1>1. /\ "OP_AUIPC" \in Opcodes /\ "OP_ADDI" \in Opcodes
      /\ "IF_UI" \in Formats /\ "IF_I" \in Formats
      /\ "RELOC_HI20" \in Relocs /\ "RELOC_LO12" \in Relocs
      /\ 0 \in Registers
  BY DEF Opcodes, Formats, WideFormats, Relocs, Registers
<1>2. l # NoLabel
  BY LabelAssumption
<1>3. la_hi(rd, l) \in Instruction
  <2> DEFINE x == ui_type("OP_AUIPC", rd, 0)
             y == la_hi(rd, l)
  <2>1. x \in Operands
    BY <1>1, PlainType DEF ui_type
  <2>2. /\ x.op = "OP_AUIPC" /\ x.fmt = "IF_UI" /\ x.rs1 = 0 /\ x.rs2 = 0 /\ x.imm = 0
    BY DEF ui_type, Plain
  <2>3. /\ y \in Operands /\ y.op = "OP_AUIPC" /\ y.fmt = "IF_UI"
        /\ y.rs1 = 0 /\ y.rs2 = 0 /\ y.imm = 0 /\ y.label = l /\ y.reloc = "RELOC_HI20"
    BY <1>1, <2>1, <2>2, LabelledIs DEF la_hi
  <2> QED
    BY <1>2, <2>3 DEF Instruction, OpsOf, RelocOf, NoRd, NoRs1, HasRs2, NoImm
<1>4. la_lo(rd, l) \in Instruction
  <2> DEFINE x == i_type("OP_ADDI", rd, rd, 0)
             y == la_lo(rd, l)
  <2>1. x \in Operands
    BY <1>1, PlainType DEF i_type
  <2>2. /\ x.op = "OP_ADDI" /\ x.fmt = "IF_I" /\ x.rs2 = 0 /\ x.imm = 0
    BY DEF i_type, Plain
  <2>3. /\ y \in Operands /\ y.op = "OP_ADDI" /\ y.fmt = "IF_I"
        /\ y.rs2 = 0 /\ y.imm = 0 /\ y.label = l /\ y.reloc = "RELOC_LO12"
    BY <1>1, <2>1, <2>2, LabelledIs DEF la_lo
  <2> QED
    BY <1>2, <2>3 DEF Instruction, OpsOf, RelocOf, NoRd, NoRs1, HasRs2, NoImm
<1> QED
  BY <1>3, <1>4

\* What the parser reads is a statement.
LEMMA ReadStatement == \A s \in Lines : s \in Statement
BY SourceAssumption DEF Lines

\* The operand of a directive, by its tag.
LEMMA StatementFields ==
  \A s \in Statement :
    /\ s.t = "align" => s.bytes \in 0 .. HalfMod
    /\ s.t = "space" => s.bytes \in Int
    /\ s.t = "datum" => s.size \in DataSizes /\ s.value \in Int
    /\ s.t \in {"ascii", "asciiz"} => s.chars \in Nat
    /\ s.t = "instr" => s.x \in Instruction
    /\ s.t = "la" => s.rd \in Registers /\ s.name \in Labels
BY DEF Statement

\* A statement that emits expands to a sequence of items.
LEMMA ItemsType ==
  \A s \in Statement : s.t \in {"ascii", "asciiz", "la", "instr"} => ItemsOf(s) \in Seq(Item)
<1> SUFFICES ASSUME NEW s \in Statement, s.t \in {"ascii", "asciiz", "la", "instr"}
             PROVE  ItemsOf(s) \in Seq(Item)
  OBVIOUS
<1>1. \A v \in Int : Data(1, v) \in Item
  BY DEF Data, Item, DataSizes
<1>2. \A x \in Instruction : Instr(x) \in Item
  BY DEF Instr, Item
<1>3. CASE s.t = "ascii"
  <2>1. ItemsOf(s) = [n \in 1 .. s.chars |-> Data(1, 97)]
    BY <1>3 DEF ItemsOf
  <2> QED
    BY <1>1, <1>3, <2>1, StatementFields
<1>4. CASE s.t = "asciiz"
  <2>1. ItemsOf(s) = [n \in 1 .. s.chars + 1 |-> Data(1, IF n > s.chars THEN 0 ELSE 97)]
    BY <1>4 DEF ItemsOf
  <2> QED
    BY <1>1, <1>4, <2>1, StatementFields
<1>5. CASE s.t = "la"
  <2>1. s.rd \in Registers /\ s.name \in Labels
    BY <1>5, StatementFields
  <2>2. la_hi(s.rd, s.name) \in Instruction /\ la_lo(s.rd, s.name) \in Instruction
    BY <2>1, LaType
  <2>4. ItemsOf(s) = <<Instr(la_hi(s.rd, s.name)), Instr(la_lo(s.rd, s.name))>>
    BY <1>5 DEF ItemsOf
  <2> QED
    BY <1>2, <2>2, <2>4
<1>6. CASE s.t = "instr"
  <2>1. ItemsOf(s) = <<Instr(s.x)>>
    BY <1>6 DEF ItemsOf
  <2> QED
    BY <1>2, <1>6, <2>1, StatementFields
<1> QED
  BY <1>3, <1>4, <1>5, <1>6

-----------------------------------------------------------------------------
(***************************************************************************)
(* Type correctness.                                                       *)
(***************************************************************************)

\* pass_advance_pc leaves both counters words (pass.c).
LEMMA AdvanceType ==
  ASSUME TypeOK1, NEW bytes \in Word, pass_advance_pc(bytes)
  PROVE  pcs' \in [Sections -> Word] /\ wrapped' \in BOOLEAN
<1>1. pcs[cur_section] \in Word
  BY DEF TypeOK1
<1>2. Add32(pcs[cur_section], bytes) \in Word
  BY <1>1, Add32Type
<1>3. pcs' \in [Sections -> Word]
  BY <1>2 DEF TypeOK1, pass_advance_pc
<1>4. wrapped' \in BOOLEAN
  BY DEF TypeOK1, pass_advance_pc
<1> QED
  BY <1>3, <1>4

\* Appending an entry, or losing it, leaves a sequence of entries (ir.c).
LEMMA AppendType ==
  ASSUME TypeOK1, NEW e \in Entry, AppendToIR(e)
  PROVE  ir' \in Seq(Entry) /\ reported' \in BOOLEAN
<1>1. ir' \in Seq(Entry)
  <2>1. ir' = Append(ir, e) \/ ir' = ir
    BY Zenon DEF AppendToIR
  <2>2. ir \in Seq(Entry)
    BY DEF TypeOK1, GlobalsTypeOK
  <2> QED
    BY <2>1, <2>2
<1>2. reported' \in BOOLEAN
  BY Zenon DEF TypeOK1, AppendToIR
<1> QED
  BY <1>1, <1>2

\* Every size a statement may ask for is a word.
LEMMA SmallWords == {1, 2, 4, 8} \subseteq Word
BY WidthAssumption DEF Word, Mod32

\* pass_current_pc returns a word (pass.c).
LEMMA CurrentPc ==
  ASSUME TypeOK1
  PROVE  pass_current_pc \in Word /\ cur_section \in Sections
BY DEF TypeOK1, pass_current_pc

\* The initial state is well typed.
LEMMA TypeInit == Init1 => TypeOK1
<1> SUFFICES ASSUME Init1
             PROVE  TypeOK1
  OBVIOUS
<1>1. cfg \in Options
  <2>1. PICK o \in UserOptions : cfg = Configured(o)
    BY DEF Init1
  <2>2. o \in Options
    BY OptionsAssumption
  <2>3. (o.autoC /\ o.extC) \in BOOLEAN
    OBVIOUS
  <2>4. \A b \in BOOLEAN : [o EXCEPT !.autoC = b] \in Options
    BY <2>2 DEF Options
  <2> QED
    BY <2>1, <2>3, <2>4 DEF Configured
<1>2. symtab \in [DOMAIN symtab -> Int32] /\ DOMAIN symtab = {}
  BY DEF Init1, Empty
<1>3. label_def \in [DOMAIN label_def -> [sect : Sections, next : Nat \ {0}]]
  BY DEF Init1, Empty
<1>4. 0 \in Word
  BY WidthAssumption DEF Word, Mod32
<1>5. pcs \in [Sections -> Word]
  BY <1>4 DEF Init1
<1>6. ir \in Seq(Entry) /\ todo \in Seq(Item)
  BY DEF Init1
<1>7. stage \in Stages /\ cur_section \in Sections
  BY DEF Init1, Stages, Sections
<1>8. /\ had_error \in BOOLEAN /\ text_entered \in BOOLEAN
      /\ reported \in BOOLEAN /\ wrapped \in BOOLEAN
  BY Zenon DEF Init1
<1>9. line \in Nat \ {0} /\ parse_rc \in {0, 1}
  BY DEF Init1
<1>10. DOMAIN symtab \subseteq Labels /\ DOMAIN symtab \subseteq DOMAIN label_def
  BY <1>2
<1> QED
  BY <1>1, <1>2, <1>3, <1>5, <1>6, <1>7, <1>8, <1>9, <1>10 DEF TypeOK1, GlobalsTypeOK

\* Every step of the parser keeps the types.
LEMMA TypeStep == TypeOK1 /\ [Next1]_vars1 => TypeOK1'
<1> SUFFICES ASSUME TypeOK1, [Next1]_vars1
             PROVE  TypeOK1'
  OBVIOUS
<1> USE DEF TypeOK1, GlobalsTypeOK
<1>1. CASE Label
  <2>1. PICK l \in Labels, kept \in SUBSET DOMAIN symtab :
          /\ Reads(label(l))
          /\ \/ /\ symtab' = [x \in kept \cup {l} |-> IF x = l THEN LabelAddress ELSE symtab[x]]
                /\ label_def' = [x \in DOMAIN label_def \cup {l} |->
                                   IF x = l THEN [sect |-> cur_section, next |-> Len(ir) + 1]
                                   ELSE label_def[x]]
                /\ reported' = (reported \/ kept # DOMAIN symtab)
             \/ /\ symtab' = [x \in kept |-> symtab[x]]
                /\ reported' = TRUE
                /\ UNCHANGED label_def
    BY <1>1, ZenonT(60) DEF Label, Survivors
  <2>2. UNCHANGED <<stage, cfg, ir, had_error, todo, cur_section, text_entered, pcs,
                    parse_rc, wrapped>>
    BY <1>1 DEF Label
  <2>3. line' \in Nat \ {0}
    BY <2>1 DEF Reads
  <2>4. LabelAddress \in Int32
    BY CurrentPc, S32Type DEF LabelAddress
  <2>5. Len(ir) + 1 \in Nat \ {0}
    OBVIOUS
  <2>6. /\ DOMAIN symtab' \subseteq Labels
        /\ symtab' \in [DOMAIN symtab' -> Int32]
        /\ DOMAIN symtab' \subseteq DOMAIN label_def'
        /\ label_def' \in [DOMAIN label_def' -> [sect : Sections, next : Nat \ {0}]]
        /\ reported' \in BOOLEAN
    <3>1. CASE symtab' = [x \in kept |-> symtab[x]] /\ reported' = TRUE /\ UNCHANGED label_def
      BY <3>1
    <3>2. CASE /\ symtab' = [x \in kept \cup {l} |-> IF x = l THEN LabelAddress ELSE symtab[x]]
               /\ label_def' = [x \in DOMAIN label_def \cup {l} |->
                                   IF x = l THEN [sect |-> cur_section, next |-> Len(ir) + 1]
                                   ELSE label_def[x]]
               /\ reported' = (reported \/ kept # DOMAIN symtab)
      BY <2>4, <2>5, <3>2
    <3> QED
      BY <2>1, <3>1, <3>2
  <2> QED
    BY <2>2, <2>3, <2>6
<1>2. CASE DotText \/ DotData
  <2>1. PICK s \in Statement, sect \in Sections : SetSection(s, sect)
    BY <1>2 DEF DotText, DotData, dot_text, dot_data, Sections, Statement
  <2>2. text_entered' \in BOOLEAN
    BY <2>1 DEF SetSection
  <2>3. line' \in Nat \ {0} /\ cur_section' \in Sections
    BY <2>1 DEF SetSection, Reads
  <2>4. UNCHANGED <<globals, todo, pcs, parse_rc, reported, wrapped, label_def>>
    BY <2>1 DEF SetSection
  <2> QED
    BY <2>2, <2>3, <2>4 DEF globals
<1>3. CASE Align
  <2>1. PICK s \in Lines :
          /\ s.t = "align" /\ Reads(s)
          /\ \E a \in IF s.bytes = 0 THEN UndefinedAlign ELSE {s.bytes} :
               LET pad == Pad(pass_current_pc, a)
                   aligned == Add32(pass_current_pc, pad)
               IN /\ pass_advance_pc(pad)
                  /\ IF aligned > 0
                     THEN AppendToIR(ir_append_align(cur_section, pass_current_pc, aligned))
                     ELSE UNCHANGED <<ir, reported>>
    BY <1>3 DEF Align
  <2>2. s.bytes \in 0 .. HalfMod
    BY <2>1, ReadStatement, StatementFields
  <2>3. PICK a \in 1 .. HalfMod :
          /\ pass_advance_pc(Pad(pass_current_pc, a))
          /\ \/ AppendToIR(ir_append_align(cur_section, pass_current_pc,
                                           Add32(pass_current_pc, Pad(pass_current_pc, a))))
             \/ UNCHANGED <<ir, reported>>
    BY <2>1, <2>2, AlignAssumption, WidthAssumption
  <2>4. Pad(pass_current_pc, a) \in Word
    BY CurrentPc, PadType
  <2>5. Add32(pass_current_pc, Pad(pass_current_pc, a)) \in Word
    BY <2>4, CurrentPc, Add32Type
  <2>6. ir' \in Seq(Entry) /\ reported' \in BOOLEAN
    BY <2>3, <2>5, CurrentPc, AlignEntryType, AppendType
  <2>7. pcs' \in [Sections -> Word] /\ wrapped' \in BOOLEAN
    BY <2>3, <2>4, AdvanceType
  <2>8. line' \in Nat \ {0}
    BY <2>1 DEF Reads
  <2>9. UNCHANGED <<stage, cfg, symtab, had_error, todo, cur_section, text_entered,
                    parse_rc, label_def>>
    BY <1>3 DEF Align
  <2> QED
    BY <2>6, <2>7, <2>8, <2>9
<1>4. CASE Space
  <2>1. PICK s \in Lines :
          /\ s.t = "space" /\ Reads(s)
          /\ \/ yyerror /\ UNCHANGED <<ir, pcs, wrapped>>
             \/ /\ pass_advance_pc(U32(s.bytes))
                /\ \/ AppendToIR(ir_append_align(cur_section, pass_current_pc, U32(s.bytes)))
                   \/ UNCHANGED <<ir, reported>>
                /\ UNCHANGED had_error
    BY <1>4 DEF Space
  <2>2. U32(s.bytes) \in Word
    BY <2>1, ReadStatement, StatementFields, U32Type
  <2>3. ir' \in Seq(Entry) /\ reported' \in BOOLEAN
    BY <2>1, <2>2, CurrentPc, AlignEntryType, AppendType DEF yyerror
  <2>4. pcs' \in [Sections -> Word] /\ wrapped' \in BOOLEAN
    BY <2>1, <2>2, AdvanceType
  <2>5. line' \in Nat \ {0}
    BY <2>1 DEF Reads
  <2>7. had_error' \in BOOLEAN
    BY <2>1, Zenon DEF yyerror
  <2>6. UNCHANGED <<stage, cfg, symtab, todo, cur_section, text_entered, parse_rc,
                    label_def>>
    BY <1>4 DEF Space
  <2> QED
    BY <2>3, <2>4, <2>5, <2>6, <2>7
<1>5. CASE Datum
  <2>1. PICK s \in Lines :
          /\ s.t = "datum" /\ Reads(s)
          /\ \/ todo' = <<Data(s.size, s.value)>> /\ UNCHANGED <<had_error, reported>>
             \/ yyerror /\ UNCHANGED todo
    BY <1>5 DEF Datum
  <2>2. Data(s.size, s.value) \in Item
    BY <2>1, ReadStatement, StatementFields DEF Data, Item
  <2>3. todo' \in Seq(Item)
    <3>1. todo' = <<Data(s.size, s.value)>> \/ todo' = todo
      BY <2>1, Zenon
    <3>2. <<Data(s.size, s.value)>> \in Seq(Item)
      BY <2>2
    <3>3. todo \in Seq(Item)
      OBVIOUS
    <3> QED
      BY <3>1, <3>2, <3>3, Zenon
  <2>6. had_error' \in BOOLEAN /\ reported' \in BOOLEAN
    BY <2>1, Zenon DEF yyerror
  <2>4. line' \in Nat \ {0}
    BY <2>1 DEF Reads
  <2>5. UNCHANGED <<stage, cfg, symtab, ir, cur_section, text_entered, pcs, parse_rc,
                    wrapped, label_def>>
    BY <1>5 DEF Datum
  <2> QED
    BY <2>3, <2>4, <2>5, <2>6
<1>6. CASE Emitting
  <2>1. PICK s \in Lines :
          /\ s.t \in {"ascii", "asciiz", "la", "instr"} /\ Reads(s)
          /\ todo' = ItemsOf(s)
    BY <1>6 DEF Emitting
  <2>2. todo' \in Seq(Item)
    BY <2>1, ReadStatement, ItemsType
  <2>3. line' \in Nat \ {0}
    BY <2>1 DEF Reads
  <2>4. UNCHANGED <<globals, cur_section, text_entered, pcs, parse_rc, reported, wrapped,
                    label_def>>
    BY <1>6 DEF Emitting
  <2> QED
    BY <2>2, <2>3, <2>4 DEF globals
<1>7. CASE pass1_emit_instruction
  <2>1. Head(todo) \in Item /\ Tail(todo) \in Seq(Item)
    BY <1>7 DEF pass1_emit_instruction
  <2>2. Head(todo).x \in Operands
    BY <1>7, <2>1, InstructionType DEF pass1_emit_instruction, Item
  <2>3. InstrSize(Head(todo).x) \in Word
    BY SmallWords DEF InstrSize
  <2>4. ir' \in Seq(Entry) /\ reported' \in BOOLEAN
    BY <1>7, <2>2, <2>3, CurrentPc, InstrEntryType, AppendType DEF pass1_emit_instruction
  <2>5. pcs' \in [Sections -> Word] /\ wrapped' \in BOOLEAN
    BY <1>7, <2>3, AdvanceType DEF pass1_emit_instruction
  <2> QED
    BY <1>7, <2>1, <2>4, <2>5 DEF pass1_emit_instruction
<1>8. CASE pass1_emit_data
  <2>1. Head(todo) \in Item /\ Tail(todo) \in Seq(Item)
    BY <1>8 DEF pass1_emit_data
  <2>2. Head(todo).size \in DataSizes /\ Head(todo).value \in Int
    BY <1>8, <2>1 DEF pass1_emit_data, Item
  <2>3. Head(todo).size \in Word
    BY <2>2, SmallWords DEF DataSizes
  <2>4. ir' \in Seq(Entry) /\ reported' \in BOOLEAN
    BY <1>8, <2>2, <2>3, CurrentPc, DataEntryType, AppendType DEF pass1_emit_data
  <2>5. pcs' \in [Sections -> Word] /\ wrapped' \in BOOLEAN
    BY <1>8, <2>3, AdvanceType DEF pass1_emit_data
  <2> QED
    BY <1>8, <2>1, <2>4, <2>5 DEF pass1_emit_data
<1>9. CASE SyntaxError
  BY <1>9 DEF SyntaxError, Reads, yyerror, Stages
<1>10. CASE EndOfFile
  BY <1>10 DEF EndOfFile, Stages, pass1_vars
<1>11. CASE UNCHANGED vars1
  BY <1>11 DEF vars1, globals, pass1_vars
<1> QED
  BY <1>1, <1>2, <1>3, <1>4, <1>5, <1>6, <1>7, <1>8, <1>9, <1>10, <1>11 DEF Next1

\* Pass 1 keeps every address and size within uint32_t and every table entry within
\* int, whatever the source asks for (pass.c, pass1.c, ir.c).
THEOREM TypeCorrect1 == Spec1 => []TypeOK1
BY TypeInit, TypeStep, PTL DEF Spec1

-----------------------------------------------------------------------------
(***************************************************************************)
(* The layout pass 1 computes: a label keeps its first address, sections   *)
(* have no gaps, labels mark the entries that follow them.  The argument   *)
(* is one induction over the steps of the parser, each of which defines a  *)
(* label, appends one entry at the program counter of its section, or      *)
(* leaves the layout alone.                                                *)
(***************************************************************************)

(***************************************************************************)
(* The first definition of a label stands.                                 *)
(***************************************************************************)

\* insert_sym keeps what the table holds unless memory fails while it grows (symtab.c),
\* and no other step of the parser writes to the table.
THEOREM FirstDefinition == Spec1 => FirstDefinitionWins
<1>1. [Next1]_vars1 =>
        [~(MemoryMayFail /\ Crowded) =>
           \A l \in DOMAIN symtab : l \in DOMAIN symtab' /\ symtab'[l] = symtab[l]]_vars1
  <2> SUFFICES ASSUME Next1, ~(MemoryMayFail /\ Crowded)
               PROVE  \A l \in DOMAIN symtab : l \in DOMAIN symtab' /\ symtab'[l] = symtab[l]
    OBVIOUS
  <2>1. CASE Label
    <3>1. Survivors = {DOMAIN symtab}
      BY DEF Survivors
    <3>2. PICK l \in Labels :
            \/ /\ l \notin DOMAIN symtab
               /\ symtab' = [x \in DOMAIN symtab \cup {l} |->
                               IF x = l THEN LabelAddress ELSE symtab[x]]
            \/ symtab' = [x \in DOMAIN symtab |-> symtab[x]]
      BY <2>1, <3>1 DEF Label, Insertable
    <3> QED
      BY <3>2
  <2>2. CASE UNCHANGED symtab
    BY <2>2
  <2>3. Label \/ UNCHANGED symtab
    BY DEF Next1, DotText, DotData, SetSection, Align, Space, Datum, Emitting,
           pass1_emit_instruction, pass1_emit_data, SyntaxError, EndOfFile, globals
  <2> QED
    BY <2>1, <2>2, <2>3
<1> QED
  BY <1>1, PTL DEF Spec1, FirstDefinitionWins

-----------------------------------------------------------------------------
(***************************************************************************)
(* The steps that leave the parser going without a message or a wrap.      *)
(***************************************************************************)
Quiet == UNCHANGED <<ir, pcs, symtab, label_def>>

Defines(l) ==
  /\ l \notin DOMAIN symtab
  /\ symtab' = [x \in DOMAIN symtab \cup {l} |-> IF x = l THEN LabelAddress ELSE symtab[x]]
  /\ label_def' = [x \in DOMAIN label_def \cup {l} |->
                     IF x = l THEN [sect |-> cur_section, next |-> Len(ir) + 1]
                     ELSE label_def[x]]
  /\ UNCHANGED <<ir, pcs>>

Grows(e, bytes) ==
  /\ e.sect = cur_section /\ e.addr = pcs[cur_section]
  /\ e.kind # "IR_ALIGN" => e.size = bytes
  /\ ir' = Append(ir, e)
  /\ pcs' = [pcs EXCEPT ![cur_section] = @ + bytes]
  /\ UNCHANGED <<symtab, label_def>>

\* A counter that does not wrap advances by the bytes it is given.
LEMMA AdvanceExact ==
  ASSUME TypeOK1, NEW bytes \in Word, pass_advance_pc(bytes), ~wrapped'
  PROVE  ~wrapped /\ pcs' = [pcs EXCEPT ![cur_section] = @ + bytes]
<1>1. pcs[cur_section] \in Word
  BY DEF TypeOK1
<1>2. ~wrapped /\ ~(pcs[cur_section] + bytes >= Mod32)
  BY DEF pass_advance_pc, pass_current_pc
<1>3. Add32(pcs[cur_section], bytes) = pcs[cur_section] + bytes
  BY <1>2 DEF Add32
<1> QED
  BY <1>2, <1>3 DEF pass_advance_pc

\* An entry whose loss is not reported was appended.
LEMMA AppendExact ==
  ASSUME NEW e, AppendToIR(e), ~reported'
  PROVE  ~reported /\ ir' = Append(ir, e)
<1>1. CASE ir' = Append(ir, e) /\ UNCHANGED reported
  BY <1>1
<1>2. CASE reported' = TRUE
  BY <1>2
<1> QED
  BY <1>1, <1>2, Zenon DEF AppendToIR

\* What a clean step does to the layout.
LEMMA CleanStep ==
  ASSUME TypeOK1, Next1, Clean'
  PROVE  /\ Clean
         /\ \/ Quiet
            \/ \E l \in Labels : Defines(l)
            \/ \E e \in Entry, bytes \in Nat : Grows(e, bytes)
<1>w. \A b \in Word : b \in Nat
  BY WidthAssumption DEF Word, Mod32
<1>c. stage' = "parse" /\ ~reported' /\ ~wrapped'
  BY DEF Clean
<1>1. CASE Label
  <2>1. PICK l \in Labels, kept \in Survivors :
          /\ Insertable(kept, l)
          /\ symtab' = [x \in kept \cup {l} |-> IF x = l THEN LabelAddress ELSE symtab[x]]
          /\ label_def' = [x \in DOMAIN label_def \cup {l} |->
                             IF x = l THEN [sect |-> cur_section, next |-> Len(ir) + 1]
                             ELSE label_def[x]]
          /\ reported' = (reported \/ kept # DOMAIN symtab)
          /\ UNCHANGED <<ir, pcs>>
    BY <1>1, <1>c DEF Label
  <2>2. Defines(l) /\ ~reported
    BY <1>c, <2>1 DEF Defines, Insertable
  <2>3. stage = "parse" /\ ~wrapped
    BY <1>1, <1>c DEF Label
  <2> QED
    BY <2>2, <2>3 DEF Clean
<1>2. CASE DotText \/ DotData \/ Emitting
  <2>1. UNCHANGED <<stage, reported, wrapped>> /\ Quiet
    BY <1>2 DEF DotText, DotData, SetSection, Emitting, globals, Quiet
  <2> QED
    BY <1>c, <2>1 DEF Clean
<1>3. CASE Align
  <2>1. PICK s \in Lines, a \in 1 .. HalfMod :
          /\ pass_advance_pc(Pad(pass_current_pc, a))
          /\ IF Add32(pass_current_pc, Pad(pass_current_pc, a)) > 0
             THEN AppendToIR(ir_append_align(cur_section, pass_current_pc,
                                             Add32(pass_current_pc, Pad(pass_current_pc, a))))
             ELSE UNCHANGED <<ir, reported>>
    BY <1>3, ReadStatement, StatementFields, AlignAssumption, WidthAssumption DEF Align
  <2> DEFINE pad == Pad(pass_current_pc, a)
             aligned == Add32(pass_current_pc, pad)
  <2>2. pad \in Word /\ aligned \in Word
    BY CurrentPc, PadType, Add32Type
  <2>3. ~wrapped /\ pcs' = [pcs EXCEPT ![cur_section] = @ + pad]
    BY <1>c, <2>1, <2>2, AdvanceExact
  <2>4. UNCHANGED <<stage, symtab, label_def>>
    BY <1>3 DEF Align
  <2>5. CASE aligned > 0
    <3> DEFINE e == ir_append_align(cur_section, pass_current_pc, aligned)
    <3>1. e \in Entry /\ e.kind = "IR_ALIGN" /\ e.sect = cur_section /\ e.addr = pcs[cur_section]
      BY <2>2, CurrentPc, AlignEntryType DEF ir_append_align, BlankEntry, pass_current_pc
    <3>2. ~reported /\ ir' = Append(ir, e)
      BY <1>c, <2>1, <2>5, AppendExact
    <3>3. Grows(e, pad)
      BY <2>3, <2>4, <3>1, <3>2 DEF Grows
    <3> QED
      BY <1>c, <1>w, <2>2, <2>3, <2>4, <3>1, <3>2, <3>3 DEF Clean
  <2>6. CASE ~(aligned > 0)
    <3>1. UNCHANGED <<ir, reported>>
      BY <2>1, <2>6
    <3>2. ~(pass_current_pc + pad >= Mod32)
      BY <1>c, <2>1 DEF pass_advance_pc
    <3>3. pad = 0
      <4>1. aligned = pass_current_pc + pad
        BY <3>2 DEF Add32
      <4>2. pad \in Nat /\ pass_current_pc \in Nat
        BY <1>w, <2>2, CurrentPc
      <4> QED
        BY <2>6, <4>1, <4>2
    <3>4. pcs' = pcs
      BY <2>3, <3>3 DEF TypeOK1, Word
    <3> QED
      BY <1>c, <2>3, <2>4, <3>1, <3>4 DEF Clean, Quiet
  <2> QED
    BY <2>5, <2>6
<1>4. CASE Space
  <2>1. PICK s \in Lines :
          /\ s.t = "space"
          /\ \/ yyerror
             \/ /\ pass_advance_pc(U32(s.bytes))
                /\ IF U32(s.bytes) > 0
                   THEN AppendToIR(ir_append_align(cur_section, pass_current_pc, U32(s.bytes)))
                   ELSE UNCHANGED <<ir, reported>>
    BY <1>4 DEF Space
  <2> DEFINE size == U32(s.bytes)
  <2>2. size \in Word
    BY <2>1, ReadStatement, StatementFields, U32Type
  <2>3. /\ pass_advance_pc(size)
        /\ IF size > 0
           THEN AppendToIR(ir_append_align(cur_section, pass_current_pc, size))
           ELSE UNCHANGED <<ir, reported>>
    BY <1>c, <2>1 DEF yyerror
  <2>4. ~wrapped /\ pcs' = [pcs EXCEPT ![cur_section] = @ + size]
    BY <1>c, <2>2, <2>3, AdvanceExact
  <2>5. UNCHANGED <<stage, symtab, label_def>>
    BY <1>4 DEF Space
  <2>6. CASE size > 0
    <3> DEFINE e == ir_append_align(cur_section, pass_current_pc, size)
    <3>1. e \in Entry /\ e.kind = "IR_ALIGN" /\ e.sect = cur_section /\ e.addr = pcs[cur_section]
      BY <2>2, CurrentPc, AlignEntryType DEF ir_append_align, BlankEntry, pass_current_pc
    <3>2. ~reported /\ ir' = Append(ir, e)
      BY <1>c, <2>3, <2>6, AppendExact
    <3>3. Grows(e, size)
      BY <2>4, <2>5, <3>1, <3>2 DEF Grows
    <3> QED
      BY <1>c, <1>w, <2>2, <2>4, <2>5, <3>1, <3>2, <3>3 DEF Clean
  <2>7. CASE ~(size > 0)
    <3>1. UNCHANGED <<ir, reported>>
      BY <2>3, <2>7
    <3>2. size = 0
      BY <2>2, <2>7 DEF Word
    <3>3. pcs' = pcs
      BY <2>4, <3>2 DEF TypeOK1, Word
    <3> QED
      BY <1>c, <2>4, <2>5, <3>1, <3>3 DEF Clean, Quiet
  <2> QED
    BY <2>6, <2>7
<1>5. CASE Datum
  <2>1. UNCHANGED <<stage, wrapped>> /\ Quiet
    BY <1>5 DEF Datum, Quiet
  <2>2. UNCHANGED reported \/ reported' = TRUE
    BY <1>5, Zenon DEF Datum, yyerror
  <2>3. ~reported
    BY <1>c, <2>2
  <2> QED
    BY <1>c, <2>1, <2>3 DEF Clean
<1>6. CASE pass1_emit_instruction
  <2> DEFINE x == Head(todo).x
             e == ir_append_instr(x, cur_section, pass_current_pc, InstrSize(x))
  <2>1. x \in Operands
    BY <1>6, InstructionType DEF pass1_emit_instruction, TypeOK1, Item
  <2>2. InstrSize(x) \in Word
    BY SmallWords DEF InstrSize
  <2>3. /\ e \in Entry /\ e.size = InstrSize(x)
        /\ e.sect = cur_section /\ e.addr = pcs[cur_section]
    BY <2>1, <2>2, CurrentPc, InstrEntryType DEF ir_append_instr, pass_current_pc
  <2>4. ~wrapped /\ pcs' = [pcs EXCEPT ![cur_section] = @ + InstrSize(x)]
    BY <1>6, <1>c, <2>2, AdvanceExact DEF pass1_emit_instruction
  <2>5. ~reported /\ ir' = Append(ir, e)
    BY <1>6, <1>c, AppendExact DEF pass1_emit_instruction
  <2>6. UNCHANGED <<stage, symtab, label_def>>
    BY <1>6 DEF pass1_emit_instruction
  <2>7. Grows(e, InstrSize(x))
    BY <2>3, <2>4, <2>5, <2>6 DEF Grows
  <2> QED
    BY <1>c, <1>w, <2>2, <2>3, <2>4, <2>5, <2>6, <2>7 DEF Clean
<1>7. CASE pass1_emit_data
  <2> DEFINE d == Head(todo)
             e == ir_append_data(cur_section, pass_current_pc, d.value, d.size)
  <2>1. d.size \in DataSizes /\ d.value \in Int
    BY <1>7 DEF pass1_emit_data, TypeOK1, Item
  <2>2. d.size \in Word
    BY <2>1, SmallWords DEF DataSizes
  <2>3. e \in Entry
    BY <2>1, <2>2, CurrentPc, DataEntryType
  <2>4. e.size = d.size /\ e.sect = cur_section /\ e.addr = pcs[cur_section]
    BY DEF ir_append_data, BlankEntry, pass_current_pc
  <2>5. ~wrapped /\ pcs' = [pcs EXCEPT ![cur_section] = @ + d.size]
    BY <1>7, <1>c, <2>2, AdvanceExact DEF pass1_emit_data
  <2>6. ~reported /\ ir' = Append(ir, e)
    BY <1>7, <1>c, AppendExact DEF pass1_emit_data
  <2>7. UNCHANGED <<stage, symtab, label_def>>
    BY <1>7 DEF pass1_emit_data
  <2>8. Grows(e, d.size)
    BY <2>4, <2>5, <2>6, <2>7 DEF Grows
  <2> QED
    BY <1>c, <1>w, <2>2, <2>3, <2>5, <2>6, <2>7, <2>8 DEF Clean
<1>8. CASE SyntaxError
  BY <1>8, <1>c DEF SyntaxError
<1>9. CASE EndOfFile
  BY <1>9, <1>c DEF EndOfFile
<1> QED
  BY <1>1, <1>2, <1>3, <1>4, <1>5, <1>6, <1>7, <1>8, <1>9 DEF Next1

-----------------------------------------------------------------------------
(***************************************************************************)
(* The inductive invariant: no gaps, labels in place, and no label defined *)
(* behind the end of the IR, without which an entry appended later might   *)
(* not be the one a label waits for.                                       *)
(***************************************************************************)
DefinedWithin == \A l \in DOMAIN symtab : label_def[l].next <= Len(ir) + 1

LayoutInv == Clean => Gapless /\ InPlace /\ DefinedWithin

\* The IR after an append.
LEMMA GrownIR ==
  ASSUME TypeOK1, NEW e \in Entry, ir' = Append(ir, e)
  PROVE  /\ Len(ir) \in Nat /\ DOMAIN ir = 1 .. Len(ir)
         /\ Len(ir') = Len(ir) + 1 /\ DOMAIN ir' = 1 .. Len(ir) + 1
         /\ \A n \in 1 .. Len(ir) : ir'[n] = ir[n]
         /\ ir'[Len(ir) + 1] = e
BY DEF TypeOK1, GlobalsTypeOK

\* The entry appended starts where its section ended and moves that end to its own.
LEMMA GaplessGrows ==
  ASSUME TypeOK1, Gapless, NEW e \in Entry, NEW bytes \in Nat, Grows(e, bytes)
  PROVE  Gapless'
<1> DEFINE last == Len(ir) + 1
<1>1. /\ Len(ir) \in Nat /\ DOMAIN ir = 1 .. Len(ir)
      /\ Len(ir') = last /\ DOMAIN ir' = 1 .. last
      /\ \A n \in 1 .. Len(ir) : ir'[n] = ir[n]
      /\ ir'[last] = e
  BY GrownIR DEF Grows
<1>2. /\ e.sect = cur_section /\ e.addr = pcs[cur_section]
      /\ e.kind # "IR_ALIGN" => e.size = bytes
      /\ pcs'[cur_section] = pcs[cur_section] + bytes
      /\ \A s \in Sections : s # cur_section => pcs'[s] = pcs[s]
  BY DEF Grows, TypeOK1
<1> SUFFICES ASSUME NEW k \in 1 .. last, ir'[k].kind # "IR_ALIGN"
             PROVE  /\ \A n \in 1 .. last : Adjacent(k, n)' =>
                         ir'[n].addr = ir'[k].addr + ir'[k].size
                    /\ \A s \in Sections : IsLastOf(k, s)' =>
                         pcs'[s] = ir'[k].addr + ir'[k].size
  BY <1>1 DEF Gapless
<1>3. CASE k = last
  <2>1. \A n \in 1 .. last : ~Adjacent(k, n)'
    BY <1>1, <1>3 DEF Adjacent
  <2>2. ASSUME NEW s \in Sections, IsLastOf(k, s)'
        PROVE  pcs'[s] = ir'[k].addr + ir'[k].size
    <3>1. s = cur_section
      BY <1>1, <1>2, <1>3, <2>2 DEF IsLastOf
    <3>2. ir'[k].addr = pcs[cur_section] /\ ir'[k].size = bytes
      BY <1>1, <1>2, <1>3
    <3> QED
      BY <1>2, <3>1, <3>2
  <2> QED
    BY <2>1, <2>2
<1>4. CASE k \in 1 .. Len(ir)
  <2>1. ir'[k] = ir[k] /\ ir[k].kind # "IR_ALIGN"
    BY <1>1, <1>4
  <2>2. ASSUME NEW n \in 1 .. last, Adjacent(k, n)'
        PROVE  ir'[n].addr = ir'[k].addr + ir'[k].size
    <3>1. CASE n \in 1 .. Len(ir)
      <4>1. Adjacent(k, n)
        BY <1>1, <1>4, <2>2, <3>1 DEF Adjacent
      <4> QED
        BY <1>1, <1>4, <2>1, <3>1, <4>1 DEF Gapless
    <3>2. CASE n = last
      <4>1. IsLastOf(k, cur_section)
        BY <1>1, <1>2, <1>4, <2>2, <3>2 DEF Adjacent, IsLastOf
      <4>2. cur_section \in Sections
        BY DEF TypeOK1
      <4>3. pcs[cur_section] = ir[k].addr + ir[k].size
        BY <1>1, <1>4, <2>1, <4>1, <4>2 DEF Gapless
      <4> QED
        BY <1>1, <1>2, <2>1, <3>2, <4>3
    <3> QED
      BY <1>1, <3>1, <3>2
  <2>3. ASSUME NEW s \in Sections, IsLastOf(k, s)'
        PROVE  pcs'[s] = ir'[k].addr + ir'[k].size
    <3>1. s # cur_section
      BY <1>1, <1>2, <1>4, <2>3 DEF IsLastOf
    <3>2. IsLastOf(k, s)
      BY <1>1, <1>4, <2>3 DEF IsLastOf
    <3>3. pcs[s] = ir[k].addr + ir[k].size
      BY <1>1, <1>4, <2>1, <3>2 DEF Gapless
    <3> QED
      BY <1>2, <2>1, <3>1, <3>3
  <2> QED
    BY <2>2, <2>3
<1> QED
  BY <1>1, <1>3, <1>4

\* The entry appended is the one the pending labels of its section wait for.
LEMMA InPlaceGrows ==
  ASSUME TypeOK1, InPlace, DefinedWithin, NEW e \in Entry, NEW bytes \in Nat, Grows(e, bytes)
  PROVE  InPlace' /\ DefinedWithin'
<1> DEFINE last == Len(ir) + 1
<1>1. /\ Len(ir) \in Nat
      /\ Len(ir') = last
      /\ \A n \in 1 .. Len(ir) : ir'[n] = ir[n]
      /\ ir'[last] = e
  BY GrownIR DEF Grows
<1>2. /\ e.sect = cur_section /\ e.addr = pcs[cur_section]
      /\ \A s \in Sections : s # cur_section => pcs'[s] = pcs[s]
      /\ symtab' = symtab /\ label_def' = label_def
  BY DEF Grows, TypeOK1
<1>3. \A l \in DOMAIN symtab : /\ label_def[l].sect \in Sections
                               /\ label_def[l].next \in Nat \ {0}
                               /\ label_def[l].next <= last
  BY DEF TypeOK1, DefinedWithin
<1>4. ASSUME NEW l \in DOMAIN symtab
      PROVE  /\ EntriesFrom(label_def[l])' = {} => symtab[l] = S32(pcs'[label_def[l].sect])
             /\ \A n \in EntriesFrom(label_def[l])' :
                  (\A m \in EntriesFrom(label_def[l])' : n <= m) => symtab[l] = S32(ir'[n].addr)
  <2> DEFINE d == label_def[l]
             before == EntriesFrom(d)
             after == {n \in d.next .. last : ir'[n].sect = d.sect}
  <2>1. EntriesFrom(d)' = after
    BY <1>1, <1>2 DEF EntriesFrom
  <2>2. before \subseteq 1 .. Len(ir) /\ before \subseteq after
    BY <1>1, <1>3 DEF EntriesFrom
  <2>3. after \subseteq before \cup {last}
    BY <1>1, <1>3 DEF EntriesFrom
  <2>4. last \in after <=> d.sect = cur_section
    BY <1>1, <1>2, <1>3
  <2>5. CASE before = {}
    <3>1. symtab[l] = S32(pcs[d.sect])
      BY <2>5 DEF InPlace
    <3>2. after = {} => pcs'[d.sect] = pcs[d.sect]
      BY <1>2, <1>3, <2>4
    <3>3. \A n \in after : n = last /\ ir'[n].addr = pcs[d.sect]
      BY <1>1, <1>2, <2>3, <2>4, <2>5
    <3> QED
      BY <2>1, <3>1, <3>2, <3>3
  <2>6. CASE before # {}
    <3>1. PICK m \in before : TRUE
      BY <2>6
    <3>2. after # {}
      BY <2>2, <3>1
    <3>3. ASSUME NEW n \in after, \A j \in after : n <= j
          PROVE  symtab[l] = S32(ir'[n].addr)
      <4>1. n <= m /\ m \in 1 .. Len(ir)
        BY <2>2, <3>1, <3>3
      <4>2. n \in before
        BY <1>1, <2>3, <4>1
      <4>3. \A j \in before : n <= j
        BY <2>2, <3>3
      <4>4. symtab[l] = S32(ir[n].addr)
        BY <4>2, <4>3 DEF InPlace
      <4> QED
        BY <1>1, <2>2, <4>2, <4>4
    <3> QED
      BY <2>1, <3>2, <3>3
  <2> QED
    BY <2>5, <2>6
<1>5. InPlace'
  BY <1>2, <1>4 DEF InPlace
<1>6. DefinedWithin'
  BY <1>1, <1>2, <1>3 DEF DefinedWithin
<1> QED
  BY <1>5, <1>6

\* A new label waits for the next entry of its section, at the section's counter.
LEMMA InPlaceDefines ==
  ASSUME TypeOK1, InPlace, DefinedWithin, NEW l \in Labels, Defines(l)
  PROVE  InPlace' /\ DefinedWithin'
<1>1. ir' = ir /\ pcs' = pcs /\ Len(ir) \in Nat
  BY DEF Defines, TypeOK1, GlobalsTypeOK
<1>2. /\ DOMAIN symtab' = DOMAIN symtab \cup {l}
      /\ symtab'[l] = S32(pcs[cur_section])
      /\ label_def'[l] = [sect |-> cur_section, next |-> Len(ir) + 1]
      /\ \A x \in DOMAIN symtab : symtab'[x] = symtab[x] /\ label_def'[x] = label_def[x]
  BY DEF Defines, LabelAddress, pass_current_pc, TypeOK1
<1>3. EntriesFrom(label_def[l])' = {}
  BY <1>1, <1>2 DEF EntriesFrom
<1>4. \A x \in DOMAIN symtab : EntriesFrom(label_def[x])' = EntriesFrom(label_def[x])
  BY <1>1, <1>2 DEF EntriesFrom
<1>5. InPlace'
  BY <1>1, <1>2, <1>3, <1>4 DEF InPlace
<1>6. DefinedWithin'
  BY <1>1, <1>2 DEF DefinedWithin
<1> QED
  BY <1>5, <1>6

\* Every step of the parser keeps the layout invariant.
LEMMA LayoutStep == TypeOK1 /\ LayoutInv /\ [Next1]_vars1 => LayoutInv'
<1> SUFFICES ASSUME TypeOK1, LayoutInv, [Next1]_vars1, Clean'
             PROVE  Gapless' /\ InPlace' /\ DefinedWithin'
  BY DEF LayoutInv
<1>1. CASE Next1
  <2>1. /\ Clean
        /\ \/ Quiet
           \/ \E l \in Labels : Defines(l)
           \/ \E e \in Entry, bytes \in Nat : Grows(e, bytes)
    BY <1>1, CleanStep
  <2>2. Gapless /\ InPlace /\ DefinedWithin
    BY <2>1 DEF LayoutInv
  <2>3. CASE Quiet
    BY <2>2, <2>3 DEF Quiet, Gapless, Adjacent, IsLastOf, InPlace, EntriesFrom, DefinedWithin
  <2>4. ASSUME NEW l \in Labels, Defines(l)
        PROVE  Gapless' /\ InPlace' /\ DefinedWithin'
    <3>1. Gapless'
      BY <2>2, <2>4 DEF Defines, Gapless, Adjacent, IsLastOf
    <3> QED
      BY <2>2, <2>4, <3>1, InPlaceDefines
  <2>5. ASSUME NEW e \in Entry, NEW bytes \in Nat, Grows(e, bytes)
        PROVE  Gapless' /\ InPlace' /\ DefinedWithin'
    BY <2>2, <2>5, GaplessGrows, InPlaceGrows
  <2> QED
    BY <2>1, <2>3, <2>4, <2>5
<1>2. CASE UNCHANGED vars1
  BY <1>2 DEF LayoutInv, Clean, vars1, globals, pass1_vars, Gapless, Adjacent, IsLastOf,
              InPlace, EntriesFrom, DefinedWithin
<1> QED
  BY <1>1, <1>2

\* It holds before the first statement.
LEMMA LayoutInit == Init1 => LayoutInv
BY DEF Init1, Empty, LayoutInv, Gapless, InPlace, DefinedWithin

\* So pass 1 lays every section out without gaps, its labels in place.
LEMMA LayoutInvariant == Spec1 => []LayoutInv
BY TypeCorrect1, LayoutInit, LayoutStep, PTL DEF Spec1

\* Until a message is printed or a counter wraps, each section of the IR is laid out
\* without gaps, however often the source switches between them (pass.c, pass1.c).
THEOREM GaplessLayout == Spec1 => []NoGaps
<1>1. LayoutInv => NoGaps
  BY DEF LayoutInv, NoGaps
<1> QED
  BY <1>1, LayoutInvariant, PTL

\* Until then, a label's address is that of the next entry of its section.
THEOREM LabelPlacement == Spec1 => []LabelsMarkEntries
<1>1. LayoutInv => LabelsMarkEntries
  BY DEF LayoutInv, LabelsMarkEntries
<1> QED
  BY <1>1, LayoutInvariant, PTL
=============================================================================
