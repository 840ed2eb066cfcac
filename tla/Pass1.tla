------------------------------- MODULE Pass1 -------------------------------
(***************************************************************************)
(* Pass 1: the parser's actions (src/assembler.y) and the routines of      *)
(* src/pass1.c and src/pass.c they call.  One action per statement: it     *)
(* appends to the IR, advances the program counter of the current section  *)
(* or defines a label, until the file ends or a syntax error stops it.     *)
(***************************************************************************)
EXTENDS Globals, Grammar, FiniteSets

CONSTANTS
  Source,         \* Source[n] is the set of statements line n may hold
  UndefinedAlign, \* what 1u << pow2 may give when pow2 is above 31
  MemoryMayFail,  \* whether malloc, calloc and realloc may return NULL
  ResizeAt,       \* the fewest labels at which the symbol table grows: 27 of 53 slots
  UserOptions     \* the command lines considered

ASSUME SourceAssumption == Source \in Seq(SUBSET Statement)
ASSUME AlignAssumption == UndefinedAlign \subseteq 1 .. HalfMod
ASSUME MemoryAssumption == MemoryMayFail \in BOOLEAN
ASSUME ResizeAssumption == ResizeAt \in Nat
ASSUME OptionsAssumption == UserOptions \subseteq Options

VARIABLES
  line,           \* the statement the parser reads next
  todo,           \* what the current statement still has to emit
  cur_section, text_entered,
  pcs,            \* pc_text and pc_data
  parse_rc,       \* what yyparse returns
  reported,       \* history: a message "Error ..." or "Parse error ..." was printed
  wrapped,        \* history: a program counter has passed 2^32
  label_def       \* history: where the first definition of a label stands

pass1_vars == <<line, todo, cur_section, text_entered, pcs, parse_rc, reported, wrapped,
                label_def>>
vars1 == <<globals, pass1_vars>>

Empty == [l \in {} |-> 0]

Init1 ==
  /\ stage = "parse"
  /\ \E o \in UserOptions : cfg = Configured(o)
  /\ symtab = Empty /\ ir = <<>> /\ had_error = FALSE
  /\ line = 1 /\ todo = <<>>
  /\ cur_section = "SEC_TEXT" /\ text_entered = FALSE
  /\ pcs = [s \in Sections |-> 0]
  /\ parse_rc = 0
  /\ reported = FALSE /\ wrapped = FALSE
  /\ label_def = Empty

-----------------------------------------------------------------------------
(***************************************************************************)
(* The routines of pass.c and ir.c.                                        *)
(***************************************************************************)
pass_current_pc == pcs[cur_section]

pass_advance_pc(bytes) ==
  /\ pcs' = [pcs EXCEPT ![cur_section] = Add32(@, bytes)]
  /\ wrapped' = (wrapped \/ pass_current_pc + bytes >= Mod32)

\* Mutant of AppendToIR: the loss goes unreported.
AppendToIR_Silent(e) ==
  /\ ir' = Append(ir, e) \/ (MemoryMayFail /\ ir' = ir)
  /\ UNCHANGED reported

\* When ensure_capacity or strdup fails a message is printed and the entry is
\* lost; the caller is not told and advances the program counter all the same.
AppendToIR(e) ==
  \/ ir' = Append(ir, e) /\ UNCHANGED reported
  \/ MemoryMayFail /\ reported' = TRUE /\ UNCHANGED ir

yyerror == had_error' = TRUE /\ reported' = TRUE

-----------------------------------------------------------------------------
(***************************************************************************)
(* The parser.  A statement whose action emits puts its items in todo, and *)
(* the next statement is read when all of them are emitted.                *)
(***************************************************************************)
Data(size, value) == [k |-> "data", size |-> size, value |-> value]
Instr(x) == [k |-> "instr", x |-> x]

Item == [k : {"data"}, size : DataSizes, value : Int] \cup [k : {"instr"}, x : Instruction]

Lines == IF line \in DOMAIN Source THEN Source[line] ELSE {}

Reads(s) ==
  /\ stage = "parse" /\ todo = <<>>
  /\ s \in Lines
  /\ line' = line + 1

\* Mutants of Insertable and LabelAddress.
Insertable_Always(kept, l) == TRUE
LabelAddress_TextOnly == S32(pcs["SEC_TEXT"])

Insertable(kept, l) == l \notin kept
LabelAddress == S32(pass_current_pc)

\* A table that grows inserts every entry anew; one for which there is no memory
\* is lost.
Crowded == Cardinality(DOMAIN symtab) >= ResizeAt
Survivors == IF MemoryMayFail /\ Crowded THEN SUBSET DOMAIN symtab ELSE {DOMAIN symtab}

\* insert_sym: the first definition stands, a second one is only reported.
Label ==
  \E l \in Labels, kept \in Survivors :
    /\ Reads(label(l))
    /\ \/ /\ Insertable(kept, l)
          /\ symtab' = [x \in kept \cup {l} |-> IF x = l THEN LabelAddress ELSE symtab[x]]
          /\ label_def' = [x \in DOMAIN label_def \cup {l} |->
                             IF x = l THEN [sect |-> cur_section, next |-> Len(ir) + 1]
                             ELSE label_def[x]]
          /\ reported' = (reported \/ kept # DOMAIN symtab)
       \/ /\ ~Insertable(kept, l) \/ MemoryMayFail
          /\ symtab' = [x \in kept |-> symtab[x]]
          /\ reported' = TRUE
          /\ UNCHANGED label_def
    /\ UNCHANGED <<stage, cfg, ir, had_error, todo, cur_section, text_entered, pcs,
                   parse_rc, wrapped>>

SetSection(s, sect) ==
  /\ Reads(s)
  /\ cur_section' = sect
  /\ text_entered' = (text_entered \/ sect = "SEC_TEXT")
  /\ UNCHANGED <<globals, todo, pcs, parse_rc, reported, wrapped, label_def>>

DotText == SetSection(dot_text, "SEC_TEXT")
DotData == SetSection(dot_data, "SEC_DATA")

\* The entry's size is pass_align_current_pc's result, the aligned address, and
\* the entry is appended when that address is not 0.
Align ==
  \E s \in Lines :
    /\ s.t = "align" /\ Reads(s)
    /\ \E a \in IF s.bytes = 0 THEN UndefinedAlign ELSE {s.bytes} :
         LET pad == Pad(pass_current_pc, a)
             aligned == Add32(pass_current_pc, pad)
         IN /\ pass_advance_pc(pad)
            /\ IF aligned > 0
               THEN AppendToIR(ir_append_align(cur_section, pass_current_pc, aligned))
               ELSE UNCHANGED <<ir, reported>>
    /\ UNCHANGED <<stage, cfg, symtab, had_error, todo, cur_section, text_entered,
                   parse_rc, label_def>>

\* pass1_emit_space, behind the sign test of the grammar action; its uint64_t
\* size narrows to the uint32_t of ir_append_align and pass_advance_pc.
Space ==
  \E s \in Lines :
    /\ s.t = "space" /\ Reads(s)
    /\ \/ /\ s.bytes < 0
          /\ yyerror
          /\ UNCHANGED <<ir, pcs, wrapped>>
       \/ /\ s.bytes >= 0
          /\ pass_advance_pc(U32(s.bytes))
          /\ IF U32(s.bytes) > 0
             THEN AppendToIR(ir_append_align(cur_section, pass_current_pc, U32(s.bytes)))
             ELSE UNCHANGED <<ir, reported>>
          /\ UNCHANGED had_error
    /\ UNCHANGED <<stage, cfg, symtab, todo, cur_section, text_entered, parse_rc,
                   label_def>>

\* .byte, .half, .word, .dword
Datum ==
  \E s \in Lines :
    /\ s.t = "datum" /\ Reads(s)
    /\ \/ /\ InRange(s.size, s.value)
          /\ todo' = <<Data(s.size, s.value)>>
          /\ UNCHANGED <<had_error, reported>>
       \/ /\ ~InRange(s.size, s.value)
          /\ yyerror
          /\ UNCHANGED todo
    /\ UNCHANGED <<stage, cfg, symtab, ir, cur_section, text_entered, pcs, parse_rc,
                   wrapped, label_def>>

\* The items of a statement that emits without a test: one per character of a
\* string, the terminating zero of .asciiz, an instruction, the pair of la.
ItemsOf(s) ==
  CASE s.t = "ascii" -> [n \in 1 .. s.chars |-> Data(1, 97)]
    [] s.t = "asciiz" -> [n \in 1 .. s.chars + 1 |-> Data(1, IF n > s.chars THEN 0 ELSE 97)]
    [] s.t = "la" -> <<Instr(la_hi(s.rd, s.name)), Instr(la_lo(s.rd, s.name))>>
    [] OTHER -> <<Instr(s.x)>>

Emitting ==
  \E s \in Lines :
    /\ s.t \in {"ascii", "asciiz", "la", "instr"} /\ Reads(s)
    /\ todo' = ItemsOf(s)
    /\ UNCHANGED <<globals, cur_section, text_entered, pcs, parse_rc, reported, wrapped,
                   label_def>>

-----------------------------------------------------------------------------
InstrSize_Wide(x) == 4                          \* mutant of InstrSize

InstrSize(x) == IF x.fmt \in CFormats THEN 2 ELSE 4

pass1_emit_instruction ==
  /\ todo # <<>> /\ Head(todo).k = "instr"
  /\ LET x == Head(todo).x
     IN /\ AppendToIR(ir_append_instr(x, cur_section, pass_current_pc, InstrSize(x)))
        /\ pass_advance_pc(InstrSize(x))
  /\ todo' = Tail(todo)
  /\ UNCHANGED <<stage, cfg, symtab, had_error, line, cur_section, text_entered, parse_rc,
                 label_def>>

pass1_emit_data ==
  /\ todo # <<>> /\ Head(todo).k = "data"
  /\ LET d == Head(todo)
     IN /\ AppendToIR(ir_append_data(cur_section, pass_current_pc, d.value, d.size))
        /\ pass_advance_pc(d.size)
  /\ todo' = Tail(todo)
  /\ UNCHANGED <<stage, cfg, symtab, had_error, line, cur_section, text_entered, parse_rc,
                 label_def>>

\* No production matches and the grammar has no error token: yyparse gives up.
SyntaxError ==
  /\ Reads(syntax)
  /\ yyerror
  /\ parse_rc' = 1
  /\ stage' = "parsed"
  /\ UNCHANGED <<cfg, symtab, ir, todo, cur_section, text_entered, pcs, wrapped, label_def>>

EndOfFile ==
  /\ stage = "parse" /\ todo = <<>>
  /\ line \in DOMAIN Source => eof \in Source[line]
  /\ stage' = "parsed"
  /\ UNCHANGED <<cfg, symtab, ir, had_error, pass1_vars>>

Next1 ==
  \/ Label \/ DotText \/ DotData \/ Align \/ Space \/ Datum \/ Emitting
  \/ pass1_emit_instruction \/ pass1_emit_data
  \/ SyntaxError \/ EndOfFile

Spec1 == Init1 /\ [][Next1]_vars1

-----------------------------------------------------------------------------
(***************************************************************************)
(* Properties of pass 1.                                                   *)
(***************************************************************************)

\* Every variable of pass 1 keeps its type: addresses and sizes stay within
\* uint32_t whatever the source asks for, and the symbol table stays a map of
\* declared names to ints.
TypeOK1 ==
  /\ GlobalsTypeOK
  /\ line \in Nat \ {0}
  /\ todo \in Seq(Item)
  /\ cur_section \in Sections /\ text_entered \in BOOLEAN
  /\ pcs \in [Sections -> Word]
  /\ parse_rc \in {0, 1}
  /\ reported \in BOOLEAN /\ wrapped \in BOOLEAN
  /\ DOMAIN symtab \subseteq DOMAIN label_def
  /\ label_def \in [DOMAIN label_def -> [sect : Sections, next : Nat \ {0}]]

\* The address of a label never changes once it is in the table, and no label
\* leaves it, whatever was parsed since: insert_sym refuses a second definition.
\* Only memory that runs out while the table grows may take a label away.
FirstDefinitionWins ==
  [][~(MemoryMayFail /\ Crowded) =>
       \A l \in DOMAIN symtab : l \in DOMAIN symtab' /\ symtab'[l] = symtab[l]]_vars1

\* Entry n is the last one of section sect.
IsLastOf(n, sect) ==
  /\ ir[n].sect = sect
  /\ \A m \in n + 1 .. Len(ir) : ir[m].sect # sect

\* Entries k and n follow each other in their section.
Adjacent(k, n) ==
  /\ k < n /\ ir[k].sect = ir[n].sect
  /\ \A m \in k + 1 .. n - 1 : ir[m].sect # ir[n].sect

\* Parsing goes on, no message has been printed and no counter has wrapped.
Clean == stage = "parse" /\ ~reported /\ ~wrapped

Gapless ==
  \A k \in DOMAIN ir : ir[k].kind # "IR_ALIGN" =>
    /\ \A n \in DOMAIN ir : Adjacent(k, n) => ir[n].addr = ir[k].addr + ir[k].size
    /\ \A s \in Sections : IsLastOf(k, s) => pcs[s] = ir[k].addr + ir[k].size

\* However the two sections are interleaved, an instruction or datum of one is
\* followed in that section by an entry, or by the section's program counter, at
\* the address where it ends: switching sections loses no byte of either.  An
\* address gap needs a reported error or a wrapped counter.
NoGaps == Clean => Gapless

\* The entries of a section from a position on.
EntriesFrom(d) == {n \in d.next .. Len(ir) : ir[n].sect = d.sect}

InPlace ==
  \A l \in DOMAIN symtab :
    LET after == EntriesFrom(label_def[l])
    IN /\ after = {} => symtab[l] = S32(pcs[label_def[l].sect])
       /\ \A n \in after : (\A m \in after : n <= m) => symtab[l] = S32(ir[n].addr)

\* A label denotes the address of the entry that follows it in its own section,
\* or the section's program counter when none does yet, even when the other
\* section grew in between.
LabelsMarkEntries == Clean => InPlace
=============================================================================
