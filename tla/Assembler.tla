----------------------------- MODULE Assembler -----------------------------
(***************************************************************************)
(* The whole program (src/main.c): pass 1 over the source, then pass 2     *)
(* into the output file, then the container that Elf writes, and the exit  *)
(* status that sums them up.                                               *)
(***************************************************************************)
EXTENDS Pass1, Elf

CONSTANT Running           \* no exit status yet

ASSUME RunningAssumption == Running \notin {0, 1}

VARIABLES
  out_file,     \* the output file: "untouched", "open" or "closed"
  final_ok,     \* pass2_finalize's result
  exit_code,    \* Running until main() returns
  appended      \* history: entries in the IR when pass 1 ended

main_vars == <<out_file, final_ok, exit_code, appended>>
vars == <<globals, pass1_vars, pass2_vars, elf_vars, main_vars>>

Init ==
  /\ Init1 /\ Pass2Idle /\ ElfIdle
  /\ out_file = "untouched" /\ final_ok = FALSE
  /\ exit_code = Running /\ appended = 0

-----------------------------------------------------------------------------
Outcomes == IF OutputMayFail THEN BOOLEAN ELSE {TRUE}

PassOne == Next1 /\ UNCHANGED <<pass2_vars, elf_vars, main_vars>>

\* The lexer calls exit(1) when it cannot store a string literal.
StringLost ==
  /\ MemoryMayFail
  /\ \E s \in Lines : s.t \in {"ascii", "asciiz"} /\ Reads(s)
  /\ stage' = "exit" /\ exit_code' = 1
  /\ UNCHANGED <<cfg, symtab, ir, had_error, todo, cur_section, text_entered, pcs, parse_rc,
                 reported, wrapped, label_def, pass2_vars, elf_vars, out_file, final_ok,
                 appended>>

ParsedOk_Ignored == TRUE                  \* mutant of ParsedOk

ParsedOk == parse_rc = 0

\* A failed parse, or an output that cannot be opened, ends the program at once.
GiveUp ==
  /\ stage = "parsed"
  /\ ~ParsedOk \/ OutputMayFail
  /\ stage' = "exit" /\ exit_code' = 1
  /\ UNCHANGED <<cfg, symtab, ir, had_error, pass1_vars, pass2_vars, elf_vars,
                 out_file, final_ok, appended>>

\* fopen truncates the file; out_begin, pass2_initialize.
OpenOutput ==
  /\ stage = "parsed" /\ ParsedOk
  /\ out_file' = "open"
  /\ appended' = Len(ir)
  /\ pass2_initialize
  /\ UNCHANGED <<pass1_vars, elf_vars, final_ok, exit_code>>

PassTwo == Next2 /\ UNCHANGED <<pass1_vars, elf_vars, main_vars>>

\* The symbol table and the IR are freed whatever pass 2 achieved.
pass2_finalize ==
  /\ stage = "finalize"
  /\ final_ok' = ~had_error
  /\ symtab' = Empty /\ ir' = <<>>
  /\ stage' = "finish"
  /\ UNCHANGED <<cfg, had_error, pass1_vars, pass2_vars, elf_vars, out_file, exit_code,
                 appended>>

\* main passes entry 0.  The container is written even when pass 2 failed.
out_finish == NextElf /\ UNCHANGED <<pass1_vars, main_vars>>

\* Mutant of Succeeds: only the error flag counts.
Succeeds_FlagOnly(closed_ok) == closed_ok /\ final_ok /\ finish_ok

Succeeds(closed_ok) == run_ok /\ closed_ok /\ final_ok /\ finish_ok

\* fclose flushes what fwrite buffered, so a raw file may fail as late as here.
CloseOutput ==
  /\ stage = "close"
  /\ out_file' = "closed"
  /\ \E closed_ok \in Outcomes :
       exit_code' = IF Succeeds(closed_ok) THEN 0 ELSE 1
  /\ stage' = "exit"
  /\ UNCHANGED <<cfg, symtab, ir, had_error, pass1_vars, pass2_vars, elf_vars, final_ok,
                 appended>>

Next ==
  \/ PassOne \/ StringLost \/ GiveUp \/ OpenOutput \/ PassTwo
  \/ pass2_finalize \/ out_finish \/ CloseOutput

Spec == Init /\ [][Next]_vars

\* One thread runs from main() to its return and nothing in it blocks.
FairSpec == Spec /\ WF_vars(Next)

-----------------------------------------------------------------------------
(***************************************************************************)
(* Properties.                                                             *)
(***************************************************************************)

Manual == INSTANCE ISA

Chunk == [idx : Nat \ {0}, sect : Sections, pos : Nat, size : {1, 2, 4, 8},
          bits : SUBSET (0 .. 63), imm : Int]

\* Every variable keeps its type through both passes.
TypeOK ==
  /\ TypeOK1
  /\ i \in Nat \ {0} /\ pc \in Word /\ iter \in 0 .. MaxIters
  /\ changed \in BOOLEAN /\ planned \in Nat
  /\ out_section \in Sections /\ seen_text \in BOOLEAN
  /\ out_len \in [Sections -> Nat] /\ has_rvc \in BOOLEAN
  /\ chunks \in Seq(Chunk) /\ run_ok \in BOOLEAN
  /\ out_file \in {"untouched", "open", "closed"}
  /\ lost \in 0 .. 4 /\ finish_ok \in BOOLEAN
  /\ \A k \in DOMAIN file : file[k] \in
       [what : PartNames, off : Nat, len : Nat, body : {file[k].body}]
  /\ final_ok \in BOOLEAN
  /\ exit_code \in {Running, 0, 1} /\ appended \in Nat

\* The re-layout loop ended because nothing changed, or was never needed.
Converged == Compressing => ~changed
Emitted == stage \in {"emit", "finalize"}

LayoutStages == {"data_layout", "plan", "text_layout", "validate"}

PartsOf(what) == {k \in DOMAIN file : file[k].what = what}

\* The ELF headers in the file, none or one, and the segments it describes.
FileHeaders == {file[k].body : k \in PartsOf("ehdr")}
Segments == UNION {{file[k].body[n] : n \in DOMAIN file[k].body} : k \in PartsOf("phdrs")}

\* Layout and emission agree: once the layout has converged, each entry is written
\* at the offset of its section that its address says, so nothing written later
\* can shift under an address computed earlier.
LayoutMatchesEmission ==
  Emitted /\ Converged =>
    \A k \in DOMAIN chunks : U32(chunks[k].pos) = ir[chunks[k].idx].addr

\* A branch or jump to a label, compressed by choice, compressed by the author or
\* full-size, is written with the distance from where it lies in the output to the
\* address the symbol table gives its label; and nothing is written for a label that
\* is not in the table or whose address an int cannot hold.
BranchesReachLabels ==
  Emitted /\ Converged =>
    \A k \in DOMAIN chunks :
      LET e == ir[chunks[k].idx]
      IN /\ e.label # NoLabel => e.label \in DOMAIN symtab /\ symtab[e.label] >= 0
         /\ e.kind = "IR_INSTR" /\ e.reloc \in {"RELOC_BOFF", "RELOC_JTGT"} =>
              chunks[k].imm = S32(symtab[e.label] - chunks[k].pos)

Candidates == {k \in DOMAIN ir : ir[k].has_c_choice}

\* Each extra round of the re-layout loop has dropped a candidate for good: rounds
\* and surviving candidates together never exceed the number first planned, which
\* is why the loop would end without its bound of eight.
RelayoutProgress ==
  stage \in {"text_layout", "validate"} /\ Compressing =>
    Cardinality(Candidates) + iter - 1
      + (IF stage = "validate" /\ changed THEN 1 ELSE 0) <= planned

\* The compressed form chosen for an instruction means that instruction: whichever
\* of the nineteen overlapping rules applied first, expanding its candidate gives
\* back the operands the source had (a labelled branch gets its distance later).
ChoiceMeansSame ==
  stage = "text_layout" /\ Compressing =>
    \A k \in Candidates :
      LET e == ir[k]
      IN Manual!Expand(e.choice) = [op |-> e.op, rd |-> e.rd, rs1 |-> e.rs1, rs2 |-> e.rs2,
                             imm |-> IF e.label = NoLabel THEN e.imm ELSE e.choice.imm]

\* The forms whose packer or table row departs from the manual (see Claims).
Misencoded == AluCA \cup PcRelOps \cup {"OP_C_LDSP", "OP_C_SWSP", "OP_C_SDSP"}

\* The instruction entry e asks for, imm being its immediate or resolved label.
Meaning(e, imm) ==
  IF is_c_fmt(e.fmt) THEN Manual!Expand([e EXCEPT !.imm = imm])
  ELSE Manual!Wide(e.op, e.rd, e.rs1, e.rs2, imm)

\* The machine executes what the source says: the word written for an instruction,
\* decoded as the manual decodes it, gives back the operation and every operand,
\* whether the word is full-size, compressed by the author or chosen by a rule.
WordsMeanSource(excepted) ==
  stage = "finalize" =>
    \A k \in DOMAIN chunks :
      LET e == ir[chunks[k].idx]
      IN e.kind = "IR_INSTR" /\ c_materialize(e).op \notin excepted =>
           Manual!Decode(chunks[k].bits, cfg.xlen) = Meaning(e, chunks[k].imm)
EncodingIsFaithful == WordsMeanSource(Misencoded)

\* Compression never makes a program fail: when the compressed form an entry was
\* given is refused, its 32-bit form would have been refused too.
CompressionIsSafe ==
  stage = "emit" /\ i \in DOMAIN ir /\ ir[i].has_c_choice
    /\ ~Emittable(c_materialize(ir[i]), ir[i].addr)
  => ~Emittable(c_materialize(ir_clear_c_choice(ir[i])), ir[i].addr)

\* Exit status 0 means the output is whole: every entry of the IR that has bytes
\* was written, once and in source order, data before text, the headers account
\* for all of it, and no I/O call failed.
ExitZeroIsComplete ==
  exit_code = 0 =>
    /\ run_ok /\ final_ok /\ out_file = "closed" /\ parse_rc = 0
    /\ i = appended + 1
    /\ \A j, k \in DOMAIN chunks : j < k =>
         /\ chunks[j].idx < chunks[k].idx
         /\ chunks[k].sect = "SEC_DATA" => chunks[j].sect = "SEC_DATA"
         /\ chunks[j].sect = chunks[k].sect => chunks[j].pos + chunks[j].size <= chunks[k].pos
    /\ cfg.out_fmt = "OUT_ELF" =>
         /\ FileHeaders # {}
         /\ \A s \in Sections : out_len[s] > 0 =>
              \E k \in DOMAIN file : file[k].what = s /\ file[k].len = out_len[s]

\* The RVC flag of an ELF that was completed tells whether .text holds a
\* compressed instruction, chosen or explicit.
RvcFlagIsExact ==
  exit_code = 0 => \A eh \in FileHeaders :
    (eh.rvc <=> \E k \in DOMAIN chunks : chunks[k].sect = "SEC_TEXT" /\ chunks[k].size = 2)

\* Without auto-compression and without directives that reserve space, the address
\* the symbol table gives a label of .text is where the labelled instruction is
\* written: pass 1 and pass 2 compute one layout.
LabelsMatchOutput ==
  stage = "emit" /\ ~Compressing /\ ~reported /\ ~wrapped
    /\ (\A k \in DOMAIN ir : ir[k].kind # "IR_ALIGN") =>
    \A l \in DOMAIN symtab : \A n \in DOMAIN ir :
      /\ n >= label_def[l].next /\ ir[n].sect = label_def[l].sect
      /\ \A m \in label_def[l].next .. n - 1 : ir[m].sect # label_def[l].sect
      => symtab[l] = S32(ir[n].addr)

InFile(what, off, len) ==
  \E k \in DOMAIN file : file[k].what = what /\ file[k].off = off /\ file[k].len = len

\* The name a section header gives its section, read from the string table.
NameOf(sh) ==
  LET table == (CHOOSE p \in {file[k] : k \in PartsOf(".shstrtab")} : TRUE).body
  IN IF sh.name \in DOMAIN table THEN table[sh.name] ELSE ""

\* A file that has the ELF header can be read back from it, even when out_finish
\* failed later: everything the header refers to, directly or through another
\* header, is in the file where it says, under its own name unless that name was
\* lost, and no two parts overlap.
ReadsBack ==
  \A eh \in FileHeaders :
    /\ \A j, k \in DOMAIN file : j < k =>
         file[j].off + file[j].len <= file[k].off \/ file[k].off + file[k].len <= file[j].off
    /\ InFile("ehdr", 0, ehdr_sz)
    /\ eh.phnum > 0 => InFile("phdrs", eh.phoff, eh.phnum * phdr_sz)
    /\ \A n \in 0 .. eh.shnum - 1 : InFile("shdr", eh.shoff + n * shdr_sz, shdr_sz)
    /\ \A seg \in Segments :
         InFile(IF seg.exec THEN "SEC_TEXT" ELSE "SEC_DATA", seg.offset, seg.filesz)
    /\ \A k \in PartsOf("shdr") :
         LET sh == file[k].body
             n == (file[k].off - eh.shoff) \div shdr_sz
         IN n > 0 =>
              \E what \in Sections \cup {".shstrtab"} :
                /\ InFile(what, sh.offset, sh.size)
                /\ n = eh.shstrndx <=> what = ".shstrtab"
                /\ lost = 0 => NameOf(sh) = what

\* The file offsets a loader maps to address a, which maps whole pages and cannot
\* when the offset of a segment and its address differ within the page.
OffsetsAt(a) ==
  {seg.offset + (a - seg.vaddr) : seg \in
     {g \in Segments : g.vaddr <= a /\ a < g.vaddr + g.filesz
                         /\ g.vaddr % PageSize = g.offset % PageSize}}

\* What is loaded is what was assembled: as long as .text fits below .data, each
\* byte written for an entry is found at its section's base plus its offset there,
\* in one place of the file that holds nothing else.
MemoryIsImage ==
  finish_ok /\ text_size <= DataBase - TextBase =>
    \A eh \in FileHeaders : \A k \in DOMAIN chunks :
      LET c == chunks[k]
      IN \A b \in c.pos .. c.pos + c.size - 1 :
           \E off \in OffsetsAt(Base(c.sect) + b) :
             /\ OffsetsAt(Base(c.sect) + b) = {off}
             /\ {n \in DOMAIN file : file[n].off <= off /\ off < file[n].off + file[n].len}
                  = {n \in PartsOf(c.sect) : off - file[n].off = b}
             /\ PartsOf(c.sect) # {}

\* Delivery!Spec: seen from outside, the program reads, opens the output, delivers
\* one entry at a time and closes; it touches no file for a source it refused, does
\* not exit with the file open, and claims success for a sealed, whole output only.
Output == INSTANCE Delivery WITH
  source <- (IF stage = "parse" THEN "unread" ELSE IF parse_rc = 0 THEN "good" ELSE "bad"),
  output <- out_file,
  total <- appended,
  delivered <- (IF out_file = "untouched" \/ stage \in LayoutStages THEN 0 ELSE i - 1),
  sealed <- finish_ok,
  status <- exit_code
ImplementsDelivery == Output!Spec

\* The program always ends: the parser consumes its input, every loop of pass 2 is
\* bounded, and each early return still leads to an exit.
Terminates == <>(stage = "exit" /\ exit_code # Running)
=============================================================================
