--------------------------------- MODULE Elf ---------------------------------
(***************************************************************************)
(* The ELF container (out_finish of src/out.c): where each part of the     *)
(* file goes, what the headers say of the other parts, and the writes that *)
(* put them there one after another, each of which may fail.               *)
(***************************************************************************)
EXTENDS Pass2

CONSTANTS
  PageSize,              \* 0x1000 in the program
  TextBase, DataBase,    \* 0x00100000 and 0x00200000
  OutputMayFail          \* whether opening, finishing or closing the output may fail

ASSUME BaseAssumption ==
  /\ PageSize \in Nat \ {0}
  /\ TextBase \in Nat /\ DataBase \in Nat
  /\ TextBase < DataBase
  /\ TextBase % PageSize = 0 /\ DataBase % PageSize = 0
ASSUME OutputAssumption == OutputMayFail \in BOOLEAN

VARIABLES
  lost,         \* how many appends to .shstrtab found no memory
  file,         \* the parts in the file, in the order they were written
  finish_ok     \* out_finish's result

elf_vars == <<lost, file, finish_ok>>

ElfIdle == lost = 0 /\ file = <<>> /\ finish_ok = FALSE

-----------------------------------------------------------------------------
(***************************************************************************)
(* Sizes and offsets.                                                      *)
(***************************************************************************)
is64 == cfg.xlen = 64
ehdr_sz == IF is64 THEN 64 ELSE 52
phdr_sz == IF is64 THEN 56 ELSE 32
shdr_sz == IF is64 THEN 64 ELSE 40

align_up_Down(x, a) == (x \div a) * a             \* mutant of align_up

\* align_up_u64, or align_up_u32 of the narrowed offset.
align_up(x, a) ==
  IF is64 THEN ((x + a - 1) \div a) * a ELSE U32(((U32(x) + a - 1) \div a) * a)

text_size == out_len["SEC_TEXT"]
data_size == out_len["SEC_DATA"]

\* The sections that have bytes, in the order of their headers.
Present == (IF text_size > 0 THEN <<"SEC_TEXT">> ELSE <<>>)
             \o (IF data_size > 0 THEN <<"SEC_DATA">> ELSE <<>>)
phnum == Len(Present)
shnum == 2 + phnum

AfterHeaders == ehdr_sz + phdr_sz * phnum
text_off == align_up(AfterHeaders, PageSize)
AfterText == IF text_size > 0 THEN text_off + text_size ELSE AfterHeaders
data_off == align_up(AfterText, PageSize)

shstr_off == IF data_size > 0 THEN data_off + data_size ELSE AfterText

\* The section header string table: the names in the order they are appended.  The
\* vector allocates once, for all of them; a name appended before an allocation
\* succeeds is lost and nobody looks.
Names == <<"">> \o Present \o <<".shstrtab">>

\* The length of the first n names with their terminators: 1 for the empty one, 6 for
\* .text or .data, 10 for .shstrtab.
NameBytes(n) == IF n = 0 THEN 0 ELSE 6 * n - 5 + (IF n = Len(Names) THEN 4 ELSE 0)

\* The length of the vector once n appends were made: the value nm_* takes.
StrLen(n) == IF n <= lost THEN 0 ELSE NameBytes(n) - NameBytes(lost)

Stored == [at \in {StrLen(n - 1) : n \in lost + 1 .. Len(Names)} |->
             Names[CHOOSE n \in lost + 1 .. Len(Names) : StrLen(n - 1) = at]]
sh_name(nm) == StrLen((CHOOSE n \in DOMAIN Names : Names[n] = nm) - 1)

shoff == align_up(shstr_off + StrLen(Len(Names)), IF is64 THEN 8 ELSE 4)

-----------------------------------------------------------------------------
(***************************************************************************)
(* The parts, in the order they are written: the header comes last.        *)
(***************************************************************************)
PartNames == Sections \cup {".shstrtab", "phdrs", "shdr", "ehdr"}
Part(what, off, len, body) == [what |-> what, off |-> off, len |-> len, body |-> body]

Base(s) == IF s = "SEC_TEXT" THEN TextBase ELSE DataBase
Offset(s) == IF s = "SEC_TEXT" THEN text_off ELSE data_off

Segment(s) == [offset |-> Offset(s), vaddr |-> Base(s), filesz |-> out_len[s],
               exec |-> s = "SEC_TEXT"]
SectionHeader(nm, addr, off, len) == [name |-> nm, addr |-> addr, offset |-> off, size |-> len]

Contents ==
  [n \in 1 .. phnum |-> Part(Present[n], Offset(Present[n]), out_len[Present[n]], <<>>)]
    \o <<Part(".shstrtab", shstr_off, StrLen(Len(Names)), Stored)>>

ProgramHeaders ==
  IF phnum = 0 THEN <<>>
  ELSE <<Part("phdrs", ehdr_sz, phnum * phdr_sz, [n \in 1 .. phnum |-> Segment(Present[n])])>>

SectionHeaders ==
  [n \in 1 .. shnum |->
     Part("shdr", shoff + (n - 1) * shdr_sz, shdr_sz,
          IF n = 1 THEN SectionHeader(0, 0, 0, 0)
          ELSE IF n = shnum
          THEN SectionHeader(sh_name(".shstrtab"), 0, shstr_off, StrLen(Len(Names)))
          ELSE LET s == Present[n - 1]
               IN SectionHeader(sh_name(s), Base(s), Offset(s), out_len[s]))]

\* main passes entry 0, so the entry is the base of the first section there is.
Header ==
  Part("ehdr", 0, ehdr_sz,
       [class |-> cfg.xlen,
        entry |-> IF text_size > 0 THEN TextBase ELSE DataBase,
        phoff |-> IF phnum > 0 THEN ehdr_sz ELSE 0, phnum |-> phnum,
        shoff |-> shoff, shnum |-> shnum, shstrndx |-> shnum - 1, rvc |-> has_rvc])

\* Mutant of Parts: the header first.
Parts_HeaderFirst == <<Header>> \o Contents \o ProgramHeaders \o SectionHeaders

Parts == Contents \o ProgramHeaders \o SectionHeaders \o <<Header>>

-----------------------------------------------------------------------------
Finished(ok) == stage' = "close" /\ finish_ok' = ok

\* A raw file needs no container.
FinishRaw ==
  /\ stage = "finish" /\ cfg.out_fmt = "OUT_RAW"
  /\ Finished(TRUE)
  /\ UNCHANGED <<cfg, symtab, ir, had_error, pass2_vars, lost, file>>

\* Everything is computed before the first write, also when pass 2 failed.
PlanFile ==
  /\ stage = "finish" /\ cfg.out_fmt = "OUT_ELF"
  /\ lost' \in IF WritesMayFail THEN 0 .. Len(Names) ELSE {0}
  /\ stage' = "container"
  /\ UNCHANGED <<cfg, symtab, ir, had_error, pass2_vars, file, finish_ok>>

AddPart == file' = Append(file, Parts[Len(file) + 1])

\* write_at, successful.
WritePart ==
  /\ stage = "container"
  /\ AddPart
  /\ IF Len(file') = Len(Parts) THEN Finished(TRUE) ELSE UNCHANGED <<stage, finish_ok>>
  /\ UNCHANGED <<cfg, symtab, ir, had_error, pass2_vars, lost>>

\* write_at fails before the part is in the file, or behind it when it seeks back.
PartFails ==
  /\ stage = "container" /\ OutputMayFail
  /\ AddPart \/ UNCHANGED file
  /\ Finished(FALSE)
  /\ UNCHANGED <<cfg, symtab, ir, had_error, pass2_vars, lost>>

NextElf == FinishRaw \/ PlanFile \/ WritePart \/ PartFails
=============================================================================
