------------------------------- MODULE Claims -------------------------------
(***************************************************************************)
(* What a comment, a test, a message or the README says of the program and *)
(* the code does not do.  Each of these properties is violated by a run of *)
(* MCClaims; the README of this directory discusses them one by one.       *)
(***************************************************************************)
EXTENDS Assembler

\* The chunk that holds entry n, when it has one.
ChunksOf(n) == {k \in DOMAIN chunks : chunks[k].idx = n}

\* The entries a label stands for: the first of its section after its definition.
Marked(l) ==
  LET after == EntriesFrom(label_def[l])
  IN {n \in after : \A m \in after : n <= m}

\* test1.s:16 "8 zero bytes", pass2.c:1290 "Emits pad_bytes zero bytes (for
\* .align/.space)": a program pass 2 completes without compression fills each
\* section to the length pass 1 counted, reserved bytes included.
OutputIsAsLaidOut ==
  stage = "finalize" /\ run_ok /\ ~Compressing => \A s \in Sections : out_len[s] = pcs[s]

\* test11.s:83 "if compressed (2) => 2+252 = 254 (edge)": the distance written in a
\* branch counts compressed instructions as two bytes, so the branch lands on the
\* entry its label marks.
BranchesLandOnLabels ==
  stage = "finalize" /\ run_ok =>
    \A k \in DOMAIN chunks :
      LET e == ir[chunks[k].idx]
      IN e.reloc \in {"RELOC_BOFF", "RELOC_JTGT"} =>
           \A n \in Marked(e.label) : \A j \in ChunksOf(n) :
             chunks[k].pos + chunks[k].imm = chunks[j].pos

\* pass2.c:343 "Recompute addresses and validate chosen compressed forms to a fixed
\* point": emission starts from a layout its last validation left alone.
LayoutSettles == stage = "emit" => Converged

\* pass2.c:131 "Changes had_error to 1 if an error was detected elsewhere (not in
\* pass2.c)": a program one of whose statements was refused does not exit with 0.
ErrorsReachExitCode == exit_code = 0 => ~reported

\* test13.s:32 "LA (address of data)", README.md:170 "resolves labels/relocations
\* (... AUIPC/LUI+ADDI pairs)": the two halves of la, added to the address at which
\* the auipc is loaded, give the address at which the label's entry is loaded.
PairsReachLabels ==
  stage = "finalize" /\ run_ok =>
    \A k \in DOMAIN chunks :
      LET hi == ir[chunks[k].idx]
          here == Base("SEC_TEXT") + chunks[k].pos
          there == Base(label_def[hi.label].sect) + symtab[hi.label]
      IN hi.reloc = "RELOC_HI20" => here + chunks[k].imm + chunks[k + 1].imm = there

\* README.md:3 "parses a subset of RV32I/RV64I with optional M (mul/div) and C
\* (compressed) extensions", test10.s:1 "All C extended instructions": every word is
\* an encoding of the instruction the source has.
EncodingsDecode == WordsMeanSource({})
=============================================================================
