------------------------------ MODULE Globals ------------------------------
(***************************************************************************)
(* The state both passes share: the statics of pass.c, the symbol table    *)
(* pass1.c owns and pass 2 reads, the IR buffer of ir.c, the error flag of  *)
(* pass2.c, and the point main() has reached.                              *)
(***************************************************************************)
EXTENDS Encode

VARIABLES
  stage,      \* where main() is, down to the loop of pass 2 it executes
  cfg,        \* the options: xlen, extM, extC, autoC, out_fmt
  symtab,     \* label -> int, as insert_sym stored it
  ir,         \* the IR buffer
  had_error   \* pass2.c's flag, which the parser raises too

globals == <<stage, cfg, symtab, ir, had_error>>

OutFormats == {"OUT_RAW", "OUT_ELF"}
Options == [xlen : {32, 64}, extM : BOOLEAN, extC : BOOLEAN, autoC : BOOLEAN,
            out_fmt : OutFormats]

Stages == {"parse", "parsed", "data_layout", "plan", "text_layout", "validate",
           "emit", "finalize", "finish", "container", "close", "exit"}

\* An int: what the table stores and search_sym returns.
Int32 == -HalfMod .. (HalfMod - 1)

GlobalsTypeOK ==
  /\ stage \in Stages
  /\ cfg \in Options
  /\ DOMAIN symtab \subseteq Labels
  /\ symtab \in [DOMAIN symtab -> Int32]
  /\ ir \in Seq(Entry)
  /\ had_error \in BOOLEAN

\* -mcompress is dropped, with a warning, when the C extension is off.
Configured(o) == [o EXCEPT !.autoC = o.autoC /\ o.extC]

\* Both loops of pass 2 that compress test these two flags.
Compressing == cfg.extC /\ cfg.autoC

\* search_sym: -1 for a name the table does not hold.
search_sym(l) == IF l \in DOMAIN symtab THEN symtab[l] ELSE -1
=============================================================================
